--------------------------------- MODULE CdcRx ---------------------------------
(***************************************************************************)
(* Reception on the CDC data interface (ASF udi_cdc.c, with the OUT         *)
(* endpoint of usb_device.c below it): the hardware fills one of two        *)
(* buffers while udi_cdc_getc reads the other, and both the main program    *)
(* and the USB interrupt swap them.                                        *)
(*                                                                         *)
(* Interrupts are actions, since nothing but the main program is            *)
(* interrupted; udi_cdc_getc is split wherever one may come, and any number  *)
(* of them may come there.  Bytes are their numbers in the stream of the    *)
(* host.                                                                   *)
(***************************************************************************)
EXTENDS Naturals, Sequences

CONSTANTS
  EpSize,      \* bytes in a full packet
  RxBuffers,   \* UDI_CDC_RX_BUFFERS
  MaxBytes,    \* bound on the bytes the host sends
  MaxSetups    \* bound on the configurations it selects

(* The buffers hold full packets, so that the driver needs neither its      *)
(* cache buffer nor more than one hardware transfer.                        *)
ASSUME RxAssumption ==
  /\ EpSize \in Nat \ {0}
  /\ RxBuffers \in Nat \ {0}
  /\ RxBuffers % EpSize = 0
  /\ MaxBytes \in Nat
  /\ MaxSetups \in Nat

VARIABLES
  data_running, rx_buf, rx_buf_nb, rx_buf_sel, rx_pos, rx_trans_ongoing,
  configured,                \* udc_num_configuration # 0
  enabled, armed, tc,        \* the endpoint: enabled, not NAKing, complete
  busy, target, count,       \* its job: on-going, buffer, bytes received
  pc, pos, buf_sel, trans,   \* udi_cdc_getc, with buf_sel_trans of rx_start
  databit_9,                 \* a second byte of the character is to come
  put, got, start, out,      \* history: the byte channel
  settling,    \* history: the interface was set up anew after the running pass
               \* of udi_cdc_getc noted what it is about to use
  outrun,      \* history: interrupts have outrun a pass
  setups

class   == <<data_running, rx_buf_nb, rx_buf_sel, rx_pos, rx_trans_ongoing>>
ep      == <<enabled, armed, tc, busy, target, count>>
getc    == <<pc, pos, buf_sel, trans, databit_9>>
history == <<put, got, start, out>>
race    == <<settling, outrun>>
vars    == <<class, rx_buf, configured, ep, getc, history, race, setups>>

Buffers == {0, 1}
Other(b) == 1 - b

Init ==
  /\ data_running = FALSE
  /\ rx_buf = [b \in Buffers |-> [i \in 0 .. RxBuffers - 1 |-> 0]]
  /\ rx_buf_nb = [b \in Buffers |-> 0]
  /\ rx_buf_sel = 0
  /\ rx_pos = 0
  /\ rx_trans_ongoing = FALSE
  /\ configured = FALSE
  /\ enabled = FALSE /\ armed = FALSE /\ tc = FALSE
  /\ busy = FALSE /\ target = 0 /\ count = 0
  /\ pc = "idle" /\ pos = 0 /\ buf_sel = 0 /\ trans = 0
  /\ databit_9 = FALSE
  /\ put = 0 /\ got = 0 /\ start = 0 /\ out = <<>>
  /\ settling = FALSE /\ outrun = FALSE
  /\ setups = 0

-----------------------------------------------------------------------------
(* Both contexts *)

(* Mutant: off by one, a buffer read to its end counts as not empty. *)
NoStartLate == rx_trans_ongoing \/ rx_pos <= rx_buf_nb[rx_buf_sel]

(* udi_cdc_rx_start has nothing to do: a transfer is on-going, or the        *)
(* current buffer is not empty.                                            *)
NoStart == rx_trans_ongoing \/ rx_pos < rx_buf_nb[rx_buf_sel]

(* Mutant: the position stays where it was. *)
SwapKeepsPos ==
  /\ rx_buf_sel' = Other(rx_buf_sel)
  /\ rx_trans_ongoing' = TRUE
  /\ UNCHANGED rx_pos

(* The other buffer becomes the current one. *)
Swap ==
  /\ rx_pos' = 0
  /\ rx_buf_sel' = Other(rx_buf_sel)
  /\ rx_trans_ongoing' = TRUE

(* udd_ep_run takes the endpoint for a transfer into buffer b and lets the   *)
(* hardware receive.                                                       *)
Run(b) ==
  /\ busy' = TRUE
  /\ target' = b
  /\ count' = 0
  /\ armed' = TRUE

-----------------------------------------------------------------------------
(* The USB interrupt *)

(* udd_ep_trans_complet for an aborted job: nothing is left to do. *)
StaleTransfer ==
  /\ tc /\ ~busy
  /\ tc' = FALSE
  /\ UNCHANGED <<class, rx_buf, configured, enabled, armed, busy, target,
                 count, getc, history, race, setups>>

(* Mutant: a transfer without data is not started once more. *)
EmptyTransferIgnored ==
  /\ tc /\ busy /\ count = 0
  /\ tc' = FALSE
  /\ busy' = FALSE
  /\ UNCHANGED <<class, rx_buf, configured, enabled, armed, target, count,
                 getc, history, race, setups>>

(* udi_cdc_data_received without data: the transfer is started once more. *)
EmptyTransfer ==
  /\ tc /\ busy /\ count = 0
  /\ tc' = FALSE
  /\ Run(Other(rx_buf_sel))
  /\ UNCHANGED <<class, rx_buf, configured, enabled, getc, history, race,
                 setups>>

(* udi_cdc_data_received while the current buffer still has bytes ... *)
StoreTransfer ==
  /\ tc /\ busy /\ count > 0
  /\ rx_pos < rx_buf_nb[rx_buf_sel]
  /\ tc' = FALSE
  /\ busy' = FALSE
  /\ rx_buf_nb' = [rx_buf_nb EXCEPT ![Other(rx_buf_sel)] = count]
  /\ rx_trans_ongoing' = FALSE
  /\ UNCHANGED <<data_running, rx_buf, rx_buf_sel, rx_pos, configured,
                 enabled, armed, target, count, getc, history, race, setups>>

(* ... and when it has none: the next transfer goes into it. *)
SwapTransfer ==
  /\ tc /\ busy /\ count > 0
  /\ rx_pos >= rx_buf_nb[rx_buf_sel]
  /\ tc' = FALSE
  /\ rx_buf_nb' = [rx_buf_nb EXCEPT ![Other(rx_buf_sel)] = count]
  /\ Swap
  /\ Run(rx_buf_sel)
  /\ UNCHANGED <<data_running, rx_buf, configured, enabled, getc, history,
                 race, setups>>

(* udc_reset on a bus reset or for configuration 0, or SET_INTERFACE with a *)
(* setting that does not exist: the endpoint is freed, the job aborted.  A  *)
(* bus reset does so even when the device is not configured.                *)
Disable ==
  /\ configured' \in {configured, FALSE}
  /\ enabled' = FALSE
  /\ armed' = FALSE
  /\ busy' = FALSE
  /\ data_running' = FALSE
  /\ UNCHANGED <<rx_buf, rx_buf_nb, rx_buf_sel, rx_pos, rx_trans_ongoing, tc,
                 target, count, getc, history, race, setups>>

(* Where a pass goes on with what it has noted of the buffers. *)
MidPass == pc \in {"compare", "read", "advance", "run", "lock"}

(* SET_CONFIGURATION, or SET_INTERFACE on a configured device: reset, then  *)
(* udi_cdc_data_enable.  Only the number of bytes in buffer 0 is cleared.   *)
Reinit ==
  /\ setups < MaxSetups
  /\ setups' = setups + 1
  /\ configured' = TRUE
  /\ enabled' = TRUE
  /\ tc' = FALSE
  /\ rx_buf_sel' = 1
  /\ rx_buf_nb' = [rx_buf_nb EXCEPT ![0] = 0]
  /\ rx_pos' = 0
  /\ rx_trans_ongoing' = TRUE
  /\ got' = put
  /\ start' = put
  /\ settling' = MidPass
  /\ UNCHANGED <<rx_buf, getc, put, out, outrun>>

Enable ==
  /\ configured \/ ~busy
  /\ Reinit
  /\ Run(0)
  /\ data_running' = TRUE

(* A job taken for an endpoint that was freed meanwhile is not aborted      *)
(* before the next bus reset: udd_ep_run refuses the new one, and the        *)
(* request is stalled.                                                     *)
FailEnable ==
  /\ ~configured /\ busy
  /\ Reinit
  /\ armed' = FALSE
  /\ UNCHANGED <<data_running, busy, target, count>>

-----------------------------------------------------------------------------
(* The host *)

(* Mutant: a short packet does not end a transfer. *)
EndsTransferFull(n) == count + n = RxBuffers

(* A packet that is short or fills the buffer ends the transfer. *)
EndsTransfer(n) == n < EpSize \/ count + n = RxBuffers

(* A packet of n bytes.  The first of a new connection may come before the   *)
(* pass is over that its set-up interrupted.                               *)
HostPacket(n) ==
  /\ enabled /\ armed
  /\ put + n <= MaxBytes
  /\ put' = put + n
  /\ rx_buf' = [rx_buf EXCEPT ![target] =
                  [i \in 0 .. RxBuffers - 1 |->
                     IF i \in count .. count + n - 1 THEN put + 1 + i - count
                                                     ELSE @[i]]]
  /\ count' = count + n
  /\ armed' = ~EndsTransfer(n)
  /\ tc' = EndsTransfer(n)
  /\ outrun' = (outrun \/ settling)
  /\ UNCHANGED <<class, configured, enabled, busy, target, getc, got, start,
                 out, settling, setups>>

-----------------------------------------------------------------------------
(* udi_cdc_getc *)

others == <<rx_buf, configured, ep, history, setups>>

(* It is called, with 8 or 9 bits in a character. *)
CallGetc ==
  /\ pc = "idle"
  /\ pc' = "snapshot"
  /\ databit_9' \in BOOLEAN
  /\ UNCHANGED <<class, others, race, pos, buf_sel, trans>>

(* Its critical section. *)
Snapshot ==
  /\ pc = "snapshot"
  /\ pc' = "compare"
  /\ pos' = rx_pos
  /\ buf_sel' = rx_buf_sel
  /\ UNCHANGED <<class, others, race, trans, databit_9>>

Empty == pos >= rx_buf_nb[buf_sel]

(* Two transfers that complete since the critical section make a buffer that  *)
(* was empty the one that is filled, so that it is not empty any more.        *)
Compare ==
  /\ pc = "compare"
  /\ pc' = IF Empty THEN "test" ELSE "read"
  /\ settling' = (settling /\ ~Empty)
  /\ outrun' = (outrun \/ (~Empty /\ buf_sel # rx_buf_sel))
  /\ UNCHANGED <<class, others, pos, buf_sel, trans, databit_9>>

(* No data: try again, or return 0 if the interface is not running. *)
TryAgain ==
  /\ pc = "test" /\ data_running
  /\ pc' = "snapshot"
  /\ UNCHANGED <<class, others, race, pos, buf_sel, trans, databit_9>>

GiveUp ==
  /\ pc = "test" /\ ~data_running
  /\ pc' = "idle"
  /\ out' = <<>>
  /\ UNCHANGED <<class, rx_buf, configured, ep, put, got, start, race, setups,
                 pos, buf_sel, trans, databit_9>>

(* A byte of the present connection counts as taken. *)
Read ==
  /\ pc = "read"
  /\ pc' = "advance"
  /\ LET byte == rx_buf[buf_sel][pos] IN
       /\ out' = <<byte>>
       /\ got' = IF byte > start THEN byte ELSE got
  /\ UNCHANGED <<class, rx_buf, configured, ep, put, start, race, setups, pos,
                 buf_sel, trans, databit_9>>

Advance ==
  /\ pc = "advance"
  /\ pc' = "start"
  /\ rx_pos' = pos + 1
  /\ settling' = FALSE
  /\ UNCHANGED <<data_running, rx_buf_nb, rx_buf_sel, rx_trans_ongoing, others,
                 outrun, pos, buf_sel, trans, databit_9>>

(* The end of a pass: a second one reads the upper bits. *)
EndPass ==
  /\ pc' = IF databit_9 THEN "snapshot" ELSE "idle"
  /\ databit_9' = FALSE
  /\ settling' = FALSE

(* The critical section of udi_cdc_rx_start. *)
SkipStart ==
  /\ pc = "start" /\ NoStart
  /\ EndPass
  /\ UNCHANGED <<class, others, outrun, pos, buf_sel, trans>>

(* Mutant: the buffer to be filled is looked up after the swap. *)
SwapBuffersFirst ==
  /\ pc = "start" /\ ~NoStart
  /\ pc' = "run"
  /\ trans' = Other(rx_buf_sel)
  /\ Swap
  /\ UNCHANGED <<data_running, rx_buf_nb, others, race, pos, buf_sel, databit_9>>

SwapBuffers ==
  /\ pc = "start" /\ ~NoStart
  /\ pc' = "run"
  /\ trans' = rx_buf_sel
  /\ Swap
  /\ UNCHANGED <<data_running, rx_buf_nb, others, race, pos, buf_sel, databit_9>>

(* udd_ep_run: is the endpoint enabled? *)
CheckEnabled ==
  /\ pc = "run"
  /\ IF enabled THEN pc' = "lock" /\ UNCHANGED <<databit_9, settling>>
                ELSE EndPass
  /\ UNCHANGED <<class, others, outrun, pos, buf_sel, trans>>

(* Its critical section, and the set-up of the job.  No interrupt uses the  *)
(* job before the hardware may receive.                                    *)
RunJob ==
  /\ pc = "lock" /\ ~busy
  /\ Run(trans)
  /\ EndPass
  /\ UNCHANGED <<class, rx_buf, configured, enabled, tc, history, outrun,
                 setups, pos, buf_sel, trans>>

JobBusy ==
  /\ pc = "lock" /\ busy
  /\ EndPass
  /\ UNCHANGED <<class, others, outrun, pos, buf_sel, trans>>

-----------------------------------------------------------------------------
TransferComplete ==
  StaleTransfer \/ EmptyTransfer \/ StoreTransfer \/ SwapTransfer

Getc == \/ CallGetc \/ Snapshot \/ Compare \/ TryAgain \/ GiveUp
        \/ Read \/ Advance \/ SkipStart \/ SwapBuffers
        \/ CheckEnabled \/ RunJob \/ JobBusy

Next == \/ TransferComplete \/ Disable \/ Enable \/ FailEnable
        \/ Getc
        \/ \E n \in 0 .. EpSize : HostPacket(n)

(* The program reads for ever (USB_terminal is a loop around udi_cdc_getc), *)
(* and an interrupt that is due is taken.                                  *)
Spec == Init /\ [][Next]_vars /\ WF_vars(Getc) /\ WF_vars(TransferComplete)

-----------------------------------------------------------------------------
(* Type invariant; in particular no byte is read or written behind the end  *)
(* of a buffer.                                                            *)
TypeOK ==
  /\ {data_running, configured, rx_trans_ongoing} \subseteq BOOLEAN
  /\ {enabled, armed, tc, busy, databit_9} \subseteq BOOLEAN
  /\ rx_buf \in [Buffers -> [0 .. RxBuffers - 1 -> 0 .. put]]
  /\ rx_buf_nb \in [Buffers -> 0 .. RxBuffers]
  /\ {rx_buf_sel, target, buf_sel, trans} \subseteq Buffers
  /\ {rx_pos, count, pos} \subseteq 0 .. RxBuffers
  /\ armed => count % EpSize = 0 /\ count < RxBuffers
  /\ pc \in {"idle", "snapshot", "compare", "test", "read", "advance",
             "start", "run", "lock"}
  /\ pc \in {"read", "advance"} => pos < RxBuffers
  /\ put \in Nat /\ got \in 0 .. put /\ start \in 0 .. got
  /\ {settling, outrun} \subseteq BOOLEAN
  /\ setups \in Nat

Channel == INSTANCE ByteChannel WITH
             Most <- EpSize, KeepsOld <- TRUE, open <- data_running

(* "Waits and gets a value on CDC line": whatever interrupts it,             *)
(* udi_cdc_getc returns the bytes of the host in order, each once, and 0     *)
(* only when the interface is not running; bytes of an earlier connection    *)
(* can come only before the first of a new one.  Two transfers that complete *)
(* within one pass break this.                                             *)
InOrder == Channel!Spec

(* It does so until interrupts outrun a pass: two transfers have completed   *)
(* between its critical section and its test, or a packet of a new           *)
(* connection came while it still used what it noted in the one before.      *)
InOrderUnlessOutrun ==
  Channel!Init /\ [][Channel!Next \/ outrun']_(Channel!vars)

(* Nor does the hardware receive into the buffer that is being read. *)
ReceivesAside ==
  armed /\ enabled /\ ~outrun =>
    target = Other(rx_buf_sel) /\ rx_trans_ongoing

(* What has been received in a complete transfer is read, unless the        *)
(* connection ends first or a pass is outrun.                               *)
Delivered ==
  \A i \in 1 .. MaxBytes :
    data_running /\ ~armed /\ put >= i ~> got >= i \/ ~data_running \/ outrun

(* The host is not put off for ever: both buffers full is a state that      *)
(* passes.                                                                 *)
Listens == data_running ~> armed \/ ~data_running

=============================================================================
