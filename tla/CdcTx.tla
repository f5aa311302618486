--------------------------------- MODULE CdcTx ---------------------------------
(***************************************************************************)
(* Transmission on the CDC data interface (ASF udi_cdc.c, with the IN       *)
(* endpoint of usb_device.c below it): udi_cdc_putc fills one of two        *)
(* buffers, the USB interrupt sends the other, at most one short transfer   *)
(* in each frame.                                                          *)
(*                                                                         *)
(* Interrupts are actions, since nothing but the main program is            *)
(* interrupted; udi_cdc_putc is split between its critical sections.        *)
(***************************************************************************)
EXTENDS Naturals, Sequences

CONSTANTS
  EpSize,      \* bytes in a full packet
  TxBuffers,   \* UDI_CDC_TX_BUFFERS
  Frames,      \* frame numbers are 0 .. Frames - 1
  ZlpPeriod,   \* 100: start-of-frame events before an empty transfer
  MaxBytes,    \* bound on the bytes the program sends
  MaxSetups    \* bound on the configurations the host selects

(* A buffer holds whole packets. *)
ASSUME TxAssumption ==
  /\ EpSize \in Nat \ {0}
  /\ TxBuffers \in Nat \ {0}
  /\ TxBuffers % EpSize = 0
  /\ Frames \in Nat \ {0}
  /\ ZlpPeriod \in Nat \ {0}
  /\ MaxBytes \in Nat
  /\ MaxSetups \in Nat

VARIABLES
  data_running, tx_buf, tx_buf_nb, tx_buf_sel, tx_sof_num, tx_trans_ongoing,
  tx_both_buf_to_send, sof_zlp_counter,
  frame,                         \* udd_get_frame_number()
  configured,                    \* udc_num_configuration # 0
  enabled, loaded, tc, bytecnt, sent,   \* the endpoint and its transfer
  busy, source, nb_trans, shortpacket,  \* its job
  pc, databit_9,                 \* udi_cdc_putc
  put, got, out,          \* history: the byte channel
  setups

class    == <<tx_buf_nb, tx_buf_sel, tx_sof_num, tx_trans_ongoing,
              tx_both_buf_to_send, sof_zlp_counter>>
hardware == <<loaded, bytecnt, sent>>
job      == <<busy, source, nb_trans, shortpacket>>
putc     == <<pc, databit_9>>
history  == <<put, got, out>>
vars     == <<data_running, tx_buf, class, frame, configured, enabled, tc,
              hardware, job, putc, history, setups>>

Buffers == {0, 1}
Other(b) == 1 - b

Init ==
  /\ data_running = FALSE
  /\ tx_buf = [b \in Buffers |-> [i \in 0 .. TxBuffers - 1 |-> 0]]
  /\ tx_buf_nb = [b \in Buffers |-> 0]
  /\ tx_buf_sel = 0
  /\ tx_sof_num = 0
  /\ tx_trans_ongoing = FALSE
  /\ tx_both_buf_to_send = FALSE
  /\ sof_zlp_counter = 0
  /\ frame = 0
  /\ configured = FALSE /\ enabled = FALSE /\ tc = FALSE
  /\ loaded = FALSE /\ bytecnt = 0 /\ sent = 0
  /\ busy = FALSE /\ source = 0 /\ nb_trans = 0 /\ shortpacket = FALSE
  /\ pc = "idle" /\ databit_9 = FALSE
  /\ put = 0 /\ got = 0 /\ out = <<>>
  /\ setups = 0

-----------------------------------------------------------------------------
(* udi_cdc_tx_send, always within an interrupt *)

(* The endpoint is left without a job. *)
NoJob ==
  /\ busy' = FALSE /\ loaded' = FALSE
  /\ UNCHANGED <<source, nb_trans, shortpacket, bytecnt, sent>>

(* udd_ep_run: the hardware gets the n bytes of buffer b.  If asked for, and *)
(* if n is a multiple of the packet, an empty packet is to follow; a         *)
(* transfer without bytes is that packet.                                  *)
Run(b, n, short) ==
  /\ busy' = TRUE
  /\ source' = b
  /\ nb_trans' = 0
  /\ shortpacket' = (short /\ n > 0 /\ n % EpSize = 0)
  /\ loaded' = TRUE
  /\ bytecnt' = n
  /\ sent' = 0

(* Mutant: the selected buffer is sent although the other is first in line. *)
SendBufferSelected(sel) ==
  LET short == tx_buf_nb'[sel] # TxBuffers
  IN  /\ tx_buf_sel' = Other(sel)
      /\ tx_trans_ongoing' = TRUE
      /\ sof_zlp_counter' = 0
      /\ tx_sof_num' = IF short THEN frame' ELSE 0
      /\ IF enabled' THEN Run(sel, tx_buf_nb'[sel], short) ELSE NoJob

(* The selected buffer is sent and the other one selected, unless that one   *)
(* is full and first in line.  Full transfers need not wait for a frame.     *)
SendBuffer(sel) ==
  LET b     == IF tx_both_buf_to_send' THEN Other(sel) ELSE sel
      short == tx_buf_nb'[b] # TxBuffers
  IN  /\ tx_buf_sel' = Other(b)
      /\ tx_trans_ongoing' = TRUE
      /\ sof_zlp_counter' = 0
      /\ tx_sof_num' = IF short THEN frame' ELSE 0
      /\ IF enabled' THEN Run(b, tx_buf_nb'[b], short) ELSE NoJob

(* Mutant: nothing is sent without bytes. *)
TxSendNoZlp(sel, last) ==
  LET early == last = frame'
      empty == tx_buf_nb'[sel] = 0
  IN  \/ /\ early \/ empty
         /\ tx_buf_sel' = sel
         /\ tx_sof_num' = last
         /\ tx_trans_ongoing' = FALSE
         /\ UNCHANGED sof_zlp_counter
         /\ NoJob
      \/ ~early /\ ~empty /\ SendBuffer(sel)

(* It finds the buffers as its caller leaves them, with sel selected and the *)
(* last short transfer in frame last.  Nothing is sent twice in a frame, nor *)
(* without bytes before ZlpPeriod calls.                                   *)
TxSend(sel, last) ==
  LET early == last = frame'
      empty == tx_buf_nb'[sel] = 0 /\ sof_zlp_counter + 1 < ZlpPeriod
  IN  \/ /\ early \/ empty
         /\ sof_zlp_counter' = IF early THEN sof_zlp_counter
                                        ELSE sof_zlp_counter + 1
         /\ tx_buf_sel' = sel
         /\ tx_sof_num' = last
         /\ tx_trans_ongoing' = FALSE
         /\ NoJob
      \/ ~early /\ ~empty /\ SendBuffer(sel)

-----------------------------------------------------------------------------
(* The USB interrupts *)

(* udi_cdc_data_sof_notify, called for a configured device. *)
StartOfFrame ==
  /\ frame' = (frame + 1) % Frames
  /\ UNCHANGED <<data_running, tx_buf, tx_buf_nb, tx_both_buf_to_send,
                 configured, enabled, tc, putc, history, setups>>
  /\ IF configured /\ ~tx_trans_ongoing
       THEN TxSend(tx_buf_sel, tx_sof_num)
       ELSE UNCHANGED <<tx_buf_sel, tx_sof_num, tx_trans_ongoing,
                        sof_zlp_counter, hardware, job>>

(* udd_ep_trans_complet for an aborted job: nothing is left to do. *)
StaleTransfer ==
  /\ tc /\ ~busy
  /\ tc' = FALSE
  /\ UNCHANGED <<data_running, tx_buf, class, frame, configured, enabled,
                 hardware, job, putc, history, setups>>

(* The bytes are sent, an empty packet is to follow. *)
SendZlp ==
  /\ tc /\ busy /\ shortpacket
  /\ tc' = FALSE
  /\ shortpacket' = FALSE
  /\ nb_trans' = nb_trans + sent
  /\ loaded' = TRUE /\ bytecnt' = 0 /\ sent' = 0
  /\ UNCHANGED <<data_running, tx_buf, class, frame, configured, enabled,
                 busy, source, putc, history, setups>>

(* Mutant: the buffer that is now being filled is emptied. *)
FreedCurrent == [tx_buf_nb EXCEPT ![tx_buf_sel] = 0]

(* udi_cdc_data_sent: the buffer is free again. *)
Freed == [tx_buf_nb EXCEPT ![Other(tx_buf_sel)] = 0]

DataSent ==
  /\ tc /\ busy /\ ~shortpacket
  /\ tc' = FALSE
  /\ tx_buf_nb' = Freed
  /\ tx_both_buf_to_send' = FALSE
  /\ UNCHANGED <<data_running, tx_buf, frame, configured, enabled, putc,
                 history, setups>>
  /\ TxSend(tx_buf_sel, tx_sof_num)

(* udc_reset on a bus reset or for configuration 0, or SET_INTERFACE with a *)
(* setting that does not exist: the endpoint is freed, the job aborted.     *)
Disable ==
  /\ configured
  /\ configured' \in BOOLEAN
  /\ enabled' = FALSE
  /\ loaded' = FALSE
  /\ busy' = FALSE
  /\ data_running' = FALSE
  /\ UNCHANGED <<tx_buf, class, frame, tc, bytecnt, sent, source, nb_trans,
                 shortpacket, putc, history, setups>>

(* SET_CONFIGURATION, or SET_INTERFACE on a configured device: reset, then  *)
(* udi_cdc_data_enable, which may fail on its way to data_running = TRUE    *)
(* (see CdcRx).                                                            *)
Enable ==
  /\ setups < MaxSetups
  /\ setups' = setups + 1
  /\ configured' = TRUE
  /\ enabled' = TRUE
  /\ tc' = FALSE
  /\ data_running' \in BOOLEAN
  /\ tx_buf_nb' = [b \in Buffers |-> 0]
  /\ tx_both_buf_to_send' = FALSE
  /\ got' = put
  /\ UNCHANGED <<tx_buf, frame, putc, put, out>>
  /\ TxSend(0, 0)

-----------------------------------------------------------------------------
(* The host *)

(* It takes a packet: a full one, or what is left. *)
HostPacket ==
  /\ loaded
  /\ LET n    == IF bytecnt - sent < EpSize THEN bytecnt - sent ELSE EpSize
         from == nb_trans + sent
     IN  /\ out' = [i \in 1 .. n |-> tx_buf[source][from + i - 1]]
         /\ got' = got + n
         /\ sent' = sent + n
         /\ loaded' = (sent' # bytecnt)
         /\ tc' = (sent' = bytecnt)
  /\ UNCHANGED <<data_running, tx_buf, class, frame, configured, enabled,
                 bytecnt, job, putc, put, setups>>

-----------------------------------------------------------------------------
(* udi_cdc_putc *)

others == <<data_running, frame, configured, enabled, tc, hardware, job,
            tx_sof_num, tx_trans_ongoing, sof_zlp_counter, setups>>

(* It is called, with 8 or 9 bits in a character. *)
CallPutc ==
  /\ pc = "idle" /\ put < MaxBytes
  /\ pc' = "check"
  /\ databit_9' \in BOOLEAN
  /\ UNCHANGED <<others, tx_buf, tx_buf_nb, tx_buf_sel, tx_both_buf_to_send,
                 history>>

(* Neither is the other buffer being sent, nor is it waiting. *)
OtherIsFree == ~tx_trans_ongoing /\ ~tx_both_buf_to_send

(* Mutant: one byte too many. *)
FullLate == tx_buf_nb[tx_buf_sel] > TxBuffers

Full == tx_buf_nb[tx_buf_sel] = TxBuffers

(* udi_cdc_get_free_tx_buffer: there is room in the selected buffer ... *)
HasRoom ==
  /\ pc = "check" /\ ~Full
  /\ pc' = "write"
  /\ UNCHANGED <<others, databit_9, tx_buf, tx_buf_nb, tx_buf_sel,
                 tx_both_buf_to_send, history>>

(* ... or it is full and the other one is selected ... *)
TakeOther ==
  /\ pc = "check" /\ Full /\ OtherIsFree
  /\ pc' = "write"
  /\ tx_both_buf_to_send' = TRUE
  /\ tx_buf_sel' = Other(tx_buf_sel)
  /\ UNCHANGED <<others, databit_9, tx_buf, tx_buf_nb, history>>

(* ... or there is none.                                                   *)
NoRoom ==
  /\ pc = "check" /\ Full /\ ~OtherIsFree
  /\ pc' = "test"
  /\ UNCHANGED <<others, databit_9, tx_buf, tx_buf_nb, tx_buf_sel,
                 tx_both_buf_to_send, history>>

(* Mutant: it never gives up. *)
TestRunningNever ==
  /\ pc = "test"
  /\ pc' = "check"
  /\ UNCHANGED <<others, databit_9, tx_buf, tx_buf_nb, tx_buf_sel,
                 tx_both_buf_to_send, history>>

(* Try again, or give up if the interface is not running. *)
TestRunning ==
  /\ pc = "test"
  /\ pc' = IF data_running THEN "check" ELSE "idle"
  /\ UNCHANGED <<others, databit_9, tx_buf, tx_buf_nb, tx_buf_sel,
                 tx_both_buf_to_send, history>>

(* The critical section that writes a byte; a second one holds bit 8. *)
Write ==
  /\ pc = "write"
  /\ put' = put + 1
  /\ tx_buf' = [tx_buf EXCEPT ![tx_buf_sel][tx_buf_nb[tx_buf_sel]] = put']
  /\ tx_buf_nb' = [tx_buf_nb EXCEPT ![tx_buf_sel] = @ + 1]
  /\ pc' = IF databit_9 THEN "check" ELSE "idle"
  /\ databit_9' = FALSE
  /\ UNCHANGED <<others, tx_buf_sel, tx_both_buf_to_send, got, out>>

-----------------------------------------------------------------------------
TransferComplete == StaleTransfer \/ SendZlp \/ DataSent

Putc == HasRoom \/ TakeOther \/ NoRoom \/ TestRunning \/ Write

Next == \/ StartOfFrame \/ TransferComplete \/ Disable \/ Enable
        \/ HostPacket
        \/ CallPutc \/ Putc

(* Interrupts that are due are taken, frames go by, the host polls the      *)
(* endpoint, and a call of udi_cdc_putc goes on; new calls need not come.   *)
Spec == Init /\ [][Next]_vars
             /\ WF_vars(StartOfFrame) /\ WF_vars(TransferComplete)
             /\ WF_vars(HostPacket) /\ WF_vars(Putc)

-----------------------------------------------------------------------------
(* Type invariant; in particular a buffer never has more bytes than places. *)
TypeOK ==
  /\ {data_running, configured, enabled, tc, loaded, busy} \subseteq BOOLEAN
  /\ {tx_trans_ongoing, tx_both_buf_to_send} \subseteq BOOLEAN
  /\ {shortpacket, databit_9} \subseteq BOOLEAN
  /\ tx_buf \in [Buffers -> [0 .. TxBuffers - 1 -> 0 .. put]]
  /\ tx_buf_nb \in [Buffers -> 0 .. TxBuffers]
  /\ {tx_buf_sel, source} \subseteq Buffers
  /\ {tx_sof_num, frame} \subseteq 0 .. Frames - 1
  /\ sof_zlp_counter \in 0 .. ZlpPeriod - 1
  /\ {bytecnt, nb_trans} \subseteq 0 .. TxBuffers
  /\ sent \in 0 .. bytecnt
  /\ pc \in {"idle", "check", "test", "write"}
  /\ put \in Nat /\ got \in 0 .. put
  /\ setups \in Nat

(* The space that udi_cdc_putc has found is still there when it writes,     *)
(* although interrupts have swapped the buffers in between.                *)
RoomStays == pc = "write" => tx_buf_nb[tx_buf_sel] < TxBuffers

(* The host gets the bytes in the order in which they were written, each    *)
(* once, up to the end of the connection, across both buffers.              *)
Channel == INSTANCE ByteChannel WITH
             Most <- EpSize, KeepsOld <- FALSE, open <- data_running,
             start <- 0

InOrder == Channel!Spec

(* What has been written on a running interface gets to the host without    *)
(* another call, down to the last byte, unless the connection ends first.   *)
(* (Writing ends in this model; see MaxBytes.)                             *)
Flushed == data_running /\ put > got ~> put = got \/ ~data_running

(* A full packet is not the end of what the host gets: a shorter one or an  *)
(* empty one follows, which ends the host's transfer.                       *)
TransferEnds ==
  data_running /\ Len(out) = EpSize ~> Len(out) < EpSize \/ ~data_running

(* udi_cdc_putc returns, since room comes up or the interface stops. *)
PutcReturns == pc # "idle" ~> pc = "idle"

=============================================================================
