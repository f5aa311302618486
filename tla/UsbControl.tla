------------------------------- MODULE UsbControl -------------------------------
(***************************************************************************)
(* Control transfers (ASF usb_device.c) and the requests they carry        *)
(* (udc.c, udi_cdc.c).  The host's packets on endpoint 0 come at any time;  *)
(* the interrupts handle what they left in the endpoint, one event after    *)
(* the other.  Lengths are in units of which CtrlSize fit in a packet.      *)
(***************************************************************************)
EXTENDS Naturals, Sequences

CONSTANTS
  CtrlSize,     \* USB_DEVICE_EP_CTRL_SIZE
  Descriptor,   \* size of the longest descriptor
  Addresses,    \* device addresses the host gives
  Codings,      \* line codings, the default one included
  Default,      \* the line coding of udi_cdc_comm_enable
  MaxRequests   \* bound on the requests of the host

ASSUME ControlAssumption ==
  /\ CtrlSize \in Nat \ {0, 1}
  /\ Descriptor \in Nat \ {0}
  /\ Addresses \subseteq 1 .. 127
  /\ Default \in Codings
  /\ MaxRequests \in Nat

Request(k, l, v) == [kind |-> k, length |-> l, value |-> v]

(* Two requests read, the others set something; the value of set_interface  *)
(* is the alternate setting of the data interface.                         *)
Requests ==
       {Request("descriptor", l, 0) : l \in 1 .. Descriptor + 1}
  \cup {Request("status", l, 0) : l \in {1, 2}}
  \cup {Request("set_address", 0, a) : a \in Addresses}
  \cup {Request(k, 0, v) : k \in {"set_configuration", "set_interface"},
                           v \in {0, 1}}
  \cup {Request("set_line_coding", 1, c) : c \in Codings}

IsIn(r) == r.kind \in {"descriptor", "status"}
NoRequest == Request("none", 0, 0)

VARIABLES
  control_state, req, callback, payload_size,
  payload_nb_trans, prev_payload_nb_trans, b_shortpacket,
  setup, in_tc, out_tc, underflow, overflow,   \* events of the endpoint
  in_nack, out_nack, stall, in_from, in_cnt,   \* how it answers
  address, num_configuration, line_coding,
  hreq, hstage, reply, sent, early, at,        \* the host's transfer
  accepted,   \* history: what udc_process_setup made of hreq
  overtaken,  \* history: a SETUP packet overtook one not handled yet
  requests    \* transfers and resets so far

job    == <<req, callback, payload_size>>
moved  == <<payload_nb_trans, prev_payload_nb_trans, b_shortpacket>>
events == <<setup, in_tc, out_tc, underflow, overflow>>
packet == <<in_from, in_cnt>>
answer == <<in_nack, out_nack, stall, packet>>
device == <<address, num_configuration, line_coding>>
host   == <<hreq, hstage, reply, sent, early, at, requests, overtaken>>
vars   == <<control_state, job, moved, events, answer, device, host, accepted>>

Init ==
  /\ control_state = "SETUP" /\ req = NoRequest
  /\ callback = "NULL" /\ payload_size = 0
  /\ payload_nb_trans = 0 /\ prev_payload_nb_trans = 0
  /\ b_shortpacket = FALSE
  /\ setup = FALSE /\ in_tc = FALSE /\ out_tc = FALSE
  /\ underflow = FALSE /\ overflow = FALSE
  /\ in_nack = TRUE /\ out_nack = TRUE /\ stall = FALSE
  /\ in_from = 0 /\ in_cnt = 0
  /\ address = 0 /\ num_configuration = 0 /\ line_coding = Default
  /\ hreq = NoRequest /\ hstage = "none" /\ reply = <<>>
  /\ sent = FALSE /\ early = FALSE /\ at = 0
  /\ accepted = FALSE /\ overtaken = FALSE /\ requests = 0

-----------------------------------------------------------------------------
(* udc_process_setup: what becomes of request r *)

(* Mutant: the whole descriptor although the host asked for less. *)
DescriptorWhole(r) == Descriptor

(* udc_req_std_dev_get_descriptor cuts it to the length asked for. *)
DescriptorPart(r) == IF r.length < Descriptor THEN r.length ELSE Descriptor

(* The status and the line coding only go with their own length, an address *)
(* comes before a configuration, and that before its interfaces, which have *)
(* no alternate settings.                                                  *)
Supported(r, addr) ==
  CASE r.kind = "status" -> r.length = 1
    [] r.kind = "set_configuration" -> addr # 0
    [] r.kind = "set_interface" -> num_configuration # 0 /\ r.value = 0
    [] r.kind = "set_line_coding" -> num_configuration # 0
    [] OTHER -> TRUE

(* An interface that cannot be enabled fails the request after the           *)
(* configuration has been set.                                             *)
MayFail(r) ==
  r.kind = "set_configuration" /\ r.value # 0 /\ num_configuration = 0

PayloadSize(r) ==
  CASE r.kind = "descriptor" -> DescriptorPart(r)
    [] r.kind \in {"status", "set_line_coding"} -> 1
    [] OTHER -> 0

Callback(r) ==
  CASE r.kind = "set_address" -> "udc_valid_address"
    [] r.kind = "set_line_coding" -> "udi_cdc_line_coding_received"
    [] OTHER -> "NULL"

(* Mutant: the address changes at once. *)
AddressNow(r, addr) == IF r.kind = "set_address" THEN r.value ELSE addr

(* udc_req_std_dev_set_address leaves the address to the callback. *)
AddressLater(r, addr) == addr

(* udc_req_std_dev_set_configuration enables the interfaces, and with them  *)
(* the default line coding.                                                *)
Apply(r, addr) ==
  /\ address' = AddressLater(r, addr)
  /\ IF r.kind = "set_configuration"
       THEN /\ num_configuration' = r.value
            /\ line_coding' = IF r.value = 0 THEN line_coding ELSE Default
       ELSE UNCHANGED <<num_configuration, line_coding>>

-----------------------------------------------------------------------------
(* The endpoint *)

(* udd_ctrl_send_zlp_in, udd_ctrl_send_zlp_out, udd_ctrl_stall_data *)
SendZlpIn ==
  /\ control_state' = "WAIT_IN_ZLP"
  /\ in_cnt' = 0
  /\ in_nack' = FALSE
  /\ UNCHANGED <<in_from, stall>>

SendZlpOut ==
  /\ control_state' = "WAIT_OUT_ZLP"
  /\ out_nack' = FALSE
  /\ UNCHANGED <<packet, stall>>

StallData ==
  /\ control_state' = "STALL_REQ"
  /\ stall' = TRUE
  /\ UNCHANGED packet

(* Mutant: a full packet even of what is less. *)
PartFull(remain) == CtrlSize

(* What the next packet takes of the units that remain. *)
Part(remain) == IF remain < CtrlSize THEN remain ELSE CtrlSize

(* The end of udd_ctrl_in_sent: a packet of the payload, at most a full one. *)
(* Nothing remains: an empty packet.                                        *)
NextPacket(size, done) ==
  LET n == Part(size - done)
  IN  /\ in_from' = done
      /\ in_cnt' = n
      /\ in_nack' = FALSE
      /\ payload_nb_trans' = done + n
      /\ b_shortpacket' = (n < CtrlSize)
      /\ UNCHANGED stall

-----------------------------------------------------------------------------
(* What the host does *)

InStage ==     \* the host sends IN tokens
  \/ hstage = "data" /\ IsIn(hreq)
  \/ hstage = "status" /\ ~IsIn(hreq)
OutStage == hstage \in {"data", "status"} /\ ~InStage

(* The packets not handled yet end their request. *)
OnlyStatusLeft ==
  /\ in_tc => control_state = "WAIT_IN_ZLP"
  /\ out_tc => control_state = "WAIT_OUT_ZLP"

(* A SETUP packet is always received: it ends a stall and both directions   *)
(* refuse packets until it is handled.  It may hide that the packet before  *)
(* it was sent or received, and comes wherever the host gives a transfer up: *)
(* where a packet of the data is not handled yet, it overtakes that packet,  *)
(* and the request is the last one before a reset of the bus (a bound).  A   *)
(* host that fails to set an address resets the device, and waits for the   *)
(* address to take effect.                                                  *)
HostSetup ==
  /\ requests < MaxRequests /\ ~overtaken
  /\ hreq.kind = "set_address" => hstage \in {"done", "stalled"} /\ ~in_tc
  /\ \E r \in Requests :
       /\ hreq' = r
       /\ hstage' = IF r.length = 0 THEN "status" ELSE "data"
  /\ \E hide \in BOOLEAN :
       /\ in_tc' = (in_tc /\ ~hide)
       /\ out_tc' = (out_tc /\ ~hide)
  /\ setup' = TRUE
  /\ in_nack' = TRUE /\ out_nack' = TRUE /\ stall' = FALSE
  /\ reply' = <<>> /\ sent' = FALSE /\ early' = FALSE
  /\ requests' = requests + 1
  /\ UNCHANGED <<control_state, job, moved, packet, underflow, overflow,
                 device, at, accepted>>
  /\ overtaken' = ~OnlyStatusLeft'

(* A packet from the device ends the data if it is short or the last. *)
HostIn ==
  /\ InStage /\ ~in_nack /\ ~stall
  /\ in_nack' = TRUE
  /\ in_tc' = TRUE
  /\ IF hstage = "status"
       THEN /\ hstage' = "done"
            /\ at' = IF hreq.kind = "set_address" THEN hreq.value ELSE at
            /\ UNCHANGED reply
       ELSE /\ reply' = reply \o [i \in 1 .. in_cnt |-> in_from + i]
            /\ hstage' = IF in_cnt < CtrlSize \/ Len(reply') >= hreq.length
                           THEN "status" ELSE "data"
            /\ UNCHANGED at
  /\ UNCHANGED <<control_state, job, moved, setup, out_tc, underflow, overflow,
                 out_nack, stall, packet, device, hreq, sent, early, requests,
                 overtaken, accepted>>

(* The data of a request, or the empty packet of its status stage. *)
HostOut ==
  /\ OutStage /\ ~out_nack /\ ~stall
  /\ out_nack' = TRUE
  /\ out_tc' = TRUE
  /\ IF hstage = "status" THEN hstage' = "done" /\ UNCHANGED sent
                          ELSE hstage' = "status" /\ sent' = TRUE
  /\ UNCHANGED <<control_state, job, moved, setup, in_tc, underflow, overflow,
                 in_nack, stall, packet, device, hreq, reply, early, at,
                 requests, overtaken, accepted>>

(* A token that finds the endpoint not ready raises an event. *)
HostNaked ==
  /\ ~stall
  /\ \/ InStage /\ in_nack /\ ~underflow
        /\ underflow' = TRUE /\ UNCHANGED overflow
     \/ OutStage /\ out_nack /\ ~overflow
        /\ overflow' = TRUE /\ UNCHANGED underflow
  /\ UNCHANGED <<control_state, job, moved, setup, in_tc, out_tc, answer,
                 device, host, accepted>>

HostStalled ==
  /\ hstage \in {"data", "status"} /\ stall
  /\ hstage' = "stalled"
  /\ UNCHANGED <<control_state, job, moved, events, answer, device, hreq,
                 reply, sent, early, at, requests, overtaken, accepted>>

(* The host need not wait for all the data; if it sends none after all, it   *)
(* has given up trying before.                                             *)
HostEndsEarly ==
  /\ hstage = "data" /\ (IsIn(hreq) \/ ~(setup \/ overflow))
  /\ hstage' = "status"
  /\ early' = TRUE
  /\ UNCHANGED <<control_state, job, moved, events, answer, device, hreq,
                 reply, sent, at, requests, overtaken, accepted>>

-----------------------------------------------------------------------------
(* The interrupts *)

Enabled == control_state # "SETUP"   \* those of underflow and overflow

(* While the interrupt runs the host's token may be refused once more. *)
AskedMeanwhile ==
  /\ underflow' \in {FALSE, InStage /\ in_nack /\ ~stall}
  /\ overflow' \in {FALSE, OutStage /\ out_nack /\ ~stall}

(* udd_ctrl_endofrequest: udc_valid_address; that of the line coding does   *)
(* nothing.                                                                *)
AddressEnded == IF callback = "udc_valid_address" THEN req.value ELSE address

(* udd_ctrl_setup_received: where the packet that ended a request was not   *)
(* seen, the request ends now.                                             *)
SetupReceived ==
  LET waits == control_state \in {"WAIT_IN_ZLP", "WAIT_OUT_ZLP"}
      addr  == IF waits THEN AddressEnded ELSE address
      works == Supported(hreq, addr)
  IN  /\ setup' = FALSE /\ in_tc' = FALSE /\ out_tc' = FALSE
      /\ AskedMeanwhile
      /\ req' = hreq
      /\ accepted' \in {works, works /\ ~MayFail(hreq)}
      /\ IF works THEN Apply(hreq, addr)
           ELSE address' = addr /\ UNCHANGED <<num_configuration, line_coding>>
      /\ IF ~accepted'
           THEN /\ StallData
                /\ in_nack' = TRUE
                /\ payload_size' = 0 /\ callback' = "NULL"
                /\ UNCHANGED <<moved, out_nack>>
           ELSE /\ payload_size' = PayloadSize(hreq)
                /\ callback' = Callback(hreq)
                /\ CASE IsIn(hreq) ->
                          /\ control_state' = "DATA_IN"
                          /\ NextPacket(PayloadSize(hreq), 0)
                          /\ prev_payload_nb_trans' = 0
                          /\ UNCHANGED out_nack
                     [] hreq.length = 0 ->
                          SendZlpIn /\ UNCHANGED <<moved, out_nack>>
                     [] OTHER ->
                          /\ control_state' = "DATA_OUT"
                          /\ in_nack' = TRUE /\ out_nack' = FALSE
                          /\ payload_nb_trans' = 0
                          /\ prev_payload_nb_trans' = 0
                          /\ UNCHANGED <<b_shortpacket, stall, packet>>
      /\ UNCHANGED host

NoBusEvent == ~(Enabled /\ (underflow \/ overflow))   \* which go first

(* udd_ctrl_endofrequest and udd_ctrl_init. *)
Ends ==
  /\ address' = AddressEnded
  /\ control_state' = "SETUP"
  /\ in_nack' = TRUE
  /\ in_tc' = FALSE /\ out_tc' = FALSE
  /\ underflow' = FALSE /\ overflow' = FALSE
  /\ callback' = "NULL" /\ payload_size' = 0
  /\ UNCHANGED <<req, moved, setup, out_nack, stall, packet,
                 num_configuration, line_coding, host, accepted>>

(* Mutant: a last packet that is full is not followed by an empty one. *)
DataSentAll(total) == TRUE

(* All that was asked for is sent, or a short packet was. *)
DataSent(total) == req.length = total \/ b_shortpacket

(* udd_ctrl_in_sent; what is sent after the whole payload is empty, and no  *)
(* request gives a second payload (over_under_run).                        *)
InSent ==
  /\ in_tc /\ NoBusEvent
  /\ IF control_state = "WAIT_IN_ZLP" THEN Ends
     ELSE LET all   == payload_nb_trans = payload_size
              total == prev_payload_nb_trans + payload_nb_trans
          IN  /\ in_tc' = FALSE
              /\ AskedMeanwhile
              /\ prev_payload_nb_trans' =
                   IF all THEN total ELSE prev_payload_nb_trans
              /\ IF all /\ DataSent(total)
                   THEN SendZlpOut /\ UNCHANGED <<payload_nb_trans,
                                                  b_shortpacket, in_nack>>
                   ELSE NextPacket(payload_size, payload_nb_trans)
                        /\ UNCHANGED <<control_state, out_nack>>
              /\ UNCHANGED <<job, setup, out_tc, device, host, accepted>>

(* udi_cdc_comm_setup has made the line coding the payload of DATA_OUT.  A   *)
(* SETUP packet that came meanwhile is in the buffer instead of the data.    *)
Stored ==
  CASE control_state # "DATA_OUT" -> {line_coding}
    [] setup -> Codings
    [] OTHER -> {req.value}

(* udd_ctrl_out_received: the data of a request fits in one packet; only an  *)
(* empty packet comes in another state, where the assertion is not compiled. *)
(* Packets are handled in the order they came, that of the host second.      *)
OutReceived ==
  /\ out_tc /\ ~in_tc /\ NoBusEvent
  /\ IF control_state = "WAIT_OUT_ZLP" THEN Ends
     ELSE /\ out_tc' = FALSE
          /\ AskedMeanwhile
          /\ line_coding' \in Stored
          /\ payload_nb_trans' = IF control_state = "DATA_OUT" THEN 1
                                 ELSE payload_nb_trans
          /\ payload_size' = payload_nb_trans'
          /\ SendZlpIn
          /\ UNCHANGED <<req, callback, prev_payload_nb_trans, b_shortpacket,
                         setup, in_tc, out_nack, address, num_configuration,
                         host, accepted>>

Setup ==
  /\ setup /\ ~in_tc /\ ~out_tc /\ NoBusEvent
  /\ SetupReceived

StallBoth ==
  /\ stall' = TRUE
  /\ UNCHANGED <<control_state, packet, in_nack, out_nack>>

Refused ==   \* the interrupt of an event changes nothing
  UNCHANGED <<control_state, answer>>

(* Mutant: data that the host does not send is waited for. *)
UnderflowAloneWaits == IF control_state = "WAIT_OUT_ZLP" THEN StallBoth ELSE Refused

(* udd_ctrl_underflow and udd_ctrl_overflow where no packet is waiting. *)
UnderflowAlone ==
  CASE control_state = "DATA_OUT" -> SendZlpIn /\ UNCHANGED out_nack
    [] control_state = "WAIT_OUT_ZLP" -> StallBoth
    [] OTHER -> Refused

OverflowAlone ==
  CASE control_state = "DATA_IN" -> SendZlpOut /\ UNCHANGED in_nack
    [] control_state = "WAIT_IN_ZLP" -> StallBoth
    [] OTHER -> Refused

(* Mutant: an event is not ignored where a packet waits to be handled. *)
PacketWaitsNever == FALSE

PacketWaits == in_tc \/ out_tc   \* udd_is_tc_event

(* An underflow, or an overflow, seen by USB_BUSEVENT_vect. *)
BusEvent(alone) ==
  /\ Enabled
  /\ CASE PacketWaits ->
            /\ UNCHANGED <<control_state, job, moved, setup, in_tc, out_tc,
                           answer, device, host, accepted>>
       [] ~PacketWaits /\ setup -> SetupReceived
       [] OTHER ->
            /\ alone
            /\ UNCHANGED <<job, moved, setup, in_tc, out_tc, device, host,
                           accepted>>

Underflow ==
  /\ underflow /\ BusEvent(UnderflowAlone)
  /\ ~setup \/ PacketWaits => underflow' = FALSE /\ UNCHANGED overflow

Overflow ==
  /\ overflow /\ ~underflow /\ BusEvent(OverflowAlone)
  /\ ~setup \/ PacketWaits => overflow' = FALSE /\ UNCHANGED underflow

(* The host resets the bus: udc_reset, the address, the endpoint. *)
BusReset ==
  /\ ~setup /\ ~in_tc /\ ~out_tc
  /\ requests < MaxRequests
  /\ requests' = requests + 1
  /\ address' = 0 /\ num_configuration' = 0
  /\ control_state' = "SETUP"
  /\ in_nack' = TRUE /\ out_nack' = TRUE /\ stall' = FALSE
  /\ underflow' = FALSE /\ overflow' = FALSE
  /\ callback' = "NULL" /\ payload_size' = 0
  /\ hreq' = NoRequest /\ hstage' = "none" /\ reply' = <<>>
  /\ sent' = FALSE /\ early' = FALSE /\ at' = 0 /\ overtaken' = FALSE
  /\ UNCHANGED <<req, moved, setup, in_tc, out_tc, packet, line_coding,
                 accepted>>

TransferComplete == Setup \/ InSent \/ OutReceived   \* USB_TRNCOMPL_vect
Token == HostIn \/ HostOut \/ HostNaked \/ HostStalled

Next ==
  \/ TransferComplete \/ Underflow \/ Overflow
  \/ Token \/ HostSetup \/ HostEndsEarly \/ BusReset

(* Interrupts are served, the host goes on asking; its refused packets come *)
(* slower than their interrupts run, which leaves time for the others.      *)
Spec ==
  /\ Init /\ [][Next]_vars
  /\ WF_vars(Underflow) /\ SF_vars(Overflow) /\ SF_vars(TransferComplete)
  /\ WF_vars(Token)

-----------------------------------------------------------------------------
TypeOK ==
  /\ control_state \in {"SETUP", "DATA_IN", "DATA_OUT", "WAIT_IN_ZLP",
                        "WAIT_OUT_ZLP", "STALL_REQ"}
  /\ req \in Requests \cup {NoRequest} /\ hreq \in Requests \cup {NoRequest}
  /\ callback \in {"NULL", "udc_valid_address", "udi_cdc_line_coding_received"}
  /\ {payload_size, payload_nb_trans} \subseteq 0 .. Descriptor
  /\ prev_payload_nb_trans \in Nat
  /\ in_from \in 0 .. Descriptor /\ in_cnt \in 0 .. CtrlSize
  /\ {b_shortpacket, setup, in_tc, out_tc, underflow, overflow, in_nack,
      out_nack, stall, sent, early, accepted, overtaken} \subseteq BOOLEAN
  /\ {address, at} \subseteq Addresses \cup {0}
  /\ num_configuration \in {0, 1} /\ line_coding \in Codings
  /\ hstage \in {"none", "data", "status", "done", "stalled"}
  /\ reply \in Seq(1 .. Descriptor) /\ requests \in 0 .. MaxRequests

(* A read answers with its data from the first unit on, never with more     *)
(* than was asked for, and when the data stage ends by itself with all of   *)
(* it: an empty packet follows a last full one exactly where the host waits *)
(* for more (udd_ctrl_in_sent); but for a request that overtook a packet of *)
(* the one before.                                                         *)
Answered ==
  ~overtaken =>
    /\ reply = [i \in 1 .. Len(reply) |-> i]
    /\ IsIn(hreq) => Len(reply) <= hreq.length
    /\ IsIn(hreq) /\ hstage \in {"status", "done"} /\ ~early =>
         Len(reply) = IF hreq.kind = "status" THEN 1
                      ELSE IF hreq.length < Descriptor THEN hreq.length
                      ELSE Descriptor

(* What udd.h says of the payload: "Point to buffer to send or fill with     *)
(* data following SETUP packet".  The data sent after a SETUP packet starts *)
(* with the first unit of a payload (USB_TRNCOMPL_vect).                   *)
FollowsSetup == reply = [i \in 1 .. Len(reply) |-> i]

(* Host and device agree on the outcome: a transfer the host sees completed *)
(* was accepted, one it sees stalled was not, whatever packets it was       *)
(* refused meanwhile (the events of udd_ctrl_underflow, udd_ctrl_overflow). *)
Agreement ==
  ~overtaken =>
    /\ hstage = "done" => accepted
    /\ hstage = "stalled" => ~accepted

(* The device is at the address the host uses: it changes only after the    *)
(* status stage of the request that sets it (udc_valid_address is a         *)
(* callback), and then before the next packet but one.                     *)
AddressKnown ==
  \/ overtaken
  \/ address = at
  \/ hreq.kind = "set_address" /\ hstage = "done" /\ at = hreq.value /\ in_tc

(* A line coding whose data the host has sent is stored once the transfer   *)
(* is completed (the data is handled before a refused status packet).       *)
LineCodingStored ==
  hreq.kind = "set_line_coding" /\ hstage = "done" /\ sent /\ ~overtaken =>
    line_coding = hreq.value

(* Every transfer comes to an end: no packet is awaited on both sides. *)
TransferEnds ==
  hstage \in {"data", "status"} ~> hstage \in {"none", "done", "stalled"}
=============================================================================
