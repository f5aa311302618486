------------------------------- MODULE UsbProofs -------------------------------
(***************************************************************************)
(* Proofs about the USB side of the program: module UsbControl, for every   *)
(* size of packets and descriptors, every number of requests, and all       *)
(* addresses and codings; and module UsbTerminal, for all commands, sizes of *)
(* keys and buffers, any cipher, and any typing, disconnections and resets.  *)
(***************************************************************************)
EXTENDS UsbControl, UsbTerminal, Integers, SequenceTheorems, WellFoundedInduction, TLAPS

-----------------------------------------------------------------------------
(* The control endpoint *)

(* A SETUP packet waits to be handled: both directions refuse packets, and   *)
(* what is left of the transfer before can only be its status packet.       *)
Waiting ==
  /\ hreq \in Requests /\ reply = <<>> /\ ~sent
  /\ in_nack /\ out_nack /\ ~stall
  /\ IF hreq.length = 0 THEN hstage = "status" /\ ~early
     ELSE \/ hstage = "data" /\ ~early
          \/ hstage = "status" /\ early /\ IsIn(hreq)
  /\ in_tc => control_state = "WAIT_IN_ZLP"
  /\ out_tc => control_state = "WAIT_OUT_ZLP"

(* There has been no request since the start, or since the bus was reset. *)
Quiet ==
  /\ hreq = NoRequest /\ reply = <<>>
  /\ control_state = "SETUP" /\ ~in_tc /\ ~out_tc

(* The request was not accepted. *)
Stalls ==
  /\ control_state = "STALL_REQ" /\ stall
  /\ ~in_tc /\ ~out_tc /\ reply = <<>> /\ hstage # "done"
  /\ IsIn(hreq) /\ hstage = "status" => early

(* The packet in the endpoint is the part of the payload that starts at      *)
(* in_from, and the host has what comes before it, and the packet itself     *)
(* once it is sent.  The host wants more after a packet only if that was     *)
(* full and not the end of what it asked for.                              *)
Packet ==
  LET whole == PayloadSize(hreq)
  IN  /\ payload_size = whole
      /\ in_from \in 0 .. whole /\ in_cnt = Part(whole - in_from)
      /\ payload_nb_trans = in_from + in_cnt
      /\ prev_payload_nb_trans = (IF in_from = whole THEN whole ELSE 0)
      /\ b_shortpacket <=> in_cnt < CtrlSize
      /\ out_nack /\ ~out_tc /\ (in_tc => in_nack)
      /\ hstage \in {"data", "status"} /\ (overflow => hstage = "status")
      /\ ~early => Len(reply) = IF in_tc THEN payload_nb_trans ELSE in_from
      /\ hstage = "data" /\ in_tc =>
           in_cnt = CtrlSize /\ payload_nb_trans < hreq.length

(* A request for data that was accepted. *)
Reads ==
  /\ hreq.kind = "status" => hreq.length = 1
  /\ control_state \in {"DATA_IN", "WAIT_OUT_ZLP", "SETUP"}
  /\ hstage = "data" => control_state = "DATA_IN" /\ ~early
  /\ Len(reply) <= PayloadSize(hreq)
  /\ hstage \in {"status", "done"} /\ ~early => Len(reply) = PayloadSize(hreq)
  /\ control_state = "DATA_IN" => Packet
  /\ control_state = "WAIT_OUT_ZLP" =>
       ~underflow /\ ~in_tc /\ (out_tc <=> hstage = "done")
  /\ control_state = "SETUP" => hstage = "done" /\ ~in_tc /\ ~out_tc

(* A request that sets something and was accepted. *)
Writes ==
  /\ reply = <<>>
  /\ control_state \in {"DATA_OUT", "WAIT_IN_ZLP", "SETUP"}
  /\ control_state = "DATA_OUT" =>
       /\ hreq.kind = "set_line_coding"
       /\ in_nack /\ ~in_tc /\ hstage \in {"data", "status"}
       /\ underflow => hstage = "status"
       /\ out_tc <=> sent
       /\ sent => hstage = "status"
       /\ hstage = "status" /\ ~out_tc => ~overflow
  /\ control_state = "WAIT_IN_ZLP" =>
       ~overflow /\ ~out_tc /\ hstage \in {"status", "done"} /\ (in_tc <=> hstage = "done")
  /\ control_state = "SETUP" => hstage = "done" /\ ~in_tc /\ ~out_tc
  /\ control_state # "DATA_OUT" /\ hreq.kind = "set_line_coding" /\ sent =>
       line_coding = hreq.value

(* The request that the device works on is that of the host. *)
Handled ==
  /\ hreq \in Requests /\ req = hreq
  /\ IF accepted
       THEN /\ ~stall /\ hstage # "stalled"
            /\ IF IsIn(hreq) THEN Reads ELSE Writes
       ELSE Stalls

Transfer == IF setup THEN Waiting ELSE IF hstage = "none" THEN Quiet ELSE Handled

(* An address waits to become valid exactly from its request to the end of   *)
(* its status stage, and it is the host's from the packet of that stage on.  *)
Valid == callback = "udc_valid_address"

Address ==
  /\ Valid => /\ ~setup /\ accepted /\ req = hreq
              /\ hreq.kind = "set_address" /\ control_state = "WAIT_IN_ZLP"
  /\ ~setup /\ control_state = "WAIT_IN_ZLP" /\ hreq.kind = "set_address" => Valid
  /\ IF Valid /\ hstage = "done" THEN at = hreq.value ELSE address = at

(* TypeOK, one variable at a time, which is how the provers take it. *)
FlagsOK ==
  /\ setup \in BOOLEAN /\ in_tc \in BOOLEAN /\ out_tc \in BOOLEAN
  /\ underflow \in BOOLEAN /\ overflow \in BOOLEAN
  /\ in_nack \in BOOLEAN /\ out_nack \in BOOLEAN /\ stall \in BOOLEAN
  /\ sent \in BOOLEAN /\ early \in BOOLEAN /\ accepted \in BOOLEAN
  /\ overtaken \in BOOLEAN

JobOK ==
  /\ req \in Requests \cup {NoRequest}
  /\ callback \in {"NULL", "udc_valid_address", "udi_cdc_line_coding_received"}
  /\ payload_size \in 0 .. Descriptor

MovedOK ==
  /\ payload_nb_trans \in 0 .. Descriptor
  /\ prev_payload_nb_trans \in Nat
  /\ b_shortpacket \in BOOLEAN
  /\ in_from \in 0 .. Descriptor /\ in_cnt \in 0 .. CtrlSize

DeviceOK ==
  /\ control_state \in {"SETUP", "DATA_IN", "DATA_OUT", "WAIT_IN_ZLP",
                        "WAIT_OUT_ZLP", "STALL_REQ"}
  /\ address \in Addresses \cup {0}
  /\ num_configuration \in {0, 1} /\ line_coding \in Codings

HostOK ==
  /\ hreq \in Requests \cup {NoRequest}
  /\ hstage \in {"none", "data", "status", "done", "stalled"}
  /\ reply \in Seq(1 .. Descriptor) /\ requests \in 0 .. MaxRequests
  /\ at \in Addresses \cup {0}

Types == FlagsOK /\ JobOK /\ MovedOK /\ DeviceOK /\ HostOK

(* What the types rest on: where the endpoint sends nothing, that a payload   *)
(* is not over before its start, and what the two callbacks' requests are.   *)
Endpoint ==
  /\ control_state \in {"SETUP", "STALL_REQ"} => in_nack /\ ~in_tc
  /\ control_state \in {"DATA_IN", "DATA_OUT", "WAIT_OUT_ZLP"} =>
       payload_nb_trans <= payload_size
  /\ in_from + in_cnt <= Descriptor
  /\ control_state = "DATA_OUT" => req.kind = "set_line_coding"
  /\ callback = "udc_valid_address" => req.kind = "set_address"

Base == Types /\ Endpoint

(* What the host has got is numbered from the first unit on. *)
Counts == reply \in Seq(Nat) /\ reply = [i \in 1 .. Len(reply) |-> i]

(* Host and device are at the same place of the same request. *)
InStep == Counts /\ Transfer /\ Address

(* They are, unless a SETUP packet overtook a packet of the data. *)
IInv == Base /\ (overtaken \/ InStep)

-----------------------------------------------------------------------------
(* Requests and packets *)

(* The types of the parts are those of the module. *)
LEMMA TypesAreTypeOK == Types <=> TypeOK
<1>1. FlagsOK /\ b_shortpacket \in BOOLEAN <=>
        {b_shortpacket, setup, in_tc, out_tc, underflow, overflow, in_nack,
         out_nack, stall, sent, early, accepted, overtaken} \subseteq BOOLEAN
  BY Zenon DEF FlagsOK
<1>2. /\ payload_size \in 0 .. Descriptor /\ payload_nb_trans \in 0 .. Descriptor <=>
           {payload_size, payload_nb_trans} \subseteq 0 .. Descriptor
      /\ address \in Addresses \cup {0} /\ at \in Addresses \cup {0} <=>
           {address, at} \subseteq Addresses \cup {0}
  BY Zenon
<1> QED
  BY <1>1, <1>2, Zenon DEF Types, JobOK, MovedOK, DeviceOK, HostOK, TypeOK

(* What a request may be, by its kind. *)
LEMMA RequestFacts ==
  ASSUME NEW r \in Requests
  PROVE  /\ r # NoRequest /\ r.length \in Nat
         /\ r.kind \in {"descriptor", "status", "set_address",
              "set_configuration", "set_interface", "set_line_coding"}
         /\ IsIn(r) <=> r.kind \in {"descriptor", "status"}
         /\ r.length = 0 <=> r.kind \in {"set_address", "set_configuration",
                                         "set_interface"}
         /\ r.kind = "set_address" => r.value \in Addresses
         /\ r.kind = "set_configuration" => r.value \in {0, 1}
         /\ r.kind = "set_line_coding" => r.value \in Codings
  BY ControlAssumption DEF Requests, Request, NoRequest, IsIn

(* A payload is no longer than what was asked for, nor than the longest      *)
(* descriptor; a request for data has one.                                 *)
LEMMA PayloadFacts ==
  ASSUME NEW r \in Requests
  PROVE  /\ PayloadSize(r) \in 0 .. Descriptor
         /\ IsIn(r) => PayloadSize(r) \in 1 .. r.length
         /\ r.kind = "status" => PayloadSize(r) = 1
         /\ r.kind = "descriptor" =>
              PayloadSize(r) = IF r.length < Descriptor THEN r.length ELSE Descriptor
  BY ControlAssumption DEF Requests, Request, IsIn, PayloadSize, DescriptorPart

(* A packet is part of what remains, and all of it if it is short. *)
LEMMA PartFacts ==
  ASSUME NEW n \in Nat
  PROVE  /\ Part(n) \in 0 .. CtrlSize /\ Part(n) <= n
         /\ Part(n) < CtrlSize => Part(n) = n
         /\ Part(n) = 0 => n = 0
  BY ControlAssumption DEF Part

(* The packet that starts at from ends within the payload: it is the rest if  *)
(* it is short, and it is empty only at the end.                           *)
LEMMA PacketFacts ==
  ASSUME NEW whole \in Nat, NEW from \in 0 .. whole
  PROVE  LET n == Part(whole - from)
         IN  /\ n \in 0 .. CtrlSize /\ from + n \in 0 .. whole
             /\ n < CtrlSize => from + n = whole
             /\ from = whole => n = 0
  BY ControlAssumption DEF Part

(* Nothing was asked for in the initial state. *)
LEMMA InitInv == Init => IInv
<1> SUFFICES ASSUME Init PROVE IInv
  OBVIOUS
<1> USE ControlAssumption
<1>1. /\ reply \in Seq(Nat) /\ Len(reply) = 0 /\ reply = [i \in 1 .. Len(reply) |-> i]
      /\ reply \in Seq(1 .. Descriptor)
  BY EmptySeq DEF Init
<1>2. FlagsOK /\ JobOK
  <2>1. FlagsOK
    BY DEF Init, FlagsOK
  <2>2. JobOK
    BY DEF Init, JobOK
  <2> QED
    BY <2>1, <2>2
<1>3. MovedOK
  <2>1. 0 \in 0 .. Descriptor /\ 0 \in Nat /\ 0 \in 0 .. CtrlSize
    OBVIOUS
  <2> QED
    BY <2>1 DEF Init, MovedOK
<1>4. DeviceOK /\ HostOK
  BY <1>1 DEF Init, DeviceOK, HostOK
<1>5. Endpoint
  BY DEF Init, Endpoint
<1>6. Transfer /\ Address
  BY DEF Init, Transfer, Quiet, Address, Valid
<1> QED
  BY <1>1, <1>2, <1>3, <1>4, <1>5, <1>6 DEF IInv, Base, Types, InStep, Counts

-----------------------------------------------------------------------------
(* Types, whatever has overtaken what *)

(* What udd_ctrl_setup_received does with a request, by what becomes of it. *)
AddressAtSetup ==
  IF control_state \in {"WAIT_IN_ZLP", "WAIT_OUT_ZLP"} THEN AddressEnded ELSE address

LEMMA SetupCases ==
  ASSUME SetupReceived, hreq \in Requests \cup {NoRequest}
  PROVE  /\ setup' = FALSE /\ in_tc' = FALSE /\ out_tc' = FALSE
         /\ underflow' \in BOOLEAN /\ overflow' \in BOOLEAN
         /\ underflow' => InStage
         /\ overflow' => OutStage
         /\ req' = hreq /\ address' = AddressAtSetup /\ UNCHANGED host
         /\ accepted' \in BOOLEAN
         /\ accepted' => Supported(hreq, AddressAtSetup)
         /\ \/ UNCHANGED num_configuration
            \/ hreq.kind = "set_configuration" /\ num_configuration' = hreq.value
         /\ line_coding' \in {line_coding, Default}
         /\ ~accepted' =>
              /\ control_state' = "STALL_REQ" /\ stall' = TRUE /\ in_nack' = TRUE
              /\ payload_size' = 0 /\ callback' = "NULL"
              /\ UNCHANGED <<moved, out_nack, packet>>
         /\ accepted' =>
              payload_size' = PayloadSize(hreq) /\ callback' = Callback(hreq)
         /\ accepted' /\ IsIn(hreq) =>
              /\ control_state' = "DATA_IN"
              /\ NextPacket(PayloadSize(hreq), 0)
              /\ prev_payload_nb_trans' = 0 /\ UNCHANGED out_nack
         /\ accepted' /\ ~IsIn(hreq) /\ hreq.length = 0 =>
              /\ control_state' = "WAIT_IN_ZLP" /\ in_cnt' = 0 /\ in_nack' = FALSE
              /\ UNCHANGED <<in_from, stall, moved, out_nack>>
         /\ accepted' /\ ~IsIn(hreq) /\ hreq.length # 0 =>
              /\ control_state' = "DATA_OUT" /\ in_nack' = TRUE /\ out_nack' = FALSE
              /\ payload_nb_trans' = 0 /\ prev_payload_nb_trans' = 0
              /\ UNCHANGED <<b_shortpacket, stall, packet>>
<1> DEFINE works == Supported(hreq, AddressAtSetup)
<1>1. /\ setup' = FALSE /\ in_tc' = FALSE /\ out_tc' = FALSE
      /\ AskedMeanwhile /\ req' = hreq /\ UNCHANGED host
      /\ accepted' \in {works, works /\ ~MayFail(hreq)}
      /\ IF works THEN Apply(hreq, AddressAtSetup)
         ELSE address' = AddressAtSetup /\ UNCHANGED <<num_configuration, line_coding>>
  BY DEF SetupReceived, AddressAtSetup
<1>2. accepted' \in BOOLEAN /\ (accepted' => works)
  <2>1. works \in BOOLEAN
    BY DEF Supported
  <2> HIDE DEF works
  <2> QED
    BY <1>1, <2>1, Zenon
<1>3. /\ underflow' \in BOOLEAN /\ overflow' \in BOOLEAN
      /\ underflow' => InStage
      /\ overflow' => OutStage
  BY <1>1 DEF AskedMeanwhile
<1>4. /\ address' = AddressAtSetup
      /\ \/ UNCHANGED num_configuration
         \/ hreq.kind = "set_configuration" /\ num_configuration' = hreq.value
      /\ line_coding' \in {line_coding, Default}
  BY <1>1 DEF Apply, AddressLater
<1>5. ASSUME ~accepted'
      PROVE  /\ control_state' = "STALL_REQ" /\ stall' = TRUE /\ in_nack' = TRUE
             /\ payload_size' = 0 /\ callback' = "NULL"
             /\ UNCHANGED <<moved, out_nack, packet>>
  BY <1>5 DEF SetupReceived, StallData
<1>6. ASSUME accepted'
      PROVE  payload_size' = PayloadSize(hreq) /\ callback' = Callback(hreq)
  BY <1>6 DEF SetupReceived
<1>7. IsIn(hreq) => hreq.length # 0
  BY RequestFacts DEF NoRequest, Request, IsIn
<1>8. ASSUME accepted', IsIn(hreq)
      PROVE  /\ control_state' = "DATA_IN"
             /\ NextPacket(PayloadSize(hreq), 0)
             /\ prev_payload_nb_trans' = 0 /\ UNCHANGED out_nack
  BY <1>7, <1>8 DEF SetupReceived
<1>9. ASSUME accepted', ~IsIn(hreq), hreq.length = 0
      PROVE  /\ control_state' = "WAIT_IN_ZLP" /\ in_cnt' = 0 /\ in_nack' = FALSE
             /\ UNCHANGED <<in_from, stall, moved, out_nack>>
  BY <1>9 DEF SetupReceived, SendZlpIn
<1>10. ASSUME accepted', ~IsIn(hreq), hreq.length # 0
       PROVE  /\ control_state' = "DATA_OUT" /\ in_nack' = TRUE /\ out_nack' = FALSE
              /\ payload_nb_trans' = 0 /\ prev_payload_nb_trans' = 0
              /\ UNCHANGED <<b_shortpacket, stall, packet>>
  BY <1>10 DEF SetupReceived
<1> QED
  BY <1>1, <1>2, <1>3, <1>4, <1>5, <1>6, <1>8, <1>9, <1>10

(* An address that becomes valid is one that a request has. *)
LEMMA AddressEndedType == Base => AddressEnded \in Addresses \cup {0}
  BY RequestFacts DEF Base, Types, JobOK, DeviceOK, Endpoint, AddressEnded, NoRequest, Request

(* A part of a payload that starts within it ends within it. *)
LEMMA NextPacketFacts ==
  ASSUME NEW size \in 0 .. Descriptor, NEW done \in 0 .. size,
         NextPacket(size, done)
  PROVE  /\ in_from' = done /\ in_cnt' = Part(size - done)
         /\ in_cnt' \in 0 .. CtrlSize
         /\ payload_nb_trans' = in_from' + in_cnt' /\ payload_nb_trans' \in done .. size
         /\ b_shortpacket' \in BOOLEAN /\ (b_shortpacket' <=> in_cnt' < CtrlSize)
         /\ in_nack' = FALSE /\ UNCHANGED stall
         /\ payload_nb_trans' <= size
         /\ in_from' \in 0 .. Descriptor /\ payload_nb_trans' \in 0 .. Descriptor
<1> USE ControlAssumption
<1>1. size - done \in Nat /\ size \in Nat /\ done \in Nat
  OBVIOUS
<1>2. Part(size - done) \in 0 .. CtrlSize /\ Part(size - done) <= size - done
  BY <1>1, PartFacts
<1>3. b_shortpacket' \in BOOLEAN /\ (b_shortpacket' <=> in_cnt' < CtrlSize)
  <2>1. b_shortpacket' = (Part(size - done) < CtrlSize) /\ in_cnt' = Part(size - done)
    BY DEF NextPacket
  <2>2. (Part(size - done) < CtrlSize) \in BOOLEAN
    BY <1>2, SMT
  <2> QED
    BY <2>1, <2>2, Zenon
<1>4. /\ in_from' = done /\ in_cnt' = Part(size - done)
      /\ payload_nb_trans' = done + Part(size - done)
      /\ in_nack' = FALSE /\ UNCHANGED stall
  BY DEF NextPacket
<1>5. /\ done + Part(size - done) \in done .. size
      /\ done + Part(size - done) <= size
      /\ done \in 0 .. Descriptor /\ done + Part(size - done) \in 0 .. Descriptor
  BY <1>1, <1>2
<1> QED
  BY <1>2, <1>3, <1>4, <1>5, Zenon

(* udd_ctrl_setup_received. *)
LEMMA SetupTypes == Base /\ SetupReceived => Base'
<1> SUFFICES ASSUME Base, SetupReceived PROVE Base'
  OBVIOUS
<1> USE ControlAssumption
<1>1. Types /\ Endpoint /\ hreq \in Requests \cup {NoRequest}
  BY DEF Base, Types, HostOK
<1>2. /\ setup' = FALSE /\ in_tc' = FALSE /\ out_tc' = FALSE
      /\ underflow' \in BOOLEAN /\ overflow' \in BOOLEAN
      /\ req' = hreq /\ address' = AddressAtSetup /\ UNCHANGED host
      /\ accepted' \in BOOLEAN
  BY <1>1, SetupCases
<1>3. address' \in Addresses \cup {0}
  BY <1>1, <1>2, AddressEndedType DEF AddressAtSetup, Types, DeviceOK
<1>4. num_configuration' \in {0, 1} /\ line_coding' \in Codings
  <2>1. hreq.kind = "set_configuration" => hreq.value \in {0, 1}
    BY <1>1, RequestFacts DEF NoRequest, Request
  <2>2. /\ \/ UNCHANGED num_configuration
           \/ hreq.kind = "set_configuration" /\ num_configuration' = hreq.value
        /\ line_coding' \in {line_coding, Default}
    BY <1>1, SetupCases
  <2> QED
    BY <1>1, <2>1, <2>2 DEF Types, DeviceOK
<1>5. HostOK'
  BY <1>1, <1>2 DEF Types, HostOK, host
<1>6. PayloadSize(hreq) \in 0 .. Descriptor
  BY <1>1, PayloadFacts DEF PayloadSize, NoRequest, Request
<1>7. CASE ~accepted'
  <2>1. /\ control_state' = "STALL_REQ" /\ stall' = TRUE /\ in_nack' = TRUE
        /\ payload_size' = 0 /\ callback' = "NULL"
        /\ UNCHANGED <<payload_nb_trans, prev_payload_nb_trans, b_shortpacket,
                       out_nack, in_from, in_cnt>>
    BY <1>1, <1>7, SetupCases DEF moved, packet
  <2>2. FlagsOK' /\ JobOK' /\ MovedOK' /\ DeviceOK'
    <3>1. FlagsOK'
      BY <1>1, <1>2, <1>3, <1>4, <2>1 DEF Types, FlagsOK, host
    <3>2. JobOK'
      BY <1>1, <1>2, <1>3, <1>4, <2>1 DEF Types, JobOK, host
    <3>3. MovedOK'
      BY <1>1, <1>2, <1>3, <1>4, <2>1 DEF Types, MovedOK, host
    <3>4. DeviceOK'
      BY <1>1, <1>2, <1>3, <1>4, <2>1 DEF Types, DeviceOK, host
    <3> QED
      BY <3>1, <3>2, <3>3, <3>4
  <2>3. Endpoint'
    BY <1>1, <1>2, <2>1 DEF Endpoint
  <2> QED
    BY <1>5, <2>2, <2>3 DEF Base, Types
<1>8. CASE accepted'
  <2>1. payload_size' = PayloadSize(hreq) /\ callback' = Callback(hreq)
    BY <1>1, <1>8, SetupCases
  <2>2. /\ callback' \in {"NULL", "udc_valid_address", "udi_cdc_line_coding_received"}
        /\ callback' = "udc_valid_address" => hreq.kind = "set_address"
    BY <2>1 DEF Callback
  <2>3. JobOK'
    BY <1>1, <1>2, <1>6, <2>1, <2>2 DEF JobOK
  <2>4. CASE IsIn(hreq)
    <3>1. /\ control_state' = "DATA_IN" /\ NextPacket(PayloadSize(hreq), 0)
          /\ prev_payload_nb_trans' = 0 /\ UNCHANGED out_nack
      BY <1>1, <1>8, <2>4, SetupCases
    <3>2. PICK size \in 0 .. Descriptor : size = PayloadSize(hreq)
      BY <1>6
    <3>3. /\ 0 \in 0 .. size /\ NextPacket(size, 0)
      BY <3>1, <3>2
    <3>4. /\ in_from' = 0 /\ in_cnt' \in 0 .. CtrlSize
          /\ payload_nb_trans' = in_from' + in_cnt' /\ payload_nb_trans' \in 0 .. size
          /\ b_shortpacket' \in BOOLEAN /\ in_nack' = FALSE /\ UNCHANGED stall
          /\ payload_nb_trans' \in 0 .. Descriptor
          /\ in_from' \in 0 .. Descriptor
          /\ payload_nb_trans' <= PayloadSize(hreq)
      BY <3>2, <3>3, NextPacketFacts, Zenon
    <3>5. FlagsOK' /\ MovedOK' /\ DeviceOK'
      <4>1. FlagsOK'
        BY <1>1, <1>2, <1>3, <1>4, <3>1, <3>4 DEF Types, FlagsOK, host
      <4>2. MovedOK'
        BY <3>1, <3>4 DEF MovedOK
      <4>3. DeviceOK'
        BY <1>1, <1>2, <1>3, <1>4, <3>1, <3>4 DEF Types, DeviceOK, host
      <4> QED
        BY <4>1, <4>2, <4>3
    <3>6. Endpoint'
      <4>1. payload_nb_trans' \in 0 .. Descriptor /\ payload_nb_trans' = in_from' + in_cnt'
        BY <3>4
      <4>2. in_from' + in_cnt' <= Descriptor
        BY <4>1
      <4>3. payload_nb_trans' <= payload_size'
        BY <2>1, <3>4
      <4> QED
        BY <1>2, <2>2, <3>1, <4>2, <4>3 DEF Endpoint
    <3> QED
      BY <1>5, <2>3, <3>5, <3>6 DEF Base, Types
  <2>5. CASE ~IsIn(hreq) /\ hreq.length = 0
    <3>1. /\ control_state' = "WAIT_IN_ZLP" /\ in_cnt' = 0 /\ in_nack' = FALSE
          /\ UNCHANGED <<in_from, stall, payload_nb_trans, prev_payload_nb_trans,
                         b_shortpacket, out_nack>>
      BY <1>1, <1>8, <2>5, SetupCases DEF moved
    <3>2. FlagsOK' /\ MovedOK' /\ DeviceOK'
      <4>1. FlagsOK'
        BY <1>1, <1>2, <1>3, <1>4, <3>1 DEF Types, FlagsOK, host
      <4>2. MovedOK'
        BY <1>1, <1>2, <1>3, <1>4, <3>1 DEF Types, MovedOK, host
      <4>3. DeviceOK'
        BY <1>1, <1>2, <1>3, <1>4, <3>1 DEF Types, DeviceOK, host
      <4> QED
        BY <4>1, <4>2, <4>3
    <3>3. Endpoint'
      BY <1>1, <1>2, <2>2, <3>1 DEF Endpoint, Types, MovedOK
    <3> QED
      BY <1>5, <2>3, <3>2, <3>3 DEF Base, Types
  <2>6. CASE ~IsIn(hreq) /\ hreq.length # 0
    <3>1. /\ control_state' = "DATA_OUT" /\ in_nack' = TRUE /\ out_nack' = FALSE
          /\ payload_nb_trans' = 0 /\ prev_payload_nb_trans' = 0
          /\ UNCHANGED <<b_shortpacket, stall, in_from, in_cnt>>
      BY <1>1, <1>8, <2>6, SetupCases DEF packet
    <3>2. hreq.kind = "set_line_coding"
      BY <1>1, <2>6, RequestFacts DEF NoRequest, Request
    <3>3. FlagsOK' /\ MovedOK' /\ DeviceOK'
      <4>1. FlagsOK'
        BY <1>1, <1>2, <1>3, <1>4, <3>1 DEF Types, FlagsOK, host
      <4>2. MovedOK'
        BY <1>1, <1>2, <1>3, <1>4, <3>1 DEF Types, MovedOK, host
      <4>3. DeviceOK'
        BY <1>1, <1>2, <1>3, <1>4, <3>1 DEF Types, DeviceOK, host
      <4> QED
        BY <4>1, <4>2, <4>3
    <3>4. Endpoint'
      BY <1>1, <1>2, <1>6, <2>1, <2>2, <3>1, <3>2 DEF Endpoint
    <3> QED
      BY <1>5, <2>3, <3>3, <3>4 DEF Base, Types
  <2> QED
    BY <2>4, <2>5, <2>6
<1> QED
  BY <1>2, <1>7, <1>8

(* udd_ctrl_endofrequest and udd_ctrl_init. *)
LEMMA EndsTypes == Base /\ Ends => Base'
<1> SUFFICES ASSUME Base, Ends PROVE Base'
  OBVIOUS
<1> USE ControlAssumption
<1>1. Types /\ Endpoint /\ AddressEnded \in Addresses \cup {0}
  BY AddressEndedType DEF Base
<1>2. /\ control_state' = "SETUP" /\ in_nack' = TRUE
      /\ in_tc' = FALSE /\ out_tc' = FALSE
      /\ underflow' = FALSE /\ overflow' = FALSE
      /\ callback' = "NULL" /\ payload_size' = 0 /\ address' = AddressEnded
      /\ UNCHANGED <<req, payload_nb_trans, prev_payload_nb_trans, b_shortpacket,
                     setup, out_nack, stall, in_from, in_cnt, num_configuration,
                     line_coding, host, accepted>>
  BY DEF Ends, moved, packet
<1>3. FlagsOK' /\ JobOK' /\ MovedOK' /\ DeviceOK'
  <2>1. FlagsOK'
    BY <1>1, <1>2 DEF Types, FlagsOK, host
  <2>2. JobOK'
    BY <1>1, <1>2 DEF Types, JobOK, host
  <2>3. MovedOK'
    BY <1>1, <1>2 DEF Types, MovedOK, host
  <2>4. DeviceOK'
    BY <1>1, <1>2 DEF Types, DeviceOK, host
  <2> QED
    BY <2>1, <2>2, <2>3, <2>4
<1>4. HostOK'
  BY <1>1, <1>2 DEF Types, HostOK, host
<1>5. Endpoint'
  BY <1>1, <1>2 DEF Endpoint
<1> QED
  BY <1>3, <1>4, <1>5 DEF Base, Types

(* udd_ctrl_in_sent. *)
LEMMA InSentTypes == Base /\ InSent => Base'
<1> SUFFICES ASSUME Base, InSent PROVE Base'
  OBVIOUS
<1> USE ControlAssumption
<1>1. CASE control_state = "WAIT_IN_ZLP"
  BY <1>1, EndsTypes DEF InSent
<1>2. CASE control_state # "WAIT_IN_ZLP"
  <2> DEFINE all   == payload_nb_trans = payload_size
             total == prev_payload_nb_trans + payload_nb_trans
  <2>1. Types /\ Endpoint
    BY DEF Base
  <2>2. /\ in_tc /\ in_tc' = FALSE
        /\ underflow' \in BOOLEAN /\ overflow' \in BOOLEAN
        /\ prev_payload_nb_trans' = (IF all THEN total ELSE prev_payload_nb_trans)
        /\ IF all /\ DataSent(total)
             THEN SendZlpOut /\ UNCHANGED <<payload_nb_trans, b_shortpacket, in_nack>>
             ELSE NextPacket(payload_size, payload_nb_trans)
                  /\ UNCHANGED <<control_state, out_nack>>
        /\ UNCHANGED <<req, callback, payload_size, setup, out_tc, address,
                       num_configuration, line_coding, host, accepted>>
    BY <1>2 DEF InSent, AskedMeanwhile, job, device
  <2>3. /\ control_state \in {"DATA_IN", "DATA_OUT", "WAIT_OUT_ZLP"}
        /\ payload_nb_trans <= payload_size
    BY <1>2, <2>1, <2>2 DEF Types, DeviceOK, Endpoint
  <2>4. /\ payload_size \in 0 .. Descriptor
        /\ payload_nb_trans \in 0 .. payload_size
        /\ prev_payload_nb_trans' \in Nat
    BY <2>1, <2>2, <2>3 DEF Types, JobOK, MovedOK
  <2>5. JobOK' /\ HostOK'
    BY <2>1, <2>2 DEF Types, JobOK, HostOK, host
  <2>6. CASE all /\ DataSent(total)
    <3>1. /\ control_state' = "WAIT_OUT_ZLP" /\ out_nack' = FALSE
          /\ UNCHANGED <<in_from, in_cnt, stall, payload_nb_trans, b_shortpacket,
                         in_nack>>
      BY <2>2, <2>6 DEF SendZlpOut, packet
    <3>2. FlagsOK' /\ MovedOK' /\ DeviceOK'
      BY <2>1, <2>2, <2>4, <3>1 DEF Types, FlagsOK, MovedOK, DeviceOK, host
    <3>3. Endpoint'
      BY <2>1, <2>2, <2>3, <3>1 DEF Endpoint
    <3> QED
      BY <2>5, <3>2, <3>3 DEF Base, Types
  <2>7. CASE ~(all /\ DataSent(total))
    <3>1. /\ NextPacket(payload_size, payload_nb_trans)
          /\ UNCHANGED <<control_state, out_nack>>
      BY <2>2, <2>7
    <3>2. /\ in_from' = payload_nb_trans /\ in_cnt' \in 0 .. CtrlSize
          /\ payload_nb_trans' = in_from' + in_cnt'
          /\ payload_nb_trans' \in payload_nb_trans .. payload_size
          /\ b_shortpacket' \in BOOLEAN /\ in_nack' = FALSE /\ UNCHANGED stall
          /\ payload_nb_trans' \in 0 .. Descriptor
          /\ in_from' \in 0 .. Descriptor
          /\ payload_nb_trans' <= payload_size
      BY <2>4, <3>1, NextPacketFacts, Zenon
    <3>3. FlagsOK' /\ MovedOK' /\ DeviceOK'
      <4>1. FlagsOK'
        BY <2>1, <2>2, <2>4, <3>1, <3>2 DEF Types, FlagsOK, host
      <4>2. MovedOK'
        BY <2>4, <3>2 DEF MovedOK
      <4>3. DeviceOK'
        BY <2>1, <2>2, <2>4, <3>1, <3>2 DEF Types, DeviceOK, host
      <4> QED
        BY <4>1, <4>2, <4>3
    <3>4. Endpoint'
      <4>1. payload_nb_trans' \in 0 .. Descriptor /\ payload_nb_trans' = in_from' + in_cnt'
        BY <3>2
      <4>2. in_from' + in_cnt' <= Descriptor
        BY <4>1
      <4>3. payload_nb_trans' <= payload_size'
        BY <2>2, <3>2
      <4> QED
        BY <2>1, <2>2, <2>3, <3>1, <4>2, <4>3 DEF Endpoint
    <3> QED
      BY <2>5, <3>3, <3>4 DEF Base, Types
  <2> QED
    BY <2>6, <2>7
<1> QED
  BY <1>1, <1>2

(* udd_ctrl_out_received. *)
LEMMA OutReceivedTypes == Base /\ OutReceived => Base'
<1> SUFFICES ASSUME Base, OutReceived PROVE Base'
  OBVIOUS
<1> USE ControlAssumption
<1>1. CASE control_state = "WAIT_OUT_ZLP"
  BY <1>1, EndsTypes DEF OutReceived
<1>2. CASE control_state # "WAIT_OUT_ZLP"
  <2>1. Types /\ Endpoint
    BY DEF Base
  <2>2. /\ out_tc' = FALSE
        /\ underflow' \in BOOLEAN /\ overflow' \in BOOLEAN
        /\ line_coding' \in Stored
        /\ payload_nb_trans' = (IF control_state = "DATA_OUT" THEN 1
                                ELSE payload_nb_trans)
        /\ payload_size' = payload_nb_trans'
        /\ control_state' = "WAIT_IN_ZLP" /\ in_cnt' = 0 /\ in_nack' = FALSE
        /\ UNCHANGED <<in_from, stall, req, callback, prev_payload_nb_trans,
                       b_shortpacket, setup, in_tc, out_nack, address,
                       num_configuration, host, accepted>>
    BY <1>2 DEF OutReceived, AskedMeanwhile, SendZlpIn
  <2>3. line_coding' \in Codings
    <3>1. control_state = "DATA_OUT" => req.value \in Codings
      BY <2>1, RequestFacts DEF Types, JobOK, Endpoint, NoRequest, Request
    <3> QED
      BY <2>1, <2>2, <3>1 DEF Stored, Types, DeviceOK
  <2>4. payload_nb_trans' \in 0 .. Descriptor
    BY <2>1, <2>2 DEF Types, MovedOK
  <2>5. FlagsOK' /\ JobOK' /\ MovedOK' /\ DeviceOK'
    <3>1. FlagsOK'
      BY <2>1, <2>2, <2>3, <2>4 DEF Types, FlagsOK, host
    <3>2. JobOK'
      BY <2>1, <2>2, <2>3, <2>4 DEF Types, JobOK, host
    <3>3. MovedOK'
      BY <2>1, <2>2, <2>3, <2>4 DEF Types, MovedOK, host
    <3>4. DeviceOK'
      BY <2>1, <2>2, <2>3, <2>4 DEF Types, DeviceOK, host
    <3> QED
      BY <3>1, <3>2, <3>3, <3>4
  <2>6. HostOK'
    BY <2>1, <2>2 DEF Types, HostOK, host
  <2>7. Endpoint'
    BY <2>1, <2>2 DEF Endpoint, Types, MovedOK
  <2> QED
    BY <2>5, <2>6, <2>7 DEF Base, Types
<1> QED
  BY <1>1, <1>2

(* udd_ctrl_underflow and udd_ctrl_overflow. *)
LEMMA BusEventTypes == Base /\ (Underflow \/ Overflow) => Base'
<1> SUFFICES ASSUME Base, Underflow \/ Overflow PROVE Base'
  OBVIOUS
<1> USE ControlAssumption
<1>1. Types /\ Endpoint
  BY DEF Base
<1>2. CASE ~PacketWaits /\ setup
  BY <1>2, SetupTypes DEF Underflow, Overflow, BusEvent
<1>3. CASE PacketWaits \/ ~setup
  <2>1. /\ underflow' \in BOOLEAN /\ overflow' \in BOOLEAN
        /\ UNCHANGED <<req, callback, payload_size, moved, setup, in_tc, out_tc,
                       address, num_configuration, line_coding, host, accepted>>
    BY <1>1, <1>3 DEF Underflow, Overflow, BusEvent, job, device, Types, FlagsOK
  <2>2. \/ UNCHANGED <<control_state, in_from, in_cnt, in_nack, out_nack, stall>>
        \/ /\ control_state \in {"DATA_OUT", "DATA_IN", "WAIT_IN_ZLP", "WAIT_OUT_ZLP"}
           /\ \/ SendZlpIn /\ UNCHANGED out_nack
              \/ SendZlpOut /\ UNCHANGED in_nack /\ control_state = "DATA_IN"
              \/ StallBoth
    <3>1. \/ UNCHANGED <<control_state, answer>> \/ UnderflowAlone \/ OverflowAlone
      BY <1>3 DEF Underflow, Overflow, BusEvent
    <3> QED
      BY <3>1 DEF UnderflowAlone, OverflowAlone, Refused, answer, packet
  <2>3. /\ UNCHANGED in_from
        /\ \/ UNCHANGED <<control_state, in_cnt, in_nack>>
           \/ control_state' = "WAIT_IN_ZLP" /\ in_cnt' = 0 /\ in_nack' = FALSE
           \/ /\ control_state' = "WAIT_OUT_ZLP" /\ control_state = "DATA_IN"
              /\ UNCHANGED <<in_cnt, in_nack>>
        /\ out_nack' \in {out_nack, FALSE} /\ stall' \in {stall, TRUE}
    BY <2>2 DEF SendZlpIn, SendZlpOut, StallBoth, packet
  <2>4. FlagsOK' /\ JobOK' /\ MovedOK' /\ DeviceOK'
    <3>1. FlagsOK'
      BY <1>1, <2>1, <2>3 DEF Types, FlagsOK, moved, host
    <3>2. JobOK'
      BY <1>1, <2>1, <2>3 DEF Types, JobOK, moved, host
    <3>3. MovedOK'
      BY <1>1, <2>1, <2>3 DEF Types, MovedOK, moved, host
    <3>4. DeviceOK'
      BY <1>1, <2>1, <2>3 DEF Types, DeviceOK, moved, host
    <3> QED
      BY <3>1, <3>2, <3>3, <3>4
  <2>5. HostOK'
    BY <1>1, <2>1 DEF Types, HostOK, host
  <2>6. Endpoint'
    BY <1>1, <2>1, <2>3 DEF Endpoint, moved, Types, MovedOK
  <2> QED
    BY <2>4, <2>5, <2>6 DEF Base, Types
<1> QED
  BY <1>2, <1>3

(* A SETUP packet, whatever it overtakes. *)
LEMMA HostSetupTypes == Base /\ HostSetup => Base'
<1> SUFFICES ASSUME Base, HostSetup PROVE Base'
  OBVIOUS
<1> USE ControlAssumption
<1>1. Types /\ Endpoint
  BY DEF Base
<1>2. /\ hreq' \in Requests /\ hstage' \in {"data", "status"}
      /\ in_tc' \in BOOLEAN /\ (in_tc' => in_tc) /\ out_tc' \in BOOLEAN
      /\ setup' = TRUE
      /\ in_nack' = TRUE /\ out_nack' = TRUE /\ stall' = FALSE
      /\ reply' = <<>> /\ sent' = FALSE /\ early' = FALSE
      /\ requests < MaxRequests /\ requests' = requests + 1
      /\ UNCHANGED <<control_state, req, callback, payload_size, payload_nb_trans,
                     prev_payload_nb_trans, b_shortpacket, in_from, in_cnt,
                     underflow, overflow, address, num_configuration, line_coding,
                     at, accepted>>
  <2>1. in_tc' \in BOOLEAN /\ (in_tc' => in_tc) /\ out_tc' \in BOOLEAN
    <3>1. PICK hide \in BOOLEAN : in_tc' = (in_tc /\ ~hide) /\ out_tc' = (out_tc /\ ~hide)
      BY DEF HostSetup
    <3> QED
      BY <3>1
  <2>2. hreq' \in Requests /\ hstage' \in {"data", "status"}
    BY DEF HostSetup
  <2> QED
    BY <2>1, <2>2 DEF HostSetup, job, moved, packet, device
<1>3. overtaken' \in BOOLEAN
  BY DEF HostSetup, OnlyStatusLeft
<1>4. FlagsOK' /\ JobOK' /\ MovedOK' /\ DeviceOK'
  BY <1>1, <1>2, <1>3 DEF Types, FlagsOK, JobOK, MovedOK, DeviceOK
<1>5. HostOK'
  <2>1. reply' \in Seq(1 .. Descriptor)
    BY <1>2, EmptySeq
  <2> QED
    BY <1>1, <1>2, <2>1 DEF Types, HostOK
<1>6. Endpoint'
  BY <1>1, <1>2 DEF Endpoint
<1> QED
  BY <1>4, <1>5, <1>6 DEF Base, Types

(* The host takes only units of a payload. *)
LEMMA HostInTypes == Base /\ HostIn => Base'
<1> SUFFICES ASSUME Base, HostIn PROVE Base'
  OBVIOUS
<1> USE ControlAssumption
<1>1. Types /\ Endpoint
  BY DEF Base
<1>2. /\ ~in_nack /\ in_nack' = TRUE /\ in_tc' = TRUE
      /\ UNCHANGED <<control_state, req, callback, payload_size, payload_nb_trans,
                     prev_payload_nb_trans, b_shortpacket, setup, out_tc, underflow,
                     overflow, out_nack, stall, in_from, in_cnt, address,
                     num_configuration, line_coding, hreq, sent, early, requests,
                     overtaken, accepted>>
  BY DEF HostIn, job, moved, packet, device
<1>3. hstage' \in {"done", "data", "status"} /\ at' \in Addresses \cup {0}
  <2>1. hreq.kind = "set_address" => hreq.value \in Addresses
    BY <1>1, RequestFacts DEF Types, HostOK, NoRequest, Request
  <2> QED
    BY <1>1, <2>1 DEF HostIn, Types, HostOK
<1>4. reply' \in Seq(1 .. Descriptor)
  <2>1. PICK n \in Nat : n = in_from
    BY <1>1 DEF Types, MovedOK
  <2>2. PICK k \in Nat : k = in_cnt
    BY <1>1 DEF Types, MovedOK
  <2>3. n + k <= Descriptor /\ reply \in Seq(1 .. Descriptor)
    BY <1>1, <2>1, <2>2 DEF Types, HostOK, Endpoint
  <2> DEFINE got == [i \in 1 .. k |-> n + i]
  <2>4. got \in Seq(1 .. Descriptor)
    <3>1. \A i \in 1 .. k : n + i \in 1 .. Descriptor
      BY <2>3
    <3>2. [i \in 1 .. k |-> n + i] \in [1 .. k -> 1 .. Descriptor]
      BY <3>1
    <3> QED
      BY <3>2, SeqDef
  <2>5. reply' \in {reply, reply \o got}
    BY <2>1, <2>2 DEF HostIn
  <2> HIDE DEF got
  <2>6. reply \o got \in Seq(1 .. Descriptor)
    BY <2>3, <2>4, ConcatProperties
  <2> QED
    BY <2>3, <2>5, <2>6
<1>5. FlagsOK' /\ JobOK' /\ MovedOK' /\ DeviceOK'
  BY <1>1, <1>2 DEF Types, FlagsOK, JobOK, MovedOK, DeviceOK
<1>6. HostOK'
  BY <1>1, <1>2, <1>3, <1>4 DEF Types, HostOK
<1>7. Endpoint'
  BY <1>1, <1>2 DEF Endpoint
<1> QED
  BY <1>5, <1>6, <1>7 DEF Base, Types

(* The host's other packets and tokens. *)
LEMMA HostOutTypes ==
  Base /\ (HostOut \/ HostNaked \/ HostStalled \/ HostEndsEarly) => Base'
<1> SUFFICES ASSUME Base, HostOut \/ HostNaked \/ HostStalled \/ HostEndsEarly
             PROVE  Base'
  OBVIOUS
<1> USE ControlAssumption
<1>1. Types /\ Endpoint
  BY DEF Base
<1>2. /\ UNCHANGED <<control_state, req, callback, payload_size, payload_nb_trans,
                     prev_payload_nb_trans, b_shortpacket, setup, in_tc, in_nack,
                     stall, in_from, in_cnt, address, num_configuration,
                     line_coding, hreq, reply, at, requests, overtaken, accepted>>
      /\ out_nack' \in BOOLEAN /\ out_tc' \in BOOLEAN
      /\ underflow' \in BOOLEAN /\ overflow' \in BOOLEAN
      /\ sent' \in BOOLEAN /\ early' \in BOOLEAN
      /\ hstage' \in {"none", "data", "status", "done", "stalled"}
  <2>1. CASE HostOut
    BY <1>1, <2>1 DEF HostOut, job, moved, packet, device, Types, FlagsOK, HostOK
  <2>2. CASE HostNaked
    BY <1>1, <2>2 DEF HostNaked, job, moved, answer, packet, device, host, Types,
       FlagsOK, HostOK
  <2>3. CASE HostStalled
    BY <1>1, <2>3 DEF HostStalled, job, moved, events, answer, packet, device, Types,
       FlagsOK, HostOK
  <2>4. CASE HostEndsEarly
    BY <1>1, <2>4 DEF HostEndsEarly, job, moved, events, answer, packet, device,
       Types, FlagsOK, HostOK
  <2> QED
    BY <2>1, <2>2, <2>3, <2>4
<1>3. FlagsOK' /\ JobOK' /\ MovedOK' /\ DeviceOK'
  BY <1>1, <1>2 DEF Types, FlagsOK, JobOK, MovedOK, DeviceOK
<1>4. HostOK'
  BY <1>1, <1>2 DEF Types, HostOK
<1>5. Endpoint'
  BY <1>1, <1>2 DEF Endpoint
<1> QED
  BY <1>3, <1>4, <1>5 DEF Base, Types

(* A reset of the bus. *)
LEMMA BusResetTypes == Base /\ BusReset => Base'
<1> SUFFICES ASSUME Base, BusReset PROVE Base'
  OBVIOUS
<1> USE ControlAssumption
<1>1. Types /\ Endpoint
  BY DEF Base
<1>2. /\ ~setup /\ ~in_tc /\ ~out_tc
      /\ requests < MaxRequests /\ requests' = requests + 1
      /\ address' = 0 /\ num_configuration' = 0 /\ control_state' = "SETUP"
      /\ in_nack' = TRUE /\ out_nack' = TRUE /\ stall' = FALSE
      /\ underflow' = FALSE /\ overflow' = FALSE
      /\ callback' = "NULL" /\ payload_size' = 0
      /\ hreq' = NoRequest /\ hstage' = "none" /\ reply' = <<>>
      /\ sent' = FALSE /\ early' = FALSE /\ at' = 0 /\ overtaken' = FALSE
      /\ UNCHANGED <<req, payload_nb_trans, prev_payload_nb_trans, b_shortpacket,
                     setup, in_tc, out_tc, in_from, in_cnt, line_coding, accepted>>
  BY DEF BusReset, moved, packet
<1>3. FlagsOK' /\ JobOK' /\ MovedOK' /\ DeviceOK'
  <2>1. FlagsOK'
    BY <1>1, <1>2 DEF Types, FlagsOK
  <2>2. JobOK'
    BY <1>1, <1>2 DEF Types, JobOK
  <2>3. MovedOK'
    BY <1>1, <1>2 DEF Types, MovedOK
  <2>4. DeviceOK'
    BY <1>1, <1>2 DEF Types, DeviceOK
  <2> QED
    BY <2>1, <2>2, <2>3, <2>4
<1>4. HostOK'
  <2>1. reply' \in Seq(1 .. Descriptor)
    BY <1>2, EmptySeq
  <2> QED
    BY <1>1, <1>2, <2>1 DEF Types, HostOK
<1>5. Endpoint'
  BY <1>1, <1>2 DEF Endpoint
<1> QED
  BY <1>3, <1>4, <1>5 DEF Base, Types

(* So does every step. *)
LEMMA BaseStep == Base /\ [Next]_vars => Base'
<1> SUFFICES ASSUME Base, [Next]_vars PROVE Base'
  OBVIOUS
<1>1. CASE UNCHANGED vars
  <2>1. UNCHANGED <<control_state, job, moved, events, answer, device, host, accepted>>
    BY <1>1 DEF vars
  <2>2. FlagsOK' /\ JobOK' /\ MovedOK' /\ DeviceOK' /\ HostOK' /\ Endpoint'
    BY <2>1 DEF Base, Types, FlagsOK, JobOK, MovedOK, DeviceOK, HostOK, Endpoint,
       job, moved, events, answer, packet, device, host
  <2> QED
    BY <2>2 DEF Base, Types
<1>2. CASE Next
  BY <1>2, SetupTypes, InSentTypes, OutReceivedTypes, BusEventTypes, HostSetupTypes,
     HostInTypes, HostOutTypes, BusResetTypes
  DEF Next, TransferComplete, Setup, Token
<1> QED
  BY <1>1, <1>2

-----------------------------------------------------------------------------
(* The start and the end of a request *)

(* udd_ctrl_setup_received keeps the invariant where no packet waits, from    *)
(* either interrupt: no address was still to become valid.                  *)
LEMMA SetupKeeps ==
  Types /\ InStep /\ setup /\ ~in_tc /\ ~out_tc /\ SetupReceived => InStep'
<1> SUFFICES ASSUME Types, InStep, setup, ~in_tc, ~out_tc, SetupReceived
             PROVE  InStep'
  OBVIOUS
<1> USE ControlAssumption
<1>1. Types /\ Counts /\ Waiting /\ ~Valid /\ address = at
  BY DEF InStep, Transfer, Address
<1>2. hreq \in Requests
  BY <1>1 DEF Waiting
<1>3. AddressAtSetup = address
  BY <1>1 DEF AddressAtSetup, AddressEnded, Valid
<1>4. /\ setup' = FALSE /\ in_tc' = FALSE /\ out_tc' = FALSE
      /\ underflow' => InStage
      /\ overflow' => OutStage
      /\ req' = hreq /\ address' = address /\ UNCHANGED host
      /\ accepted' \in BOOLEAN
  BY <1>2, <1>3, SetupCases
<1>5. Counts'
  BY <1>1, <1>4 DEF Counts, host
<1>6. CASE ~accepted'
  <2>1. control_state' = "STALL_REQ" /\ stall' = TRUE /\ callback' = "NULL"
    BY <1>2, <1>6, SetupCases
  <2>3. Transfer'
    <3>1. IsIn(hreq) /\ hstage = "status" => early
      BY <1>1, <1>2, RequestFacts DEF Waiting
    <3> QED
      BY <1>1, <1>2, <1>4, <1>6, <2>1, <3>1
      DEF Transfer, Waiting, Handled, Stalls, host, IsIn
  <2>4. Address'
    BY <1>1, <1>4, <2>1 DEF Address, Valid, host
  <2> QED
    BY <1>5, <2>3, <2>4 DEF InStep
<1>7. CASE accepted'
  <2>1. /\ payload_size' = PayloadSize(hreq) /\ callback' = Callback(hreq)
        /\ Supported(hreq, address)
    BY <1>2, <1>3, <1>7, SetupCases
  <2>4. CASE IsIn(hreq)
    <3> DEFINE whole == PayloadSize(hreq)
    <3>1. /\ control_state' = "DATA_IN" /\ NextPacket(whole, 0)
          /\ prev_payload_nb_trans' = 0 /\ UNCHANGED out_nack
      BY <1>2, <1>7, <2>4, SetupCases
    <3>2. whole \in 1 .. Descriptor /\ whole <= hreq.length /\ whole - 0 = whole
      BY <1>2, <2>4, PayloadFacts
    <3>3. Part(whole) \in 0 .. CtrlSize /\ Part(whole) <= whole
      BY <3>2, PartFacts
    <3>4. /\ in_from' = 0 /\ in_cnt' = Part(whole) /\ in_nack' = FALSE
          /\ payload_nb_trans' = Part(whole)
          /\ b_shortpacket' \in BOOLEAN /\ (b_shortpacket' <=> Part(whole) < CtrlSize)
          /\ UNCHANGED stall
      <4>1. whole \in 0 .. Descriptor /\ 0 \in 0 .. whole
        BY <3>2
      <4> HIDE DEF whole
      <4>2. NextPacket(whole, 0)
        BY <3>1
      <4>3. /\ in_from' = 0 /\ in_cnt' = Part(whole - 0) /\ in_nack' = FALSE
            /\ payload_nb_trans' = in_from' + in_cnt'
            /\ b_shortpacket' \in BOOLEAN /\ (b_shortpacket' <=> in_cnt' < CtrlSize)
            /\ UNCHANGED stall
        BY <4>1, <4>2, NextPacketFacts
      <4>4. in_cnt' = Part(whole) /\ payload_nb_trans' = Part(whole)
        BY <3>2, <3>3, <4>3
      <4> QED
        BY <4>3, <4>4
    <3>6. Len(reply) = 0
      BY <1>1 DEF Waiting
    <3>7. hstage = "status" \/ (hstage = "data" /\ ~early)
      BY <1>1, <1>2, <2>4, RequestFacts DEF Waiting
    <3>8. hstage = "status" => early
      BY <1>1, <1>2, <2>4, RequestFacts DEF Waiting
    <3>9. Packet'
      BY <1>1, <1>4, <2>1, <2>4, <3>1, <3>2, <3>3, <3>4, <3>6, <3>7
      DEF Packet, host, Waiting, OutStage, InStage
    <3>10. hreq.kind = "status" => hreq.length = 1
      BY <2>1 DEF Supported
    <3>11. Reads'
      BY <1>4, <3>1, <3>2, <3>4, <3>6, <3>7, <3>8, <3>9, <3>10 DEF Reads, host
    <3>12. Transfer'
      BY <1>1, <1>2, <1>4, <1>7, <2>4, <3>1, <3>4, <3>7, <3>11
      DEF Transfer, Handled, Waiting, host, IsIn
    <3>13. Address'
      BY <1>1, <1>2, <1>4, <2>1, <2>4, <3>1, RequestFacts
      DEF Address, Valid, Callback, host
    <3> QED
      BY <1>5, <3>12, <3>13 DEF InStep
  <2>5. CASE ~IsIn(hreq) /\ hreq.length = 0
    <3>1. /\ control_state' = "WAIT_IN_ZLP" /\ in_cnt' = 0 /\ in_nack' = FALSE
          /\ UNCHANGED <<in_from, stall, moved, out_nack>>
      BY <1>2, <1>7, <2>5, SetupCases
    <3>3. hstage = "status" /\ reply = <<>>
      BY <1>1, <2>5 DEF Waiting
    <3>4. ~overflow'
      BY <1>4, <2>5, <3>3 DEF OutStage, InStage
    <3>5. Writes'
      BY <1>1, <1>2, <1>4, <2>5, <3>1, <3>3, <3>4, RequestFacts DEF Writes, host
    <3>6. Transfer'
      BY <1>1, <1>2, <1>4, <1>7, <2>5, <3>1, <3>3, <3>5
      DEF Transfer, Handled, Waiting, host, IsIn
    <3>7. Address'
      BY <1>1, <1>2, <1>4, <1>7, <2>1, <2>5, <3>1, <3>3, RequestFacts
      DEF Address, Valid, Callback, host
    <3> QED
      BY <1>5, <3>6, <3>7 DEF InStep
  <2>6. CASE ~IsIn(hreq) /\ hreq.length # 0
    <3>1. /\ control_state' = "DATA_OUT" /\ in_nack' = TRUE /\ out_nack' = FALSE
          /\ payload_nb_trans' = 0 /\ prev_payload_nb_trans' = 0
          /\ UNCHANGED <<b_shortpacket, stall, packet>>
      BY <1>2, <1>7, <2>6, SetupCases
    <3>3. /\ hstage = "data" /\ reply = <<>> /\ ~sent
          /\ hreq.kind = "set_line_coding"
      BY <1>1, <1>2, <2>6, RequestFacts DEF Waiting
    <3>4. ~underflow'
      BY <1>4, <2>6, <3>3 DEF InStage
    <3>5. Writes'
      BY <1>1, <1>4, <3>1, <3>3, <3>4 DEF Writes, Waiting, host
    <3>6. Transfer'
      BY <1>1, <1>2, <1>4, <1>7, <2>6, <3>1, <3>3, <3>5
      DEF Transfer, Handled, Waiting, host, IsIn
    <3>7. Address'
      BY <1>1, <1>4, <2>1, <3>1, <3>3 DEF Address, Valid, Callback, host
    <3> QED
      BY <1>5, <3>6, <3>7 DEF InStep
  <2> QED
    BY <2>4, <2>5, <2>6
<1> QED
  BY <1>6, <1>7

(* udd_ctrl_endofrequest and udd_ctrl_init keep the invariant where the       *)
(* packet that ends a request was sent or received: only here does an        *)
(* address become valid, and it is that of the host.                        *)
LEMMA EndsKeeps ==
  ASSUME Types, InStep, Ends,
         \/ in_tc /\ control_state = "WAIT_IN_ZLP"
         \/ out_tc /\ control_state = "WAIT_OUT_ZLP"
  PROVE  InStep'
<1> USE ControlAssumption
<1>1. Types /\ Counts /\ Transfer /\ Address
  BY DEF InStep
<1>2. /\ control_state' = "SETUP" /\ in_nack' = TRUE
      /\ in_tc' = FALSE /\ out_tc' = FALSE
      /\ underflow' = FALSE /\ overflow' = FALSE
      /\ callback' = "NULL" /\ payload_size' = 0 /\ address' = AddressEnded
      /\ UNCHANGED <<req, moved, setup, out_nack, stall, packet,
                     num_configuration, line_coding, host, accepted>>
  BY DEF Ends
<1>3. ~setup => hstage = "done" /\ Handled /\ accepted
  BY <1>1 DEF Transfer, Quiet, Handled, Stalls, Reads, Writes
<1>4. AddressEnded = at
  <2>1. CASE Valid
    BY <1>1, <1>3, <2>1 DEF Address, AddressEnded, Valid
  <2>2. CASE ~Valid
    BY <1>1, <2>2 DEF Address, AddressEnded, Valid
  <2> QED
    BY <2>1, <2>2
<1>6. Counts'
  BY <1>1, <1>2 DEF Counts, host
<1>7. Transfer'
  <2>1. CASE setup
    BY <1>1, <1>2, <2>1 DEF Transfer, Waiting, host, IsIn
  <2>2. CASE ~setup
    <3>1. IsIn(hreq) => Reads'
      BY <1>2, <1>3, <2>2 DEF Handled, Reads, host, PayloadSize, DescriptorPart
    <3>2. ~IsIn(hreq) => Writes'
      BY <1>2, <1>3, <2>2 DEF Handled, Writes, host, DescriptorPart
    <3> QED
      BY <1>2, <1>3, <2>2, <3>1, <3>2 DEF Transfer, Handled, host, IsIn
  <2> QED
    BY <2>1, <2>2
<1>8. Address'
  BY <1>2, <1>4 DEF Address, Valid, host
<1> QED
  BY <1>6, <1>7, <1>8 DEF InStep

-----------------------------------------------------------------------------
(* Transfers complete *)

(* Where a packet was received or sent in a request that is not at its end,  *)
(* the request is handled and accepted.                                    *)
LEMMA InProgress ==
  Types /\ InStep /\ ((in_tc /\ control_state # "WAIT_IN_ZLP")
             \/ (out_tc /\ control_state # "WAIT_OUT_ZLP")) =>
    /\ ~setup /\ hreq \in Requests /\ req = hreq /\ accepted /\ ~stall /\ ~Valid
    /\ in_tc => IsIn(hreq) /\ Reads /\ control_state = "DATA_IN" /\ Packet
    /\ out_tc => ~IsIn(hreq) /\ Writes /\ control_state = "DATA_OUT"
  BY DEF InStep, Transfer, Waiting, Quiet, Handled, Stalls, Reads, Writes, Packet,
         Address

(* udd_ctrl_in_sent keeps the invariant: the next packet continues the        *)
(* payload, and the status stage comes when the host expects it.            *)
LEMMA InSentKeeps == Types /\ InStep /\ InSent => InStep'
<1> SUFFICES ASSUME Types, InStep, InSent PROVE InStep'
  OBVIOUS
<1> USE ControlAssumption
<1>1. Types /\ Counts /\ Transfer /\ Address
  BY DEF InStep
<1>2. CASE control_state = "WAIT_IN_ZLP"
  BY <1>2, EndsKeeps DEF InSent
<1>3. CASE control_state # "WAIT_IN_ZLP"
  <2>1. /\ ~setup /\ hreq \in Requests /\ req = hreq /\ accepted /\ ~stall
        /\ ~Valid /\ in_tc
        /\ IsIn(hreq) /\ Reads /\ control_state = "DATA_IN" /\ Packet
    BY <1>3, InProgress DEF InSent
  <2> DEFINE whole == PayloadSize(hreq)
             all   == payload_nb_trans = payload_size
             total == prev_payload_nb_trans + payload_nb_trans
  <2>2. /\ whole \in Nat /\ whole \in 1 .. Descriptor
        /\ whole <= hreq.length /\ hreq.length \in Nat
    BY <2>1, PayloadFacts, RequestFacts
  <2>4. /\ payload_size = whole /\ in_from \in 0 .. whole
        /\ in_cnt = Part(whole - in_from)
        /\ payload_nb_trans = in_from + in_cnt
        /\ prev_payload_nb_trans = (IF in_from = whole THEN whole ELSE 0)
        /\ b_shortpacket <=> in_cnt < CtrlSize
        /\ out_nack /\ ~out_tc /\ hstage \in {"data", "status"}
        /\ ~early => Len(reply) = payload_nb_trans
        /\ hstage = "data" => in_cnt = CtrlSize /\ payload_nb_trans < hreq.length
    BY <2>1 DEF Packet
  <2>5. /\ in_cnt \in 0 .. CtrlSize /\ payload_nb_trans \in 0 .. whole
        /\ in_cnt < CtrlSize => payload_nb_trans = whole
        /\ in_from = whole => in_cnt = 0
    BY <2>2, <2>4, PacketFacts
  <2>7. in_from = whole => all /\ DataSent(total)
    BY <2>4, <2>5 DEF DataSent
  <2>8. /\ in_tc' = FALSE
        /\ underflow' \in BOOLEAN /\ overflow' \in BOOLEAN
        /\ underflow' => InStage
        /\ overflow' => OutStage
        /\ prev_payload_nb_trans' = (IF all THEN total ELSE prev_payload_nb_trans)
        /\ IF all /\ DataSent(total)
             THEN SendZlpOut /\ UNCHANGED <<payload_nb_trans, b_shortpacket, in_nack>>
             ELSE NextPacket(payload_size, payload_nb_trans)
                  /\ UNCHANGED <<control_state, out_nack>>
        /\ UNCHANGED <<job, setup, out_tc, device, host, accepted>>
    BY <1>3 DEF InSent, AskedMeanwhile
  <2>9. Counts'
    BY <1>1, <2>8 DEF Counts, host
  <2>10. Address'
    BY <1>1, <2>1, <2>8 DEF Address, Valid, job, device, host, IsIn
  <2>11. CASE all /\ DataSent(total)
    <3>1. /\ control_state' = "WAIT_OUT_ZLP" /\ out_nack' = FALSE
          /\ UNCHANGED <<in_from, in_cnt, stall, payload_nb_trans, b_shortpacket, in_nack>>
      BY <2>8, <2>11 DEF SendZlpOut, packet
    <3>3. hstage = "status"
      <4>1. SUFFICES ASSUME hstage = "data" PROVE FALSE
        BY <2>4
      <4>2. in_cnt = CtrlSize /\ in_from # whole /\ payload_nb_trans = whole
        BY <2>4, <2>5, <2>11, <4>1
      <4>3. total = whole /\ ~b_shortpacket
        BY <2>2, <2>4, <4>2
      <4> QED
        BY <2>1, <2>2, <2>4, <2>11, <4>1, <4>2, <4>3 DEF DataSent
    <3>5. ~underflow'
      BY <2>1, <2>8, <3>3 DEF InStage
    <3>6. Len(reply) <= whole /\ (~early => Len(reply) = whole)
      BY <2>1, <2>4, <2>11 DEF Reads
    <3>7. Reads'
      BY <2>1, <2>4, <2>8, <3>1, <3>3, <3>5, <3>6 DEF Reads, host
    <3>8. Transfer'
      BY <2>1, <2>8, <3>1, <3>3, <3>7 DEF Transfer, Handled, host, job, IsIn
    <3> QED
      BY <2>9, <2>10, <3>8 DEF InStep
  <2>12. CASE ~(all /\ DataSent(total))
    <3> DEFINE done == payload_nb_trans
    <3>1. NextPacket(whole, done) /\ UNCHANGED <<control_state, out_nack>>
      BY <2>4, <2>8, <2>12
    <3>2. whole - done \in Nat /\ done \in 0 .. whole /\ whole \in 0 .. Descriptor
      BY <2>2, <2>5
    <3>3. Part(whole - done) \in 0 .. CtrlSize /\ Part(whole - done) <= whole - done
      BY <3>2, PartFacts
    <3>4. /\ control_state' = "DATA_IN" /\ in_nack' = FALSE
          /\ in_from' = done /\ in_cnt' = Part(whole - done)
          /\ payload_nb_trans' = done + Part(whole - done)
          /\ b_shortpacket' \in BOOLEAN
          /\ b_shortpacket' <=> Part(whole - done) < CtrlSize
          /\ UNCHANGED <<stall, out_nack>>
      <4> HIDE DEF whole, done
      <4> QED
        BY <2>1, <3>1, <3>2, NextPacketFacts
    <3>5. in_from # whole
      BY <2>7, <2>12
    <3>6. prev_payload_nb_trans' = (IF done = whole THEN whole ELSE 0)
      BY <2>2, <2>4, <2>5, <2>8, <3>5
    <3>8. Packet'
      BY <2>1, <2>4, <2>8, <3>2, <3>3, <3>4, <3>6 DEF Packet, host, job, OutStage, InStage
    <3>9. Reads'
      BY <2>1, <2>4, <2>8, <3>4, <3>8 DEF Reads, host
    <3>10. Transfer'
      BY <2>1, <2>4, <2>8, <3>4, <3>9 DEF Transfer, Handled, host, job, IsIn
    <3> QED
      BY <2>9, <2>10, <3>10 DEF InStep
  <2> QED
    BY <2>11, <2>12
<1> QED
  BY <1>2, <1>3

(* udd_ctrl_out_received keeps the invariant: the line coding that it stores  *)
(* is that of the host's request.                                          *)
LEMMA OutReceivedKeeps == Types /\ InStep /\ OutReceived => InStep'
<1> SUFFICES ASSUME Types, InStep, OutReceived PROVE InStep'
  OBVIOUS
<1> USE ControlAssumption
<1>1. Types /\ Counts /\ Transfer /\ Address
  BY DEF InStep
<1>2. CASE control_state = "WAIT_OUT_ZLP"
  BY <1>2, EndsKeeps DEF OutReceived
<1>3. CASE control_state # "WAIT_OUT_ZLP"
  <2>1. /\ ~setup /\ hreq \in Requests /\ req = hreq /\ accepted /\ ~stall
        /\ ~Valid /\ out_tc
        /\ ~IsIn(hreq) /\ Writes /\ control_state = "DATA_OUT"
    BY <1>3, InProgress DEF OutReceived
  <2>2. hreq.kind = "set_line_coding" /\ ~in_tc /\ hstage = "status"
    BY <2>1 DEF Writes
  <2>3. /\ out_tc' = FALSE
        /\ underflow' \in BOOLEAN /\ overflow' \in BOOLEAN
        /\ overflow' => OutStage
        /\ line_coding' = hreq.value
        /\ payload_nb_trans' = 1 /\ payload_size' = 1
        /\ control_state' = "WAIT_IN_ZLP" /\ in_cnt' = 0 /\ in_nack' = FALSE
        /\ UNCHANGED <<in_from, stall, req, callback, prev_payload_nb_trans,
                       b_shortpacket, setup, in_tc, out_nack, address,
                       num_configuration, host, accepted>>
    BY <1>3, <2>1 DEF OutReceived, AskedMeanwhile, SendZlpIn, Stored
  <2>5. Counts'
    BY <1>1, <2>3 DEF Counts, host
  <2>6. ~overflow'
    BY <2>1, <2>2, <2>3 DEF OutStage, InStage
  <2>7. Writes'
    BY <2>1, <2>2, <2>3, <2>6 DEF Writes, host
  <2>8. Transfer'
    BY <2>1, <2>2, <2>3, <2>7 DEF Transfer, Handled, host, IsIn
  <2>9. Address'
    BY <1>1, <2>1, <2>2, <2>3 DEF Address, Valid, host
  <2> QED
    BY <2>5, <2>8, <2>9 DEF InStep
<1> QED
  BY <1>2, <1>3

-----------------------------------------------------------------------------
(* Underflow and overflow *)

(* An event that is ignored, or raised by the host in a stage where it sends  *)
(* such packets, keeps the invariant.                                      *)
LEMMA EventKeeps ==
  ASSUME Types, InStep,
         UNCHANGED <<control_state, job, moved, setup, in_tc, out_tc, answer,
                     device, host, accepted>>,
         underflow' \in BOOLEAN, overflow' \in BOOLEAN,
         underflow' => underflow \/ InStage,
         overflow' => overflow \/ OutStage
  PROVE  InStep'
<1>1. Types /\ Counts /\ Transfer /\ Address
  BY DEF InStep
<1>2. /\ UNCHANGED <<control_state, req, callback, payload_size, moved>>
      /\ UNCHANGED <<setup, in_tc, out_tc, in_nack, out_nack, stall, in_from, in_cnt>>
      /\ UNCHANGED <<address, num_configuration, line_coding, host, accepted>>
  BY DEF job, answer, packet, device
<1>4. Counts' /\ Address'
  BY <1>1, <1>2 DEF Counts, Address, Valid, host
<1>5. Transfer'
  <2>1. CASE setup \/ hstage = "none"
    BY <1>1, <1>2, <2>1 DEF Transfer, Waiting, Quiet, host, IsIn
  <2>2. CASE ~setup /\ hstage # "none" /\ ~accepted
    BY <1>1, <1>2, <2>2 DEF Transfer, Handled, Stalls, host
  <2>3. CASE ~setup /\ hstage # "none" /\ accepted
    <3>1. Handled
      BY <1>1, <2>3 DEF Transfer
    <3>2. CASE IsIn(hreq)
      <4>1. underflow' => underflow \/ hstage = "data"
        BY <3>2 DEF InStage
      <4>2. overflow' => overflow \/ hstage = "status"
        BY <3>2 DEF OutStage, InStage
      <4>3. Packet => Packet'
        BY <1>2, <4>2 DEF Packet, host, moved
      <4>4. Reads'
        BY <1>2, <2>3, <3>1, <3>2, <4>1, <4>3 DEF Handled, Reads, host
      <4> QED
        BY <1>2, <2>3, <3>1, <3>2, <4>4 DEF Transfer, Handled, host, IsIn
    <3>3. CASE ~IsIn(hreq)
      <4>1. underflow' => underflow \/ hstage = "status"
        BY <3>3 DEF InStage
      <4>2. overflow' => overflow \/ hstage = "data"
        BY <3>3 DEF OutStage, InStage
      <4>3. Writes'
        BY <1>2, <2>3, <3>1, <3>3, <4>1, <4>2 DEF Handled, Writes, host
      <4> QED
        BY <1>2, <2>3, <3>1, <3>3, <4>3 DEF Transfer, Handled, host, IsIn
    <3> QED
      BY <3>2, <3>3
  <2> QED
    BY <2>1, <2>2, <2>3
<1> QED
  BY <1>4, <1>5 DEF InStep

(* udd_ctrl_underflow keeps the invariant: the host asks for the status of a  *)
(* request to set something without sending its data, and gets it.          *)
LEMMA UnderflowKeeps == Types /\ InStep /\ Underflow => InStep'
<1> SUFFICES ASSUME Types, InStep, Underflow PROVE InStep'
  OBVIOUS
<1> USE ControlAssumption
<1>1. Types /\ Counts /\ Transfer /\ Address
  BY DEF InStep
<1>2. underflow /\ control_state # "SETUP"
  BY DEF Underflow, BusEvent, Enabled
<1>3. CASE PacketWaits
  <2>1. /\ UNCHANGED <<control_state, job, moved, setup, in_tc, out_tc,
                       answer, device, host, accepted>>
        /\ underflow' = FALSE /\ UNCHANGED overflow
    BY <1>3 DEF Underflow, BusEvent
  <2> QED
    BY <1>1, <2>1, EventKeeps DEF Types, FlagsOK
<1>4. CASE ~PacketWaits /\ setup
  BY <1>4, SetupKeeps DEF Underflow, BusEvent, PacketWaits
<1>5. CASE ~PacketWaits /\ ~setup
  <2>1. /\ UnderflowAlone /\ ~in_tc /\ ~out_tc
        /\ UNCHANGED <<job, moved, setup, in_tc, out_tc, device, host, accepted>>
        /\ underflow' = FALSE /\ UNCHANGED overflow
    BY <1>5 DEF Underflow, BusEvent, PacketWaits
  <2>2. Handled
    BY <1>1, <1>2, <1>5 DEF Transfer, Quiet
  <2>3. control_state # "WAIT_OUT_ZLP"
    BY <1>2, <2>2 DEF Handled, Stalls, Reads, Writes
  <2>4. CASE control_state # "DATA_OUT"
    <3>1. UNCHANGED <<control_state, answer>>
      BY <2>1, <2>3, <2>4 DEF UnderflowAlone, Refused
    <3> QED
      BY <1>1, <2>1, <3>1, EventKeeps DEF Types, FlagsOK
  <2>5. CASE control_state = "DATA_OUT"
    <3>1. /\ control_state' = "WAIT_IN_ZLP" /\ in_cnt' = 0 /\ in_nack' = FALSE
          /\ UNCHANGED <<in_from, stall, out_nack>>
      BY <2>1, <2>5 DEF UnderflowAlone, SendZlpIn
    <3>2. /\ accepted /\ ~IsIn(hreq) /\ Writes /\ ~stall
          /\ hreq.kind = "set_line_coding"
      BY <2>2, <2>5 DEF Handled, Stalls, Reads, Writes
    <3>3. hstage = "status" /\ ~sent /\ ~overflow
      BY <1>2, <2>1, <2>5, <3>2 DEF Writes
    <3>5. Counts'
      BY <1>1, <2>1 DEF Counts, host
    <3>6. Writes'
      BY <2>1, <3>1, <3>2, <3>3 DEF Writes, host
    <3>7. Transfer'
      BY <1>5, <2>1, <2>2, <3>1, <3>2, <3>3, <3>6 DEF Transfer, Handled, host, job, IsIn
    <3>8. Address'
      BY <1>1, <2>1, <2>5, <3>1, <3>2 DEF Address, Valid, host, job, device
    <3> QED
      BY <3>5, <3>7, <3>8 DEF InStep
  <2> QED
    BY <2>4, <2>5
<1> QED
  BY <1>3, <1>4, <1>5

(* udd_ctrl_overflow keeps the invariant: the host ends the data stage of a   *)
(* request for data, and its status packet is received.                    *)
LEMMA OverflowKeeps == Types /\ InStep /\ Overflow => InStep'
<1> SUFFICES ASSUME Types, InStep, Overflow PROVE InStep'
  OBVIOUS
<1> USE ControlAssumption
<1>1. Types /\ Counts /\ Transfer /\ Address
  BY DEF InStep
<1>2. overflow /\ ~underflow /\ control_state # "SETUP"
  BY DEF Overflow, BusEvent, Enabled
<1>3. CASE PacketWaits
  <2>1. /\ UNCHANGED <<control_state, job, moved, setup, in_tc, out_tc,
                       answer, device, host, accepted>>
        /\ overflow' = FALSE /\ UNCHANGED underflow
    BY <1>3 DEF Overflow, BusEvent
  <2> QED
    BY <1>1, <2>1, EventKeeps DEF Types, FlagsOK
<1>4. CASE ~PacketWaits /\ setup
  BY <1>4, SetupKeeps DEF Overflow, BusEvent, PacketWaits
<1>5. CASE ~PacketWaits /\ ~setup
  <2>1. /\ OverflowAlone /\ ~in_tc /\ ~out_tc
        /\ UNCHANGED <<job, moved, setup, in_tc, out_tc, device, host, accepted>>
        /\ overflow' = FALSE /\ UNCHANGED underflow
    BY <1>5 DEF Overflow, BusEvent, PacketWaits
  <2>2. Handled
    BY <1>1, <1>2, <1>5 DEF Transfer, Quiet
  <2>3. control_state # "WAIT_IN_ZLP"
    BY <1>2, <2>2 DEF Handled, Stalls, Reads, Writes
  <2>4. CASE control_state # "DATA_IN"
    <3>1. UNCHANGED <<control_state, answer>>
      BY <2>1, <2>3, <2>4 DEF OverflowAlone, Refused
    <3> QED
      BY <1>1, <2>1, <3>1, EventKeeps DEF Types, FlagsOK
  <2>5. CASE control_state = "DATA_IN"
    <3>1. /\ control_state' = "WAIT_OUT_ZLP" /\ out_nack' = FALSE
          /\ UNCHANGED <<in_from, in_cnt, stall, in_nack>>
      BY <2>1, <2>5 DEF OverflowAlone, SendZlpOut, packet
    <3>2. accepted /\ IsIn(hreq) /\ Reads /\ ~stall
      BY <2>2, <2>5 DEF Handled, Stalls, Reads, Writes
    <3>3. hstage = "status"
      BY <1>2, <2>5, <3>2 DEF Reads, Packet
    <3>5. Counts'
      BY <1>1, <2>1 DEF Counts, host
    <3>6. Reads'
      BY <1>2, <2>1, <3>1, <3>2, <3>3 DEF Reads, host
    <3>7. Transfer'
      BY <1>5, <2>1, <2>2, <3>1, <3>2, <3>3, <3>6 DEF Transfer, Handled, host, job, IsIn
    <3>8. Address'
      BY <1>1, <2>1, <2>5, <3>1, <3>2 DEF Address, Valid, host, job, device, IsIn
    <3> QED
      BY <3>5, <3>7, <3>8 DEF InStep
  <2> QED
    BY <2>4, <2>5
<1> QED
  BY <1>3, <1>4, <1>5

-----------------------------------------------------------------------------
(* The host *)

(* A SETUP packet keeps the invariant: no address waits to become valid when  *)
(* it comes, and what it leaves in the endpoint is the status packet.       *)
LEMMA HostSetupKeeps == Types /\ InStep /\ HostSetup /\ ~overtaken' => InStep'
<1> SUFFICES ASSUME Types, InStep, HostSetup, ~overtaken' PROVE InStep'
  OBVIOUS
<1> USE ControlAssumption
<1>1. Types /\ Counts /\ Transfer /\ Address
  BY DEF InStep
<1>2. PICK r \in Requests :
        hreq' = r /\ hstage' = IF r.length = 0 THEN "status" ELSE "data"
  BY DEF HostSetup
<1>3. PICK hide \in BOOLEAN : in_tc' = (in_tc /\ ~hide) /\ out_tc' = (out_tc /\ ~hide)
  BY DEF HostSetup
<1>4. /\ setup' = TRUE
      /\ in_nack' = TRUE /\ out_nack' = TRUE /\ stall' = FALSE
      /\ reply' = <<>> /\ sent' = FALSE /\ early' = FALSE
      /\ requests < MaxRequests /\ requests' = requests + 1
      /\ UNCHANGED <<control_state, job, moved, packet, underflow, overflow,
                     device, at, accepted>>
  BY DEF HostSetup
<1>5. /\ in_tc' \in BOOLEAN /\ (in_tc' => in_tc)
      /\ out_tc' \in BOOLEAN /\ (out_tc' => out_tc)
  BY <1>3
<1>6. /\ in_tc' => control_state = "WAIT_IN_ZLP"
      /\ out_tc' => control_state = "WAIT_OUT_ZLP"
  BY <1>4 DEF HostSetup, OnlyStatusLeft
<1>7. ~Valid
  <2>1. SUFFICES ASSUME Valid PROVE FALSE
    OBVIOUS
  <2>2. ~setup /\ accepted /\ hreq.kind = "set_address" /\ control_state = "WAIT_IN_ZLP"
    BY <1>1, <2>1 DEF Address
  <2>3. hstage \in {"done", "stalled"} /\ ~in_tc
    BY <2>2 DEF HostSetup
  <2>4. Writes /\ hstage # "stalled"
    BY <1>1, <2>2, <2>3 DEF Transfer, Handled, IsIn
  <2> QED
    BY <2>2, <2>3, <2>4 DEF Writes
<1>9. Counts'
  BY <1>4 DEF Counts
<1>10. Transfer'
  BY <1>2, <1>4, <1>5, <1>6 DEF Transfer, Waiting
<1>11. Address'
  BY <1>1, <1>4, <1>7 DEF Address, Valid, job, device
<1> QED
  BY <1>9, <1>10, <1>11 DEF InStep

(* A packet that the host receives keeps the invariant: it is the next part   *)
(* of the payload, or the status packet of the request that is handled.     *)
LEMMA HostInKeeps == Types /\ InStep /\ HostIn => InStep'
<1> SUFFICES ASSUME Types, InStep, HostIn PROVE InStep'
  OBVIOUS
<1> USE ControlAssumption
<1>1. Types /\ Counts /\ Transfer /\ Address
  BY DEF InStep
<1>2. /\ ~in_nack /\ ~stall /\ in_nack' = TRUE /\ in_tc' = TRUE
      /\ UNCHANGED <<control_state, job, moved, setup, out_tc, underflow,
                     overflow, out_nack, stall, packet, device, hreq, sent,
                     early, requests, overtaken, accepted>>
  BY DEF HostIn
<1>3. ~setup /\ hstage # "none" /\ InStage
  BY <1>1, <1>2 DEF HostIn, InStage, Transfer, Waiting
<1>4. hreq \in Requests /\ req = hreq /\ accepted
  BY <1>1, <1>2, <1>3 DEF Transfer, Handled, Stalls
<1>5. CASE hstage = "status"
  <2>1. /\ hstage' = "done" /\ UNCHANGED reply
        /\ at' = IF hreq.kind = "set_address" THEN hreq.value ELSE at
    BY <1>5 DEF HostIn
  <2>2. ~IsIn(hreq) /\ Writes /\ control_state = "WAIT_IN_ZLP" /\ ~in_tc
    BY <1>1, <1>2, <1>3, <1>4, <1>5 DEF InStage, Transfer, Handled, Writes
  <2>3. Valid <=> hreq.kind = "set_address"
    BY <1>1, <1>3, <2>2 DEF Address
  <2>5. Counts'
    BY <1>1, <2>1 DEF Counts
  <2>6. Writes'
    BY <1>2, <2>1, <2>2 DEF Writes, device
  <2>7. Transfer'
    BY <1>2, <1>3, <1>4, <2>1, <2>2, <2>6 DEF Transfer, Handled, job, IsIn
  <2>8. Address'
    BY <1>1, <1>2, <1>3, <1>4, <1>5, <2>1, <2>2, <2>3 DEF Address, Valid, job, device
  <2> QED
    BY <2>5, <2>7, <2>8 DEF InStep
<1>6. CASE hstage # "status"
  <2>1. hstage = "data" /\ IsIn(hreq)
    BY <1>3, <1>6 DEF InStage
  <2>2. /\ reply' = reply \o [i \in 1 .. in_cnt |-> in_from + i]
        /\ hstage' = IF in_cnt < CtrlSize \/ Len(reply') >= hreq.length
                       THEN "status" ELSE "data"
        /\ UNCHANGED at
    BY <1>6 DEF HostIn
  <2>3. Reads /\ control_state = "DATA_IN" /\ Packet /\ ~early
    BY <1>1, <1>3, <1>4, <2>1 DEF Transfer, Handled, Reads
  <2> DEFINE whole == PayloadSize(hreq)
  <2>4. /\ whole \in Nat /\ whole \in 1 .. Descriptor
        /\ whole <= hreq.length /\ hreq.length \in Nat
    BY <1>4, <2>1, PayloadFacts, RequestFacts
  <2>5. ~in_tc
    BY <1>2, <2>1, <2>3 DEF Packet
  <2>6. /\ in_from \in 0 .. whole /\ in_cnt = Part(whole - in_from)
        /\ payload_nb_trans = in_from + in_cnt /\ Len(reply) = in_from
    BY <2>3, <2>5 DEF Packet
  <2>7. /\ in_cnt \in 0 .. CtrlSize /\ payload_nb_trans \in 0 .. whole
        /\ in_cnt < CtrlSize => payload_nb_trans = whole
    BY <2>4, <2>6, PacketFacts
  <2>8. Counts' /\ Len(reply') = payload_nb_trans
    <3>1. PICK n \in Nat : n = in_from
      BY <2>6, <2>4
    <3>2. PICK k \in Nat : k = in_cnt
      BY <2>7
    <3>3. /\ reply = [i \in 1 .. n |-> i]
          /\ reply' = reply \o [i \in 1 .. k |-> n + i]
      BY <1>1, <2>2, <2>6, <3>1, <3>2 DEF Counts
    <3>4. reply' = [i \in 1 .. n + k |-> i]
      BY <3>3
    <3> QED
      BY <2>6, <3>1, <3>2, <3>4 DEF Counts
  <2>9. /\ hstage' \in {"data", "status"}
        /\ hstage' = "status" => Len(reply') = whole
        /\ hstage' = "data" => in_cnt = CtrlSize /\ payload_nb_trans < hreq.length
    BY <2>2, <2>4, <2>6, <2>7, <2>8
  <2>11. Packet'
    BY <1>2, <2>1, <2>3, <2>8, <2>9 DEF Packet, job, moved, packet
  <2>12. Reads'
    BY <1>2, <2>3, <2>4, <2>7, <2>8, <2>9, <2>11 DEF Reads
  <2>13. Transfer'
    BY <1>2, <1>3, <1>4, <2>1, <2>9, <2>12 DEF Transfer, Handled, job, IsIn
  <2>14. Address'
    BY <1>1, <1>2, <1>3, <1>4, <2>1, <2>2, <2>3, <2>9 DEF Address, Valid, job, device, IsIn
  <2> QED
    BY <2>8, <2>13, <2>14 DEF InStep
<1> QED
  BY <1>5, <1>6

(* A packet that the host sends keeps the invariant: the data of a request,   *)
(* or the status packet for data that was read.                            *)
LEMMA HostOutKeeps == Types /\ InStep /\ HostOut => InStep'
<1> SUFFICES ASSUME Types, InStep, HostOut PROVE InStep'
  OBVIOUS
<1> USE ControlAssumption
<1>1. Types /\ Counts /\ Transfer /\ Address
  BY DEF InStep
<1>2. /\ ~out_nack /\ ~stall /\ out_nack' = TRUE /\ out_tc' = TRUE
      /\ hstage' \in {"done", "status"} /\ sent' \in BOOLEAN
      /\ UNCHANGED <<control_state, job, moved, setup, in_tc, underflow,
                     overflow, in_nack, stall, packet, device, hreq, reply,
                     early, at, requests, overtaken, accepted>>
  BY <1>1 DEF HostOut, Types, FlagsOK
<1>3. ~setup /\ hstage # "none" /\ OutStage
  BY <1>1, <1>2 DEF HostOut, OutStage, Transfer, Waiting
<1>4. hreq \in Requests /\ req = hreq /\ accepted
  BY <1>1, <1>2, <1>3 DEF Transfer, Handled, Stalls
<1>6. Counts'
  BY <1>1, <1>2 DEF Counts
<1>7. ~Valid /\ (control_state = "WAIT_IN_ZLP" => hreq.kind # "set_address")
  <2>1. SUFFICES ASSUME control_state = "WAIT_IN_ZLP", hreq.kind = "set_address"
                 PROVE  FALSE
    BY <1>1 DEF Address
  <2>2. Writes /\ hstage \in {"status", "done"} /\ ~IsIn(hreq)
    BY <1>1, <1>3, <1>4, <2>1 DEF Transfer, Handled, Writes, IsIn
  <2> QED
    BY <1>3, <2>2 DEF OutStage, InStage
<1>8. Address'
  BY <1>1, <1>2, <1>7 DEF Address, Valid, job, device
<1>9. CASE hstage = "status"
  <2>1. hstage' = "done" /\ UNCHANGED sent
    BY <1>9 DEF HostOut
  <2>2. IsIn(hreq) /\ Reads /\ control_state = "WAIT_OUT_ZLP"
    BY <1>1, <1>2, <1>3, <1>4, <1>9
    DEF OutStage, InStage, Transfer, Handled, Reads, Packet
  <2>3. Reads'
    BY <1>2, <1>9, <2>1, <2>2 DEF Reads
  <2> QED
    BY <1>2, <1>3, <1>4, <1>6, <1>8, <2>1, <2>2, <2>3
    DEF InStep, Transfer, Handled, job, IsIn
<1>10. CASE hstage # "status"
  <2>1. hstage' = "status" /\ sent' = TRUE
    BY <1>10 DEF HostOut
  <2>2. ~IsIn(hreq) /\ Writes /\ control_state = "DATA_OUT"
    BY <1>1, <1>3, <1>4, <1>10 DEF OutStage, InStage, Transfer, Handled, Writes
  <2>3. Writes'
    BY <1>2, <2>1, <2>2 DEF Writes
  <2> QED
    BY <1>2, <1>3, <1>4, <1>6, <1>8, <2>1, <2>2, <2>3
    DEF InStep, Transfer, Handled, job, IsIn
<1> QED
  BY <1>9, <1>10

(* A token that finds the endpoint not ready, or stalled, keeps the invariant. *)
LEMMA HostRefusedKeeps == Types /\ InStep /\ (HostNaked \/ HostStalled) => InStep'
<1> SUFFICES ASSUME Types, InStep, HostNaked \/ HostStalled PROVE InStep'
  OBVIOUS
<1>1. Types /\ Counts /\ Transfer /\ Address
  BY DEF InStep
<1>2. CASE HostNaked
  <2>1. /\ UNCHANGED <<control_state, job, moved, setup, in_tc, out_tc, answer,
                       device, host, accepted>>
        /\ underflow' \in BOOLEAN /\ overflow' \in BOOLEAN
        /\ underflow' => underflow \/ InStage
        /\ overflow' => overflow \/ OutStage
    <3>1. CASE InStage /\ underflow' = TRUE /\ UNCHANGED overflow
      BY <1>1, <1>2, <3>1 DEF HostNaked, Types, FlagsOK
    <3>2. CASE OutStage /\ overflow' = TRUE /\ UNCHANGED underflow
      BY <1>1, <1>2, <3>2 DEF HostNaked, Types, FlagsOK
    <3> QED
      BY <1>2, <3>1, <3>2 DEF HostNaked
  <2> QED
    BY <2>1, EventKeeps
<1>3. CASE HostStalled
  <2>1. /\ hstage \in {"data", "status"} /\ stall /\ hstage' = "stalled"
        /\ UNCHANGED <<control_state, job, moved, events, answer, device, hreq,
                       reply, sent, early, at, requests, overtaken, accepted>>
    BY <1>3 DEF HostStalled
  <2>2. ~setup /\ hreq \in Requests /\ req = hreq /\ ~accepted /\ Stalls
    BY <1>1, <2>1 DEF Transfer, Waiting, Handled
  <2>4. Counts'
    BY <1>1, <2>1 DEF Counts
  <2>5. Transfer'
    BY <2>1, <2>2 DEF Transfer, Handled, Stalls, events, answer, job
  <2>6. Address'
    BY <1>1, <2>1, <2>2 DEF Address, Valid, events, job, device
  <2> QED
    BY <2>4, <2>5, <2>6 DEF InStep
<1> QED
  BY <1>2, <1>3

(* The invariant is kept where the host ends the data stage. *)
LEMMA HostEndsEarlyKeeps == Types /\ InStep /\ HostEndsEarly => InStep'
<1> SUFFICES ASSUME Types, InStep, HostEndsEarly PROVE InStep'
  OBVIOUS
<1> USE ControlAssumption
<1>1. Types /\ Counts /\ Transfer /\ Address
  BY DEF InStep
<1>2. /\ hstage = "data" /\ (IsIn(hreq) \/ ~(setup \/ overflow))
      /\ hstage' = "status" /\ early' = TRUE
      /\ UNCHANGED <<control_state, job, moved, events, answer, device, hreq,
                     reply, sent, at, requests, overtaken, accepted>>
  BY DEF HostEndsEarly
<1>4. Counts'
  BY <1>1, <1>2 DEF Counts
<1>5. Address'
  BY <1>1, <1>2 DEF Address, Valid, events, job, device
<1>6. CASE setup
  <2>1. IsIn(hreq) /\ hreq.length # 0
    BY <1>1, <1>2, <1>6 DEF Transfer, Waiting
  <2>2. Transfer'
    BY <1>1, <1>2, <1>6, <2>1 DEF Transfer, Waiting, events, answer, IsIn
  <2> QED
    BY <1>4, <1>5, <2>2 DEF InStep
<1>7. CASE ~setup
  <2>1. Handled
    BY <1>1, <1>2, <1>7 DEF Transfer
  <2>2. CASE ~accepted
    <3>1. Transfer'
      BY <1>2, <1>7, <2>1, <2>2 DEF Transfer, Handled, Stalls, events, answer, job
    <3> QED
      BY <1>4, <1>5, <3>1 DEF InStep
  <2>3. CASE accepted /\ IsIn(hreq)
    <3>1. Reads /\ control_state = "DATA_IN" /\ Packet
      BY <1>2, <2>1, <2>3 DEF Handled, Reads
    <3>2. Packet'
      BY <1>2, <3>1 DEF Packet, events, answer, packet, job, moved
    <3>3. Reads'
      BY <1>2, <3>1, <3>2 DEF Reads
    <3>4. Transfer'
      BY <1>2, <1>7, <2>1, <2>3, <3>3 DEF Transfer, Handled, events, answer, job, IsIn
    <3> QED
      BY <1>4, <1>5, <3>4 DEF InStep
  <2>4. CASE accepted /\ ~IsIn(hreq)
    <3>1. Writes /\ control_state = "DATA_OUT" /\ ~overflow
      BY <1>2, <2>1, <2>4 DEF Handled, Writes
    <3>2. Writes'
      BY <1>2, <3>1 DEF Writes, events, answer
    <3>3. Transfer'
      BY <1>2, <1>7, <2>1, <2>4, <3>2 DEF Transfer, Handled, events, answer, job, IsIn
    <3> QED
      BY <1>4, <1>5, <3>3 DEF InStep
  <2> QED
    BY <2>2, <2>3, <2>4
<1> QED
  BY <1>6, <1>7

(* A reset of the bus leaves device and host as after the start. *)
LEMMA BusResetKeeps == Types /\ BusReset => InStep'
<1> SUFFICES ASSUME Types, BusReset PROVE InStep'
  OBVIOUS
<1> USE ControlAssumption
<1>2. /\ ~setup /\ ~in_tc /\ ~out_tc
      /\ requests < MaxRequests /\ requests' = requests + 1
      /\ address' = 0 /\ num_configuration' = 0 /\ control_state' = "SETUP"
      /\ in_nack' = TRUE /\ out_nack' = TRUE /\ stall' = FALSE
      /\ underflow' = FALSE /\ overflow' = FALSE
      /\ callback' = "NULL" /\ payload_size' = 0
      /\ hreq' = NoRequest /\ hstage' = "none" /\ reply' = <<>>
      /\ sent' = FALSE /\ early' = FALSE /\ at' = 0
      /\ UNCHANGED <<req, moved, setup, in_tc, out_tc, packet, line_coding, accepted>>
  BY DEF BusReset
<1>5. Counts' /\ Transfer' /\ Address'
  BY <1>2 DEF Counts, Transfer, Quiet, Address, Valid
<1> QED
  BY <1>5 DEF InStep

-----------------------------------------------------------------------------
(* The specification *)

(* The invariant is inductive. *)
LEMMA StepInv == IInv /\ [Next]_vars => IInv'
<1> SUFFICES ASSUME IInv, [Next]_vars PROVE IInv'
  OBVIOUS
<1>1. Base /\ Types /\ Base'
  BY BaseStep DEF IInv, Base
<1>2. CASE BusReset
  BY <1>1, <1>2, BusResetKeeps DEF IInv
<1>3. CASE ~BusReset /\ ~overtaken'
  <2>1. ~overtaken
    BY <1>3 DEF Next, TransferComplete, Setup, InSent, OutReceived, Ends, Token, Underflow,
       Overflow, BusEvent, UnderflowAlone, OverflowAlone, SetupReceived, HostIn, HostOut,
       HostNaked, HostStalled, HostSetup, HostEndsEarly, vars, host
  <2>2. InStep
    BY <2>1 DEF IInv
  <2>3. CASE Setup
    BY <1>1, <2>2, <2>3, SetupKeeps DEF Setup, IInv
  <2>4. CASE UNCHANGED vars
    <3>1. /\ UNCHANGED <<control_state, job, moved, setup, in_tc, out_tc, answer,
                         device, host, accepted>>
          /\ underflow' = underflow /\ overflow' = overflow
      BY <2>4 DEF vars, events
    <3> QED
      BY <1>1, <2>2, <3>1, EventKeeps DEF IInv, Types, FlagsOK
  <2> QED
    BY <1>1, <1>3, <2>2, <2>3, <2>4, InSentKeeps, OutReceivedKeeps, UnderflowKeeps,
       OverflowKeeps, HostInKeeps, HostOutKeeps, HostRefusedKeeps, HostSetupKeeps,
       HostEndsEarlyKeeps
    DEF Next, TransferComplete, Token, IInv
<1> QED
  BY <1>1, <1>2, <1>3 DEF IInv

(* The invariant holds in every behaviour of the specification. *)
THEOREM Invariant == Spec => []IInv
<1>1. Init => IInv
  BY InitInv
<1> QED
  BY <1>1, StepInv, PTL DEF Spec

(* The state of the device, the endpoint and the host has its types. *)
THEOREM TypesHold == Spec => []TypeOK
<1>1. IInv => TypeOK
  BY TypesAreTypeOK DEF IInv, Base
<1> QED
  BY <1>1, Invariant, PTL

(* A read answers with its data from the first unit on, with all of it when   *)
(* its data stage ends by itself, and never with more than was asked for,   *)
(* whatever the sizes of packet, descriptor and request (udd_ctrl_in_sent). *)
THEOREM ReadsAreAnswered == Spec => []Answered
<1>1. IInv => Answered
  <2> SUFFICES ASSUME IInv, ~overtaken PROVE Answered
    BY DEF Answered
  <2>1. Counts /\ Transfer
    BY DEF IInv, InStep
  <2>2. CASE hreq \in Requests
    <3>1. IsIn(hreq) => PayloadSize(hreq) \in 1 .. hreq.length /\ hreq.length \in Nat
      BY <2>2, PayloadFacts, RequestFacts
    <3>2. IsIn(hreq) /\ hreq.kind # "status" => hreq.kind = "descriptor"
      BY DEF IsIn
    <3>3. \/ reply = <<>> /\ (hstage \in {"status", "done"} /\ ~early => ~IsIn(hreq))
          \/ Reads
      BY <2>1, <2>2, RequestFacts
      DEF Transfer, Waiting, Quiet, Handled, Stalls, Writes
    <3> QED
      BY <2>1, <2>2, <3>1, <3>2, <3>3, PayloadFacts DEF Answered, Counts, Reads
  <2>3. CASE hreq \notin Requests
    BY <2>1, <2>3 DEF Answered, Counts, Transfer, Waiting, Quiet, Handled, NoRequest, Request, IsIn
  <2> QED
    BY <2>2, <2>3
<1> QED
  BY <1>1, Invariant, PTL

(* Host and device agree on the outcome of every transfer, whatever packets   *)
(* were refused meanwhile: this needs the stages of both to be in step       *)
(* (Reads, Writes), and a stall never to be set where they are (the flags of *)
(* underflow and overflow are clear in the two states where they would).    *)
THEOREM HostAndDeviceAgree == Spec => []Agreement
<1>1. IInv => Agreement
  BY DEF IInv, InStep, Transfer, Waiting, Handled, Stalls, Agreement
<1> QED
  BY <1>1, Invariant, PTL

(* The device answers at the address the host uses, but for the time from     *)
(* the status packet to its interrupt.                                     *)
THEOREM AddressIsKnown == Spec => []AddressKnown
<1>1. IInv => AddressKnown
  BY DEF IInv, InStep, Transfer, Handled, Writes, Address, AddressKnown, IsIn
<1> QED
  BY <1>1, Invariant, PTL

(* A line coding whose data the host has sent is stored at the end. *)
THEOREM LineCodingIsStored == Spec => []LineCodingStored
<1>1. IInv => LineCodingStored
  BY DEF IInv, InStep, Transfer, Waiting, Quiet, Handled, Stalls, Writes, LineCodingStored,
         IsIn
<1> QED
  BY <1>1, Invariant, PTL

-----------------------------------------------------------------------------
(* Numbers, and what CRYPT_process_buffer computes.  The library's induction  *)
(* takes a predicate as its parameter, which the provers cannot instantiate: *)
(* here it is over a set of numbers, from the fact that the natural numbers  *)
(* are well-founded.                                                       *)

(* Numbers have a least one. *)
LEMMA Least ==
  ASSUME NEW T \in SUBSET Nat, T # {}
  PROVE  \E x \in T : \A y \in T : x <= y
<1> DEFINE R == {ss \in Nat \X Nat : ss[1] < ss[2]}
<1>1. IsWellFoundedOn(R, Nat)
  BY NatLessThanWellFounded, Zenon DEF OpToRel
<1>2. PICK x \in T : \A y \in T : ~(<<y, x>> \in R)
  BY <1>1, WFMin, Zenon
<1>3. \A y \in T : ~(y < x)
  BY <1>2
<1> QED
  BY <1>3

(* Induction, for a set of numbers. *)
LEMMA Induction ==
  ASSUME NEW D, 0 \in D, \A k \in Nat : k \in D => k + 1 \in D
  PROVE  Nat \subseteq D
<1> SUFFICES ASSUME Nat \ D # {} PROVE FALSE
  OBVIOUS
<1>1. PICK x \in Nat \ D : \A y \in Nat \ D : x <= y
  BY Least
<1>2. x # 0 /\ x - 1 \in Nat /\ x - 1 + 1 = x
  BY <1>1
<1>3. x - 1 \in D
  BY <1>1, <1>2
<1> QED
  BY <1>1, <1>2, <1>3

(* What CRYPT_process_buffer combines with the AES for block i, and what the  *)
(* AES holds after each of the first n blocks.                             *)
Input(blocks, cut, i) ==
  IF cut /\ i = Len(blocks) THEN BlockPart(blocks[i]) ELSE blocks[i]

Holds(state, blocks, cut, aes, n) ==
  state = [i \in 0 .. n |->
             IF i = 0 THEN ZeroBlock
             ELSE aes[i][Xor(state[i - 1], Input(blocks, cut, i))]]

(* There is such a state, for every number of blocks. *)
LEMMA StateExists ==
  ASSUME NEW blocks, NEW cut, NEW aes, NEW n \in Nat
  PROVE  \E state : Holds(state, blocks, cut, aes, n)
<1> DEFINE in(i) == Input(blocks, cut, i)
           D == {m \in Nat : \E s : Holds(s, blocks, cut, aes, m)}
<1> HIDE DEF in
<1>1. 0 \in D
  <2>1. [i \in 0 .. 0 |-> ZeroBlock] = [i \in 0 .. 0 |->
          IF i = 0 THEN ZeroBlock
          ELSE aes[i][Xor([j \in 0 .. 0 |-> ZeroBlock][i - 1], in(i))]]
    OBVIOUS
  <2> QED
    BY <2>1, Zenon DEF Holds, in
<1>2. ASSUME NEW k \in Nat, k \in D PROVE k + 1 \in D
  <2>1. PICK s : s = [i \in 0 .. k |->
                   IF i = 0 THEN ZeroBlock ELSE aes[i][Xor(s[i - 1], in(i))]]
    BY <1>2, Zenon DEF Holds, in
  <2> DEFINE t == [i \in 0 .. k + 1 |->
                     IF i <= k THEN s[i] ELSE aes[i][Xor(s[i - 1], in(i))]]
  <2>2. \A i \in 0 .. k : t[i] = s[i]
    OBVIOUS
  <2>3. ASSUME NEW i \in 0 .. k + 1
        PROVE  t[i] = IF i = 0 THEN ZeroBlock ELSE aes[i][Xor(t[i - 1], in(i))]
    <3>1. CASE i = 0
      BY <3>1, <2>1
    <3>2. CASE i # 0
      <4>1. t[i - 1] = s[i - 1] /\ i - 1 \in 0 .. k
        BY <2>2, <3>2
      <4>2. CASE i <= k
        <5>1. s[i] = aes[i][Xor(s[i - 1], in(i))]
          BY <2>1, <3>2, <4>2
        <5> QED
          BY <4>1, <4>2, <5>1, <3>2
      <4>3. CASE i > k
        BY <4>1, <4>3, <3>2
      <4> QED
        BY <4>2, <4>3
    <3> QED
      BY <3>1, <3>2
  <2>4. t = [i \in 0 .. k + 1 |->
               IF i = 0 THEN ZeroBlock ELSE aes[i][Xor(t[i - 1], in(i))]]
    <3> HIDE DEF t
    <3>1. t = [i \in 0 .. k + 1 |-> t[i]]
      BY DEF t
    <3> QED
      BY <2>3, <3>1
  <2>5. Holds(t, blocks, cut, aes, k + 1)
    <3> HIDE DEF t
    <3> QED
      BY <2>4, Zenon DEF Holds, in
  <2> QED
    BY <2>5
<1>3. n \in D
  <2> HIDE DEF D
  <2> QED
    BY <1>1, <1>2, Induction
<1> QED
  BY <1>3 DEF in

(* CRYPT_process_buffer keeps the length of a buffer, and its first block is   *)
(* what the AES makes of that block alone, unless it is a short one.          *)
LEMMA ProcessFacts ==
  ASSUME NEW blocks \in Seq(Blocks), NEW cut \in BOOLEAN, NEW aes
  PROVE  LET out == Process(blocks, cut, aes) IN
         /\ out = [i \in 1 .. Len(blocks) |-> out[i]]
         /\ blocks # <<>> /\ ~(cut /\ Len(blocks) = 1) =>
              out[1] = aes[1][blocks[1]]
         /\ aes \in [1 .. Len(blocks) -> [Blocks -> Blocks]] => \A i \in 1 .. Len(blocks) : out[i] \in Blocks
<1> DEFINE n == Len(blocks)
           in(i) == Input(blocks, cut, i)
           state == CHOOSE s : Holds(s, blocks, cut, aes, n)
           out == Process(blocks, cut, aes)
<1>1. state = [i \in 0 .. n |->
                 IF i = 0 THEN ZeroBlock ELSE aes[i][Xor(state[i - 1], in(i))]]
  <2>1. n \in Nat
    OBVIOUS
  <2>2. Holds(state, blocks, cut, aes, n)
    BY <2>1, StateExists, Zenon
  <2> HIDE DEF state
  <2> QED
    BY <2>2, Zenon DEF Holds
<1>2. out = [i \in 1 .. n |-> IF cut /\ i = n THEN BlockPart(state[i]) ELSE state[i]]
  BY Zenon DEF Process, Holds, Input
<1> HIDE DEF state, out
<1>5. \A i \in 0 .. n : i # 0 => state[i] = aes[i][Xor(state[i - 1], in(i))]
  <2> HIDE DEF in, n
  <2> QED
    BY <1>1
<1>3. ASSUME blocks # <<>>, ~(cut /\ n = 1)
      PROVE  out[1] = aes[1][blocks[1]]
  <2>1. 1 \in 1 .. n /\ 1 \in 0 .. n /\ 0 \in 0 .. n /\ blocks[1] \in Blocks /\ 1 # 0
    BY <1>3
  <2>2. in(1) = blocks[1] /\ out[1] = state[1]
    BY <1>2, <1>3, <2>1 DEF Input
  <2>3. state[1] = aes[1][Xor(state[0], in(1))] /\ state[0] = ZeroBlock
    <3> HIDE DEF in, n
    <3> QED
      BY <1>1, <2>1
  <2> QED
    BY <2>1, <2>2, <2>3, TerminalAssumption
<1>4. ASSUME aes \in [1 .. n -> [Blocks -> Blocks]]
      PROVE  \A i \in 1 .. n : out[i] \in Blocks
  <2>1. \A i \in 1 .. n : in(i) \in Blocks
    BY TerminalAssumption DEF Input
  <2> DEFINE D == {m \in Nat : m <= n => state[m] \in Blocks}
  <2>2. 0 \in D
    BY <1>1, TerminalAssumption
  <2>3. ASSUME NEW k \in Nat, k \in D PROVE k + 1 \in D
    <3> SUFFICES ASSUME k + 1 <= n PROVE state[k + 1] \in Blocks
      OBVIOUS
    <3>1. PICK j : j = k + 1
      OBVIOUS
    <3>2. /\ j \in 1 .. n /\ j \in 0 .. n /\ j # 0 /\ j - 1 = k
          /\ state[k] \in Blocks
      BY <2>3, <3>1
    <3> HIDE DEF in, n
    <3>3. state[j] = aes[j][Xor(state[j - 1], in(j))]
      BY <1>5, <3>2
    <3>4. Xor(state[k], in(j)) \in Blocks
      BY <2>1, <3>2, TerminalAssumption
    <3> QED
      BY <1>4, <3>1, <3>2, <3>3, <3>4
  <2>4. Nat \subseteq D
    <3> HIDE DEF D
    <3> QED
      BY <2>2, <2>3, Induction
  <2>5. \A i \in 1 .. n : i \in Nat /\ i <= n
    OBVIOUS
  <2>6. \A i \in 1 .. n : state[i] \in Blocks
    BY <2>4, <2>5
  <2> QED
    BY <1>2, <2>6, TerminalAssumption
<1> QED
  BY <1>2, <1>3, <1>4 DEF out

-----------------------------------------------------------------------------
(* The invariant of the terminal *)

(* TypeOK of the terminal, one variable at a time. *)
HostTypes ==
  /\ open \in BOOLEAN /\ queue \in Seq(Chars) /\ typed \in 0 .. MaxTyped
  /\ connections \in 0 .. MaxConnections
  /\ resets \in 0 .. MaxResets /\ buffers \in 0 .. MaxBuffers

CommandTypes ==
  /\ pc \in {"command", "key", "save", "generate", "load", "write", "wait",
             "encrypt"}
  /\ rx \in [1 .. Word -> Bytes]
  /\ key \in Seq(Bytes) /\ Len(key) <= KeyLength
  /\ tail \in Seq(Bytes) /\ Len(tail) <= Word + KeyLength

KeyTypes ==
  /\ aes_on \in BOOLEAN /\ nvm_busy \in BOOLEAN
  /\ eeprom \in Keys /\ page_buffer \in {<<>>} \cup Keys

BufferTypes ==
  /\ short \in BOOLEAN /\ used \in Keys
  /\ buffer \in Seq(Blocks) /\ original \in Seq(Blocks)

(* The register holds the last characters; zeros are in it for what was read  *)
(* before a command or a reset.                                            *)
Register ==
  \A i \in 1 .. Word :
    rx[i] # Zero =>
      /\ Len(tail) - Word + i \in 1 .. Len(tail)
      /\ tail[Len(tail) - Word + i] = rx[i]

(* A key is what was read after its command. *)
Reading ==
  /\ IF pc \in {"command", "encrypt"} THEN Register ELSE rx = NoWord
  /\ pc = "key" => tail = KeyWord \o key /\ Len(key) < KeyLength
  /\ pc = "save" => tail = SaveWord \o key /\ Len(key) < KeyLength
  /\ pc \in {"load", "write"} => tail = SaveWord \o key
  /\ pc \in {"generate", "load", "write"} => Len(key) = KeyLength

(* The NVM controller writes the key that was read after "save", or nothing.  *)
Storing ==
  /\ pc = "write" => page_buffer = key
  /\ nvm_busy => /\ pc = "wait" /\ page_buffer \in Keys
                 /\ tail = SaveWord \o page_buffer

(* What was encrypted with which key. *)
Encrypted ==
  /\ pc = "encrypt" => buffer = original /\ buffer \in Plain
  /\ pc # "encrypt" /\ buffer # <<>> =>
       /\ Len(buffer) = Len(original)
       /\ ~(short /\ Len(buffer) = 1) => buffer[1] = Encrypt(used, 1, original[1])

TInv == HostTypes /\ CommandTypes /\ KeyTypes /\ BufferTypes
        /\ Reading /\ Storing /\ Encrypted

(* Commands are of characters, none of which is a zero. *)
LEMMA WordFacts ==
  /\ Word \in Nat \ {0} /\ KeyLength \in Nat \ {0}
  /\ QueueSize \in Nat /\ MaxTyped \in Nat /\ MaxConnections \in Nat
  /\ MaxResets \in Nat /\ MaxBuffers \in Nat
  /\ Zero \in Bytes /\ Chars \subseteq Bytes
  /\ KeyWord \in Seq(Bytes) /\ Len(KeyWord) = Word
  /\ SaveWord \in Seq(Bytes) /\ Len(SaveWord) = Word
  /\ \A i \in 1 .. Word : KeyWord[i] # Zero /\ SaveWord[i] # Zero
  /\ NoWord \in [1 .. Word -> Bytes]
  /\ \A i \in 1 .. Word : NoWord[i] = Zero
<1> USE TerminalAssumption
<1>1. Word \in Nat \ {0} /\ KeyLength \in Nat \ {0}
  BY DEF Word
<1>2. Zero \in Bytes /\ Chars \subseteq Bytes
  BY DEF Bytes
<1>3. /\ KeyWord \in Seq(Bytes) /\ Len(KeyWord) = Word
      /\ \A i \in 1 .. Word : KeyWord[i] # Zero
  BY <1>2 DEF Word
<1>4. /\ SaveWord \in Seq(Bytes) /\ Len(SaveWord) = Word
      /\ \A i \in 1 .. Word : SaveWord[i] # Zero
  BY <1>1, <1>2
<1>5. /\ QueueSize \in Nat /\ MaxTyped \in Nat /\ MaxConnections \in Nat
      /\ MaxResets \in Nat /\ MaxBuffers \in Nat
  BY Zenon
<1> QED
  BY <1>1, <1>2, <1>3, <1>4, <1>5 DEF NoWord

(* Nothing was read or stored at first. *)
LEMMA InitTInv == TerminalInit => TInv
<1> SUFFICES ASSUME TerminalInit PROVE TInv
  OBVIOUS
<1> USE DEF TerminalInit
<1>1. HostTypes
  <2>1. queue = <<>> /\ queue \in Seq(Chars)
    BY EmptySeq
  <2>2. typed = 0 /\ connections = 0 /\ resets = 0 /\ buffers = 0 /\ open = FALSE
    OBVIOUS
  <2>3. 0 \in 0 .. MaxTyped /\ 0 \in 0 .. MaxConnections /\ 0 \in 0 .. MaxResets
        /\ 0 \in 0 .. MaxBuffers
    BY WordFacts
  <2> QED
    BY <2>1, <2>2, <2>3, Zenon DEF HostTypes
<1>2. CommandTypes
  BY WordFacts DEF CommandTypes
<1>3. KeyTypes
  BY WordFacts DEF KeyTypes, Keys, Bytes
<1>4. BufferTypes
  <2>1. NoKey \in Keys
    BY WordFacts DEF Keys, NoKey
  <2> QED
    BY <2>1, EmptySeq DEF BufferTypes
<1>5. Reading
  BY WordFacts DEF Reading, Register
<1>6. Storing /\ Encrypted
  BY DEF Storing, Encrypted
<1> QED
  BY <1>1, <1>2, <1>3, <1>4, <1>5, <1>6 DEF TInv

(* The register after a character. *)
LEMMA ShiftedFacts ==
  ASSUME CommandTypes, NEW byte \in Bytes
  PROVE  LET s == Shifted(byte)
         IN  /\ s \in Seq(Bytes) /\ Len(s) = Word
             /\ s \in [1 .. Word -> Bytes]
             /\ \A i \in 1 .. Word :
                  s[i] = IF i < Word THEN rx[i + 1] ELSE byte
<1>1. rx \in Seq(Bytes) /\ Len(rx) = Word /\ rx # <<>>
  <2>1. rx \in Seq(Bytes)
    <3>1. rx \in [1 .. Word -> Bytes] /\ Word \in Nat
      BY WordFacts DEF CommandTypes
    <3> QED
      BY ONLY <3>1, SeqDef
  <2> QED
    BY <2>1, WordFacts DEF CommandTypes
<1>2. /\ Tail(rx) \in Seq(Bytes) /\ Len(Tail(rx)) = Word - 1
      /\ \A i \in 1 .. Word - 1 : Tail(rx)[i] = rx[i + 1]
  BY <1>1, WordFacts
<1>3. /\ Shifted(byte) \in Seq(Bytes)
      /\ Len(Shifted(byte)) = Word
  BY <1>2, WordFacts DEF Shifted
<1>4. \A i \in 1 .. Word :
        Shifted(byte)[i] = IF i < Word THEN rx[i + 1] ELSE byte
  BY <1>1, <1>2, WordFacts DEF Shifted
<1> QED
  BY <1>3, <1>4

(* It holds the last characters then. *)
LEMMA ShiftedIsTail ==
  ASSUME CommandTypes, Register, pc = "command",
         NEW byte \in Bytes, Getc(byte)
  PROVE  /\ tail' \in Seq(Bytes) /\ Len(tail') <= Word
         /\ \A i \in 1 .. Word :
              Shifted(byte)[i] # Zero =>
                /\ Len(tail') - Word + i \in 1 .. Len(tail')
                /\ tail'[Len(tail') - Word + i] = Shifted(byte)[i]
<1> DEFINE n == Len(tail)
           w == Word
<1>1. /\ n \in Nat /\ w \in Nat \ {0} /\ tail \in Seq(Bytes)
  BY WordFacts DEF CommandTypes
<1>2. CASE n >= w
  <2> DEFINE kept == SubSeq(tail, n - w + 2, n)
  <2>1. /\ kept \in Seq(Bytes) /\ Len(kept) = w - 1
        /\ \A i \in 1 .. w - 1 : kept[i] = tail[n - w + 1 + i]
    <3>1. n - w + 2 \in Int /\ n \in Int /\ \A i \in n - w + 2 .. n : tail[i] \in Bytes
      BY <1>1, <1>2
    <3> HIDE DEF n, w, kept
    <3>2. PICK m \in Int : m = n - w + 2
      BY <3>1
    <3>3. kept = SubSeq(tail, m, n)
      BY <3>2 DEF kept
    <3>4. /\ SubSeq(tail, m, n) \in Seq(Bytes)
          /\ Len(SubSeq(tail, m, n)) = IF m <= n THEN n - m + 1 ELSE 0
          /\ \A i \in 1 .. n - m + 1 : SubSeq(tail, m, n)[i] = tail[m + i - 1]
      BY <3>1, <3>2, SubSeqProperties
    <3>5. Len(kept) = w - 1
      BY <1>1, <1>2, <3>2, <3>3, <3>4
    <3>6. n - m + 1 = w - 1 /\ \A i \in 1 .. w - 1 : m + i - 1 = n - w + 1 + i
      BY <1>1, <3>2
    <3>7. \A i \in 1 .. w - 1 : kept[i] = tail[n - w + 1 + i]
      BY <3>3, <3>4, <3>6
    <3> QED
      BY <3>3, <3>4, <3>5, <3>7
  <2>2. tail' = Append(kept, byte)
    BY <1>2 DEF Getc
  <2> HIDE DEF kept
  <2>3. /\ tail' \in Seq(Bytes) /\ Len(tail') = w
        /\ \A i \in 1 .. w : tail'[i] = IF i < w THEN tail[n - w + 1 + i] ELSE byte
    BY <1>1, <2>1, <2>2
  <2>4. ASSUME NEW i \in 1 .. w, Shifted(byte)[i] # Zero
        PROVE  tail'[i] = Shifted(byte)[i]
    <3>1. CASE i = w
      BY <1>1, <2>3, <3>1, ShiftedFacts
    <3>2. CASE i # w
      <4>1. i + 1 \in 1 .. w /\ Shifted(byte)[i] = rx[i + 1]
        <5>1. i + 1 \in 1 .. w /\ i < w
          BY <1>1, <3>2
        <5>2. Shifted(byte)[i] = IF i < w THEN rx[i + 1] ELSE byte
          BY ShiftedFacts
        <5> QED
          BY <5>1, <5>2
      <4>2. tail[n - w + (i + 1)] = rx[i + 1]
        BY <2>4, <4>1 DEF Register
      <4> QED
        BY <1>1, <2>3, <3>2, <4>1, <4>2
    <3> QED
      BY <3>1, <3>2
  <2> QED
    BY <1>1, <2>3, <2>4
<1>3. CASE n < w
  <2>1. tail' = Append(tail, byte)
    BY <1>1, <1>3 DEF Getc
  <2>2. /\ tail' \in Seq(Bytes) /\ Len(tail') = n + 1
        /\ \A i \in 1 .. n + 1 : tail'[i] = IF i <= n THEN tail[i] ELSE byte
    BY <1>1, <2>1
  <2>3. ASSUME NEW i \in 1 .. w, Shifted(byte)[i] # Zero
        PROVE  /\ n + 1 - w + i \in 1 .. n + 1
               /\ tail'[n + 1 - w + i] = Shifted(byte)[i]
    <3>1. CASE i = w
      <4>1. n + 1 - w + i = n + 1 /\ n + 1 \in 1 .. n + 1 /\ ~(n + 1 <= n)
        BY <1>1, <3>1
      <4>2. Shifted(byte)[i] = byte
        BY <1>1, <3>1, ShiftedFacts
      <4> QED
        BY <2>2, <4>1, <4>2
    <3>2. CASE i # w
      <4>1. i + 1 \in 1 .. w /\ Shifted(byte)[i] = rx[i + 1]
        <5>1. i + 1 \in 1 .. w /\ i < w
          BY <1>1, <3>2
        <5>2. Shifted(byte)[i] = IF i < w THEN rx[i + 1] ELSE byte
          BY ShiftedFacts
        <5> QED
          BY <5>1, <5>2
      <4>2. n - w + (i + 1) \in 1 .. n /\ tail[n - w + (i + 1)] = rx[i + 1]
        BY <2>3, <4>1 DEF Register
      <4> QED
        BY <1>1, <2>2, <3>2, <4>1, <4>2
    <3> QED
      BY <3>1, <3>2
  <2> QED
    BY <1>1, <1>3, <2>2, <2>3
<1> QED
  BY <1>1, <1>2, <1>3

(* So a command that was recognised is all of tail. *)
LEMMA CommandIsTail ==
  ASSUME CommandTypes, Register, pc = "command",
         NEW byte \in Bytes, Getc(byte),
         NEW word \in {KeyWord, SaveWord}, Shifted(byte) = word
  PROVE  tail' = word
<1>1. /\ word \in Seq(Bytes) /\ Len(word) = Word
      /\ \A i \in 1 .. Word : word[i] # Zero
      /\ Word \in Nat \ {0}
  BY WordFacts
<1>2. /\ tail' \in Seq(Bytes) /\ Len(tail') <= Word
      /\ \A i \in 1 .. Word :
           /\ Len(tail') - Word + i \in 1 .. Len(tail')
           /\ tail'[Len(tail') - Word + i] = word[i]
  BY <1>1, ShiftedIsTail
<1>3. Len(tail') = Word
  <2>1. 1 \in 1 .. Word /\ Len(tail') \in Nat
    BY <1>1, <1>2
  <2>2. Len(tail') - Word + 1 \in 1 .. Len(tail')
    BY <1>2, <2>1
  <2> QED
    BY <1>1, <1>2, <2>1, <2>2
<1>4. \A i \in 1 .. Word : tail'[i] = word[i]
  BY <1>1, <1>2, <1>3
<1> QED
  BY <1>1, <1>2, <1>3, <1>4

-----------------------------------------------------------------------------
(* The steps of the terminal *)

(* A character comes into the register: a key begins with nothing before it. *)
LEMMA ReadCommandKeeps ==
  ASSUME TInv, ReadCommand
  PROVE  TInv'
<1>1. /\ pc = "command" /\ key' = <<>>
      /\ UNCHANGED <<aes_on, aes_intermediate_key, eeprom, page_buffer, nvm_busy,
                     buffer, short, original, used, buffers, resets>>
  BY DEF ReadCommand, nvm, crypt
<1>2. PICK byte \in Bytes :
        /\ Getc(byte)
        /\ pc' = Target(Shifted(byte))
        /\ rx' = IF Shifted(byte) \in {KeyWord, SaveWord}
                   THEN NoWord ELSE Shifted(byte)
  BY DEF ReadCommand
<1>3. HostTypes /\ CommandTypes /\ KeyTypes /\ BufferTypes /\ Register
  BY <1>1 DEF TInv, Reading
<1>4. /\ UNCHANGED <<open, typed, connections>>
      /\ queue' \in Seq(Chars)
  <2>1. queue' \in Seq(Chars)
    <3>1. CASE queue = <<>>
      BY <1>2, <1>3, <3>1 DEF Getc, HostTypes
    <3>2. CASE queue # <<>>
      <4>1. Tail(queue) \in Seq(Chars)
        BY <1>3, <3>2, HeadTailProperties DEF HostTypes
      <4> QED
        BY <1>2, <3>2, <4>1 DEF Getc
    <3> QED
      BY <3>1, <3>2
  <2> QED
    BY <1>2, <2>1 DEF Getc
<1>5. /\ pc' \in {"key", "save", "command"}
      /\ pc' = "key" => Shifted(byte) = KeyWord
      /\ pc' = "save" => Shifted(byte) = SaveWord
      /\ pc' = "command" => Shifted(byte) \notin {KeyWord, SaveWord}
  BY <1>2 DEF Target
<1>6. pc' \in {"key", "save"} => rx' = NoWord /\ tail' = Shifted(byte)
  BY <1>2, <1>3, <1>1, <1>5, CommandIsTail
<1>7. pc' = "command" => rx' = Shifted(byte)
  BY <1>2, <1>5
<1>8. HostTypes' /\ KeyTypes' /\ BufferTypes'
  BY <1>1, <1>3, <1>4 DEF HostTypes, KeyTypes, BufferTypes
<1>9. CommandTypes'
  <2>1. rx' \in [1 .. Word -> Bytes]
    BY <1>2, <1>3, WordFacts, ShiftedFacts
  <2>2. tail' \in Seq(Bytes) /\ Len(tail') <= Word
    BY <1>1, <1>2, <1>3, ShiftedIsTail
  <2>3. key' \in Seq(Bytes) /\ Len(key') <= KeyLength
    BY <1>1, WordFacts
  <2>4. Len(tail') <= Word + KeyLength
    BY <2>2, WordFacts
  <2> QED
    BY <1>5, <2>1, <2>2, <2>3, <2>4 DEF CommandTypes
<1>10. Reading'
  <2>1. pc' = "command" => Register'
    BY <1>1, <1>2, <1>3, <1>7, ShiftedIsTail DEF Register
  <2>2. /\ pc' = "key" => tail' = KeyWord \o key'
        /\ pc' = "save" => tail' = SaveWord \o key'
    BY <1>1, <1>5, <1>6, WordFacts, ConcatEmptySeq
  <2>3. Len(key') < KeyLength
    BY <1>1, WordFacts
  <2> QED
    BY <1>5, <1>6, <2>1, <2>2, <2>3 DEF Reading
<1>11. Storing' /\ Encrypted'
  BY <1>1, <1>5 DEF TInv, Storing, Encrypted
<1> QED
  BY <1>8, <1>9, <1>10, <1>11 DEF TInv

(* A byte of a key, the last one or another. *)
LEMMA ReadKeyKeeps ==
  ASSUME TInv, ReadKey
  PROVE  TInv'
<1>1. /\ pc \in {"key", "save"}
      /\ pc' = IF ~Complete(key') THEN pc
               ELSE IF pc = "key" THEN "generate" ELSE "load"
      /\ UNCHANGED <<rx, aes_on, aes_intermediate_key, eeprom, page_buffer, nvm_busy,
                     buffer, short, original, used, buffers, resets>>
  BY DEF ReadKey, nvm, crypt
<1>2. PICK byte \in Bytes : Getc(byte) /\ key' = Append(key, byte)
  BY DEF ReadKey
<1>3. HostTypes /\ CommandTypes /\ KeyTypes /\ BufferTypes
  BY DEF TInv
<1>4. PICK word \in {KeyWord, SaveWord} :
        /\ tail = word \o key
        /\ word = IF pc = "key" THEN KeyWord ELSE SaveWord
  BY <1>1 DEF TInv, Reading
<1>5. /\ UNCHANGED <<open, typed, connections>>
      /\ queue' \in Seq(Chars)
  <2>1. queue' \in Seq(Chars)
    <3>1. CASE queue = <<>>
      BY <1>2, <1>3, <3>1 DEF Getc, HostTypes
    <3>2. CASE queue # <<>>
      <4>1. Tail(queue) \in Seq(Chars)
        BY <1>3, <3>2, HeadTailProperties DEF HostTypes
      <4> QED
        BY <1>2, <3>2, <4>1 DEF Getc
    <3> QED
      BY <3>1, <3>2
  <2> QED
    BY <1>2, <2>1 DEF Getc
<1>6. /\ key \in Seq(Bytes) /\ word \in Seq(Bytes)
      /\ tail \in Seq(Bytes)
      /\ Len(word) = Word /\ Len(key) + 1 <= KeyLength
      /\ Word \in Nat /\ KeyLength \in Nat
  BY <1>1, <1>3, WordFacts DEF CommandTypes, TInv, Reading
<1>7. /\ key' \in Seq(Bytes) /\ Len(key') = Len(key) + 1
      /\ tail' = word \o key' /\ tail' \in Seq(Bytes)
      /\ Len(tail') = Word + Len(key')
  <2>1. tail' = Append(tail, byte)
    BY <1>1, <1>2 DEF Getc
  <2>2. Append(word \o key, byte) = word \o Append(key, byte)
    <3>1. word \o key \in Seq(Bytes) /\ <<byte>> \in Seq(Bytes)
      BY <1>6
    <3>2. Append(word \o key, byte) = (word \o key) \o <<byte>>
      BY <3>1, AppendIsConcat
    <3>3. Append(key, byte) = key \o <<byte>>
      BY <1>6, AppendIsConcat
    <3>4. (word \o key) \o <<byte>> = word \o (key \o <<byte>>)
      <4>1. word \in Seq(Bytes) /\ key \in Seq(Bytes)
        BY <1>6
      <4> QED
        BY ONLY <3>1, <4>1, ConcatAssociative
    <3> QED
      BY <3>2, <3>3, <3>4
  <2>3. key' \in Seq(Bytes) /\ Len(key') = Len(key) + 1
    BY <1>2, <1>6
  <2> QED
    <3>1. tail' = word \o key'
      BY <1>2, <1>4, <2>1, <2>2
    <3>2. word \o key' \in Seq(Bytes) /\ Len(word \o key') = Len(word) + Len(key')
      BY <1>6, <2>3, ConcatProperties
    <3> QED
      BY <1>6, <2>3, <3>1, <3>2
<1>8. /\ pc' \in {pc, "generate", "load"}
      /\ pc' = pc => Len(key') < KeyLength
      /\ pc' # pc => Len(key') = KeyLength
      /\ pc' = "generate" => pc = "key"
      /\ pc' = "load" => pc = "save"
  <2>1. CASE Len(key') = KeyLength /\ pc = "key"
    BY <1>1, <2>1 DEF Complete
  <2>2. CASE Len(key') = KeyLength /\ pc = "save"
    BY <1>1, <2>2 DEF Complete
  <2>3. CASE Len(key') # KeyLength
    <3>1. pc' = pc
      BY <1>1, <2>3 DEF Complete
    <3> QED
      BY <1>1, <1>6, <1>7, <2>3, <3>1
  <2> QED
    BY <1>1, <2>1, <2>2, <2>3
<1>9. HostTypes' /\ KeyTypes' /\ BufferTypes'
  BY <1>1, <1>3, <1>5 DEF HostTypes, KeyTypes, BufferTypes
<1>10. CommandTypes'
  <2>1. Len(key') <= KeyLength /\ Len(tail') <= Word + KeyLength
    BY <1>6, <1>7
  <2> QED
    BY <1>1, <1>3, <1>7, <1>8, <2>1 DEF CommandTypes
<1>11. Reading'
  BY <1>1, <1>4, <1>7, <1>8 DEF TInv, Reading
<1>12. Storing' /\ Encrypted'
  BY <1>1, <1>8 DEF TInv, Storing, Encrypted
<1> QED
  BY <1>9, <1>10, <1>11, <1>12 DEF TInv

(* The NVM controller and the keys: what is written is what was loaded. *)
LEMMA KeyStepsKeep ==
  ASSUME TInv,
         \/ GenerateIntermediateKey \/ LoadPageBuffer
         \/ AtomicWritePage \/ WaitForNVM \/ NvmDone
  PROVE  TInv'
<1> USE DEF channel, crypt, nvm, NvmReady
<1>1. HostTypes /\ CommandTypes /\ KeyTypes /\ BufferTypes /\ Reading /\ Storing
      /\ Encrypted
  BY DEF TInv
<1>0. pc \notin {"command", "encrypt"} => rx = NoWord
  BY <1>1 DEF Reading
<1>00. rx = NoWord => Register
  BY WordFacts DEF Register
<1>2. CASE GenerateIntermediateKey
  <2>1. HostTypes' /\ CommandTypes' /\ KeyTypes' /\ BufferTypes'
    BY <1>1, <1>2 DEF HostTypes, CommandTypes, KeyTypes, BufferTypes,
       GenerateIntermediateKey
  <2>2. Reading'
    BY <1>0, <1>00, <1>1, <1>2 DEF Reading, Register, GenerateIntermediateKey
  <2>3. Storing' /\ Encrypted'
    BY <1>1, <1>2 DEF Storing, Encrypted, GenerateIntermediateKey
  <2> QED
    BY <2>1, <2>2, <2>3 DEF TInv
<1>3. CASE LoadPageBuffer
  <2>1. key \in Keys
    BY <1>1, <1>3 DEF CommandTypes, Reading, Keys, LoadPageBuffer
  <2>2. HostTypes' /\ CommandTypes' /\ KeyTypes' /\ BufferTypes'
    BY <1>1, <1>3, <2>1 DEF HostTypes, CommandTypes, KeyTypes, BufferTypes,
       LoadPageBuffer
  <2>3. Reading'
    BY <1>1, <1>3 DEF Reading, LoadPageBuffer
  <2>4. Storing' /\ Encrypted'
    BY <1>1, <1>3 DEF Storing, Encrypted, LoadPageBuffer
  <2> QED
    BY <2>2, <2>3, <2>4 DEF TInv
<1>4. CASE AtomicWritePage
  <2>1. key \in Keys
    BY <1>1, <1>4 DEF CommandTypes, Reading, Keys, AtomicWritePage
  <2>2. HostTypes' /\ CommandTypes' /\ KeyTypes' /\ BufferTypes'
    BY <1>1, <1>4 DEF HostTypes, CommandTypes, KeyTypes, BufferTypes,
       AtomicWritePage
  <2>3. Reading'
    BY <1>1, <1>4 DEF Reading, AtomicWritePage
  <2>4. Storing' /\ Encrypted'
    BY <1>1, <1>4, <2>1 DEF Storing, Encrypted, Reading, AtomicWritePage
  <2> QED
    BY <2>2, <2>3, <2>4 DEF TInv
<1>5. CASE WaitForNVM
  <2>1. HostTypes' /\ CommandTypes' /\ KeyTypes' /\ BufferTypes'
    BY <1>1, <1>5 DEF HostTypes, CommandTypes, KeyTypes, BufferTypes,
       WaitForNVM
  <2>2. Reading'
    BY <1>0, <1>00, <1>1, <1>5 DEF Reading, Register, WaitForNVM
  <2>3. Storing' /\ Encrypted'
    BY <1>1, <1>5 DEF Storing, Encrypted, WaitForNVM
  <2> QED
    BY <2>1, <2>2, <2>3 DEF TInv
<1>6. CASE NvmDone
  <2>1. HostTypes' /\ CommandTypes' /\ KeyTypes' /\ BufferTypes'
    BY <1>1, <1>6 DEF HostTypes, CommandTypes, KeyTypes, BufferTypes, Storing,
       NvmDone
  <2>2. Reading'
    BY <1>1, <1>6 DEF Reading, Storing, Register, NvmDone
  <2>3. Storing' /\ Encrypted'
    BY <1>1, <1>6 DEF Storing, Encrypted, NvmDone
  <2> QED
    BY <2>1, <2>2, <2>3 DEF TInv
<1> QED
  BY <1>2, <1>3, <1>4, <1>5, <1>6

(* The host disturbs nothing but the channel. *)
LEMMA HostKeeps ==
  ASSUME TInv,
         Disconnect \/ Connect \/ \E c \in Chars : Type(c)
  PROVE  TInv'
<1> USE DEF Disconnect, Connect, Type
<1>1. UNCHANGED <<pc, rx, key, aes_on, aes_intermediate_key, eeprom, page_buffer,
                  nvm_busy, buffer, short, original, used, buffers, tail, resets>>
  BY DEF nvm, crypt
<1>2. HostTypes /\ queue \in Seq(Chars)
  BY DEF TInv, HostTypes
<1>3. HostTypes'
  <2>1. CASE Disconnect
    BY <1>1, <1>2, <2>1 DEF HostTypes
  <2>2. CASE Connect
    <3>1. queue' \in Seq(Chars)
      <4>1. \A c \in Chars : <<c>> \in Seq(Chars)
        OBVIOUS
      <4> QED
        BY <2>2, <4>1, EmptySeq
    <3>2. connections' \in 0 .. MaxConnections /\ open' \in BOOLEAN
      BY <1>2, <2>2, WordFacts DEF HostTypes
    <3> QED
      BY <1>1, <1>2, <2>2, <3>1, <3>2 DEF HostTypes
  <2>3. ASSUME NEW c \in Chars, Type(c) PROVE HostTypes'
    <3>1. queue' \in Seq(Chars)
      BY <1>2, <2>3, AppendProperties
    <3>2. typed' \in 0 .. MaxTyped
      BY <1>2, <2>3, WordFacts DEF HostTypes
    <3> QED
      BY <1>1, <1>2, <2>3, <3>1, <3>2 DEF HostTypes
  <2> QED
    BY <2>1, <2>2, <2>3
<1>4. CommandTypes' /\ KeyTypes' /\ BufferTypes'
  BY <1>1 DEF TInv, CommandTypes, KeyTypes, BufferTypes
<1>5. Reading' /\ Storing' /\ Encrypted'
  BY <1>1 DEF TInv, Reading, Register, Storing, Encrypted
<1> QED
  BY <1>3, <1>4, <1>5 DEF TInv

(* A buffer is encrypted with the key that is stored. *)
LEMMA EncryptKeeps ==
  ASSUME TInv,
         StartEncrypt \/ EncryptBuffer
  PROVE  TInv'
<1> USE DEF channel, nvm
<1>1. HostTypes /\ CommandTypes /\ KeyTypes /\ BufferTypes /\ Reading /\ Storing
      /\ Encrypted
  BY DEF TInv
<1>2. CASE StartEncrypt
  <2> USE <1>2 DEF StartEncrypt
  <2>1. buffer' \in Seq(Blocks)
    BY TerminalAssumption
  <2>2. HostTypes'
    BY <1>1, WordFacts DEF HostTypes
  <2>3. CommandTypes' /\ KeyTypes' /\ BufferTypes'
    BY <1>1, <2>1 DEF CommandTypes, KeyTypes, BufferTypes
  <2>4. Reading'
    BY <1>1 DEF Reading, Register
  <2>5. Storing' /\ Encrypted'
    BY <1>1 DEF Storing, Encrypted
  <2> QED
    BY <2>2, <2>3, <2>4, <2>5 DEF TInv
<1>3. CASE EncryptBuffer
  <2> DEFINE aes == Aes(FALSE, eeprom)
  <2>1. /\ pc = "encrypt" /\ pc' = "command" /\ used' = eeprom
        /\ buffer' = Process(buffer, short, aes)
        /\ UNCHANGED <<open, queue, typed, connections, rx, key, aes_on,
                       aes_intermediate_key, eeprom, page_buffer, nvm_busy, short,
                       original, buffers, tail, resets>>
    BY <1>3 DEF EncryptBuffer
  <2>2. eeprom \in Keys /\ buffer \in Seq(Blocks) /\ short \in BOOLEAN
        /\ buffer = original /\ buffer \in Plain
    BY <1>1, <2>1 DEF KeyTypes, BufferTypes, Encrypted
  <2>3. /\ aes = [i \in 1 .. Len(buffer) |-> [x \in Blocks |-> Encrypt(eeprom, i, x)]]
        /\ Len(buffer) \in Nat
    BY <2>2 DEF Aes
  <2> HIDE DEF aes
  <2>30. aes \in [1 .. Len(buffer) -> [Blocks -> Blocks]]
    BY <2>2, <2>3, TerminalAssumption
  <2>4. buffer # <<>> => \A x \in Blocks : aes[1][x] = Encrypt(eeprom, 1, x)
    BY <2>2, <2>3
  <2>5. /\ buffer' = [i \in 1 .. Len(buffer) |-> buffer'[i]]
        /\ buffer # <<>> /\ ~(short /\ Len(buffer) = 1) =>
             buffer'[1] = aes[1][buffer[1]]
        /\ \A i \in 1 .. Len(buffer) : buffer'[i] \in Blocks
    <3> DEFINE out == Process(buffer, short, aes)
    <3>1. /\ out = [i \in 1 .. Len(buffer) |-> out[i]]
          /\ buffer # <<>> /\ ~(short /\ Len(buffer) = 1) => out[1] = aes[1][buffer[1]]
          /\ \A i \in 1 .. Len(buffer) : out[i] \in Blocks
      BY <2>2, <2>30, ProcessFacts
    <3> HIDE DEF out
    <3>2. buffer' = out
      BY <2>1 DEF out
    <3> QED
      BY <3>1, <3>2
  <2>6. buffer' \in Seq(Blocks) /\ Len(buffer') = Len(buffer)
    <3>1. buffer' \in [1 .. Len(buffer) -> Blocks] /\ Len(buffer) \in Nat
      BY <2>2, <2>5
    <3> QED
      BY <3>1, SeqDef
  <2>7. HostTypes' /\ CommandTypes' /\ KeyTypes' /\ BufferTypes'
    BY <1>1, <2>1, <2>2, <2>6 DEF HostTypes, CommandTypes, KeyTypes, BufferTypes
  <2>8. Reading'
    BY <1>1, <2>1 DEF Reading, Register
  <2>9. Encrypted'
    <3> SUFFICES ASSUME buffer' # <<>>
                 PROVE  /\ Len(buffer') = Len(original)
                        /\ ~(short /\ Len(buffer') = 1) =>
                             buffer'[1] = Encrypt(eeprom, 1, original[1])
      BY <2>1 DEF Encrypted
    <3>1. buffer # <<>> /\ buffer[1] \in Blocks
      BY <2>2, <2>6
    <3> QED
      BY <2>2, <2>4, <2>5, <2>6, <3>1
  <2>10. Storing'
    BY <1>1, <2>1 DEF Storing
  <2> QED
    BY <2>7, <2>8, <2>9, <2>10 DEF TInv
<1> QED
  BY <1>2, <1>3

(* A reset leaves a key of old, erased and new bytes, and nothing in RAM. *)
LEMMA ResetKeeps ==
  ASSUME TInv, Reset
  PROVE  TInv'
<1> USE DEF Reset
<1>1. HostTypes /\ CommandTypes /\ KeyTypes /\ BufferTypes /\ Encrypted
  BY DEF TInv
<1>2. eeprom' \in Keys
  BY <1>1 DEF Cells, Keys, KeyTypes
<1>3. HostTypes'
  <2>1. resets' \in 0 .. MaxResets
    BY <1>1, WordFacts DEF HostTypes
  <2> QED
    BY <1>1, <2>1, EmptySeq DEF HostTypes
<1>4. CommandTypes'
  BY <1>1, WordFacts, EmptySeq DEF CommandTypes
<1>5. KeyTypes' /\ BufferTypes'
  BY <1>1, <1>2, EmptySeq DEF KeyTypes, BufferTypes
<1>6. Reading'
  BY WordFacts DEF Reading, Register
<1>7. Storing' /\ Encrypted'
  BY <1>1 DEF Storing, Encrypted
<1> QED
  BY <1>3, <1>4, <1>5, <1>6, <1>7 DEF TInv

(* So does every step. *)
LEMMA TerminalKeeps == TInv /\ [TerminalNext]_terminalVars => TInv'
<1> SUFFICES ASSUME TInv, [TerminalNext]_terminalVars PROVE TInv'
  OBVIOUS
<1>1. CASE UNCHANGED terminalVars
  <2>1. UNCHANGED <<open, queue, typed, connections, pc, rx, key, aes_on,
                    aes_intermediate_key, eeprom, page_buffer, nvm_busy, buffer,
                    short, original, used, buffers, tail, resets>>
    BY <1>1 DEF terminalVars, channel, nvm, crypt
  <2>2. HostTypes' /\ CommandTypes' /\ KeyTypes' /\ BufferTypes'
    BY <2>1 DEF TInv, HostTypes, CommandTypes, KeyTypes, BufferTypes
  <2>3. Reading' /\ Storing' /\ Encrypted'
    BY <2>1 DEF TInv, Reading, Register, Storing, Encrypted
  <2> QED
    BY <2>2, <2>3 DEF TInv
<1>2. CASE TerminalNext
  BY <1>2, ReadCommandKeeps, ReadKeyKeeps, KeyStepsKeep, HostKeeps, EncryptKeeps,
     ResetKeeps DEF TerminalNext, Program
<1> QED
  BY <1>1, <1>2

(* The invariant of the terminal holds in every behaviour (USB_terminal,      *)
(* CRYPT_load_key, CRYPT_process_buffer).                                  *)
THEOREM TerminalInvariant == TerminalSpec => []TInv
<1>1. TerminalInit => TInv
  BY InitTInv
<1> QED
  BY <1>1, TerminalKeeps, PTL DEF TerminalSpec

(* All variables of the terminal, of encryption and of the EEPROM keep their  *)
(* types; no more bytes than a key has are read into one (usb.c:126).        *)
THEOREM TerminalTypes == TerminalSpec => []TerminalTypeOK
<1>1. TInv => TerminalTypeOK
  <2> SUFFICES ASSUME TInv PROVE TerminalTypeOK
    OBVIOUS
  <2>1. key \in BoundedSeq(Bytes, KeyLength)
    <3>1. key \in [1 .. Len(key) -> Bytes] /\ Len(key) \in 0 .. KeyLength
      BY DEF TInv, CommandTypes
    <3> QED
      BY <3>1 DEF BoundedSeq, SeqOf
  <2>2. tail \in BoundedSeq(Bytes, Word + KeyLength)
    <3>1. /\ tail \in [1 .. Len(tail) -> Bytes]
          /\ Len(tail) \in 0 .. Word + KeyLength
      BY WordFacts DEF TInv, CommandTypes
    <3> QED
      BY <3>1 DEF BoundedSeq, SeqOf
  <2> QED
    BY <2>1, <2>2 DEF TerminalTypeOK, TInv, HostTypes, CommandTypes, KeyTypes, BufferTypes
<1> QED
  BY <1>1, TerminalInvariant, PTL

(* Whatever the cipher, the key and the length of the buffer: its first block *)
(* comes back with the intermediate key of the key that encrypted it, if it *)
(* is not short (CRYPT_process_buffer, crypto.c:52).                         *)
THEOREM BlockComesBack == TerminalSpec => []FirstBlockBack
<1>1. TInv => FirstBlockBack
  <2> SUFFICES ASSUME TInv, pc # "encrypt", buffer # <<>>,
                      aes_intermediate_key = LastSubkey(used),
                      ~(short /\ Len(buffer) = 1)
               PROVE  Head(Decrypted) = Head(original)
    BY DEF FirstBlockBack
  <2> DEFINE aes == Aes(TRUE, aes_intermediate_key)
  <2>1. /\ buffer \in Seq(Blocks) /\ original \in Seq(Blocks) /\ used \in Keys
        /\ short \in BOOLEAN
        /\ Len(buffer) = Len(original) /\ buffer[1] = Encrypt(used, 1, original[1])
    BY DEF TInv, BufferTypes, Encrypted
  <2>2. original # <<>> /\ original[1] \in Blocks /\ buffer[1] \in Blocks
    BY <2>1
  <2>3. aes[1][buffer[1]] = original[1]
    <3>1. aes[1][buffer[1]] = Decrypt(aes_intermediate_key, 1, buffer[1])
      BY <2>1, <2>2 DEF Aes
    <3> QED
      BY <2>1, <2>2, <3>1, TerminalAssumption
  <2> HIDE DEF aes
  <2>4. /\ Decrypted = [i \in 1 .. Len(buffer) |-> Decrypted[i]]
        /\ Decrypted[1] = aes[1][buffer[1]]
    <3> DEFINE out == Process(buffer, short, aes)
    <3>1. /\ out = [i \in 1 .. Len(buffer) |-> out[i]]
          /\ buffer # <<>> /\ ~(short /\ Len(buffer) = 1) => out[1] = aes[1][buffer[1]]
      <4>1. buffer \in Seq(Blocks) /\ short \in BOOLEAN
        BY <2>1
      <4> QED
        BY <4>1, ProcessFacts
    <3>2. Decrypted = out
      BY DEF Decrypted, aes
    <3> HIDE DEF out
    <3> QED
      BY <2>1, <2>2, <3>1, <3>2
  <2>5. Head(Decrypted) = Decrypted[1]
    OBVIOUS
  <2> QED
    BY <2>1, <2>2, <2>3, <2>4, <2>5
<1> QED
  BY <1>1, TerminalInvariant, PTL

(* The key in the EEPROM changes to what was typed after "save" and to        *)
(* nothing else, but for resets during the write, whatever the commands, the *)
(* length of keys, and the disconnections meanwhile (usb.c, CRYPT_load_key).  *)
THEOREM KeyIsSavedAsTyped == TerminalSpec => SavedAsTyped
<1>1. TInv /\ [TerminalNext]_terminalVars =>
        (eeprom' # eeprom /\ resets' = resets => tail = SaveWord \o eeprom')
  <2> SUFFICES ASSUME TInv, [TerminalNext]_terminalVars, eeprom' # eeprom,
                      resets' = resets
               PROVE  tail = SaveWord \o eeprom'
    OBVIOUS
  <2>1. resets \in Nat
    BY WordFacts DEF TInv, HostTypes
  <2>2. ~Reset
    BY <2>1 DEF Reset
  <2>3. ~Program
    BY DEF Program, nvm, ReadCommand, ReadKey, GenerateIntermediateKey,
       LoadPageBuffer, AtomicWritePage, WaitForNVM, StartEncrypt, EncryptBuffer
  <2>4. NvmDone
    BY <2>2, <2>3 DEF TerminalNext, terminalVars, nvm, Disconnect, Connect, Type
  <2> QED
    BY <2>4 DEF TInv, Storing, NvmDone
<1> QED
  BY <1>1, TerminalInvariant, PTL DEF TerminalSpec, SavedAsTyped

================================================================================
