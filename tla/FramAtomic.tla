------------------------------ MODULE FramAtomic ------------------------------
(***************************************************************************)
(* The atomic buffer of gps_logger/fram.c: data in the FRAM, with its CRC   *)
(* and a marker in the metadata before it, written in such an order that a  *)
(* check can tell whether the power failed meanwhile.                       *)
(*                                                                         *)
(* The FRAM takes each byte as it is sent, at the next address.            *)
(***************************************************************************)
EXTENDS Integers, Sequences, SequencesExt

CONSTANTS
  Buffers,      \* the buffers written, all of the same length
  Crc,          \* the CRC-32 of each possible content of the data: four bytes
  MaxLosses     \* bound on the losses of power

(* FRAM_MAP_ATOMIC_META, FRAM_MAP_ATOMIC_DATA and FRAM_ATOMIC_MARKER. *)
Meta   == 0
Data   == 8
Marker == <<66, 28, 3, 167>>

Size      == Len(CHOOSE b \in Buffers : TRUE)
Byte      == 0 .. 255
Addresses == Meta .. Data + Size - 1

Contents == [1 .. Size -> Byte]

ASSUME FramAssumption ==
  /\ Buffers # {} /\ Size > 0
  /\ \A b \in Buffers : b \in Seq(Byte) /\ Len(b) = Size
  /\ DOMAIN Crc = Contents
  /\ \A d \in Contents : Crc[d] \in Seq(Byte) /\ Len(Crc[d]) = 4
  /\ MaxLosses \in Nat

VARIABLES
  fram,
  todo,      \* what the running function has yet to write: [address, bytes]
  call,      \* that function, or "none"
  result,    \* of the last check, or "none" if something was called since
  stored,    \* history: the buffer last written completely, if nothing was
             \* called or lost since, else <<>>
  cleared,   \* history: no write came as far as its metadata since the
             \* metadata was cleared
  losses

vars == <<fram, todo, call, result, stored, cleared, losses>>

(* A new FRAM holds anything: here zeros, or what a check would accept. *)
Fresh(b) == [a \in Addresses |-> (Marker \o Crc[b] \o b)[a + 1]]

Init ==
  /\ fram \in {[a \in Addresses |-> 0]} \cup {Fresh(b) : b \in Buffers}
  /\ todo = <<>>
  /\ call = "none"
  /\ result = "none"
  /\ stored = <<>>
  /\ cleared = FALSE
  /\ losses = 0

-----------------------------------------------------------------------------
(* What FRAM_write is given. *)
Write(a, bytes) == [address |-> a, bytes |-> bytes]

(* FRAM_read *)
Read(a, n) == [i \in 1 .. n |-> fram[a + i - 1]]

(* A function of the driver is called. *)
Call(f, writes) ==
  /\ call = "none"
  /\ call' = f /\ todo' = writes
  /\ result' = "none" /\ stored' = <<>>
  /\ UNCHANGED <<fram, losses>>

(* FRAM_atomic_write: the CRC is computed as the data are sent. *)
AtomicWrite(b) ==
  /\ Call("write", <<Write(Data, b), Write(Meta + 2, Crc[b]), Write(Meta, Marker)>>)
  /\ UNCHANGED cleared

Zeros(n) == [i \in 1 .. n |-> 0]

(* Mutant: sizeof of one field, not of the metadata. *)
AtomicClearMarker ==
  /\ Call("clear", <<Write(Meta, Zeros(4))>>)
  /\ UNCHANGED cleared

(* FRAM_atomic_clear *)
AtomicClear ==
  /\ Call("clear", <<Write(Meta, Zeros(8))>>)
  /\ UNCHANGED cleared

(* What is left to write after a byte of the first write. *)
Rest(w) == (IF Len(w.bytes) = 1 THEN <<>>
            ELSE <<Write(w.address + 1, Tail(w.bytes))>>) \o Tail(todo)

(* A byte is sent. *)
SendByte ==
  /\ todo # <<>>
  /\ LET w == Head(todo) IN
     /\ fram' = [fram EXCEPT ![w.address] = Head(w.bytes)]
     /\ todo' = Rest(w)
     /\ cleared' = (cleared /\ w.address >= Data)
  /\ UNCHANGED <<call, result, stored, losses>>

(* The function returns. *)
Return ==
  /\ call # "none" /\ todo = <<>>
  /\ call' = "none"
  /\ stored' = IF call = "write" THEN Read(Data, Size) ELSE <<>>
  /\ cleared' = (cleared \/ call = "clear")
  /\ UNCHANGED <<fram, todo, result, losses>>

(* FRAM_atomic_check: the second field of the metadata is compared with the *)
(* CRC of the data, the first is read and not used.                        *)
Accepted == Read(Meta + 4, 4) = Crc[Read(Data, Size)]

AtomicCheck ==
  /\ call = "none"
  /\ result' = IF Accepted THEN "true" ELSE "false"
  /\ UNCHANGED <<fram, todo, call, stored, cleared, losses>>

(* Power is lost; the FRAM keeps what it got. *)
PowerLoss ==
  /\ losses < MaxLosses
  /\ losses' = losses + 1
  /\ todo' = <<>> /\ call' = "none" /\ result' = "none"
  /\ stored' = IF call = "none" THEN stored ELSE <<>>
  /\ UNCHANGED <<fram, cleared>>

Next == \/ \E b \in Buffers : AtomicWrite(b)
        \/ AtomicClear \/ AtomicCheck
        \/ SendByte \/ Return
        \/ PowerLoss

Spec == Init /\ [][Next]_vars

-----------------------------------------------------------------------------
(* Type invariant. *)
TypeOK ==
  /\ fram \in [Addresses -> Byte]
  /\ \A w \in Range(todo) : \A i \in 1 .. Len(w.bytes) :
       w.address + i - 1 \in Addresses /\ w.bytes[i] \in Byte
  /\ call \in {"none", "write", "clear"}
  /\ result \in {"none", "true", "false"}
  /\ stored \in Buffers \cup {<<>>}
  /\ cleared \in BOOLEAN
  /\ losses \in 0 .. MaxLosses

(* Once the metadata are cleared, and before a write has got past its data, *)
(* the check accepts only what has the CRC zero, as cleared metadata have:    *)
(* however many writes were torn by a power loss, and whatever mix of them    *)
(* the data are.                                                           *)
ClearedIsRejected ==
  cleared /\ result = "true" => Crc[Read(Data, Size)] = Zeros(4)

(* "Check atomic buffer": the check accepts what "Write atomic buffer" has   *)
(* written completely.                                                     *)
WrittenIsAccepted == stored # <<>> => result # "false"

===============================================================================
