------------------------------- MODULE DataProofs -------------------------------
(***************************************************************************)
(* Proofs about the data of the logger: the buffer FramAtomic keeps, for    *)
(* every length, every CRC, and any number of power losses; and            *)
(* the sentences NmeaDecode decodes, for every set of lines,    *)
(* every size of the array and all that may lie behind it.                  *)
(***************************************************************************)
EXTENDS FramAtomic, NmeaDecode, SequenceTheorems, FiniteSetTheorems,
        WellFoundedInduction, TLAPS

-----------------------------------------------------------------------------
(* The buffer in the FRAM *)

(* What FRAM_write may be given, and what is left of it. *)
Job == {w \in [address : Addresses, bytes : Seq(Byte)] :
          Len(w.bytes) > 0 /\ w.address + Len(w.bytes) - 1 \in Addresses}

Types ==
  /\ fram \in [Addresses -> Byte]
  /\ todo \in Seq(Job)
  /\ call \in {"none", "write", "clear"}
  /\ result \in {"none", "true", "false"}
  /\ stored \in Buffers \cup {<<>>}
  /\ cleared \in BOOLEAN
  /\ losses \in 0 .. MaxLosses

(* Something is left to write, or was checked before, only in or out of a     *)
(* call.                                                                   *)
Calls ==
  /\ todo # <<>> => call # "none"
  /\ call # "none" => result = "none"

(* Buffer b is in the FRAM up to its byte k, and the rest comes next; what    *)
(* else is to be written is in front of it.                                 *)
Writing(b, k) ==
  /\ \A i \in 1 .. k : fram[Data + i - 1] = b[i]
  /\ k < Size =>
       /\ todo # <<>>
       /\ todo[1].address = Data + k
       /\ Len(todo[1].bytes) = Size - k
       /\ \A i \in 1 .. Size - k : todo[1].bytes[i] = b[k + i]
  /\ \A j \in 1 .. Len(todo) :
       k = Size \/ j > 1 => todo[j].address + Len(todo[j].bytes) <= Data

(* The metadata are zero up to byte k, and the rest comes next. *)
Clearing(k) ==
  /\ \A a \in 0 .. k - 1 : fram[a] = 0
  /\ k = 8 => todo = <<>>
  /\ k < 8 => /\ Len(todo) = 1
              /\ todo[1].address = k
              /\ Len(todo[1].bytes) = 8 - k
              /\ \A i \in 1 .. 8 - k : todo[1].bytes[i] = 0

Jobs ==
  /\ call = "write" => \E b \in Buffers, k \in 0 .. Size : Writing(b, k)
  /\ call = "clear" => \E k \in 0 .. 8 : Clearing(k)

(* Cleared metadata are zero. *)
Zeroed == cleared => \A a \in 0 .. 7 : fram[a] = 0

IInv == Types /\ Calls /\ Jobs /\ Zeroed /\ ClearedIsRejected

-----------------------------------------------------------------------------
(* Sizes and places *)

LEMMA Sizes ==
  /\ Size \in Nat \ {0}
  /\ Meta = 0 /\ Data = 8
  /\ \A a : a \in Addresses <=> a \in 0 .. 7 + Size
<1>1. PICK b \in Buffers : TRUE
  BY FramAssumption
<1>2. Len(b) \in Nat /\ Len(b) = Size
  BY FramAssumption
<1>3. Size \in Nat /\ Size > 0
  BY <1>2, FramAssumption
<1> HIDE DEF Size
<1>4. \A a : a \in Addresses <=> a \in 0 .. 7 + Size
  BY <1>3 DEF Addresses, Meta, Data
<1> QED
  BY <1>3, <1>4 DEF Meta, Data

(* A buffer, and a content, are the same thing. *)
LEMMA BufferContent ==
  \A b \in Buffers : /\ b \in Seq(Byte) /\ Len(b) = Size /\ b \in Contents
                     /\ Crc[b] \in Seq(Byte) /\ Len(Crc[b]) = 4
<1> SUFFICES ASSUME NEW b \in Buffers
             PROVE  /\ b \in Seq(Byte) /\ Len(b) = Size /\ b \in Contents
                    /\ Crc[b] \in Seq(Byte) /\ Len(Crc[b]) = 4
  OBVIOUS
<1>1. b \in Seq(Byte) /\ Len(b) = Size
  BY FramAssumption
<1>2. b \in [1 .. Len(b) -> Byte]
  BY <1>1
<1>3. b \in Contents
  BY <1>1, <1>2 DEF Contents
<1> QED
  BY <1>1, <1>3, FramAssumption

LEMMA MarkerType == Marker \in Seq(Byte) /\ Len(Marker) = 4
  BY DEF Marker, Byte

(* What is left of the first write after a byte of it. *)
LEMMA RestIs ==
  ASSUME NEW w \in Job, todo \in Seq(Job), todo # <<>>, w = Head(todo)
  PROVE  /\ w = todo[1]
         /\ Rest(w) \in Seq(Job)
         /\ Len(w.bytes) = 1 =>
              /\ Len(Rest(w)) = Len(todo) - 1
              /\ \A j \in 1 .. Len(todo) - 1 : Rest(w)[j] = todo[j + 1]
         /\ Len(w.bytes) # 1 =>
              /\ Len(Rest(w)) = Len(todo)
              /\ Rest(w)[1].address = w.address + 1
              /\ Len(Rest(w)[1].bytes) = Len(w.bytes) - 1
              /\ \A i \in 1 .. Len(w.bytes) - 1 : Rest(w)[1].bytes[i] = w.bytes[i + 1]
              /\ \A j \in 2 .. Len(todo) : Rest(w)[j] = todo[j]
<1>1. w = todo[1]
  OBVIOUS
<1>2. /\ Tail(todo) \in Seq(Job) /\ Len(Tail(todo)) = Len(todo) - 1
      /\ \A j \in 1 .. Len(todo) - 1 : Tail(todo)[j] = todo[j + 1]
      /\ Len(todo) \in Nat /\ Len(todo) > 0
  OBVIOUS
<1>3. ASSUME Len(w.bytes) = 1
      PROVE  /\ Rest(w) \in Seq(Job)
             /\ Len(Rest(w)) = Len(todo) - 1
             /\ \A j \in 1 .. Len(todo) - 1 : Rest(w)[j] = todo[j + 1]
  <2>1. Rest(w) = <<>> \o Tail(todo)
    BY <1>3 DEF Rest
  <2>2. <<>> \o Tail(todo) = Tail(todo)
    BY <1>2
  <2> QED
    BY <1>2, <2>1, <2>2
<1>4. ASSUME Len(w.bytes) # 1
      PROVE  /\ Rest(w) \in Seq(Job)
             /\ Len(Rest(w)) = Len(todo)
             /\ Rest(w)[1].address = w.address + 1
             /\ Len(Rest(w)[1].bytes) = Len(w.bytes) - 1
             /\ \A i \in 1 .. Len(w.bytes) - 1 : Rest(w)[1].bytes[i] = w.bytes[i + 1]
             /\ \A j \in 2 .. Len(todo) : Rest(w)[j] = todo[j]
  <2>1. PICK a \in Addresses, bytes \in Seq(Byte) :
          /\ w.address = a /\ w.bytes = bytes
          /\ Len(bytes) > 0 /\ a + Len(bytes) - 1 \in Addresses
    <3>1. /\ w.address \in Addresses /\ w.bytes \in Seq(Byte)
          /\ Len(w.bytes) > 0 /\ w.address + Len(w.bytes) - 1 \in Addresses
      BY DEF Job
    <3> QED
      BY <3>1, Zenon
  <2>2. PICK n \in Nat : n = Len(bytes)
    OBVIOUS
  <2>3. n > 1 /\ n # 1 /\ a + n - 1 \in Addresses
    <3>1. n # 1 /\ n > 0 /\ a + n - 1 \in Addresses
      BY <1>4, <2>1, <2>2, Zenon
    <3> QED
      BY <3>1
  <2>4. PICK rest \in Seq(Byte) :
          /\ rest = Tail(bytes) /\ Len(rest) = n - 1
          /\ \A i \in 1 .. n - 1 : rest[i] = bytes[i + 1]
    <3>1. bytes # <<>>
      <4>1. bytes = <<>> => n = 0
        BY <2>2
      <4> QED
        BY <2>3, <4>1
    <3> QED
      <4>1. /\ Tail(bytes) \in Seq(Byte) /\ Len(Tail(bytes)) = Len(bytes) - 1
            /\ \A i \in 1 .. Len(Tail(bytes)) : Tail(bytes)[i] = bytes[i + 1]
        BY <3>1, HeadTailProperties
      <4> QED
        BY <2>2, <4>1, Zenon
  <2>5. a + 1 \in Addresses /\ a + 1 + Len(rest) - 1 \in Addresses
    <3>1. a \in 0 .. 7 + Size /\ a + n - 1 \in 0 .. 7 + Size
      BY <2>3, Sizes
    <3>2. a + 1 \in 0 .. 7 + Size /\ a + 1 + (n - 1) - 1 \in 0 .. 7 + Size
      BY <2>3, <3>1, Sizes
    <3> QED
      BY <2>4, <3>2, Sizes
  <2>6. Write(a + 1, rest) \in Job
    <3>1. /\ Write(a + 1, rest) \in [address : Addresses, bytes : Seq(Byte)]
          /\ Write(a + 1, rest).address = a + 1 /\ Write(a + 1, rest).bytes = rest
      BY <2>5 DEF Write
    <3>2. Len(rest) > 0
      BY <2>3, <2>4
    <3> QED
      BY <2>5, <3>1, <3>2 DEF Job
  <2>7. PICK r \in Job : /\ r = Write(w.address + 1, Tail(w.bytes))
                         /\ r.address = a + 1 /\ r.bytes = rest
    BY <2>1, <2>4, <2>6 DEF Write
  <2>8. Rest(w) = <<r>> \o Tail(todo)
    BY <1>4, <2>7 DEF Rest
  <2>9. /\ <<r>> \o Tail(todo) \in Seq(Job)
        /\ Len(<<r>> \o Tail(todo)) = Len(todo)
        /\ (<<r>> \o Tail(todo))[1] = r
        /\ \A j \in 2 .. Len(todo) : (<<r>> \o Tail(todo))[j] = Tail(todo)[j - 1]
    BY <1>2
  <2>10. \A j \in 2 .. Len(todo) : Tail(todo)[j - 1] = todo[j]
    <3> SUFFICES ASSUME NEW j \in 2 .. Len(todo) PROVE Tail(todo)[j - 1] = todo[j]
      OBVIOUS
    <3>1. j - 1 \in 1 .. Len(todo) - 1 /\ (j - 1) + 1 = j
      BY <1>2
    <3> QED
      BY <1>2, <3>1
  <2>11. /\ Rest(w)[1].address = w.address + 1
         /\ Len(Rest(w)[1].bytes) = Len(w.bytes) - 1
         /\ \A i \in 1 .. Len(w.bytes) - 1 : Rest(w)[1].bytes[i] = w.bytes[i + 1]
    <3>1. Rest(w)[1] = r
      BY <2>8, <2>9
    <3> QED
      BY <2>1, <2>2, <2>4, <2>7, <3>1
  <2> QED
    BY <2>8, <2>9, <2>10, <2>11
<1> QED
  BY <1>1, <1>3, <1>4

(* A function that is called writes within the memory. *)
LEMMA WriteIsJob ==
  ASSUME NEW a \in Nat, NEW bytes \in Seq(Byte), NEW n \in Nat \ {0},
         Len(bytes) = n, a + n <= 8 + Size
  PROVE  /\ Write(a, bytes) \in Job
         /\ Write(a, bytes).address = a
         /\ Write(a, bytes).bytes = bytes
<1>1. a \in Addresses /\ a + n - 1 \in Addresses
  <2>1. a \in 0 .. 7 + Size /\ a + n - 1 \in 0 .. 7 + Size
    BY Sizes
  <2> QED
    BY <2>1, Sizes
<1>2. /\ Write(a, bytes) \in [address : Addresses, bytes : Seq(Byte)]
      /\ Write(a, bytes).address = a /\ Write(a, bytes).bytes = bytes
  BY <1>1 DEF Write
<1>3. Len(bytes) > 0 /\ a + Len(bytes) - 1 \in Addresses
  BY <1>1
<1> QED
  BY <1>2, <1>3 DEF Job

LEMMA ZerosType ==
  ASSUME NEW n \in Nat
  PROVE  /\ Zeros(n) \in Seq(Byte)
         /\ Len(Zeros(n)) = n
         /\ \A i \in 1 .. n : Zeros(n)[i] = 0
<1>1. Zeros(n) \in [1 .. n -> Byte] /\ \A i \in 1 .. n : Zeros(n)[i] = 0
  BY DEF Zeros, Byte
<1>2. Zeros(n) \in Seq(Byte)
  BY <1>1
<1>3. DOMAIN Zeros(n) = 1 .. n
  BY <1>1
<1>4. Len(Zeros(n)) = n
  BY <1>2, <1>3
<1> QED
  BY <1>1, <1>2, <1>4

(* A new FRAM holds bytes, and nothing is called. *)
LEMMA InitInv == Init => IInv
<1> SUFFICES ASSUME Init PROVE IInv
  OBVIOUS
<1>1. ASSUME NEW b \in Buffers PROVE Fresh(b) \in [Addresses -> Byte]
  <2> DEFINE s == (Marker \o Crc[b]) \o b
  <2>1. Marker \o Crc[b] \in Seq(Byte) /\ Len(Marker \o Crc[b]) = 8
    <3>1. /\ Marker \o Crc[b] \in Seq(Byte)
          /\ Len(Marker \o Crc[b]) = Len(Marker) + Len(Crc[b])
      BY BufferContent, MarkerType, ConcatProperties
    <3> QED
      BY <3>1, BufferContent, MarkerType
  <2>2. s \in Seq(Byte) /\ Len(s) = 8 + Size
    <3>1. s \in Seq(Byte) /\ Len(s) = Len(Marker \o Crc[b]) + Len(b)
      BY <2>1, BufferContent, ConcatProperties
    <3> QED
      BY <2>1, <3>1, BufferContent
  <2> HIDE DEF s
  <2>3. \A a \in Addresses : s[a + 1] \in Byte
    <3> SUFFICES ASSUME NEW a \in Addresses PROVE s[a + 1] \in Byte
      OBVIOUS
    <3>1. a \in 0 .. 7 + Size
      BY Sizes
    <3>2. a + 1 \in 1 .. Len(s)
      BY <2>2, <3>1, Sizes
    <3> QED
      BY <2>2, <3>2, ElementOfSeq
  <2> QED
    BY <2>3 DEF Fresh, s
<1>2. fram \in [Addresses -> Byte]
  <2>1. [a \in Addresses |-> 0] \in [Addresses -> Byte]
    BY DEF Byte
  <2> QED
    BY <1>1, <2>1 DEF Init
<1>3. Types
  <2>1. <<>> \in Seq(Job) /\ 0 \in 0 .. MaxLosses
    BY FramAssumption
  <2> QED
    BY <1>2, <2>1 DEF Init, Types
<1> QED
  BY <1>3 DEF Init, IInv, Calls, Jobs, Zeroed, ClearedIsRejected

(* A write begins with its first byte of the buffer. *)
LEMMA WriteKeeps == ASSUME IInv, NEW b \in Buffers, AtomicWrite(b) PROVE IInv'
<1> DEFINE data == Write(Data, b)
           crc  == Write(Meta + 2, Crc[b])
           mark == Write(Meta, Marker)
<1>1. /\ UNCHANGED <<fram, losses, cleared>>
      /\ call = "none" /\ call' = "write" /\ todo' = <<data, crc, mark>>
      /\ result' = "none" /\ stored' = <<>>
  BY DEF AtomicWrite, Call
<1>2. /\ data \in Job /\ data.address = 8 /\ data.bytes = b
      /\ crc \in Job /\ crc.address = 2 /\ crc.bytes = Crc[b]
      /\ mark \in Job /\ mark.address = 0 /\ mark.bytes = Marker
  <2>1. data \in Job /\ data.address = 8 /\ data.bytes = b
    <3>1. /\ b \in Seq(Byte) /\ Len(b) = Size /\ Data = 8
          /\ 8 \in Nat /\ Size \in Nat \ {0} /\ 8 + Size <= 8 + Size
      BY Sizes, BufferContent
    <3>2. /\ Write(8, b) \in Job
          /\ Write(8, b).address = 8 /\ Write(8, b).bytes = b
      BY <3>1, WriteIsJob
    <3> QED
      BY <3>1, <3>2, Zenon
  <2>2. 2 + 4 <= 8 + Size /\ 0 + 4 <= 8 + Size /\ Meta + 2 = 2
    BY Sizes
  <2>3. crc \in Job /\ crc.address = 2 /\ crc.bytes = Crc[b]
    <3>1. /\ Crc[b] \in Seq(Byte) /\ Len(Crc[b]) = 4
          /\ 2 \in Nat /\ 4 \in Nat \ {0}
      BY BufferContent
    <3>2. /\ Write(2, Crc[b]) \in Job
          /\ Write(2, Crc[b]).address = 2 /\ Write(2, Crc[b]).bytes = Crc[b]
      BY <2>2, <3>1, WriteIsJob
    <3> QED
      BY <2>2, <3>2, Zenon
  <2>4. mark \in Job /\ mark.address = 0 /\ mark.bytes = Marker
    <3>1. 0 \in Nat /\ 4 \in Nat \ {0} /\ Meta = 0
      BY Sizes
    <3>2. /\ Write(0, Marker) \in Job
          /\ Write(0, Marker).address = 0 /\ Write(0, Marker).bytes = Marker
      BY <2>2, <3>1, MarkerType, WriteIsJob
    <3> QED
      BY <3>1, <3>2, Zenon
  <2> QED
    BY <2>1, <2>3, <2>4
<1> HIDE DEF data, crc, mark
<1>3. /\ todo' \in Seq(Job) /\ Len(todo') = 3 /\ todo' # <<>>
      /\ todo'[1] = data /\ todo'[2] = crc /\ todo'[3] = mark
  BY <1>1, <1>2
<1>4. Types'
  BY <1>1, <1>3 DEF IInv, Types
<1>5. Calls' /\ Zeroed' /\ ClearedIsRejected'
  BY <1>1 DEF IInv, Calls, Zeroed, ClearedIsRejected
<1>6. Writing(b, 0)'
  <2>1. /\ todo'[1].address = Data + 0 /\ Len(todo'[1].bytes) = Size - 0
        /\ \A i \in 1 .. Size - 0 : todo'[1].bytes[i] = b[0 + i]
    BY <1>2, <1>3, Sizes, BufferContent
  <2>2. \A j \in 1 .. Len(todo') :
          0 = Size \/ j > 1 => todo'[j].address + Len(todo'[j].bytes) <= Data
    <3>1. /\ todo'[2].address + Len(todo'[2].bytes) <= 8
          /\ todo'[3].address + Len(todo'[3].bytes) <= 8
      <4>1. /\ todo'[2].address = 2 /\ todo'[3].address = 0
            /\ Len(todo'[2].bytes) = Len(Crc[b])
            /\ Len(todo'[3].bytes) = Len(Marker)
        BY <1>2, <1>3, Zenon
      <4>2. Len(Crc[b]) = 4 /\ Len(Marker) = 4
        BY BufferContent, MarkerType
      <4> QED
        BY <4>1, <4>2
    <3>2. \A j \in 1 .. Len(todo') : j = 1 \/ j = 2 \/ j = 3
      BY <1>3
    <3> QED
      BY <3>1, <3>2, Sizes
  <2> QED
    BY <1>3, <2>1, <2>2 DEF Writing
<1>7. Jobs'
  <2>1. 0 \in 0 .. Size
    BY Sizes
  <2> QED
    BY <1>1, <1>6, <2>1 DEF Jobs
<1> QED
  BY <1>4, <1>5, <1>7 DEF IInv

(* A clear begins with the first byte of the metadata. *)
LEMMA ClearKeeps == ASSUME IInv, AtomicClear PROVE IInv'
<1> DEFINE w == Write(Meta, Zeros(8))
<1>1. /\ UNCHANGED <<fram, losses, cleared>>
      /\ call = "none" /\ call' = "clear" /\ todo' = <<w>>
      /\ result' = "none" /\ stored' = <<>>
  BY DEF AtomicClear, Call
<1>2. /\ w \in Job /\ w.address = 0 /\ Len(w.bytes) = 8
      /\ \A i \in 1 .. 8 : w.bytes[i] = 0
  <2>1. w \in Job /\ w.address = 0 /\ w.bytes = Zeros(8)
    BY Sizes, ZerosType, WriteIsJob
  <2> QED
    BY <2>1, ZerosType
<1> HIDE DEF w
<1>3. todo' \in Seq(Job) /\ Len(todo') = 1 /\ todo'[1] = w /\ todo' # <<>>
  BY <1>1, <1>2
<1>4. Types'
  BY <1>1, <1>3 DEF IInv, Types
<1>5. Calls' /\ Zeroed' /\ ClearedIsRejected'
  BY <1>1 DEF IInv, Calls, Zeroed, ClearedIsRejected
<1>6. Clearing(0)'
  BY <1>2, <1>3 DEF Clearing
<1>7. Jobs'
  BY <1>1, <1>6 DEF Jobs
<1> QED
  BY <1>4, <1>5, <1>7 DEF IInv

(* A byte is sent: it stays in the FRAM as its function wants it. *)
LEMMA SendKeeps == ASSUME IInv, SendByte PROVE IInv'
<1> DEFINE w == Head(todo)
<1>1. Types /\ Calls /\ Jobs /\ Zeroed /\ ClearedIsRejected
  BY DEF IInv
<1>2. /\ UNCHANGED <<call, result, stored, losses>>
      /\ todo # <<>> /\ todo' = Rest(w)
      /\ fram' = [fram EXCEPT ![w.address] = Head(w.bytes)]
      /\ cleared' = (cleared /\ w.address >= Data)
  BY DEF SendByte
<1>3. w \in Job /\ todo \in Seq(Job)
  BY <1>1, <1>2 DEF Types
<1> HIDE DEF w
<1>4. PICK n \in Nat : n = Len(w.bytes)
  BY <1>3 DEF Job
<1>5. /\ w = todo[1]
      /\ Rest(w) \in Seq(Job)
      /\ n = 1 =>
           /\ Len(Rest(w)) = Len(todo) - 1
           /\ \A j \in 1 .. Len(todo) - 1 : Rest(w)[j] = todo[j + 1]
      /\ n # 1 =>
           /\ Len(Rest(w)) = Len(todo)
           /\ Rest(w)[1].address = w.address + 1
           /\ Len(Rest(w)[1].bytes) = n - 1
           /\ \A i \in 1 .. n - 1 : Rest(w)[1].bytes[i] = w.bytes[i + 1]
           /\ \A j \in 2 .. Len(todo) : Rest(w)[j] = todo[j]
  <2>1. w = Head(todo)
    BY DEF w
  <2> QED
    BY <1>2, <1>3, <1>4, <2>1, RestIs
<1>6. /\ n > 0 /\ w.address \in Addresses /\ w.address \in Nat /\ w.bytes \in Seq(Byte)
      /\ Head(w.bytes) = w.bytes[1] /\ w.bytes[1] \in Byte
  <2>1. w.address \in Addresses /\ w.bytes \in Seq(Byte) /\ Len(w.bytes) > 0
    BY <1>3 DEF Job
  <2>2. 1 \in 1 .. Len(w.bytes)
    BY <2>1
  <2>3. Head(w.bytes) = w.bytes[1] /\ w.bytes[1] \in Byte
    BY <2>1, <2>2, ElementOfSeq
  <2>4. w.address \in Nat
    BY <2>1, Sizes
  <2> QED
    BY <1>4, <2>1, <2>3, <2>4
<1>7. /\ fram' \in [Addresses -> Byte] /\ fram'[w.address] = w.bytes[1]
      /\ \A a \in Addresses : a # w.address => fram'[a] = fram[a]
  BY <1>1, <1>2, <1>6 DEF Types
<1>8. Types'
  <2>1. cleared' \in BOOLEAN
    BY <1>2, <1>1 DEF Types
  <2> QED
    BY <1>1, <1>2, <1>5, <1>7, <2>1 DEF Types
<1>9. Calls' /\ ClearedIsRejected'
  BY <1>1, <1>2 DEF Calls, ClearedIsRejected
<1>10. Zeroed'
  <2> SUFFICES ASSUME cleared', NEW a \in 0 .. 7 PROVE fram'[a] = 0
    BY DEF Zeroed
  <2>1. cleared /\ w.address >= 8
    BY <1>2, Sizes
  <2>2. a \in Addresses /\ a # w.address
    <3>1. a \in 0 .. 7 + Size
      BY Sizes
    <3> QED
      BY <1>6, <2>1, <3>1, Sizes
  <2> QED
    BY <1>1, <1>7, <2>1, <2>2 DEF Zeroed
<1>11. Len(todo) \in Nat /\ Len(todo) > 0
  BY <1>2, <1>3
<1>12. ASSUME call = "write" PROVE \E b \in Buffers, k \in 0 .. Size : Writing(b, k)'
  <2>1. PICK b \in Buffers, k \in 0 .. Size : Writing(b, k)
    BY <1>1, <1>12 DEF Jobs
  <2>2. Size \in Nat /\ Data = 8 /\ k \in Nat
    BY Sizes
  <2>3. ASSUME NEW i \in 1 .. Size PROVE Data + i - 1 \in Addresses /\ Data + i - 1 >= 8
    BY Sizes
  <2>4. CASE k < Size
    <3>1. /\ w.address = 8 + k /\ n = Size - k
          /\ \A i \in 1 .. Size - k : w.bytes[i] = b[k + i]
      BY <1>4, <1>5, <2>1, <2>2, <2>4 DEF Writing
    <3>2. k + 1 \in 0 .. Size
      BY <2>2, <2>4
    <3>3. \A i \in 1 .. k + 1 : fram'[Data + i - 1] = b[i]
      <4> SUFFICES ASSUME NEW i \in 1 .. k + 1 PROVE fram'[Data + i - 1] = b[i]
        OBVIOUS
      <4>1. i \in 1 .. Size
        BY <2>2, <2>4
      <4>2. CASE i = k + 1
        <5>1. Data + i - 1 = w.address
          BY <2>2, <3>1, <4>2
        <5>2. 1 \in 1 .. Size - k
          BY <2>2, <2>4
        <5> QED
          BY <1>7, <3>1, <4>2, <5>1, <5>2
      <4>3. CASE i # k + 1
        <5>1. i \in 1 .. k /\ Data + i - 1 # w.address
          BY <2>2, <3>1, <4>3
        <5> QED
          BY <1>7, <2>1, <2>3, <4>1, <5>1 DEF Writing
      <4> QED
        BY <4>2, <4>3
    <3>4. CASE n = 1
      <4>1. k + 1 = Size
        BY <2>2, <2>4, <3>1, <3>4
      <4>2. \A j \in 1 .. Len(todo') : todo'[j].address + Len(todo'[j].bytes) <= Data
        <5> SUFFICES ASSUME NEW j \in 1 .. Len(todo')
                     PROVE  todo'[j].address + Len(todo'[j].bytes) <= Data
          OBVIOUS
        <5>1. j \in 1 .. Len(todo) - 1 /\ todo'[j] = todo[j + 1]
          BY <1>2, <1>5, <3>4
        <5>2. j + 1 \in 1 .. Len(todo) /\ j + 1 > 1
          BY <1>11, <5>1
        <5> QED
          BY <2>1, <5>1, <5>2 DEF Writing
      <4>3. Writing(b, k + 1)'
        BY <3>3, <4>1, <4>2 DEF Writing
      <4> QED
        BY <3>2, <4>3
    <3>5. CASE n # 1
      <4>1. k + 1 < Size
        BY <1>6, <2>2, <2>4, <3>1, <3>5
      <4>2. todo' # <<>> /\ Len(todo') = Len(todo)
        BY <1>2, <1>5, <1>11, <3>5
      <4>3. /\ todo'[1].address = Data + (k + 1)
            /\ Len(todo'[1].bytes) = Size - (k + 1)
        BY <1>2, <1>5, <2>2, <3>1, <3>5
      <4>4. \A i \in 1 .. Size - (k + 1) : todo'[1].bytes[i] = b[k + 1 + i]
        <5> SUFFICES ASSUME NEW i \in 1 .. Size - (k + 1)
                     PROVE  todo'[1].bytes[i] = b[k + 1 + i]
          OBVIOUS
        <5>1. i \in 1 .. n - 1 /\ i + 1 \in 1 .. Size - k /\ k + (i + 1) = k + 1 + i
          BY <2>2, <3>1
        <5> QED
          BY <1>2, <1>5, <3>1, <3>5, <5>1
      <4>5. \A j \in 1 .. Len(todo') :
              k + 1 = Size \/ j > 1 => todo'[j].address + Len(todo'[j].bytes) <= Data
        <5> SUFFICES ASSUME NEW j \in 1 .. Len(todo'), k + 1 = Size \/ j > 1
                     PROVE  todo'[j].address + Len(todo'[j].bytes) <= Data
          OBVIOUS
        <5>1. j \in 2 .. Len(todo) /\ j > 1 /\ j \in 1 .. Len(todo)
          BY <1>11, <2>2, <4>1, <4>2
        <5>2. todo'[j] = todo[j]
          BY <1>2, <1>5, <3>5, <5>1
        <5> QED
          BY <2>1, <5>1, <5>2 DEF Writing
      <4>6. Writing(b, k + 1)'
        BY <3>3, <4>2, <4>3, <4>4, <4>5 DEF Writing
      <4> QED
        BY <3>2, <4>6
    <3> QED
      BY <3>4, <3>5
  <2>5. CASE k = Size
    <3>1. \A j \in 1 .. Len(todo) : todo[j].address + Len(todo[j].bytes) <= 8
      BY <2>1, <2>2, <2>5 DEF Writing
    <3>2. w.address + n <= 8
      <4>1. 1 \in 1 .. Len(todo)
        BY <1>11
      <4> QED
        BY <1>4, <1>5, <3>1, <4>1
    <3>3. \A i \in 1 .. k : fram'[Data + i - 1] = b[i]
      <4> SUFFICES ASSUME NEW i \in 1 .. k PROVE fram'[Data + i - 1] = b[i]
        OBVIOUS
      <4>1. Data + i - 1 \in Addresses /\ Data + i - 1 # w.address
        BY <1>6, <2>2, <2>3, <2>5, <3>2
      <4> QED
        BY <1>7, <2>1, <4>1 DEF Writing
    <3>4. \A j \in 1 .. Len(todo') : todo'[j].address + Len(todo'[j].bytes) <= 8
      <4> SUFFICES ASSUME NEW j \in 1 .. Len(todo')
                   PROVE  todo'[j].address + Len(todo'[j].bytes) <= 8
        OBVIOUS
      <4>1. CASE n = 1
        <5>1. j \in 1 .. Len(todo) - 1 /\ todo'[j] = todo[j + 1]
          BY <1>2, <1>5, <4>1
        <5>2. j + 1 \in 1 .. Len(todo)
          BY <1>11, <5>1
        <5> QED
          BY <3>1, <5>1, <5>2
      <4>2. CASE n # 1
        <5>1. j \in 1 .. Len(todo)
          BY <1>2, <1>5, <4>2
        <5>2. CASE j = 1
          <6>1. todo'[1].address = w.address + 1 /\ Len(todo'[1].bytes) = n - 1
            BY <1>2, <1>5, <4>2
          <6> QED
            BY <1>6, <3>2, <5>2, <6>1
        <5>3. CASE j # 1
          <6>1. j \in 2 .. Len(todo)
            BY <1>11, <5>1, <5>3
          <6>2. todo'[j] = todo[j]
            BY <1>2, <1>5, <4>2, <6>1
          <6> QED
            BY <3>1, <5>1, <6>2
        <5> QED
          BY <5>2, <5>3
      <4> QED
        BY <4>1, <4>2
    <3>5. Writing(b, k)'
      BY <2>2, <2>5, <3>3, <3>4 DEF Writing
    <3> QED
      BY <3>5
  <2> QED
    BY <2>2, <2>4, <2>5
<1>13. ASSUME call = "clear" PROVE \E k \in 0 .. 8 : Clearing(k)'
  <2>1. PICK k \in 0 .. 8 : Clearing(k)
    BY <1>1, <1>13 DEF Jobs
  <2>2. /\ k < 8 /\ Len(todo) = 1 /\ w.address = k /\ n = 8 - k
        /\ \A i \in 1 .. 8 - k : w.bytes[i] = 0
    BY <1>2, <1>4, <1>5, <2>1 DEF Clearing
  <2>3. k + 1 \in 0 .. 8
    BY <2>2
  <2>4. \A a \in 0 .. k + 1 - 1 : fram'[a] = 0
    <3> SUFFICES ASSUME NEW a \in 0 .. k + 1 - 1 PROVE fram'[a] = 0
      OBVIOUS
    <3>1. a \in Addresses
      <4>1. a \in 0 .. 7 + Size
        BY <2>2, Sizes
      <4> QED
        BY <4>1, Sizes
    <3>2. CASE a = k
      <4>1. 1 \in 1 .. 8 - k
        BY <2>2
      <4> QED
        BY <1>7, <2>2, <3>2, <4>1
    <3>3. CASE a # k
      <4>1. a \in 0 .. k - 1
        BY <2>2, <3>3
      <4> QED
        BY <1>7, <2>1, <2>2, <3>1, <3>3, <4>1 DEF Clearing
    <3> QED
      BY <3>2, <3>3
  <2>5. CASE k + 1 = 8
    <3>1. n = 1
      BY <2>2, <2>5
    <3>2. Len(todo') = 0 /\ todo' \in Seq(Job)
      BY <1>2, <1>5, <2>2, <3>1
    <3>3. todo' = <<>>
      BY <3>2
    <3>4. Clearing(k + 1)'
      BY <2>4, <2>5, <3>3 DEF Clearing
    <3> QED
      BY <2>3, <3>4
  <2>6. CASE k + 1 # 8
    <3>1. n # 1
      BY <2>2, <2>6
    <3>2. /\ Len(todo') = 1 /\ todo'[1].address = k + 1
          /\ Len(todo'[1].bytes) = 8 - (k + 1)
      BY <1>2, <1>5, <2>2, <3>1
    <3>3. \A i \in 1 .. 8 - (k + 1) : todo'[1].bytes[i] = 0
      <4> SUFFICES ASSUME NEW i \in 1 .. 8 - (k + 1) PROVE todo'[1].bytes[i] = 0
        OBVIOUS
      <4>1. i \in 1 .. n - 1 /\ i + 1 \in 1 .. 8 - k
        BY <2>2
      <4> QED
        BY <1>2, <1>5, <2>2, <3>1, <4>1
    <3>4. Clearing(k + 1)'
      BY <2>4, <2>6, <3>2, <3>3 DEF Clearing
    <3> QED
      BY <2>3, <3>4
  <2> QED
    BY <2>5, <2>6
<1>14. Jobs'
  BY <1>2, <1>12, <1>13 DEF Jobs
<1> QED
  BY <1>8, <1>9, <1>10, <1>14 DEF IInv

(* The function has written all: a buffer is in its place, metadata are zero. *)
LEMMA ReturnKeeps == ASSUME IInv, Return PROVE IInv'
<1>1. Types /\ Calls /\ Jobs /\ Zeroed /\ ClearedIsRejected
  BY DEF IInv
<1>2. /\ UNCHANGED <<fram, todo, result, losses>>
      /\ call # "none" /\ todo = <<>> /\ call' = "none"
      /\ stored' = IF call = "write" THEN Read(Data, Size) ELSE <<>>
      /\ cleared' = (cleared \/ call = "clear")
  BY DEF Return
<1>3. ASSUME call = "write" PROVE Read(Data, Size) \in Buffers
  <2>1. PICK b \in Buffers, k \in 0 .. Size : Writing(b, k)
    BY <1>1, <1>3 DEF Jobs
  <2>2. k = Size
    BY <1>2, <2>1, Sizes DEF Writing
  <2>3. \A i \in 1 .. Size : fram[Data + i - 1] = b[i]
    BY <2>1, <2>2 DEF Writing
  <2>4. b = [i \in 1 .. Size |-> b[i]]
    BY BufferContent DEF Contents
  <2>5. Read(Data, Size) = [i \in 1 .. Size |-> b[i]]
    BY <2>3 DEF Read
  <2> QED
    BY <2>4, <2>5
<1>4. Types'
  <2>1. cleared' \in BOOLEAN
    BY <1>1, <1>2 DEF Types
  <2> QED
    BY <1>1, <1>2, <1>3, <2>1 DEF Types
<1>5. Calls' /\ Jobs' /\ ClearedIsRejected'
  BY <1>1, <1>2 DEF Calls, Jobs, ClearedIsRejected
<1>6. Zeroed'
  <2>1. ASSUME call = "clear" PROVE \A a \in 0 .. 7 : fram[a] = 0
    <3>1. PICK k \in 0 .. 8 : Clearing(k)
      BY <1>1, <2>1 DEF Jobs
    <3>2. k = 8
      <4>1. Len(todo) = 0
        BY <1>2
      <4> QED
        BY <3>1, <4>1 DEF Clearing
    <3> QED
      BY <3>1, <3>2 DEF Clearing
  <2> QED
    BY <1>1, <1>2, <2>1 DEF Zeroed
<1> QED
  BY <1>4, <1>5, <1>6 DEF IInv

(* What is accepted has the CRC that cleared metadata hold. *)
LEMMA CheckKeeps == ASSUME IInv, AtomicCheck PROVE IInv'
<1>1. Types /\ Calls /\ Jobs /\ Zeroed /\ ClearedIsRejected
  BY DEF IInv
<1>2. /\ UNCHANGED <<fram, todo, call, stored, cleared, losses>>
      /\ call = "none"
      /\ result' = IF Accepted THEN "true" ELSE "false"
  BY DEF AtomicCheck
<1>3. Types' /\ Calls' /\ Zeroed' /\ Jobs'
  BY <1>1, <1>2 DEF Types, Calls, Zeroed, Jobs
<1>4. ASSUME cleared, Accepted PROVE Crc[Read(Data, Size)] = Zeros(4)
  <2>1. Read(Meta + 4, 4) = Crc[Read(Data, Size)]
    BY <1>4 DEF Accepted
  <2>2. ASSUME NEW i \in 1 .. 4 PROVE fram[Meta + 4 + i - 1] = 0
    <3>1. Meta + 4 + i - 1 \in 0 .. 7
      BY Sizes
    <3> QED
      BY <1>1, <1>4, <3>1 DEF Zeroed
  <2>3. Read(Meta + 4, 4) = Zeros(4)
    BY <2>2 DEF Read, Zeros
  <2> QED
    BY <2>1, <2>3
<1>5. Read(Data, Size)' = Read(Data, Size)
  BY <1>2 DEF Read
<1>6. ClearedIsRejected'
  BY <1>2, <1>4, <1>5 DEF ClearedIsRejected
<1> QED
  BY <1>3, <1>6 DEF IInv

LEMMA LossKeeps == ASSUME IInv, PowerLoss PROVE IInv'
<1>1. Types /\ Calls /\ Jobs /\ Zeroed /\ ClearedIsRejected
  BY DEF IInv
<1>2. /\ UNCHANGED <<fram, cleared>>
      /\ losses < MaxLosses /\ losses' = losses + 1
      /\ todo' = <<>> /\ call' = "none" /\ result' = "none"
      /\ stored' = IF call = "none" THEN stored ELSE <<>>
  BY DEF PowerLoss
<1>3. Types'
  <2>1. losses' \in 0 .. MaxLosses
    BY <1>1, <1>2, FramAssumption DEF Types
  <2>2. todo' \in Seq(Job) /\ stored' \in Buffers \cup {<<>>}
    BY <1>1, <1>2 DEF Types
  <2> QED
    BY <1>1, <1>2, <2>1, <2>2 DEF Types
<1> QED
  BY <1>1, <1>2, <1>3 DEF IInv, Calls, Jobs, Zeroed, ClearedIsRejected

-----------------------------------------------------------------------------
LEMMA NextInv == ASSUME IInv, [Next]_vars PROVE IInv'
<1>1. CASE UNCHANGED vars
  <2>1. UNCHANGED <<fram, todo, call, result, stored, cleared, losses>>
    BY <1>1 DEF vars
  <2>2. Types' /\ Calls' /\ Zeroed' /\ ClearedIsRejected'
    BY <2>1 DEF IInv, Types, Calls, Zeroed, ClearedIsRejected, Read
  <2>3. Jobs'
    BY <2>1 DEF IInv, Jobs, Writing, Clearing
  <2> QED
    BY <2>2, <2>3 DEF IInv
<1>2. CASE Next
  BY <1>2, WriteKeeps, ClearKeeps, CheckKeeps, SendKeeps, ReturnKeeps, LossKeeps
     DEF Next
<1> QED
  BY <1>1, <1>2

LEMMA AlwaysInv == Spec => []IInv
<1>1. Init => IInv
  BY InitInv
<1>2. IInv /\ [Next]_vars => IInv'
  BY NextInv
<1> QED
  BY <1>1, <1>2, PTL DEF Spec

(* Every variable keeps its type; in particular each byte that FRAM_write     *)
(* has yet to send falls into the memory of the atomic buffer, and what       *)
(* FRAM_atomic_write leaves when it returns is the buffer it was given.      *)
THEOREM TypeCorrect == Spec => []TypeOK
<1>1. ASSUME Types PROVE TypeOK
  <2>1. \A w \in Range(todo) : w \in Job
    <3>1. \A j \in DOMAIN todo : todo[j] \in Job
      BY <1>1 DEF Types
    <3> QED
      BY <3>1 DEF Range
  <2>2. ASSUME NEW w \in Job, NEW i \in 1 .. Len(w.bytes)
        PROVE  w.address + i - 1 \in Addresses /\ w.bytes[i] \in Byte
    <3>1. /\ w.address \in Addresses /\ w.bytes \in Seq(Byte)
          /\ w.address + Len(w.bytes) - 1 \in Addresses
      BY DEF Job
    <3>2. PICK n \in Nat : n = Len(w.bytes)
      BY <3>1
    <3>3. w.address \in 0 .. 7 + Size /\ w.address + n - 1 \in 0 .. 7 + Size
      BY <3>1, <3>2, Sizes
    <3>4. w.address + i - 1 \in 0 .. 7 + Size
      BY <3>2, <3>3, Sizes
    <3> QED
      BY <3>1, <3>4, Sizes, ElementOfSeq
  <2> QED
    BY <1>1, <2>1, <2>2 DEF Types, TypeOK
<1>2. IInv => TypeOK
  BY <1>1 DEF IInv
<1> QED
  BY <1>2, AlwaysInv, PTL

(* Between a clear and the metadata of the next write, what FRAM_atomic_check *)
(* accepts has the CRC zero, however many writes were torn by power losses    *)
(* and whatever mix of them the data are: for CRC-32, one content in 2^32.    *)
THEOREM ClearedStaysRejected == Spec => []ClearedIsRejected
<1>1. IInv => ClearedIsRejected
  BY DEF IInv
<1> QED
  BY <1>1, AlwaysInv, PTL

-----------------------------------------------------------------------------
(* The sentences: numbers, and induction over them *)

(* Numbers have a least one. *)
LEMMA Least ==
  ASSUME NEW T \in SUBSET Nat, T # {}
  PROVE  \E x \in T : \A y \in T : x <= y
<1> DEFINE R == {ss \in Nat \X Nat : ss[1] < ss[2]}
<1>1. IsWellFoundedOn(R, Nat)
  BY NatLessThanWellFounded, Zenon DEF OpToRel
<1>2. PICK x \in T : \A y \in T : ~(<<y, x>> \in R)
  BY <1>1, WFMin, Zenon
<1>3. \A y \in T : ~(y < x)
  BY <1>2
<1> QED
  BY <1>3

(* Induction up to n, for a set of numbers. *)
LEMMA UpTo ==
  ASSUME NEW n \in Nat, NEW D, 0 \in D,
         \A k \in 1 .. n : k - 1 \in D => k \in D
  PROVE  0 .. n \subseteq D
<1> SUFFICES ASSUME (0 .. n) \ D # {} PROVE FALSE
  OBVIOUS
<1>1. PICK x \in (0 .. n) \ D : \A y \in (0 .. n) \ D : x <= y
  <2>1. (0 .. n) \ D \in SUBSET Nat
    OBVIOUS
  <2> QED
    BY <2>1, Least
<1>2. x \in 1 .. n /\ x - 1 \in 0 .. n /\ ~(x <= x - 1)
  BY <1>1
<1>3. x - 1 \in D
  BY <1>1, <1>2
<1> QED
  BY <1>1, <1>2, <1>3

-----------------------------------------------------------------------------
(* How a line is put together *)

(* g joins the first m of the sequences, as the function in FlattenSeq does. *)
Joins(g, s, m) ==
  g = [i \in 1 .. m |-> IF i = 1 THEN s[i] ELSE g[i - 1] \o s[i]]

(* There is such a function. *)
LEMMA JoinExists ==
  ASSUME NEW s, NEW n \in Nat
  PROVE  \E g : Joins(g, s, n)
<1> DEFINE D == {m \in Nat : \E g : Joins(g, s, m)}
<1>1. 0 \in D
  <2>1. 1 .. 0 = {}
    OBVIOUS
  <2>2. Joins([i \in 1 .. 0 |-> {}], s, 0)
    BY <2>1 DEF Joins
  <2> QED
    BY <2>2
<1>2. ASSUME NEW k \in 1 .. n, k - 1 \in D PROVE k \in D
  <2>1. PICK g : Joins(g, s, k - 1)
    BY <1>2
  <2> DEFINE h == [i \in 1 .. k |-> IF i < k THEN g[i]
                                    ELSE IF i = 1 THEN s[i] ELSE g[i - 1] \o s[i]]
  <2>2. \A i \in 1 .. k - 1 : h[i] = g[i]
    OBVIOUS
  <2>3. ASSUME NEW i \in 1 .. k
        PROVE  h[i] = IF i = 1 THEN s[i] ELSE h[i - 1] \o s[i]
    <3>1. i # 1 => h[i - 1] = g[i - 1]
      BY <2>2
    <3>2. i < k => h[i] = g[i] /\ g[i] = IF i = 1 THEN s[i] ELSE g[i - 1] \o s[i]
      <4> SUFFICES ASSUME i < k
                   PROVE  g[i] = IF i = 1 THEN s[i] ELSE g[i - 1] \o s[i]
        BY <2>2
      <4>1. i \in 1 .. k - 1
        OBVIOUS
      <4> HIDE DEF h
      <4> QED
        BY <4>1, <2>1 DEF Joins
    <3>3. ~(i < k) => h[i] = IF i = 1 THEN s[i] ELSE g[i - 1] \o s[i]
      OBVIOUS
    <3> HIDE DEF h
    <3> QED
      BY <3>1, <3>2, <3>3
  <2>4. Joins(h, s, k)
    <3>1. h = [i \in 1 .. k |-> h[i]]
      OBVIOUS
    <3> HIDE DEF h
    <3> QED
      BY <3>1, <2>3 DEF Joins
  <2> QED
    BY <2>4
<1>3. n \in D
  <2> HIDE DEF D
  <2> QED
    BY <1>1, <1>2, UpTo
<1> QED
  BY <1>3

(* Positions in a part that starts behind x. *)
LEMMA Shifted ==
  ASSUME NEW x \in Nat, NEW y \in Nat, NEW z \in Nat, x + y <= z
  PROVE  \A j \in 1 .. y : x + j \in 1 .. z
  OBVIOUS

(* Where the two sequences lie in their concatenation. *)
LEMMA Concatenated ==
  ASSUME NEW S, NEW p \in Seq(S), NEW q \in Seq(S)
  PROVE  /\ Len(p \o q) = Len(p) + Len(q)
         /\ \A j \in 1 .. Len(p) : (p \o q)[j] = p[j]
         /\ \A j \in 1 .. Len(q) : (p \o q)[Len(p) + j] = q[j]
<1>1. /\ Len(p \o q) = Len(p) + Len(q)
      /\ \A i \in 1 .. Len(p) + Len(q) :
           (p \o q)[i] = IF i <= Len(p) THEN p[i] ELSE q[i - Len(p)]
  BY ConcatProperties
<1>2. ASSUME NEW a \in Nat, NEW b \in Nat, NEW j \in 1 .. b
      PROVE  a + j \in 1 .. a + b /\ a + j - a = j /\ ~(a + j <= a)
  OBVIOUS
<1>3. ASSUME NEW a \in Nat, NEW b \in Nat, NEW j \in 1 .. a
      PROVE  j \in 1 .. a + b /\ j <= a
  OBVIOUS
<1>4. Len(p) \in Nat /\ Len(q) \in Nat
  OBVIOUS
<1>5. ASSUME NEW j \in 1 .. Len(q) PROVE (p \o q)[Len(p) + j] = q[j]
  <2>1. Len(p) + j \in 1 .. Len(p) + Len(q) /\ Len(p) + j - Len(p) = j
        /\ ~(Len(p) + j <= Len(p))
    BY <1>2, <1>4, Zenon
  <2>2. (p \o q)[Len(p) + j] = q[Len(p) + j - Len(p)]
    BY <2>1, <1>1, SMT
  <2> QED
    BY <2>1, <2>2, Zenon
<1>6. ASSUME NEW j \in 1 .. Len(p) PROVE (p \o q)[j] = p[j]
  <2>1. j \in 1 .. Len(p) + Len(q) /\ j <= Len(p)
    BY <1>3, <1>4, Zenon
  <2> QED
    BY <2>1, <1>1, Zenon
<1> QED
  BY <1>1, <1>5, <1>6

(* Where the sequences lie in what FlattenSeq makes of them: s[k] ends at e[k]. *)
Parts(e, s) ==
  /\ e \in [0 .. Len(s) -> Nat]
  /\ e[0] = 0
  /\ Len(FlattenSeq(s)) = e[Len(s)]
  /\ \A k \in 1 .. Len(s) :
       /\ e[k] = e[k - 1] + Len(s[k])
       /\ \A j \in 1 .. Len(s[k]) : FlattenSeq(s)[e[k - 1] + j] = s[k][j]

LEMMA Flattened ==
  ASSUME NEW S, NEW s \in Seq(Seq(S))
  PROVE  /\ FlattenSeq(s) \in Seq(S)
         /\ \E e : Parts(e, s)
<1>0. PICK n \in Nat : n = Len(s)
  OBVIOUS
<1>1. CASE n = 0
  <2>1. s = <<>> /\ FlattenSeq(s) = <<>>
    <3>1. s = <<>> /\ Len(s) = 0
      BY <1>0, <1>1, EmptySeq
    <3> QED
      BY <3>1, Zenon DEF FlattenSeq
  <2> QED
    <3>1. PICK e : e = [i \in 0 .. n |-> 0]
      OBVIOUS
    <3>2. e \in [0 .. Len(s) -> Nat] /\ e[0] = 0 /\ Len(<<>>) = e[Len(s)] /\ 1 .. Len(s) = {}
      BY <3>1, <1>0, <1>1
    <3>3. Parts(e, s)
      BY <2>1, <3>2 DEF Parts
    <3>4. FlattenSeq(s) \in Seq(S)
      BY <2>1, EmptySeq
    <3> QED
      BY <3>3, <3>4
<1>2. CASE n # 0
  <2> DEFINE P == CHOOSE g : Joins(g, s, n)
  <2>1. FlattenSeq(s) = P[n]
    BY <1>0, <1>2, Zenon DEF FlattenSeq, Joins
  <2>2. Joins(P, s, n)
    BY JoinExists, Zenon
  <2> HIDE DEF P
  <2>3. /\ P[1] = s[1]
        /\ \A k \in 2 .. n : P[k] = P[k - 1] \o s[k]
    <3>1. \A k \in 1 .. n : P[k] = IF k = 1 THEN s[k] ELSE P[k - 1] \o s[k]
      BY <2>2 DEF Joins
    <3>2. 1 \in 1 .. n /\ \A k \in 2 .. n : k \in 1 .. n /\ k # 1
      BY <1>2
    <3> QED
      BY <3>1, <3>2
  <2>4. \A k \in 1 .. n : s[k] \in Seq(S) /\ Len(s[k]) \in Nat
    BY <1>0
  <2> DEFINE D == {m \in 0 .. n : m # 0 => P[m] \in Seq(S)}
  <2>5. 0 .. n \subseteq D
    <3>1. 0 \in D
      OBVIOUS
    <3>2. ASSUME NEW k \in 1 .. n, k - 1 \in D PROVE k \in D
      <4>1. CASE k = 1
        BY <4>1, <2>3, <2>4
      <4>2. CASE k # 1
        <5>1. P[k] = P[k - 1] \o s[k] /\ P[k - 1] \in Seq(S)
          <6>1. k \in 2 .. n /\ k - 1 # 0
            BY <4>2
          <6> QED
            BY <6>1, <3>2, <2>3
        <5> QED
          <6> PICK p \in Seq(S), q \in Seq(S) : p = P[k - 1] /\ q = s[k]
            BY <5>1, <2>4
          <6>1. p \o q \in Seq(S)
            BY ConcatProperties
          <6>2. P[k] \in Seq(S)
            BY <5>1, <6>1
          <6> QED
            BY <6>2
      <4> QED
        BY <4>1, <4>2
    <3> HIDE DEF D
    <3> QED
      BY <3>1, <3>2, UpTo
  <2>6. \A k \in 1 .. n : P[k] \in Seq(S) /\ Len(P[k]) \in Nat
    BY <2>5
  <2> DEFINE e == [k \in 0 .. n |-> IF k = 0 THEN 0 ELSE Len(P[k])]
  <2>7. /\ e \in [0 .. n -> Nat] /\ e[0] = 0
        /\ \A k \in 1 .. n : e[k] = Len(P[k])
    BY <2>6
  <2> HIDE DEF e
  <2>8. ASSUME NEW k \in 1 .. n
        PROVE  /\ e[k] = e[k - 1] + Len(s[k])
               /\ \A j \in 1 .. Len(s[k]) : P[k][e[k - 1] + j] = s[k][j]
               /\ k > 1 => \A j \in 1 .. e[k - 1] : P[k][j] = P[k - 1][j]
    <3>1. CASE k = 1
      BY <3>1, <2>3, <2>4, <2>7
    <3>2. CASE k # 1
      <4>1. /\ P[k] = P[k - 1] \o s[k] /\ P[k - 1] \in Seq(S) /\ s[k] \in Seq(S)
            /\ e[k - 1] = Len(P[k - 1]) /\ e[k] = Len(P[k])
        <5>1. k \in 2 .. n /\ k - 1 \in 1 .. n
          BY <3>2
        <5> QED
          BY <5>1, <2>3, <2>4, <2>6, <2>7
      <4>2. ASSUME NEW p \in Seq(S), NEW q \in Seq(S)
            PROVE  /\ Len(p \o q) = Len(p) + Len(q)
                   /\ \A j \in 1 .. Len(p) : (p \o q)[j] = p[j]
                   /\ \A j \in 1 .. Len(q) : (p \o q)[Len(p) + j] = q[j]
        BY Concatenated
      <4>3. /\ Len(P[k - 1] \o s[k]) = Len(P[k - 1]) + Len(s[k])
            /\ \A j \in 1 .. Len(P[k - 1]) : (P[k - 1] \o s[k])[j] = P[k - 1][j]
            /\ \A j \in 1 .. Len(s[k]) :
                 (P[k - 1] \o s[k])[Len(P[k - 1]) + j] = s[k][j]
        <5>1. P[k - 1] \in Seq(S) /\ s[k] \in Seq(S)
          BY <4>1
        <5> QED
          BY <4>2, <5>1, Zenon
      <4>4. /\ Len(P[k]) = e[k - 1] + Len(s[k])
            /\ \A j \in 1 .. e[k - 1] : P[k][j] = P[k - 1][j]
            /\ \A j \in 1 .. Len(s[k]) : P[k][e[k - 1] + j] = s[k][j]
        BY <4>1, <4>3
      <4> QED
        BY <4>1, <4>4
    <3> QED
      BY <3>1, <3>2
  <2> DEFINE E == {m \in 0 .. n : \A k \in 1 .. m :
                     /\ e[k] <= e[m]
                     /\ \A j \in 1 .. Len(s[k]) : P[m][e[k - 1] + j] = s[k][j]}
  <2>9. n \in E
    <3>1. 0 \in E
      OBVIOUS
    <3>2. ASSUME NEW m \in 1 .. n, m - 1 \in E PROVE m \in E
      <4>1. e[m] = e[m - 1] + Len(s[m]) /\ e[m] \in Nat /\ e[m - 1] \in Nat /\ Len(s[m]) \in Nat
        BY <2>4, <2>7, <2>8
      <4>2. ASSUME NEW k \in 1 .. m - 1
            PROVE  /\ e[k] <= e[m]
                   /\ \A j \in 1 .. Len(s[k]) : P[m][e[k - 1] + j] = s[k][j]
        <5>1. /\ e[k] <= e[m - 1] /\ e[k] \in Nat /\ e[k - 1] \in Nat
              /\ e[k] = e[k - 1] + Len(s[k]) /\ Len(s[k]) \in Nat
              /\ \A j \in 1 .. Len(s[k]) : P[m - 1][e[k - 1] + j] = s[k][j]
          BY <3>2, <2>4, <2>7, <2>8
        <5>2. \A j \in 1 .. e[m - 1] : P[m][j] = P[m - 1][j]
          BY <2>8, <4>2
        <5>3. \A j \in 1 .. Len(s[k]) : e[k - 1] + j \in 1 .. e[m - 1]
          <6> PICK x \in Nat, y \in Nat, z \in Nat :
                 x = e[k - 1] /\ y = Len(s[k]) /\ z = e[m - 1]
            BY <5>1, <4>1
          <6>1. x + y <= z
            BY <5>1
          <6>2. \A j \in 1 .. y : x + j \in 1 .. z
            BY <6>1, Shifted
          <6> QED
            BY <6>2
        <5>4. e[k] <= e[m]
          BY <5>1, <4>1
        <5>5. \A j \in 1 .. Len(s[k]) : P[m][e[k - 1] + j] = P[m - 1][e[k - 1] + j]
          BY <5>2, <5>3
        <5> QED
          BY <5>1, <5>4, <5>5
      <4>3. \A j \in 1 .. Len(s[m]) : P[m][e[m - 1] + j] = s[m][j]
        BY <2>8
      <4>4. \A k \in 1 .. m : k \in 1 .. m - 1 \/ k = m
        OBVIOUS
      <4>5. \A k \in 1 .. m :
              /\ e[k] <= e[m]
              /\ \A j \in 1 .. Len(s[k]) : P[m][e[k - 1] + j] = s[k][j]
        <5> TAKE k \in 1 .. m
        <5>1. CASE k \in 1 .. m - 1
          BY <5>1, <4>2
        <5>2. CASE k = m
          BY <5>2, <4>1, <4>3
        <5> QED
          BY <5>1, <5>2, <4>4
      <4> QED
        BY <4>5
    <3>3. n \in Nat /\ n \in 0 .. n
      OBVIOUS
    <3> HIDE DEF E
    <3> QED
      BY <3>1, <3>2, <3>3, UpTo
  <2>10. /\ P[n] \in Seq(S) /\ Len(P[n]) = e[n]
         /\ \A k \in 1 .. n : \A j \in 1 .. Len(s[k]) : P[n][e[k - 1] + j] = s[k][j]
    BY <2>6, <2>7, <2>9, <1>2
  <2>11. /\ P[n] \in Seq(S)
         /\ e \in [0 .. n -> Nat] /\ e[0] = 0 /\ Len(P[n]) = e[n]
         /\ \A k \in 1 .. n :
              /\ e[k] = e[k - 1] + Len(s[k])
              /\ \A j \in 1 .. Len(s[k]) : P[n][e[k - 1] + j] = s[k][j]
    BY <2>7, <2>8, <2>10
  <2>12. Parts(e, s)
    BY <1>0, <2>1, <2>11 DEF Parts
  <2> QED
    BY <2>1, <2>11, <2>12
<1> QED
  BY <1>1, <1>2

(* Ends that grow lie in their order, and each place before the last one lies *)
(* between two that follow each other.                                     *)
LEMMA Growing ==
  ASSUME NEW n \in Nat, NEW e \in [0 .. n -> Nat], e[0] = 0,
         \A k \in 1 .. n : e[k - 1] < e[k]
  PROVE  /\ \A j, k \in 0 .. n : j < k => e[j] < e[k]
         /\ \A p \in Nat : p < e[n] => \E k \in 1 .. n : e[k - 1] <= p /\ p < e[k]
<1>1. \A j, k \in 0 .. n : j < k => e[j] < e[k]
  <2> DEFINE D == {m \in 0 .. n : \A j \in 0 .. n : j < m => e[j] < e[m]}
  <2>1. 0 \in D
    OBVIOUS
  <2>2. ASSUME NEW k \in 1 .. n, k - 1 \in D PROVE k \in D
    <3>1. ASSUME NEW j \in 0 .. n, j < k PROVE e[j] < e[k]
      <4>1. e[k - 1] < e[k] /\ e[j] \in Nat /\ e[k - 1] \in Nat /\ e[k] \in Nat
        OBVIOUS
      <4>2. j = k - 1 \/ j < k - 1
        BY <3>1
      <4>3. j < k - 1 => e[j] < e[k - 1]
        BY <2>2
      <4> HIDE DEF D
      <4> QED
        BY <4>1, <4>2, <4>3
    <3> QED
      BY <3>1
  <2>3. 0 .. n \subseteq D
    <3> HIDE DEF D
    <3> QED
      BY <2>1, <2>2, UpTo
  <2> QED
    BY <2>3
<1>2. ASSUME NEW p \in Nat, p < e[n]
      PROVE  \E k \in 1 .. n : e[k - 1] <= p /\ p < e[k]
  <2> DEFINE T == {k \in 0 .. n : p < e[k]}
  <2>1. PICK k \in T : \A j \in T : k <= j
    <3>1. T \in SUBSET Nat /\ n \in T
      BY <1>2
    <3> HIDE DEF T
    <3> QED
      BY <3>1, Least
  <2>2. k \in 0 .. n /\ p < e[k]
    OBVIOUS
  <2>3. k # 0
    BY <2>2
  <2>4. k - 1 \in 0 .. n /\ k \in 1 .. n /\ ~(k <= k - 1)
    BY <2>2, <2>3
  <2>5. ~(p < e[k - 1])
    BY <2>1, <2>4
  <2>6. e[k - 1] \in Nat
    BY <2>4
  <2> QED
    BY <2>2, <2>4, <2>5, <2>6
<1> QED
  BY <1>1, <1>2

(* Where the fields of a line end in its text: field k follows a comma at the *)
(* end of the field before.                                                *)
Ends(e, l) ==
  /\ e \in [0 .. Len(l.fields) -> Nat]
  /\ e[0] = 0 /\ e[Len(l.fields)] = Len(Text(l))
  /\ \A k \in 1 .. Len(l.fields) :
       /\ e[k] = e[k - 1] + 1 + Len(l.fields[k])
       /\ Text(l)[e[k - 1] + 1] = Comma
       /\ \A j \in 1 .. Len(l.fields[k]) :
            Text(l)[e[k - 1] + 1 + j] = l.fields[k][j]

LEMMA LineFacts ==
  ASSUME NEW l \in Lines
  PROVE  /\ l.fields \in Seq(Seq(Char \ {Comma, Nul}))
         /\ l.kind \in {"ignored", "other", "VTG", "RMC"}
         /\ Len(Text(l)) < SentenceSize /\ SentenceSize \in Nat
  BY LinesAssumption

(* The text of a line has no terminator, and its fields have their ends. *)
LEMMA Layout ==
  ASSUME NEW l \in Lines
  PROVE  /\ Text(l) \in Seq(Char \ {Nul})
         /\ \E e : Ends(e, l)
<1>11. PICK f : f = l.fields
  OBVIOUS
<1>1. f \in Seq(Seq(Char \ {Comma, Nul}))
  BY <1>11, LineFacts
<1>12. PICK n \in Nat : n = Len(f)
  BY <1>1
<1>2. \A k \in 1 .. n : f[k] \in Seq(Char \ {Comma, Nul}) /\ Len(f[k]) \in Nat
  BY <1>1, <1>12
<1>13. PICK s : s = [i \in DOMAIN f |-> <<Comma>> \o f[i]]
  OBVIOUS
<1>3. DOMAIN f = 1 .. n
  BY <1>1, <1>12
<1>4. Comma \in Char \ {Nul}
  BY DEF Comma, Char, Nul, Other
<1>5. ASSUME NEW k \in 1 .. n
      PROVE  /\ s[k] \in Seq(Char \ {Nul})
             /\ Len(s[k]) = 1 + Len(f[k])
             /\ s[k][1] = Comma
             /\ \A j \in 1 .. Len(f[k]) : s[k][1 + j] = f[k][j]
  <2>1. s[k] = <<Comma>> \o f[k]
    BY <1>3, <1>13
  <2>2. f[k] \in Seq(Char \ {Nul}) /\ <<Comma>> \in Seq(Char \ {Nul})
    BY <1>2, <1>4
  <2>3. Len(<<Comma>>) = 1 /\ <<Comma>>[1] = Comma
    OBVIOUS
  <2>4. /\ <<Comma>> \o f[k] \in Seq(Char \ {Nul})
        /\ Len(<<Comma>> \o f[k]) = Len(<<Comma>>) + Len(f[k])
        /\ \A j \in 1 .. Len(<<Comma>>) : (<<Comma>> \o f[k])[j] = <<Comma>>[j]
        /\ \A j \in 1 .. Len(f[k]) : (<<Comma>> \o f[k])[Len(<<Comma>>) + j] = f[k][j]
    <3>1. ASSUME NEW p \in Seq(Char \ {Nul}), NEW q \in Seq(Char \ {Nul})
          PROVE  /\ p \o q \in Seq(Char \ {Nul})
                 /\ Len(p \o q) = Len(p) + Len(q)
                 /\ \A j \in 1 .. Len(p) : (p \o q)[j] = p[j]
                 /\ \A j \in 1 .. Len(q) : (p \o q)[Len(p) + j] = q[j]
      BY Concatenated, ConcatProperties
    <3> QED
      BY <2>2, <3>1, Zenon
  <2> QED
    BY <2>1, <2>3, <2>4
<1>6. s \in Seq(Seq(Char \ {Nul})) /\ Len(s) = n
  <2>1. s \in [1 .. n -> Seq(Char \ {Nul})]
    BY <1>3, <1>5, <1>13
  <2> QED
    BY <2>1, IsASeq
<1>7. Text(l) = FlattenSeq(s)
  BY <1>11, <1>13, Zenon DEF Text
<1>14. PICK e : Parts(e, s)
  BY <1>6, Flattened
<1>8. /\ e \in [0 .. n -> Nat]
      /\ e[0] = 0
      /\ Len(FlattenSeq(s)) = e[n]
      /\ \A k \in 1 .. n :
           /\ e[k] = e[k - 1] + Len(s[k])
           /\ \A j \in 1 .. Len(s[k]) : FlattenSeq(s)[e[k - 1] + j] = s[k][j]
  BY <1>6, <1>14 DEF Parts
<1>9. FlattenSeq(s) \in Seq(Char \ {Nul})
  BY <1>6, Flattened
<1>10. ASSUME NEW k \in 1 .. n
       PROVE  /\ e[k] = e[k - 1] + 1 + Len(f[k])
              /\ Text(l)[e[k - 1] + 1] = Comma
              /\ \A j \in 1 .. Len(f[k]) : Text(l)[e[k - 1] + 1 + j] = f[k][j]
  <2>1. e[k - 1] \in Nat /\ Len(f[k]) \in Nat
    BY <1>2, <1>8
  <2>2. e[k] = e[k - 1] + 1 + Len(f[k])
    BY <1>5, <1>8, <2>1
  <2>3. 1 \in 1 .. Len(s[k])
    BY <1>5, <2>1
  <2>4. ASSUME NEW j \in 1 .. Len(f[k])
        PROVE  Text(l)[e[k - 1] + 1 + j] = f[k][j]
    <3>1. 1 + j \in 1 .. Len(s[k]) /\ e[k - 1] + (1 + j) = e[k - 1] + 1 + j
      <4>1. ASSUME NEW x \in Nat, NEW y \in Nat, NEW i \in 1 .. y
            PROVE  1 + i \in 1 .. 1 + y /\ x + (1 + i) = x + 1 + i
        OBVIOUS
      <4>2. 1 + j \in 1 .. 1 + Len(f[k]) /\ e[k - 1] + (1 + j) = e[k - 1] + 1 + j
        BY <2>1, <4>1, Zenon
      <4> QED
        BY <1>5, <4>2
    <3> QED
      BY <3>1, <1>5, <1>7, <1>8
  <2> QED
    BY <1>5, <1>7, <1>8, <2>2, <2>3, <2>4
<1>15. Ends(e, l)
  <2>1. e[n] = Len(Text(l))
    BY <1>7, <1>8
  <2> QED
    BY <1>8, <1>10, <1>11, <1>12, <2>1 DEF Ends
<1> QED
  BY <1>7, <1>9, <1>15

(* The ends of the fields before each of the first m are m numbers. *)
LEMMA Counted ==
  ASSUME NEW n \in Nat, NEW e \in [0 .. n -> Nat],
         \A j, k \in 0 .. n : j < k => e[j] < e[k],
         NEW m \in 0 .. n
  PROVE  LET C == {e[k - 1] : k \in 1 .. m} IN
         IsFiniteSet(C) /\ Cardinality(C) = m
<1> DEFINE C == {e[k - 1] : k \in 1 .. m}
           g == [k \in 1 .. m |-> e[k - 1]]
<1>1. IsFiniteSet(1 .. m) /\ Cardinality(1 .. m) = m
  <2>1. 1 \in Int /\ m \in Int /\ m \in Nat
    OBVIOUS
  <2>2. IsFiniteSet(1 .. m) /\ Cardinality(1 .. m) = IF 1 > m THEN 0 ELSE m - 1 + 1
    BY <2>1, FS_Interval
  <2> QED
    BY <2>1, <2>2
<1>2. g \in Bijection(1 .. m, C)
  <2>1. g \in [1 .. m -> C]
    OBVIOUS
  <2>2. ASSUME NEW j \in 1 .. m, NEW k \in 1 .. m, j # k PROVE g[j] # g[k]
    <3>1. j - 1 \in 0 .. n /\ k - 1 \in 0 .. n /\ (j - 1 < k - 1 \/ k - 1 < j - 1)
      BY <2>2
    <3>2. e[j - 1] # e[k - 1]
      <4>1. e[j - 1] < e[k - 1] \/ e[k - 1] < e[j - 1]
        BY <3>1
      <4>2. e[j - 1] \in Nat /\ e[k - 1] \in Nat
        BY <3>1
      <4> QED
        BY <4>1, <4>2
    <3> QED
      BY <3>2
  <2>3. \A t \in C : \E k \in 1 .. m : g[k] = t
    OBVIOUS
  <2> HIDE DEF g, C
  <2>4. g \in Injection(1 .. m, C)
    BY <2>1, <2>2 DEF Injection, IsInjective
  <2>5. g \in Surjection(1 .. m, C)
    BY <2>1, <2>3 DEF Surjection
  <2> QED
    BY <2>4, <2>5 DEF Bijection
<1>3. ExistsBijection(1 .. m, C)
  <2> HIDE DEF g, C
  <2> QED
    BY <1>2 DEF ExistsBijection
<1>4. IsFiniteSet(C) /\ Cardinality(C) = Cardinality(1 .. m)
  <2> HIDE DEF C
  <2> QED
    BY <1>1, <1>3, FS_Bijection
<1> QED
  BY <1>1, <1>4

(* Below the k-th of them there are k - 1. *)
LEMMA Ranked ==
  ASSUME NEW n \in Nat, NEW e \in [0 .. n -> Nat],
         \A j, k \in 0 .. n : j < k => e[j] < e[k],
         NEW C, C = {e[k - 1] : k \in 1 .. n},
         NEW k \in 1 .. n
  PROVE  Cardinality({j \in C : j < e[k - 1]}) = k - 1
<1>1. {j \in C : j < e[k - 1]} = {e[i - 1] : i \in 1 .. k - 1}
  <2>1. ASSUME NEW i \in 1 .. n PROVE e[i - 1] < e[k - 1] <=> i \in 1 .. k - 1
    <3>1. e[i - 1] \in Nat /\ e[k - 1] \in Nat /\ i - 1 \in 0 .. n /\ k - 1 \in 0 .. n
      OBVIOUS
    <3>2. i - 1 < k - 1 => e[i - 1] < e[k - 1]
      BY <3>1
    <3>3. k - 1 < i - 1 => e[k - 1] < e[i - 1]
      BY <3>1
    <3>4. i - 1 < k - 1 \/ i = k \/ k - 1 < i - 1
      OBVIOUS
    <3> QED
      BY <3>1, <3>2, <3>3, <3>4
  <2>2. 1 .. k - 1 \subseteq 1 .. n
    OBVIOUS
  <2> QED
    BY <2>1, <2>2
<1>2. k - 1 \in 0 .. n
  OBVIOUS
<1>3. Cardinality({e[i - 1] : i \in 1 .. k - 1}) = k - 1
  BY <1>2, Counted
<1> QED
  BY <1>1, <1>3

-----------------------------------------------------------------------------
(* How the sentence is split *)

(* The line that was received is what the array holds, with its terminator. *)
Received ==
  /\ line \in Lines /\ kind = line.kind
  /\ \A i \in 1 .. Len(Text(line)) : sentence[i - 1] = Text(line)[i]
  /\ sentence[Len(Text(line))] = Nul

(* The sentence ends where the text of the line does. *)
LEMMA EndOfSentence ==
  ASSUME DecodeTypeOK, Received
  PROVE  /\ StrEnd = Len(Text(line))
         /\ StrEnd \in 0 .. SentenceSize - 1
<1> DEFINE T == {i \in DOMAIN sentence : sentence[i] = Nul}
<1>1. PICK t \in Seq(Char \ {Nul}) : t = Text(line)
  BY Layout DEF Received
<1>2. Len(t) \in 0 .. SentenceSize - 1 /\ SentenceSize \in Nat
  BY <1>1, LineFacts DEF Received
<1>3. DOMAIN sentence = 0 .. SentenceSize + 2
  <2>1. sentence \in [Slots -> Char]
    BY DEF DecodeTypeOK
  <2> QED
    BY <2>1 DEF Slots
<1>4. Len(t) \in T
  BY <1>1, <1>2, <1>3 DEF Received
<1>5. ASSUME NEW i \in T PROVE Len(t) <= i
  <2>1. SUFFICES ASSUME i < Len(t) PROVE FALSE
    BY <1>2, <1>3
  <2>2. i + 1 \in 1 .. Len(t) /\ i + 1 - 1 = i
    BY <1>2, <1>3, <2>1
  <2>3. sentence[i] = t[i + 1]
    <3>1. \A j \in 1 .. Len(t) : sentence[j - 1] = t[j]
      BY <1>1 DEF Received
    <3>2. PICK j : j = i + 1
      OBVIOUS
    <3>3. j \in 1 .. Len(t) /\ j - 1 = i
      BY <2>2, <3>2
    <3>4. sentence[j - 1] = t[j]
      BY <3>1, <3>3
    <3> QED
      BY <3>2, <3>3, <3>4
  <2>4. t[i + 1] # Nul
    BY <2>2
  <2> QED
    BY <2>3, <2>4
<1>6. StrEnd \in T /\ \A i \in T : StrEnd <= i
  BY <1>4, <1>5, Zenon DEF StrEnd, Min
<1>7. StrEnd = Len(t)
  <2>1. StrEnd <= Len(t) /\ Len(t) <= StrEnd
    BY <1>4, <1>5, <1>6
  <2>2. StrEnd \in Nat
    BY <1>3, <1>6
  <2> QED
    BY <1>2, <2>1, <2>2
<1> QED
  BY <1>1, <1>2, <1>7

(* Where the fields of the line lie in the sentence: field k ends at e[k], and *)
(* follows the comma at which the field before ends.                        *)
Lies(e, n, f) ==
  /\ f = line.fields /\ n = Len(f)
  /\ e \in [0 .. n -> Nat] /\ e[0] = 0 /\ e[n] = StrEnd
  /\ \A k \in 1 .. n :
       /\ f[k] \in Seq(Char \ {Comma, Nul}) /\ Len(f[k]) \in Nat
       /\ e[k - 1] \in Nat /\ e[k] \in Nat
       /\ e[k - 1] < e[k] /\ e[k] = e[k - 1] + 1 + Len(f[k])
       /\ e[k] <= StrEnd
       /\ sentence[e[k - 1]] = Comma
       /\ \A j \in 1 .. Len(f[k]) : sentence[e[k - 1] + j] = f[k][j]
  /\ \A j, k \in 0 .. n : j < k => e[j] < e[k]

LEMMA SentenceLayout ==
  ASSUME DecodeTypeOK, Received
  PROVE  \E n \in Nat : \E e, f : Lies(e, n, f)
<1>10. PICK f : f = line.fields
  OBVIOUS
<1>1. StrEnd = Len(Text(line)) /\ StrEnd \in Nat
  BY EndOfSentence
<1>2. f \in Seq(Seq(Char \ {Comma, Nul}))
  BY <1>10, LineFacts DEF Received
<1>11. PICK n \in Nat : n = Len(f)
  BY <1>2
<1>12. PICK e : Ends(e, line)
  BY Layout DEF Received
<1>3. \A k \in 1 .. n : f[k] \in Seq(Char \ {Comma, Nul}) /\ Len(f[k]) \in Nat
  BY <1>2, <1>11
<1>4. /\ e \in [0 .. n -> Nat] /\ e[0] = 0 /\ e[n] = StrEnd
      /\ \A k \in 1 .. n :
           /\ e[k] = e[k - 1] + 1 + Len(f[k])
           /\ Text(line)[e[k - 1] + 1] = Comma
           /\ \A j \in 1 .. Len(f[k]) : Text(line)[e[k - 1] + 1 + j] = f[k][j]
  BY <1>1, <1>10, <1>11, <1>12 DEF Ends
<1>5. ASSUME NEW k \in 1 .. n PROVE e[k - 1] < e[k]
  <2>1. e[k - 1] \in Nat /\ Len(f[k]) \in Nat /\ e[k] = e[k - 1] + 1 + Len(f[k])
    BY <1>3, <1>4
  <2> QED
    BY <2>1
<1>6. \A j, k \in 0 .. n : j < k => e[j] < e[k]
  BY <1>4, <1>5, Growing
<1>7. ASSUME NEW k \in 1 .. n PROVE e[k] <= StrEnd
  <2>1. k = n \/ k < n
    OBVIOUS
  <2>2. k \in 0 .. n /\ n \in 0 .. n /\ e[k] \in Nat /\ e[n] \in Nat
    BY <1>4
  <2> QED
    BY <1>4, <1>6, <2>1, <2>2
<1>8. ASSUME NEW i \in Nat, i < StrEnd PROVE sentence[i] = Text(line)[i + 1]
  <2>1. PICK j : j = i + 1
    OBVIOUS
  <2>2. j \in 1 .. Len(Text(line)) /\ j - 1 = i
    BY <1>1, <1>8, <2>1
  <2>3. sentence[j - 1] = Text(line)[j]
    BY <2>2 DEF Received
  <2> QED
    BY <2>1, <2>2, <2>3
<1>9. ASSUME NEW k \in 1 .. n
      PROVE  /\ sentence[e[k - 1]] = Comma
             /\ \A j \in 1 .. Len(f[k]) : sentence[e[k - 1] + j] = f[k][j]
  <2>1. /\ e[k - 1] \in Nat /\ Len(f[k]) \in Nat /\ e[k] = e[k - 1] + 1 + Len(f[k])
        /\ e[k] <= StrEnd /\ StrEnd \in Nat
    BY <1>1, <1>3, <1>4, <1>7
  <2>2. ASSUME NEW x \in Nat, NEW y \in Nat, NEW z \in Nat, x + 1 + y <= z
        PROVE  /\ x < z
               /\ \A j \in 1 .. y : x + j \in Nat /\ x + j < z /\ x + j + 1 = x + 1 + j
    BY <2>2
  <2>3. /\ e[k - 1] < StrEnd
        /\ \A j \in 1 .. Len(f[k]) : /\ e[k - 1] + j \in Nat /\ e[k - 1] + j < StrEnd
                                     /\ e[k - 1] + j + 1 = e[k - 1] + 1 + j
    <3>1. e[k - 1] + 1 + Len(f[k]) <= StrEnd
      BY <2>1
    <3> QED
      BY <2>1, <2>2, <3>1
  <2>4. sentence[e[k - 1]] = Comma
    BY <1>4, <1>8, <2>1, <2>3
  <2>5. ASSUME NEW j \in 1 .. Len(f[k]) PROVE sentence[e[k - 1] + j] = f[k][j]
    <3>1. sentence[e[k - 1] + j] = Text(line)[e[k - 1] + j + 1]
      BY <1>8, <2>3, Zenon
    <3>2. Text(line)[e[k - 1] + 1 + j] = f[k][j]
      BY <1>4
    <3> QED
      BY <2>3, <3>1, <3>2, Zenon
  <2> QED
    BY <2>4, <2>5
<1>13. \A k \in 1 .. n : e[k - 1] \in Nat /\ e[k] \in Nat
  BY <1>4
<1>14. Lies(e, n, f)
  BY <1>3, <1>4, <1>5, <1>6, <1>7, <1>9, <1>10, <1>11, <1>13 DEF Lies
<1> QED
  BY <1>14

(* The commas of the sentence are those in front of its fields, and the code's *)
(* count and pointers are right.                                           *)
LEMMA SplitAtCommas ==
  ASSUME DecodeTypeOK, Received,
         NEW n \in Nat, NEW e, NEW f, Lies(e, n, f)
  PROVE  /\ CommaCount = n
         /\ Positions = [k \in 1 .. n |-> e[k - 1] + 1]
<1>2. /\ e \in [0 .. n -> Nat] /\ e[0] = 0 /\ e[n] = StrEnd
      /\ \A k \in 1 .. n :
           /\ f[k] \in Seq(Char \ {Comma, Nul}) /\ Len(f[k]) \in Nat
           /\ e[k - 1] \in Nat /\ e[k] \in Nat
           /\ e[k - 1] < e[k] /\ e[k] = e[k - 1] + 1 + Len(f[k])
           /\ e[k] <= StrEnd
           /\ sentence[e[k - 1]] = Comma
           /\ \A j \in 1 .. Len(f[k]) : sentence[e[k - 1] + j] = f[k][j]
      /\ \A j, k \in 0 .. n : j < k => e[j] < e[k]
  BY DEF Lies
<1>3. StrEnd \in Nat
  BY EndOfSentence
<1>4. Commas = {e[k - 1] : k \in 1 .. n}
  <2>1. ASSUME NEW k \in 1 .. n PROVE e[k - 1] \in Commas
    <3>1. e[k - 1] \in Nat /\ e[k - 1] < StrEnd
      <4>1. e[k - 1] < e[k] /\ e[k] <= StrEnd /\ e[k - 1] \in Nat /\ e[k] \in Nat
        BY <1>2
      <4> QED
        BY <1>3, <4>1
    <3>2. e[k - 1] \in 0 .. StrEnd - 1
      BY <1>3, <3>1
    <3> QED
      BY <1>2, <3>2 DEF Commas
  <2>2. ASSUME NEW i \in Commas PROVE \E k \in 1 .. n : i = e[k - 1]
    <3>1. i \in Nat /\ i < StrEnd /\ sentence[i] = Comma
      BY <1>3 DEF Commas
    <3>2. PICK k \in 1 .. n : e[k - 1] <= i /\ i < e[k]
      BY <1>2, <3>1, Growing
    <3>3. CASE i # e[k - 1]
      <4>1. e[k - 1] \in Nat /\ Len(f[k]) \in Nat /\ e[k] = e[k - 1] + 1 + Len(f[k])
        BY <1>2
      <4>2. ASSUME NEW x \in Nat, NEW y \in Nat, x <= i, i # x, i < x + 1 + y
            PROVE  \E j \in 1 .. y : x + j = i
        <5>1. i - x \in 1 .. y /\ x + (i - x) = i
          BY <3>1, <4>2
        <5> QED
          BY <5>1
      <4>3. PICK j \in 1 .. Len(f[k]) : e[k - 1] + j = i
        BY <3>2, <3>3, <4>1, <4>2
      <4>4. sentence[i] = f[k][j]
        BY <1>2, <4>3
      <4>5. f[k][j] # Comma
        <5>1. f[k] \in Seq(Char \ {Comma, Nul})
          BY <1>2
        <5> QED
          BY <5>1
      <4> QED
        BY <3>1, <4>4, <4>5
    <3> QED
      BY <3>3
  <2> QED
    BY <2>1, <2>2
<1>5. CommaCount = n
  <2>1. n \in 0 .. n
    OBVIOUS
  <2> QED
    BY <1>2, <1>4, <2>1, Counted DEF CommaCount
<1>6. ASSUME NEW k \in 1 .. n PROVE CommaAt(k) = e[k - 1]
  <2> DEFINE rank(i) == Cardinality({j \in Commas : j < i})
  <2>1. \A m \in 1 .. n : rank(e[m - 1]) = m - 1
    <3>1. ASSUME NEW m \in 1 .. n
          PROVE  Cardinality({j \in Commas : j < e[m - 1]}) = m - 1
      <4>1. e \in [0 .. n -> Nat] /\ \A i, j \in 0 .. n : i < j => e[i] < e[j]
        BY <1>2
      <4> QED
        BY <1>4, <4>1, Ranked
    <3> QED
      BY <3>1, Zenon
  <2>2. CommaAt(k) = CHOOSE i \in Commas : rank(i) = k - 1
    BY DEF CommaAt
  <2> HIDE DEF rank
  <2>3. \A i \in Commas : rank(i) = k - 1 => i = e[k - 1]
    <3>1. ASSUME NEW m \in 1 .. n, rank(e[m - 1]) = k - 1 PROVE m = k
      BY <2>1, <3>1
    <3> QED
      BY <1>4, <3>1
  <2>4. e[k - 1] \in Commas /\ rank(e[k - 1]) = k - 1
    BY <1>4, <2>1
  <2> QED
    BY <2>2, <2>3, <2>4
<1>7. \A k \in 1 .. n : CommaAt(k) + 1 = e[k - 1] + 1
  BY <1>6
<1> QED
  BY <1>5, <1>7 DEF Positions

(* What param points to: each field of the line, up to the comma or the       *)
(* terminator behind it.                                                   *)
Split ==
  /\ Len(param) = Len(line.fields)
  /\ param # <<>> => param[1] = 1
  /\ \A k \in 1 .. Len(param) :
       /\ line.fields[k] \in Seq(Char \ {Comma, Nul})
       /\ param[k] \in 1 .. StrEnd
       /\ param[k] + Len(line.fields[k]) <= StrEnd
       /\ k < Len(param) => param[k + 1] = param[k] + Len(line.fields[k]) + 1
       /\ \A j \in 1 .. Len(line.fields[k]) :
            sentence[param[k] + j - 1] = line.fields[k][j]
       /\ sentence[param[k] + Len(line.fields[k])] \in {Comma, Nul}

(* gps_decode_parameters makes it so. *)
LEMMA PositionsSplit ==
  ASSUME DecodeTypeOK, Received, param' = Positions,
         sentence' = sentence, line' = line
  PROVE  Split' /\ param' \in Seq(1 .. SentenceSize - 1) /\ Len(param') = CommaCount
<1>1. PICK n \in Nat : \E e, f : Lies(e, n, f)
  BY SentenceLayout
<1>2. PICK e, f : Lies(e, n, f)
  BY <1>1
<1>3. CommaCount = n /\ param' = [k \in 1 .. n |-> e[k - 1] + 1]
  BY <1>2, SplitAtCommas
<1>4. /\ e \in [0 .. n -> Nat] /\ e[0] = 0 /\ e[n] = StrEnd
      /\ \A k \in 1 .. n :
           /\ f[k] \in Seq(Char \ {Comma, Nul}) /\ Len(f[k]) \in Nat
           /\ e[k - 1] \in Nat /\ e[k] \in Nat
           /\ e[k - 1] < e[k] /\ e[k] = e[k - 1] + 1 + Len(f[k])
           /\ e[k] <= StrEnd
           /\ sentence[e[k - 1]] = Comma
           /\ \A j \in 1 .. Len(f[k]) : sentence[e[k - 1] + j] = f[k][j]
  BY <1>2 DEF Lies
<1>5. f = line.fields /\ n = Len(f)
  BY <1>2 DEF Lies
<1>6. StrEnd \in 0 .. SentenceSize - 1 /\ SentenceSize \in Nat /\ sentence[StrEnd] = Nul
  BY EndOfSentence, LineFacts DEF Received
<1>7. StrEnd' = StrEnd
  BY DEF StrEnd
<1>8. ASSUME NEW k \in 1 .. n
      PROVE  /\ param'[k] = e[k - 1] + 1
             /\ param'[k] \in 1 .. StrEnd
             /\ param'[k] + Len(f[k]) = e[k]
  <2>1. param'[k] = e[k - 1] + 1
    BY <1>3
  <2>2. e[k - 1] \in Nat /\ e[k] <= StrEnd /\ e[k] = e[k - 1] + 1 + Len(f[k]) /\ Len(f[k]) \in Nat
    BY <1>4
  <2>3. e[k - 1] + 1 \in 1 .. StrEnd
    BY <1>6, <2>2
  <2> QED
    BY <2>1, <2>2, <2>3
<1>9. param' \in [1 .. n -> 1 .. SentenceSize - 1]
  <2>1. \A k \in 1 .. n : e[k - 1] + 1 \in 1 .. SentenceSize - 1
    <3> TAKE k \in 1 .. n
    <3>1. e[k - 1] + 1 \in 1 .. StrEnd
      BY <1>8
    <3> QED
      BY <1>6, <3>1
  <2> QED
    BY <1>3, <2>1
<1>10. param' \in Seq(1 .. SentenceSize - 1) /\ Len(param') = n
  <2>1. ASSUME NEW S, NEW s \in [1 .. n -> S] PROVE s \in Seq(S) /\ Len(s) = n
    BY IsASeq
  <2> QED
    BY <1>9, <2>1
<1>11. ASSUME NEW k \in 1 .. n
       PROVE  /\ k < n => param'[k + 1] = param'[k] + Len(f[k]) + 1
              /\ sentence[param'[k] + Len(f[k])] \in {Comma, Nul}
  <2>1. CASE k < n
    <3>1. PICK m \in 1 .. n : m = k + 1 /\ m - 1 = k
      BY <2>1
    <3>2. param'[m] = e[k] + 1 /\ sentence[e[k]] = Comma
      BY <1>4, <1>8, <3>1
    <3> QED
      BY <1>8, <3>1, <3>2
  <2>2. CASE k = n
    BY <1>4, <1>6, <1>8, <2>2
  <2> QED
    BY <2>1, <2>2
<1>12. ASSUME NEW k \in 1 .. n, NEW j \in 1 .. Len(f[k])
       PROVE  sentence[param'[k] + j - 1] = f[k][j]
  <2>1. e[k - 1] \in Nat /\ Len(f[k]) \in Nat
    BY <1>4
  <2>2. ASSUME NEW x \in Nat, NEW i \in Nat PROVE x + 1 + i - 1 = x + i
    OBVIOUS
  <2>3. param'[k] + j - 1 = e[k - 1] + j
    <3>1. j \in Nat
      BY <2>1
    <3>2. e[k - 1] + 1 + j - 1 = e[k - 1] + j
      BY <2>1, <2>2, <3>1, Zenon
    <3> QED
      BY <1>8, <3>2
  <2>4. sentence[e[k - 1] + j] = f[k][j]
    BY <1>4
  <2> QED
    BY <2>3, <2>4
<1>13. Split'
  <2>1. \A k \in 1 .. n :
          /\ f[k] \in Seq(Char \ {Comma, Nul})
          /\ param'[k] \in 1 .. StrEnd
          /\ param'[k] + Len(f[k]) <= StrEnd
    <3> TAKE k \in 1 .. n
    <3> QED
      BY <1>4, <1>8
  <2>2. param' # <<>> => param'[1] = 1
    <3> SUFFICES ASSUME param' # <<>> PROVE param'[1] = 1
      OBVIOUS
    <3>1. 1 \in 1 .. n /\ 1 - 1 = 0
      BY <1>10
    <3> QED
      BY <1>4, <1>8, <3>1
  <2> QED
    BY <1>5, <1>7, <1>10, <1>11, <1>12, <2>1, <2>2 DEF Split
<1> QED
  BY <1>3, <1>10, <1>13

-----------------------------------------------------------------------------
(* The C library's functions *)

(* Min yields the least of a set of numbers. *)
LEMMA MinIsLeast ==
  ASSUME NEW T \in SUBSET Nat, T # {}
  PROVE  Min(T) \in T /\ \A x \in T : Min(T) <= x
<1>1. \E x \in T : \A y \in T : x <= y
  BY Least
<1> QED
  BY <1>1, Zenon DEF Min

(* Digits stop before the terminator, and at what is no digit. *)
LEMMA DigitsFacts ==
  ASSUME DecodeTypeOK, Received, NEW p \in 0 .. StrEnd
  PROVE  /\ Digits(p) \in Seq(0 .. 9)
         /\ p + Len(Digits(p)) <= StrEnd
         /\ ~IsDigit(sentence[p + Len(Digits(p))])
         /\ \A i \in 1 .. Len(Digits(p)) : Digits(p)[i] = sentence[p + i - 1]
<1>1. StrEnd \in 0 .. SentenceSize - 1 /\ SentenceSize \in Nat /\ sentence[StrEnd] = Nul
  BY EndOfSentence, LineFacts DEF Received
<1> DEFINE T == {q \in p .. SentenceSize - 1 : ~IsDigit(sentence[q])}
<1>2. StrEnd \in T /\ T \in SUBSET Nat
  BY <1>1 DEF IsDigit, Nul
<1>3. PICK end : end = Min(T)
  OBVIOUS
<1>4. end \in T /\ \A q \in T : end <= q
  <2> HIDE DEF T
  <2> QED
    BY <1>2, <1>3, MinIsLeast
<1>5. end \in p .. StrEnd /\ ~IsDigit(sentence[end])
  BY <1>1, <1>2, <1>4
<1>6. \A q \in p .. end - 1 : sentence[q] \in 0 .. 9
  <2> TAKE q \in p .. end - 1
  <2>1. q \in p .. SentenceSize - 1 /\ ~(end <= q)
    BY <1>1, <1>5
  <2>2. q \notin T
    BY <1>4, <2>1
  <2> QED
    BY <2>1, <2>2 DEF IsDigit
<1>7. Digits(p) = [i \in 1 .. end - p |-> sentence[p + i - 1]]
  BY <1>3, Zenon DEF Digits
<1>8. PICK m \in Nat : m = end - p /\ p + m = end
  BY <1>1, <1>5
<1>9. \A i \in 1 .. m : sentence[p + i - 1] \in 0 .. 9
  <2> TAKE i \in 1 .. m
  <2>1. p + i - 1 \in p .. end - 1
    BY <1>1, <1>5, <1>8
  <2> QED
    BY <1>6, <2>1
<1>10. Digits(p) \in Seq(0 .. 9) /\ Len(Digits(p)) = m
  <2>1. ASSUME NEW s \in [1 .. m -> 0 .. 9] PROVE s \in Seq(0 .. 9) /\ Len(s) = m
    BY IsASeq
  <2>2. Digits(p) \in [1 .. m -> 0 .. 9]
    BY <1>7, <1>8, <1>9
  <2> QED
    BY <2>1, <2>2
<1>11. p + Len(Digits(p)) = end
  BY <1>8, <1>10
<1>12. end <= StrEnd
  BY <1>1, <1>5
<1> QED
  BY <1>5, <1>7, <1>8, <1>10, <1>11, <1>12

(* v is the value of each beginning of ds, as the function in Value is. *)
Values(v, ds, n) ==
  v = [i \in 0 .. n |-> IF i = 0 THEN 0 ELSE 10 * v[i - 1] + ds[i]]

LEMMA ValuesExist ==
  ASSUME NEW ds, NEW n \in Nat
  PROVE  \E v : Values(v, ds, n)
<1> DEFINE D == {m \in Nat : \E v : Values(v, ds, m)}
<1>1. 0 \in D
  <2>1. PICK v : v = [i \in 0 .. 0 |-> 0]
    OBVIOUS
  <2>2. v = [i \in 0 .. 0 |-> IF i = 0 THEN 0 ELSE 10 * v[i - 1] + ds[i]]
    BY <2>1
  <2> QED
    BY <2>2 DEF Values
<1>2. ASSUME NEW k \in 1 .. n, k - 1 \in D PROVE k \in D
  <2>1. PICK v : Values(v, ds, k - 1)
    BY <1>2
  <2> DEFINE w == [i \in 0 .. k |-> IF i < k THEN v[i] ELSE 10 * v[i - 1] + ds[i]]
  <2>2. ASSUME NEW i \in 0 .. k
        PROVE  w[i] = IF i = 0 THEN 0 ELSE 10 * w[i - 1] + ds[i]
    <3>1. i # 0 => w[i - 1] = v[i - 1]
      OBVIOUS
    <3>2. i < k => w[i] = v[i] /\ v[i] = IF i = 0 THEN 0 ELSE 10 * v[i - 1] + ds[i]
      <4> SUFFICES ASSUME i < k
                   PROVE  v[i] = IF i = 0 THEN 0 ELSE 10 * v[i - 1] + ds[i]
        OBVIOUS
      <4>1. i \in 0 .. k - 1
        OBVIOUS
      <4> HIDE DEF w
      <4> QED
        BY <4>1, <2>1 DEF Values
    <3>3. ~(i < k) => i # 0 /\ w[i] = 10 * v[i - 1] + ds[i]
      OBVIOUS
    <3> HIDE DEF w
    <3> QED
      BY <3>1, <3>2, <3>3
  <2>3. Values(w, ds, k)
    <3>1. w = [i \in 0 .. k |-> w[i]]
      OBVIOUS
    <3> HIDE DEF w
    <3> QED
      BY <3>1, <2>2 DEF Values
  <2> QED
    BY <2>3
<1>3. n \in D
  <2> HIDE DEF D
  <2> QED
    BY <1>1, <1>2, UpTo
<1> QED
  BY <1>3

(* The value of digits is a number. *)
LEMMA ValueType ==
  ASSUME NEW ds \in Seq(0 .. 9)
  PROVE  Value(ds) \in Nat
<1>1. PICK n \in Nat : n = Len(ds)
  OBVIOUS
<1>2. \A i \in 1 .. n : ds[i] \in Nat
  BY <1>1
<1> DEFINE v == CHOOSE v : Values(v, ds, n)
<1>3. Value(ds) = v[n]
  BY <1>1, Zenon DEF Value, Values
<1>4. Values(v, ds, n)
  BY ValuesExist, Zenon
<1> HIDE DEF v
<1>5. v[0] = 0 /\ \A k \in 1 .. n : v[k] = 10 * v[k - 1] + ds[k]
  BY <1>4 DEF Values
<1> DEFINE D == {k \in 0 .. n : v[k] \in Nat}
<1>6. 0 \in D
  BY <1>5
<1>7. ASSUME NEW k \in 1 .. n, k - 1 \in D PROVE k \in D
  <2>1. v[k] = 10 * v[k - 1] + ds[k] /\ v[k - 1] \in Nat /\ ds[k] \in Nat
    BY <1>2, <1>5, <1>7
  <2>2. v[k] \in Nat
    BY <2>1
  <2> QED
    BY <2>2
<1>8. n \in D
  <2> HIDE DEF D
  <2>1. 0 .. n \subseteq D
    BY <1>6, <1>7, UpTo
  <2> QED
    BY <2>1
<1> QED
  BY <1>3, <1>8

(* The remainder that % takes. *)
LEMMA Remainder ==
  ASSUME NEW a \in Nat, NEW n \in Nat \ {0}
  PROVE  a % n \in Nat /\ a % n < n /\ (a < n => a % n = a)
<1>1. a % n \in 0 .. n - 1 /\ (a < n => a % n = a)
  BY SMT
<1> QED
  BY <1>1

(* Cutting a number to an int16_t. *)
LEMMA Cut ==
  ASSUME NEW v \in Nat
  PROVE  /\ ((v + 32768) % 65536) - 32768 \in Int16
         /\ v < 32768 => ((v + 32768) % 65536) - 32768 = v
<1>1. PICK n \in Nat \ {0} : n = 65536
  OBVIOUS
<1>2. PICK a \in Nat : a = v + 32768
  OBVIOUS
<1>3. PICK w \in Nat : w = a % n /\ w < n /\ (a < n => w = a)
  BY Remainder
<1>4. w <= 65535 /\ (v < 32768 => w - 32768 = v)
  BY <1>1, <1>2, <1>3
<1>5. /\ w - 32768 \in Int /\ 0 - 32768 \in Int /\ 32767 \in Int
      /\ 0 - 32768 <= w - 32768 /\ w - 32768 <= 32767
  BY <1>4
<1>6. w - 32768 \in Int16
  BY <1>5 DEF Int16
<1>7. w = (v + 32768) % 65536
  BY <1>1, <1>2, <1>3
<1> QED
  BY <1>4, <1>6, <1>7

(* strtoul yields an int16_t: the value itself, if that is one. *)
LEMMA StrtoulFacts ==
  ASSUME DecodeTypeOK, Received, NEW p \in 0 .. StrEnd
  PROVE  /\ Strtoul(p) \in Int16
         /\ Value(Digits(p)) < 32768 => Strtoul(p) = Value(Digits(p))
<1>1. Value(Digits(p)) \in Nat
  BY DigitsFacts, ValueType
<1> QED
  BY <1>1, Cut DEF Strtoul

(* strtod reads a numeral. *)
LEMMA StrtodType ==
  ASSUME DecodeTypeOK, Received, NEW p \in 0 .. StrEnd
  PROVE  Strtod(p) \in Seq(Char)
<1>1. StrEnd \in 0 .. SentenceSize - 1 /\ sentence[StrEnd] = Nul
  BY EndOfSentence DEF Received
<1>2. 0 .. 9 \subseteq Char /\ Dot \in Char /\ Nul # Dot
  BY DEF Char, Other, Dot, Nul
<1>3. ASSUME NEW q \in 0 .. StrEnd PROVE Digits(q) \in Seq(Char)
  <2>1. Digits(q) \in Seq(0 .. 9)
    BY DigitsFacts
  <2> QED
    BY <1>2, <2>1, SeqMonotonic
<1>4. PICK end : end = p + Len(Digits(p))
  OBVIOUS
<1>5. end \in 0 .. StrEnd
  <2>1. Digits(p) \in Seq(0 .. 9) /\ p + Len(Digits(p)) <= StrEnd
    BY DigitsFacts
  <2>2. Len(Digits(p)) \in Nat
    BY <2>1
  <2> QED
    BY <1>1, <1>4, <2>1, <2>2
<1>6. CASE sentence[end] = Dot
  <2>1. end + 1 \in 0 .. StrEnd
    BY <1>1, <1>2, <1>5, <1>6
  <2>2. Digits(p) \in Seq(Char) /\ Digits(end + 1) \in Seq(Char) /\ <<Dot>> \in Seq(Char)
    BY <1>2, <1>3, <2>1
  <2>3. ASSUME NEW a \in Seq(Char), NEW b \in Seq(Char), NEW c \in Seq(Char)
        PROVE  a \o b \o c \in Seq(Char)
    OBVIOUS
  <2>4. Strtod(p) = Digits(p) \o <<Dot>> \o Digits(end + 1)
    BY <1>4, <1>6, Zenon DEF Strtod
  <2> QED
    BY <2>2, <2>3, <2>4
<1>7. CASE sentence[end] # Dot
  <2>1. Strtod(p) = Digits(p)
    BY <1>4, <1>7, Zenon DEF Strtod
  <2> QED
    BY <1>3, <2>1
<1> QED
  BY <1>6, <1>7

(* strchr finds what is there. *)
LEMMA StrChrFacts ==
  ASSUME DecodeTypeOK, Received, NEW p \in 0 .. StrEnd, NEW ch, HasChr(p, ch)
  PROVE  StrChr(p, ch) \in 0 .. StrEnd
<1>1. StrEnd \in 0 .. SentenceSize - 1
  BY EndOfSentence
<1> DEFINE T == {q \in p .. StrEnd - 1 : sentence[q] = ch}
<1>2. T \in SUBSET Nat /\ T # {} /\ T \subseteq 0 .. StrEnd
  BY <1>1 DEF HasChr
<1>3. StrChr(p, ch) = Min(T)
  BY Zenon DEF StrChr
<1> HIDE DEF T
<1> QED
  BY <1>2, <1>3, MinIsLeast

(* Two digits make a number below 100. *)
LEMMA DDType ==
  ASSUME NEW p
  PROVE  DD(p) \in 0 .. 99
<1>1. CASE IsDigit(sentence[p]) /\ IsDigit(sentence[p + 1])
  <2>1. sentence[p] \in 0 .. 9 /\ sentence[p + 1] \in 0 .. 9
    BY <1>1 DEF IsDigit
  <2> QED
    BY <1>1, <2>1 DEF DD
<1>2. CASE ~(IsDigit(sentence[p]) /\ IsDigit(sentence[p + 1]))
  BY <1>2 DEF DD
<1> QED
  BY <1>1, <1>2

-----------------------------------------------------------------------------
(* The invariant: from its reception on the sentence is that of the line, and  *)
(* while it is decoded param is its split.                                 *)
DecodeInv ==
  /\ DecodeTypeOK
  /\ pc \in {"check", "decode"} => Received
  /\ pc = "decode" => Split
  /\ CompleteLineDecoded

LEMMA InitDecode == DecodeInit => DecodeInv
<1> SUFFICES ASSUME DecodeInit PROVE DecodeInv
  OBVIOUS
<1>1. Nul \in Char /\ Unset \in Decimals /\ Unset \in Int16
  BY DEF Nul, Char, Other, Unset, Decimals, Int16
<1>2. rec \in Record
  BY <1>1 DEF DecodeInit, Record
<1>3. sentence \in [Slots -> Char]
  BY <1>1 DEF DecodeInit
<1>4. param \in Seq(1 .. SentenceSize - 1) /\ Len(param) <= MaxParams
  BY EmptySeq DEF DecodeInit, MaxParams
<1>5. DecodeTypeOK
  BY <1>2, <1>3, <1>4 DEF DecodeTypeOK, DecodeInit, NoLine
<1>6. ~Complete
  BY DEF DecodeInit, NoLine, Complete
<1> QED
  BY <1>5, <1>6 DEF DecodeInv, DecodeInit, CompleteLineDecoded

(* A line is received. *)
LEMMA GetSentenceInv == DecodeInv /\ GetSentence => DecodeInv'
<1> SUFFICES ASSUME DecodeInv, GetSentence PROVE DecodeInv'
  OBVIOUS
<1>1. PICK l \in Lines, behind \in Behind :
        /\ line' = l
        /\ kind' = l.kind
        /\ sentence' = [i \in Slots |-> CASE i < Len(Text(l))  -> Text(l)[i + 1]
                                         [] i = Len(Text(l))  -> Nul
                                         [] i \in BehindSlots -> behind[i]
                                         [] OTHER             -> sentence[i]]
  BY DEF GetSentence
<1>2. PICK t \in Seq(Char \ {Nul}) : t = Text(l)
  BY Layout
<1>3. Len(t) \in Nat /\ Len(t) < SentenceSize /\ SentenceSize \in Nat
  BY <1>2, LineFacts
<1>4. behind \in [BehindSlots -> Char] /\ Nul \in Char /\ sentence \in [Slots -> Char]
  <2>1. sentence \in [Slots -> Char]
    BY DEF DecodeInv, DecodeTypeOK
  <2>2. behind \in [BehindSlots -> Char]
    BY BehindAssumption
  <2> QED
    BY <2>1, <2>2 DEF Nul, Char, Other
<1>5. sentence' = [i \in Slots |-> CASE i < Len(t)         -> t[i + 1]
                                     [] i = Len(t)         -> Nul
                                     [] i \in BehindSlots  -> behind[i]
                                     [] OTHER              -> sentence[i]]
  BY <1>1, <1>2
<1>6. sentence' \in [Slots -> Char]
  <2>1. ASSUME NEW i \in Slots
        PROVE  (CASE i < Len(t)         -> t[i + 1]
                  [] i = Len(t)         -> Nul
                  [] i \in BehindSlots  -> behind[i]
                  [] OTHER              -> sentence[i]) \in Char
    <3>1. i \in Nat /\ (i \in BehindSlots => ~(i < Len(t)) /\ i # Len(t))
      BY <1>3 DEF Slots, BehindSlots
    <3>2. i < Len(t) => t[i + 1] \in Char
      <4> SUFFICES ASSUME i < Len(t) PROVE t[i + 1] \in Char
        OBVIOUS
      <4>1. i + 1 \in 1 .. Len(t)
        BY <1>3, <3>1
      <4> QED
        BY <4>1
    <3>3. i \in BehindSlots => behind[i] \in Char
      BY <1>4
    <3>4. sentence[i] \in Char
      BY <1>4
    <3> QED
      BY <1>3, <1>4, <3>1, <3>2, <3>3, <3>4
  <2> QED
    BY <1>5, <2>1
<1>7. DecodeTypeOK'
  <2>1. UNCHANGED <<param, rec, outcome>> /\ pc' = "check"
    BY DEF GetSentence
  <2> QED
    BY <1>1, <1>6, <2>1 DEF DecodeInv, DecodeTypeOK
<1>8. ASSUME NEW i \in 1 .. Len(t) PROVE sentence'[i - 1] = t[i]
  <2>1. PICK j : j = i - 1
    OBVIOUS
  <2>2. j \in Slots /\ j < Len(t) /\ j + 1 = i /\ j # Len(t) /\ j \notin BehindSlots
    BY <1>3, <2>1 DEF Slots, BehindSlots
  <2>3. sentence'[j] = t[j + 1]
    BY <1>5, <2>2
  <2> QED
    BY <2>1, <2>2, <2>3
<1>9. sentence'[Len(t)] = Nul
  <2>1. PICK j : j = Len(t)
    OBVIOUS
  <2>2. j \in Slots /\ ~(j < Len(t)) /\ j \notin BehindSlots
    BY <1>3, <2>1 DEF Slots, BehindSlots
  <2> QED
    BY <1>5, <2>1, <2>2
<1>10. Received'
  <2>1. Text(line)' = t
    BY <1>1, <1>2 DEF Text
  <2> QED
    BY <1>1, <1>8, <1>9, <2>1 DEF Received
<1> QED
  BY <1>7, <1>10 DEF DecodeInv, GetSentence, CompleteLineDecoded

(* Whether a line is complete depends on nothing else. *)
LEMMA CompleteFrame ==
  ASSUME line' = line
  PROVE  Complete' <=> Complete
  BY DEF Complete, SixDigits, Field, Decimal, Whole

(* Short and foreign sentences are passed over; a complete line is neither. *)
LEMMA IgnoreInv == DecodeInv /\ Ignore => DecodeInv'
<1> SUFFICES ASSUME DecodeInv, Ignore PROVE DecodeInv'
  OBVIOUS
<1>1. DecodeTypeOK'
  BY DEF DecodeInv, Ignore, DecodeTypeOK
<1>2. ~Complete
  <2> SUFFICES ASSUME Complete PROVE FALSE
    OBVIOUS
  <2>1. Received /\ DecodeTypeOK
    BY DEF DecodeInv, Ignore
  <2>2. PICK n \in Nat : \E e, f : Lies(e, n, f)
    BY <2>1, SentenceLayout
  <2>3. PICK e, f : Lies(e, n, f)
    BY <2>2
  <2>4. n >= 11 /\ Len(f[1]) >= 6
    BY <2>3 DEF Complete, SixDigits, Field, Lies
  <2>5. /\ e[0] = 0 /\ e[1] = e[0] + 1 + Len(f[1]) /\ e[1] <= StrEnd
        /\ Len(f[1]) \in Nat /\ e[1] \in Nat
    <3>1. 1 \in 1 .. n /\ 1 - 1 = 0
      BY <2>4
    <3> QED
      BY <2>3, <3>1 DEF Lies
  <2>6. StrEnd \in Nat
    BY <2>1, EndOfSentence
  <2>7. StrEnd + HeaderLength >= 10
    BY <2>4, <2>5, <2>6 DEF HeaderLength
  <2>8. kind = "RMC"
    BY <2>1 DEF Complete, Received
  <2> QED
    BY <2>6, <2>7, <2>8 DEF Ignore, HeaderLength
<1>3. ~Complete'
  BY <1>2, CompleteFrame DEF Ignore
<1> QED
  BY <1>1, <1>3 DEF DecodeInv, Ignore, CompleteLineDecoded

LEMMA DecodeParametersInv == DecodeInv /\ DecodeParameters => DecodeInv'
<1> SUFFICES ASSUME DecodeInv, DecodeParameters PROVE DecodeInv'
  OBVIOUS
<1>1. DecodeTypeOK /\ Received
  BY DEF DecodeInv, DecodeParameters
<1>2. /\ param' = Positions /\ pc' = "decode" /\ CommaCount <= MaxParams
      /\ sentence' = sentence /\ line' = line /\ kind' = kind
      /\ UNCHANGED <<rec, outcome>>
  BY DEF DecodeParameters
<1>3. Split' /\ param' \in Seq(1 .. SentenceSize - 1) /\ Len(param') = CommaCount
  BY <1>1, <1>2, PositionsSplit
<1>4. DecodeTypeOK'
  BY <1>1, <1>2, <1>3 DEF DecodeTypeOK
<1>5. Received'
  BY <1>1, <1>2 DEF Received, Text
<1> QED
  BY <1>2, <1>3, <1>4, <1>5 DEF DecodeInv, CompleteLineDecoded

LEMMA OverrunParamsInv == DecodeInv /\ OverrunParams => DecodeInv'
<1> SUFFICES ASSUME DecodeInv, OverrunParams PROVE DecodeInv'
  OBVIOUS
<1>1. DecodeTypeOK'
  BY DEF DecodeInv, OverrunParams, DecodeTypeOK
<1> QED
  BY <1>1 DEF DecodeInv, OverrunParams, CompleteLineDecoded

-----------------------------------------------------------------------------
(* What the decoding of a field reads *)

(* A field is where param says, up to a comma or the terminator. *)
LEMMA FieldAt ==
  ASSUME DecodeInv, pc = "decode", NEW k \in Nat, k < param_count
  PROVE  /\ Field(k) \in Seq(Char \ {Comma, Nul})
         /\ Param(k) \in 1 .. StrEnd
         /\ Param(k) + Len(Field(k)) <= StrEnd
         /\ \A j \in 1 .. Len(Field(k)) : sentence[Param(k) + j - 1] = Field(k)[j]
         /\ sentence[Param(k) + Len(Field(k))] \in {Comma, Nul}
<1>1. Split /\ Len(param) \in Nat
  <2>1. Split /\ param \in Seq(1 .. SentenceSize - 1)
    BY DEF DecodeInv, DecodeTypeOK
  <2> QED
    BY <2>1
<1>2. k + 1 \in 1 .. Len(param)
  BY <1>1 DEF param_count
<1> QED
  BY <1>1, <1>2 DEF Split, Field, Param

(* Six digits are read as three numbers, whatever follows them. *)
LEMMA SixDigitsRead ==
  ASSUME DecodeInv, pc = "decode", NEW k \in Nat, k < param_count, SixDigits(k)
  PROVE  /\ DD(Param(k)) = Two(k, 1)
         /\ DD(Param(k) + 2) = Two(k, 3)
         /\ DD(Param(k) + 4) = Two(k, 5)
<1>1. PICK f : f = Field(k)
  OBVIOUS
<1>2. PICK p \in Nat : p = Param(k)
  BY FieldAt
<1>3. \A j \in 1 .. 6 : sentence[p + j - 1] = f[j] /\ IsDigit(f[j])
  <2>1. f \in Seq(Char \ {Comma, Nul}) /\ Len(f) >= 6
        /\ \A j \in 1 .. 6 : IsDigit(f[j])
    BY <1>1, FieldAt DEF SixDigits
  <2>2. \A j \in 1 .. Len(f) : sentence[p + j - 1] = f[j]
    BY <1>1, <1>2, FieldAt
  <2>3. 1 .. 6 \subseteq 1 .. Len(f)
    BY <2>1
  <2> QED
    BY <2>1, <2>2, <2>3
<1>4. ASSUME NEW j \in {1, 3, 5}
      PROVE  DD(p + (j - 1)) = 10 * f[j] + f[j + 1]
  <2>1. j \in 1 .. 6 /\ j + 1 \in 1 .. 6
    OBVIOUS
  <2>2. p + j - 1 = p + (j - 1) /\ p + (j + 1) - 1 = p + (j - 1) + 1
    OBVIOUS
  <2>3. sentence[p + (j - 1)] = f[j] /\ sentence[p + (j - 1) + 1] = f[j + 1]
    <3>1. PICK i : i = j + 1
      OBVIOUS
    <3>2. sentence[p + j - 1] = f[j] /\ sentence[p + i - 1] = f[i]
      BY <1>3, <2>1, <3>1, Zenon
    <3> QED
      BY <2>2, <3>1, <3>2, Zenon
  <2> QED
    BY <1>3, <2>1, <2>3 DEF DD
<1>5. p + (1 - 1) = p /\ p + (3 - 1) = p + 2 /\ p + (5 - 1) = p + 4
  OBVIOUS
<1>6. DD(p) = 10 * f[1] + f[1 + 1] /\ DD(p + 2) = 10 * f[3] + f[3 + 1]
      /\ DD(p + 4) = 10 * f[5] + f[5 + 1]
  BY <1>4, <1>5
<1> QED
  BY <1>1, <1>2, <1>6 DEF Two

(* The point of a decimal is found, and the digits before it are what strtoul *)
(* takes.                                                                  *)
LEMMA DecimalRead ==
  ASSUME DecodeInv, pc = "decode", NEW k \in Nat, k < param_count,
         Decimal(Field(k)), Whole(Field(k)) <= 18000
  PROVE  Coordinate(Param(k)) /\ Strtoul(Param(k)) = Whole(Field(k))
<1>1. PICK f : f = Field(k)
  OBVIOUS
<1>2. PICK p \in Nat : p = Param(k)
  BY FieldAt
<1>3. /\ f \in Seq(Char \ {Comma, Nul})
      /\ p \in 1 .. StrEnd /\ p + Len(f) <= StrEnd
      /\ \A j \in 1 .. Len(f) : sentence[p + j - 1] = f[j]
  BY <1>1, <1>2, FieldAt
<1>4. PICK i \in 2 .. Len(f) - 1 : DotsIn(f) = {i}
  BY <1>1 DEF Decimal
<1>5. PICK len \in Nat : len = Len(f)
  BY <1>3
<1>6. i \in 2 .. len - 1 /\ StrEnd \in Nat /\ DecodeTypeOK /\ Received
  BY <1>4, <1>5, EndOfSentence DEF DecodeInv
<1>7. DOMAIN f = 1 .. len
  BY <1>3, <1>5
<1>8. f[i] = Dot /\ \A j \in 1 .. len : j # i => IsDigit(f[j])
  BY <1>1, <1>4, <1>7 DEF Decimal, DotsIn
<1>9. Coordinate(p)
  <2>1. PICK q : q = p + i - 1
    OBVIOUS
  <2>2. q \in p .. StrEnd - 1 /\ sentence[q] = Dot
    BY <1>3, <1>5, <1>6, <1>8, <2>1
  <2>3. sentence[p + 1] # Comma
    <3>1. 2 \in 1 .. len /\ p + 2 - 1 = p + 1
      BY <1>6
    <3>2. sentence[p + 1] = f[2] /\ f[2] \in Char \ {Comma, Nul}
      BY <1>3, <1>5, <3>1
    <3> QED
      BY <3>2
  <2> QED
    BY <2>2, <2>3 DEF Coordinate, HasChr
<1>10. PICK ds \in Seq(0 .. 9) : ds = Digits(p)
  BY <1>3, <1>6, DigitsFacts
<1>11. PICK d \in Nat : d = Len(ds)
  OBVIOUS
<1>12. /\ ~IsDigit(sentence[p + d])
       /\ \A j \in 1 .. d : ds[j] = sentence[p + j - 1]
  <2>1. p \in 0 .. StrEnd
    BY <1>3, <1>6
  <2>2. /\ ~IsDigit(sentence[p + Len(Digits(p))])
        /\ \A j \in 1 .. Len(Digits(p)) : Digits(p)[j] = sentence[p + j - 1]
    BY <1>6, <2>1, DigitsFacts
  <2> QED
    BY <1>10, <1>11, <2>2
<1>13. ~(d < i - 1)
  <2> SUFFICES ASSUME d < i - 1 PROVE FALSE
    OBVIOUS
  <2>1. d + 1 \in 1 .. len /\ d + 1 # i /\ p + (d + 1) - 1 = p + d
    BY <1>6
  <2>2. sentence[p + d] = f[d + 1]
    BY <1>3, <1>5, <2>1
  <2> QED
    BY <1>8, <1>12, <2>1, <2>2
<1>14. ~(i - 1 < d)
  <2> SUFFICES ASSUME i - 1 < d PROVE FALSE
    OBVIOUS
  <2>1. i \in 1 .. d /\ i \in 1 .. len
    BY <1>6
  <2>2. ds[i] = Dot /\ ds[i] \in 0 .. 9
    BY <1>3, <1>5, <1>8, <1>11, <1>12, <2>1
  <2> QED
    BY <2>2 DEF Dot
<1>15. d = i - 1
  BY <1>6, <1>13, <1>14
<1>16. ds = SubSeq(f, 1, i - 1)
  <2>1. PICK m \in Nat : m = i - 1 /\ m <= len
    BY <1>6
  <2>2. /\ SubSeq(f, 1, m) \in Seq(Char \ {Comma, Nul})
        /\ Len(SubSeq(f, 1, m)) = m
        /\ \A j \in 1 .. m : SubSeq(f, 1, m)[j] = f[j]
    <3>1. 1 .. m \subseteq 1 .. Len(f)
      BY <1>5, <2>1
    <3> QED
      BY <1>3, <3>1, <1>5, <2>1
  <2>3. \A j \in 1 .. m : ds[j] = f[j]
    BY <1>3, <1>5, <1>12, <1>15, <2>1
  <2>4. Len(ds) = m
    BY <1>11, <1>15, <2>1
  <2> QED
    BY <2>1, <2>2, <2>3, <2>4
<1>17. Whole(f) = Value(ds)
  <2>1. Min(DotsIn(f)) = i
    <3>1. DotsIn(f) \in SUBSET Nat /\ DotsIn(f) # {}
      BY <1>4, <1>6
    <3>2. Min(DotsIn(f)) \in DotsIn(f)
      BY <3>1, MinIsLeast
    <3> QED
      BY <1>4, <3>2
  <2> QED
    BY <1>16, <2>1 DEF Whole
<1>18. Value(ds) \in Nat /\ Value(ds) <= 18000
  BY <1>1, <1>17, ValueType
<1>19. Strtoul(p) = Value(ds)
  <2>1. p \in 0 .. StrEnd /\ Value(ds) < 32768
    BY <1>3, <1>6, <1>18
  <2> QED
    BY <1>6, <1>10, <2>1, StrtoulFacts
<1> QED
  BY <1>1, <1>2, <1>9, <1>17, <1>19

-----------------------------------------------------------------------------
(* Decoding *)

(* Date and time are decimals, whatever the sentence has for them. *)
LEMMA DateTimeType ==
  ASSUME DecodeInv
  PROVE  DateTimeDecoded \in Record
<1>1. rec \in Record
  BY DEF DecodeInv, DecodeTypeOK
<1>2. \A n \in 0 .. 99 : n \in Decimals
  BY DEF Decimals, Unset
<1>3. /\ DD(Param(0)) \in Decimals /\ DD(Param(0) + 2) \in Decimals
      /\ DD(Param(0) + 4) \in Decimals /\ DD(Param(8)) \in Decimals
      /\ DD(Param(8) + 2) \in Decimals /\ DD(Param(8) + 4) \in Decimals
  BY <1>2, DDType
<1> QED
  BY <1>1, <1>3 DEF DateTimeDecoded, Record

(* So is the record with the location. *)
LEMMA LocationType ==
  ASSUME DecodeInv, pc = "decode", RMC,
         Coordinate(Param(2)), Coordinate(Param(4))
  PROVE  LocationDecoded \in Record
<1>1. DecodeTypeOK /\ Received
  BY DEF DecodeInv
<1>3. Param(2) \in 1 .. StrEnd /\ Param(4) \in 1 .. StrEnd
  <2>1. param_count \in Nat /\ 2 < param_count /\ 4 < param_count
    <3>1. param \in Seq(1 .. SentenceSize - 1)
      BY <1>1 DEF DecodeTypeOK
    <3> QED
      BY <3>1 DEF RMC, param_count
  <2> QED
    BY <2>1, FieldAt
<1>4. Param(2) \in 0 .. StrEnd /\ Param(4) \in 0 .. StrEnd
  BY <1>3
<1>5. StrChr(Param(2), Dot) \in 0 .. StrEnd /\ StrChr(Param(4), Dot) \in 0 .. StrEnd
  BY <1>1, <1>4, StrChrFacts DEF Coordinate
<1>6. /\ Strtoul(Param(2)) \in Int16 /\ Strtoul(StrChr(Param(2), Dot)) \in Int16
      /\ Strtoul(Param(4)) \in Int16 /\ Strtoul(StrChr(Param(4), Dot)) \in Int16
  BY <1>1, <1>4, <1>5, StrtoulFacts
<1> QED
  BY <1>6, DateTimeType DEF LocationDecoded, Record

(* What the fields of the records are. *)
LEMMA DecodedFields ==
  ASSUME DecodeInv
  PROVE  /\ \A r \in {DateTimeDecoded, LocationDecoded} :
              /\ r.hr = DD(Param(0)) /\ r.min = DD(Param(0) + 2)
              /\ r.sec = DD(Param(0) + 4) /\ r.d = DD(Param(8))
              /\ r.m = DD(Param(8) + 2) /\ r.y = DD(Param(8) + 4)
         /\ LocationDecoded.lat_left = Strtoul(Param(2))
         /\ LocationDecoded.lon_left = Strtoul(Param(4))
         /\ DateTimeDecoded.lat_left = rec.lat_left
         /\ DateTimeDecoded.lon_left = rec.lon_left
<1>1. rec \in Record
  BY DEF DecodeInv, DecodeTypeOK
<1>2. /\ DateTimeDecoded.hr = DD(Param(0)) /\ DateTimeDecoded.min = DD(Param(0) + 2)
      /\ DateTimeDecoded.sec = DD(Param(0) + 4) /\ DateTimeDecoded.d = DD(Param(8))
      /\ DateTimeDecoded.m = DD(Param(8) + 2) /\ DateTimeDecoded.y = DD(Param(8) + 4)
      /\ DateTimeDecoded.lat_left = rec.lat_left
      /\ DateTimeDecoded.lon_left = rec.lon_left
  BY <1>1 DEF DateTimeDecoded, Record
<1>3. DateTimeDecoded \in Record
  BY DateTimeType
<1>4. /\ LocationDecoded.hr = DateTimeDecoded.hr
      /\ LocationDecoded.min = DateTimeDecoded.min
      /\ LocationDecoded.sec = DateTimeDecoded.sec
      /\ LocationDecoded.d = DateTimeDecoded.d
      /\ LocationDecoded.m = DateTimeDecoded.m
      /\ LocationDecoded.y = DateTimeDecoded.y
      /\ LocationDecoded.lat_left = Strtoul(Param(2))
      /\ LocationDecoded.lon_left = Strtoul(Param(4))
  BY <1>3 DEF LocationDecoded, Record
<1> QED
  BY <1>2, <1>4

(* What the code reads of a complete line. *)
LEMMA CompleteRead ==
  ASSUME DecodeInv, pc = "decode", Complete
  PROVE  /\ RMC
         /\ Locked <=> Field(1) = <<A>>
         /\ Coordinate(Param(2)) /\ Coordinate(Param(4))
         /\ Strtoul(Param(2)) = Whole(Field(2)) /\ Strtoul(Param(4)) = Whole(Field(4))
         /\ DD(Param(0)) = Two(0, 1) /\ DD(Param(0) + 2) = Two(0, 3)
         /\ DD(Param(0) + 4) = Two(0, 5) /\ DD(Param(8)) = Two(8, 1)
         /\ DD(Param(8) + 2) = Two(8, 3) /\ DD(Param(8) + 4) = Two(8, 5)
<1>1. param_count \in Nat /\ param_count >= 11 /\ kind = "RMC"
  <2>1. param \in Seq(1 .. SentenceSize - 1) /\ kind = line.kind
    BY DEF DecodeInv, DecodeTypeOK
  <2>2. Len(param) = Len(line.fields)
    BY DEF DecodeInv, Split
  <2> QED
    BY <2>1, <2>2 DEF Complete, param_count
<1>2. Locked <=> Field(1) = <<A>>
  <2>1. PICK f \in Seq(Char \ {Comma, Nul}) : f = Field(1)
    BY <1>1, FieldAt
  <2>2. PICK p \in Nat : p = Param(1)
    BY <1>1, FieldAt
  <2>3. Len(f) = 1 /\ 1 \in 1 .. Len(f) /\ p + 1 - 1 = p
    <3>1. Len(f) = 1
      BY <2>1 DEF Complete
    <3> QED
      BY <2>2, <3>1
  <2>4. sentence[p + 1 - 1] = f[1]
    BY <1>1, <2>1, <2>2, <2>3, FieldAt
  <2>5. sentence[p] = f[1]
    BY <2>3, <2>4
  <2>6. f = <<A>> <=> f[1] = A
    BY <2>1, <2>3
  <2> QED
    BY <2>1, <2>2, <2>5, <2>6 DEF Locked
<1>3. /\ Coordinate(Param(2)) /\ Coordinate(Param(4))
      /\ Strtoul(Param(2)) = Whole(Field(2)) /\ Strtoul(Param(4)) = Whole(Field(4))
  BY <1>1, DecimalRead DEF Complete
<1>4. SixDigits(0) /\ SixDigits(8)
  BY DEF Complete
<1> QED
  BY <1>1, <1>2, <1>3, <1>4, SixDigitsRead DEF RMC

(* A round of the loop that ends leaves what it decoded from. *)
LEMMA DoneInv ==
  ASSUME DecodeInv, NEW o \in {"unused", "speed", "bad date/time", "no lock",
                         "bad lat/lon", "fix"},
         Done(o), rec' \in Record, CompleteLineDecoded'
  PROVE  DecodeInv'
<1>1. DecodeTypeOK'
  BY DEF DecodeInv, DecodeTypeOK, Done
<1> QED
  BY <1>1 DEF DecodeInv, Done

(* A complete line is not decoded if its date, time or status forbid it. *)
LEMMA NotAFix ==
  ASSUME DecodeInv, NEW o, o # "fix", Done(o),
         Complete => ~InRange(DateTimeDecoded) \/ ~Locked
  PROVE  CompleteLineDecoded'
<1> SUFFICES ASSUME Complete' PROVE CompleteLineDecoded'
  BY DEF CompleteLineDecoded
<1>1. line' = line /\ outcome' = o /\ pc = "decode"
  BY DEF Done
<1>2. Complete
  BY <1>1, CompleteFrame
<1> DEFINE possible == /\ Two(8, 1) <= 31 /\ Two(8, 3) <= 12 /\ Two(8, 5) \in 14 .. 79
                       /\ Two(0, 1) <= 23 /\ Two(0, 3) <= 59 /\ Two(0, 5) <= 59
<1>3. possible <=> InRange(DateTimeDecoded)
  BY <1>1, <1>2, CompleteRead, DecodedFields DEF InRange
<1>4. ~(possible /\ Field(1) = <<A>>)
  BY <1>1, <1>2, <1>3, CompleteRead
<1>5. ~(possible /\ Field(1) = <<A>>)'
  BY <1>1, <1>4 DEF Field, Two
<1> QED
  BY <1>1, <1>5 DEF CompleteLineDecoded

(* Sentences that are not used, and speeds: none of them is complete. *)
LEMMA UnusedInv == DecodeInv /\ (Unused \/ VTG) => DecodeInv'
<1> SUFFICES ASSUME DecodeInv, Unused \/ VTG PROVE DecodeInv'
  OBVIOUS
<1>1. pc = "decode" /\ rec \in Record
  BY DEF Unused, VTG, Done, DecodeInv, DecodeTypeOK
<1>2. ~RMC
  <2>1. param \in Seq(1 .. SentenceSize - 1)
    BY DEF DecodeInv, DecodeTypeOK
  <2>2. param_count \in Nat
    BY <2>1 DEF param_count
  <2> QED
    BY <2>2 DEF Unused, VTG, RMC
<1>3. ~Complete
  BY <1>1, <1>2, CompleteRead
<1>4. CASE Unused
  <2>1. Done("unused") /\ rec' = rec
    BY <1>4 DEF Unused
  <2>2. CompleteLineDecoded'
    BY <1>3, <2>1, NotAFix
  <2> QED
    BY <1>1, <2>1, <2>2, DoneInv
<1>5. CASE VTG
  <2>1. Done("speed") /\ rec' = [rec EXCEPT !.kph = Strtod(Param(6))]
    BY <1>5 DEF VTG
  <2>2. CompleteLineDecoded'
    BY <1>3, <2>1, NotAFix
  <2>3. Strtod(Param(6)) \in Seq(Char)
    <3>1. DecodeTypeOK /\ Received
      BY <1>1 DEF DecodeInv
    <3>2. param_count \in Nat /\ 6 < param_count
      <4>1. param \in Seq(1 .. SentenceSize - 1)
        BY <3>1 DEF DecodeTypeOK
      <4> QED
        BY <1>5, <4>1 DEF VTG, param_count
    <3>3. Param(6) \in 1 .. StrEnd /\ StrEnd \in Nat
      BY <1>1, <3>1, <3>2, FieldAt, EndOfSentence
    <3>4. Param(6) \in 0 .. StrEnd
      BY <3>3
    <3> QED
      BY <3>1, <3>4, StrtodType
  <2>4. rec' \in Record
    BY <1>1, <2>1, <2>3 DEF Record
  <2> QED
    BY <2>1, <2>2, <2>4, DoneInv
<1> QED
  BY <1>4, <1>5

(* RMC sentences that are rejected. *)
LEMMA RejectedInv == DecodeInv /\ (BadDateTime \/ NoLock \/ BadLocation) => DecodeInv'
<1> SUFFICES ASSUME DecodeInv, BadDateTime \/ NoLock \/ BadLocation PROVE DecodeInv'
  OBVIOUS
<1>1. PICK o \in {"bad date/time", "no lock", "bad lat/lon"} : Done(o)
  BY DEF BadDateTime, NoLock, BadLocation
<1>2. rec' = DateTimeDecoded /\ pc = "decode"
  BY DEF BadDateTime, NoLock, BadLocation
<1>3. Complete => ~InRange(DateTimeDecoded) \/ ~Locked
  BY <1>2, CompleteRead DEF BadDateTime, NoLock, BadLocation
<1>4. CompleteLineDecoded'
  BY <1>1, <1>3, NotAFix
<1> QED
  BY <1>1, <1>2, <1>4, DateTimeType, DoneInv

(* A fix. *)
LEMMA LocationInv == DecodeInv /\ Location => DecodeInv'
<1> SUFFICES ASSUME DecodeInv, Location PROVE DecodeInv'
  OBVIOUS
<1>1. /\ pc = "decode" /\ RMC /\ InRange(DateTimeDecoded) /\ Locked
      /\ Coordinate(Param(2)) /\ Coordinate(Param(4))
      /\ rec' = LocationDecoded /\ Done("fix")
  BY DEF Location
<1>2. rec' \in Record
  BY <1>1, LocationType
<1>3. CompleteLineDecoded'
  <2> SUFFICES ASSUME Complete' PROVE CompleteLineDecoded'
    BY DEF CompleteLineDecoded
  <2>1. line' = line /\ outcome' = "fix"
    BY <1>1 DEF Done
  <2>2. Complete
    BY <2>1, CompleteFrame
  <2>3. /\ Two(8, 1) <= 31 /\ Two(8, 3) <= 12 /\ Two(8, 5) \in 14 .. 79
        /\ Two(0, 1) <= 23 /\ Two(0, 3) <= 59 /\ Two(0, 5) <= 59
        /\ Field(1) = <<A>>
    BY <1>1, <2>2, CompleteRead, DecodedFields DEF InRange
  <2>4. /\ rec'.hr = Two(0, 1) /\ rec'.min = Two(0, 3) /\ rec'.sec = Two(0, 5)
        /\ rec'.d = Two(8, 1) /\ rec'.m = Two(8, 3) /\ rec'.y = Two(8, 5)
        /\ rec'.lat_left = Whole(Field(2)) /\ rec'.lon_left = Whole(Field(4))
    BY <1>1, <2>2, CompleteRead, DecodedFields
  <2>5. /\ \A k, i : Two(k, i)' = Two(k, i)
        /\ \A k : Field(k)' = Field(k) /\ Whole(Field(k))' = Whole(Field(k))
    BY <2>1 DEF Two, Field, Whole
  <2> QED
    BY <2>1, <2>3, <2>4, <2>5 DEF CompleteLineDecoded
<1> QED
  BY <1>1, <1>2, <1>3, DoneInv

LEMMA NextDecode == DecodeInv /\ [DecodeNext]_decodeVars => DecodeInv'
<1> SUFFICES ASSUME DecodeInv, [DecodeNext]_decodeVars PROVE DecodeInv'
  OBVIOUS
<1>1. CASE UNCHANGED decodeVars
  <2>1. DecodeTypeOK' /\ Received' = Received /\ Split' = Split
    BY <1>1 DEF decodeVars, DecodeInv, DecodeTypeOK, Received, Text, Split, StrEnd
  <2>2. CompleteLineDecoded'
    BY <1>1, CompleteFrame
       DEF decodeVars, DecodeInv, CompleteLineDecoded, Two, Field, Whole
  <2> QED
    BY <1>1, <2>1, <2>2 DEF decodeVars, DecodeInv
<1> QED
  BY <1>1, GetSentenceInv, IgnoreInv, DecodeParametersInv, OverrunParamsInv,
     UnusedInv, RejectedInv, LocationInv
     DEF DecodeNext

LEMMA AlwaysDecode == DecodeSpec => []DecodeInv
  BY InitDecode, NextDecode, PTL DEF DecodeSpec

(* For every set of lines, size of the array and content of what lies behind *)
(* it, gps_decode_parameters and the decoding keep to their types.          *)
THEOREM DecodeTypes == DecodeSpec => []DecodeTypeOK
<1>1. DecodeInv => DecodeTypeOK
  BY DEF DecodeInv
<1> QED
  BY <1>1, AlwaysDecode, PTL

(* Whatever was received before, a complete RMC line is decoded to what it    *)
(* says: a fix exactly if its date and time are possible and the receiver was *)
(* locked.                                                                 *)
THEOREM CompleteLines == DecodeSpec => []CompleteLineDecoded
<1>1. DecodeInv => CompleteLineDecoded
  BY DEF DecodeInv
<1> QED
  BY <1>1, AlwaysDecode, PTL

(* The time is read where the line has it, in the first field. *)
LEMMA TimeRead ==
  ASSUME DecodeInv, pc = "decode", RMC
  PROVE  /\ DD(Param(0))     = DigitsOfLine(2)
         /\ DD(Param(0) + 2) = DigitsOfLine(4)
         /\ DD(Param(0) + 4) = DigitsOfLine(6)
<1>1. Split /\ Received /\ DecodeTypeOK
  BY DEF DecodeInv
<1>2. param \in Seq(1 .. SentenceSize - 1) /\ Len(param) >= 11
  BY <1>1 DEF DecodeTypeOK, RMC, param_count
<1>3. param[1] = 1 /\ param[1] = Param(0)
  <2>1. param # <<>>
    BY <1>2
  <2> QED
    BY <1>1, <2>1 DEF Split, Param
<1>4. StrEnd = Len(Text(line)) /\ StrEnd \in Nat
  BY <1>1, EndOfSentence
<1>5. ASSUME NEW k \in 1 .. 10
      PROVE  /\ param[k] \in Nat /\ param[k + 1] \in Nat
             /\ param[k + 1] > param[k] /\ param[k + 1] <= StrEnd
  <2>1. k \in 1 .. Len(param) /\ k + 1 \in 1 .. Len(param) /\ k < Len(param)
    BY <1>2
  <2>2. Len(line.fields[k]) \in Nat
    BY <1>1, <2>1 DEF Split
  <2>3. param[k] \in 1 .. StrEnd /\ param[k + 1] \in 1 .. StrEnd
    BY <1>1, <2>1 DEF Split
  <2>4. param[k + 1] = param[k] + Len(line.fields[k]) + 1
    BY <1>1, <2>1 DEF Split
  <2> QED
    BY <1>4, <2>2, <2>3, <2>4
<1>6. StrEnd >= 7
  <2>1. /\ param[1] \in Nat /\ param[2] \in Nat /\ param[3] \in Nat
        /\ param[4] \in Nat /\ param[5] \in Nat /\ param[6] \in Nat /\ param[7] \in Nat
        /\ param[2] > param[1] /\ param[3] > param[2] /\ param[4] > param[3]
        /\ param[5] > param[4] /\ param[6] > param[5] /\ param[7] > param[6]
        /\ param[7] <= StrEnd
    BY <1>5
  <2> QED
    BY <1>3, <1>4, <2>1
<1>7. \A i \in 1 .. Len(Text(line)) : sentence[i - 1] = Text(line)[i]
  BY <1>1 DEF Received
<1>8. /\ sentence[1] = Text(line)[2] /\ sentence[2] = Text(line)[3]
      /\ sentence[3] = Text(line)[4] /\ sentence[4] = Text(line)[5]
      /\ sentence[5] = Text(line)[6] /\ sentence[6] = Text(line)[7]
  <2>1. 1 .. 7 \subseteq 1 .. Len(Text(line))
    BY <1>4, <1>6
  <2>2. \A i \in 1 .. 7 : sentence[i - 1] = Text(line)[i]
    BY <1>7, <2>1
  <2> HIDE <1>7
  <2> QED
    BY <2>2
<1>9. /\ DD(1) = DigitsOfLine(2) /\ DD(3) = DigitsOfLine(4) /\ DD(5) = DigitsOfLine(6)
  BY <1>8 DEF DD, DigitsOfLine
<1> QED
  BY <1>3, <1>9

(* A new location comes with the time and date of the sentence it is from. *)
LEMMA StepLocation ==
  ASSUME DecodeInv, [DecodeNext]_decodeVars,
         <<rec.lat_left, rec.lon_left>>' # <<rec.lat_left, rec.lon_left>>
  PROVE  /\ Field(1) # <<>> /\ Head(Field(1)) = A
         /\ InRange(rec')
         /\ rec'.hr  = DigitsOfLine(2)
         /\ rec'.min = DigitsOfLine(4)
         /\ rec'.sec = DigitsOfLine(6)
         /\ SixDigits(8) => /\ rec'.d = Two(8, 1) /\ rec'.m = Two(8, 3)
                            /\ rec'.y = Two(8, 5)
         /\ Decimal(Field(2)) /\ Whole(Field(2)) <= 18000 =>
              rec'.lat_left = Whole(Field(2))
         /\ Decimal(Field(4)) /\ Whole(Field(4)) <= 18000 =>
              rec'.lon_left = Whole(Field(4))
<1>1. rec \in Record
  BY DEF DecodeInv, DecodeTypeOK
<1>2. CASE Location
  <2>1. /\ pc = "decode" /\ RMC /\ InRange(DateTimeDecoded) /\ Locked
        /\ rec' = LocationDecoded
    BY <1>2 DEF Location
  <2>2. /\ param_count \in Nat /\ 1 < param_count /\ 8 < param_count
        /\ 2 < param_count /\ 4 < param_count
    <3>1. param \in Seq(1 .. SentenceSize - 1)
      BY DEF DecodeInv, DecodeTypeOK
    <3> QED
      BY <2>1, <3>1 DEF RMC, param_count
  <2>3. PICK f \in Seq(Char \ {Comma, Nul}) : f = Field(1)
    BY <2>1, <2>2, FieldAt
  <2>4. PICK p \in Nat : p = Param(1)
    BY <2>1, <2>2, FieldAt
  <2>5. /\ \A j \in 1 .. Len(f) : sentence[p + j - 1] = f[j]
        /\ sentence[p + Len(f)] \in {Comma, Nul}
    BY <2>1, <2>2, <2>3, <2>4, FieldAt
  <2>6. sentence[p] = A
    BY <2>1, <2>4 DEF Locked
  <2>7. f # <<>>
    <3> SUFFICES ASSUME f = <<>> PROVE FALSE
      OBVIOUS
    <3>1. p + Len(f) = p
      OBVIOUS
    <3> QED
      BY <2>5, <2>6, <3>1 DEF A, Comma, Nul
  <2>8. f[1] = A
    <3>1. 1 \in 1 .. Len(f) /\ p + 1 - 1 = p
      BY <2>7
    <3> QED
      BY <2>5, <2>6, <3>1
  <2>9. /\ rec'.hr = DD(Param(0)) /\ rec'.min = DD(Param(0) + 2)
        /\ rec'.sec = DD(Param(0) + 4) /\ rec'.d = DD(Param(8))
        /\ rec'.m = DD(Param(8) + 2) /\ rec'.y = DD(Param(8) + 4)
        /\ rec'.lat_left = Strtoul(Param(2)) /\ rec'.lon_left = Strtoul(Param(4))
    BY <2>1, DecodedFields
  <2>10. InRange(rec')
    <3>1. /\ DateTimeDecoded.hr = DD(Param(0)) /\ DateTimeDecoded.min = DD(Param(0) + 2)
          /\ DateTimeDecoded.sec = DD(Param(0) + 4) /\ DateTimeDecoded.d = DD(Param(8))
          /\ DateTimeDecoded.m = DD(Param(8) + 2) /\ DateTimeDecoded.y = DD(Param(8) + 4)
      BY DecodedFields
    <3> QED
      BY <2>1, <2>9, <3>1 DEF InRange
  <2>11. SixDigits(8) => /\ rec'.d = Two(8, 1) /\ rec'.m = Two(8, 3)
                         /\ rec'.y = Two(8, 5)
    BY <2>1, <2>2, <2>9, SixDigitsRead
  <2>12. /\ rec'.hr = DigitsOfLine(2) /\ rec'.min = DigitsOfLine(4)
         /\ rec'.sec = DigitsOfLine(6)
    BY <2>1, <2>9, TimeRead
  <2>13. /\ Decimal(Field(2)) /\ Whole(Field(2)) <= 18000 =>
              rec'.lat_left = Whole(Field(2))
         /\ Decimal(Field(4)) /\ Whole(Field(4)) <= 18000 =>
              rec'.lon_left = Whole(Field(4))
    BY <2>1, <2>2, <2>9, DecimalRead
  <2> QED
    BY <2>3, <2>7, <2>8, <2>10, <2>11, <2>12, <2>13
<1>3. CASE BadDateTime \/ NoLock \/ BadLocation
  <2>1. rec' = DateTimeDecoded
    BY <1>3 DEF BadDateTime, NoLock, BadLocation
  <2> QED
    BY <2>1, DecodedFields
<1>4. CASE VTG
  <2>1. rec' = [rec EXCEPT !.kph = Strtod(Param(6))]
    BY <1>4 DEF VTG
  <2>2. rec'.lat_left = rec.lat_left /\ rec'.lon_left = rec.lon_left
    BY <1>1, <2>1 DEF Record
  <2> QED
    BY <2>2
<1>5. CASE \/ GetSentence \/ Ignore \/ DecodeParameters \/ OverrunParams \/ Unused
           \/ UNCHANGED decodeVars
  BY <1>5 DEF GetSentence, Ignore, DecodeParameters, OverrunParams, Unused, decodeVars
<1> QED
  BY <1>2, <1>3, <1>4, <1>5 DEF DecodeNext

(* Whatever the sentences are, a location never comes without a lock, nor     *)
(* with the time of another sentence, nor, if its date has its six digits,    *)
(* with the date of another.                                               *)
THEOREM LocationsHaveTime == DecodeSpec => LocationHasTime
<1> DEFINE
      New  == <<rec.lat_left, rec.lon_left>>' # <<rec.lat_left, rec.lon_left>>
      Says == /\ Field(1) # <<>> /\ Head(Field(1)) = A
              /\ InRange(rec')
              /\ rec'.hr  = DigitsOfLine(2)
              /\ rec'.min = DigitsOfLine(4)
              /\ rec'.sec = DigitsOfLine(6)
              /\ SixDigits(8) => /\ rec'.d = Two(8, 1) /\ rec'.m = Two(8, 3)
                                 /\ rec'.y = Two(8, 5)
              /\ Decimal(Field(2)) /\ Whole(Field(2)) <= 18000 =>
                   rec'.lat_left = Whole(Field(2))
              /\ Decimal(Field(4)) /\ Whole(Field(4)) <= 18000 =>
                   rec'.lon_left = Whole(Field(4))
<1>1. DecodeInv /\ [DecodeNext]_decodeVars => [New => Says]_decodeVars
  BY StepLocation
<1>2. DecodeSpec => [][New => Says]_decodeVars
  BY <1>1, AlwaysDecode, PTL DEF DecodeSpec
<1> QED
  BY <1>2 DEF LocationHasTime

===============================================================================
