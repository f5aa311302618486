---------------------------- MODULE DataflashProofs ----------------------------
(***************************************************************************)
(* Proofs about Dataflash, for every number and size of pages, every set of *)
(* bytes, any calls of the driver and any number of resets.                 *)
(***************************************************************************)
EXTENDS Dataflash, TLAPS

-----------------------------------------------------------------------------
(* Addresses *)

(* A byte of a page has an address in the memory. *)
LEMMA AddressInMemory ==
  ASSUME NEW p \in Pages, NEW o \in Offsets
  PROVE  p * PageSize + o \in 0 .. NumPages * PageSize - 1
<1>1. p \in Nat /\ o \in Nat /\ o < PageSize /\ p + 1 <= NumPages
      /\ PageSize \in Nat \ {0} /\ NumPages \in Nat \ {0}
  BY FlashAssumption DEF Pages, Offsets
<1>2. (p + 1) * PageSize <= NumPages * PageSize
  BY <1>1
<1>3. (p + 1) * PageSize = p * PageSize + PageSize
  BY <1>1
<1>4. p * PageSize \in Nat /\ NumPages * PageSize \in Nat
  BY <1>1
<1> QED
  BY <1>1, <1>2, <1>3, <1>4

(* An address in the memory belongs to a byte of a page. *)
LEMMA MemoryAtAddress ==
  ASSUME NEW a \in 0 .. NumPages * PageSize - 1
  PROVE  a \div PageSize \in Pages /\ a % PageSize \in Offsets
<1> DEFINE q == a \div PageSize
           r == a % PageSize
<1>1. PageSize \in Nat \ {0} /\ NumPages \in Nat \ {0} /\ a \in Nat
      /\ NumPages * PageSize \in Nat
  BY FlashAssumption
<1>2. q \in Nat /\ r \in Nat /\ r < PageSize /\ a = PageSize * q + r
  BY <1>1
<1>3. q < NumPages
  <2> HIDE DEF q, r
  <2>1. SUFFICES ASSUME NumPages <= q PROVE FALSE
    BY <1>1, <1>2
  <2>2. PageSize * NumPages <= PageSize * q
    BY <1>1, <1>2, <2>1
  <2>3. PageSize * NumPages = NumPages * PageSize
    BY <1>1
  <2> QED
    BY <1>1, <1>2, <2>2, <2>3
<1> QED
  BY <1>1, <1>2, <1>3 DEF Pages, Offsets

(* A remainder is below the divisor. *)
LEMMA CounterInRange ==
  ASSUME NEW n \in Nat \ {0}, NEW a \in Nat
  PROVE  a % n \in 0 .. n - 1
  BY SMT

(* The remainder is the one number below the divisor. *)
LEMMA RemainderUnique ==
  ASSUME NEW n \in Nat \ {0}, NEW q \in Nat, NEW r \in 0 .. n - 1
  PROVE  (n * q + r) % n = r
<1> DEFINE a == n * q + r
           d == a \div n
           m == a % n
<1>1. a \in Nat /\ n * q \in Nat
  BY SMT
<1>2. d \in Nat /\ m \in 0 .. n - 1 /\ a = n * d + m
  BY <1>1, SMT
<1>3. n * (q - d) = m - r
  BY <1>1, <1>2, SMT
<1>4. d = q
  <2> HIDE DEF a, d, m
  <2>1. CASE q > d
    <3>1. n * (q - d) >= n
      BY <1>2, <2>1, SMT
    <3> QED
      BY <1>2, <1>3, <3>1, SMT
  <2>2. CASE q < d
    <3>1. n * (d - q) >= n
      BY <1>2, <2>2, SMT
    <3>2. n * (q - d) = 0 - n * (d - q)
      BY <1>2, SMT
    <3> QED
      BY <1>2, <1>3, <3>1, <3>2, SMT
  <2> QED
    BY <1>2, <2>1, <2>2, SMT
<1> QED
  BY <1>2, <1>3, <1>4, SMT

(* A number below the divisor is its own remainder. *)
LEMMA RemainderBelow ==
  ASSUME NEW n \in Nat \ {0}, NEW r \in 0 .. n - 1
  PROVE  r % n = r
<1>1. n * 0 + r = r /\ 0 \in Nat
  BY SMT
<1> QED
  BY <1>1, RemainderUnique

(* Running on from an address and wrapping is wrapping once. *)
LEMMA CounterRunsOn ==
  ASSUME NEW n \in Nat \ {0}, NEW a \in Nat
  PROVE  ((a % n) + 1) % n = (a + 1) % n
<1> DEFINE q == a \div n
           r == a % n
<1>1. q \in Nat /\ r \in 0 .. n - 1 /\ a = n * q + r
  BY SMT
<1> HIDE DEF q, r
<1>2. CASE r + 1 < n
  <2>1. r + 1 \in 0 .. n - 1 /\ r + 1 = n * 0 + (r + 1)
    BY <1>1, <1>2, SMT
  <2>2. a + 1 = n * q + (r + 1)
    BY <1>1, SMT
  <2>3. (r + 1) % n = r + 1
    BY <2>1, RemainderUnique
  <2>4. (a + 1) % n = r + 1
    BY <1>1, <2>1, <2>2, RemainderUnique
  <2> QED
    BY <2>3, <2>4 DEF r
<1>3. CASE r + 1 = n
  <2>1. 0 \in 0 .. n - 1 /\ q + 1 \in Nat /\ 1 \in Nat
    BY <1>1, SMT
  <2>2. r + 1 = n * 1 + 0 /\ a + 1 = n * (q + 1) + 0
    BY <1>1, <1>3, SMT
  <2>3. (n * 1 + 0) % n = 0
    BY <2>1, RemainderUnique
  <2>4. (n * (q + 1) + 0) % n = 0
    BY <2>1, RemainderUnique
  <2>5. (r + 1) % n = 0 /\ (a + 1) % n = 0
    BY <2>2, <2>3, <2>4
  <2> QED
    BY <2>5 DEF r
<1> QED
  BY <1>1, <1>2, <1>3, SMT

-----------------------------------------------------------------------------
(* Types *)

(* What the arguments of a call are. *)
LEMMA Arguments ==
  ASSUME NEW f \in Calls \cup {NoCall}
  PROVE  /\ f.page \in Pages
         /\ f.byte \in Offsets
         /\ f.fn \in {"DF_start_buffer_write", "DF_write_buffer",
                      "DF_start_buffer_write_no_busy_check"} => f.buf \in Buffers
<1>1. 0 \in Pages /\ 0 \in Offsets
  BY FlashAssumption DEF Pages, Offsets
<1> QED
  BY <1>1 DEF Calls, Call, NoCall

(* A page that reads as erased is one. *)
LEMMA BlankType == BlankPage \in Contents
  BY DEF BlankPage, Contents, Byte

(* The chip gets an operation on pages, from a buffer or to erase. *)
LEMMA AcceptType ==
  ASSUME TypeOK, NEW P \in SUBSET Pages, NEW b \in Buffers \cup {"none"},
         Accept(Op(P, b))
  PROVE  /\ op' \in [pages : SUBSET Pages, buf : Buffers \cup {"none"},
                     image : Seq(Byte), want : Contents]
         /\ Len(op'.image) <= PageSize
<1>1. (IF b = "none" THEN BlankPage ELSE bufs[b]) \in Contents
  BY BlankType DEF TypeOK
<1>2. <<>> \in Seq(Byte) /\ Len(<<>>) <= PageSize
  BY FlashAssumption
<1>3. CASE op = NoOp
  BY <1>1, <1>2, <1>3 DEF Accept, Op
<1>4. CASE op # NoOp
  BY <1>4 DEF Accept, TypeOK
<1> QED
  BY <1>3, <1>4

(* The types hold in the initial state. *)
LEMMA InitType == Init => TypeOK
<1> SUFFICES ASSUME Init PROVE TypeOK
  OBVIOUS
<1>1. array \in [Pages -> Contents] /\ bufs \in [Buffers -> Contents]
  BY BlankType DEF Init
<1>2. /\ op \in [pages : SUBSET Pages, buf : Buffers \cup {"none"},
                 image : Seq(Byte), want : Contents]
      /\ Len(op.image) <= PageSize
  BY BlankType, FlashAssumption DEF Init, NoOp
<1>3. address \in 0 .. NumPages * PageSize - 1
  <2>1. 0 \in Pages /\ 0 \in Offsets
    BY FlashAssumption DEF Pages, Offsets
  <2>2. 0 * PageSize + 0 = 0
    BY FlashAssumption
  <2> QED
    BY <2>1, <2>2, AddressInMemory DEF Init
<1>4. /\ call \in Calls \cup {NoCall} /\ pc = "idle"
      /\ got \in Seq(Byte) /\ calls \in Nat /\ losses \in Nat
  BY DEF Init
<1> QED
  BY <1>1, <1>2, <1>3, <1>4 DEF TypeOK

(* Offsets are addresses too. *)
LEMMA OffsetInMemory == \A o \in Offsets : o \in 0 .. NumPages * PageSize - 1
<1> TAKE o \in Offsets
<1>1. 0 \in Pages /\ 0 * PageSize + o = o
  BY FlashAssumption DEF Pages, Offsets
<1> QED
  BY <1>1, AddressInMemory

(* The driver's steps preserve the types. *)
LEMMA DriverType == TypeOK /\ Driver => TypeOK'
<1> SUFFICES ASSUME TypeOK, Driver PROVE TypeOK'
  OBVIOUS
<1>1. CASE CallDriver
  BY <1>1 DEF CallDriver, TypeOK, chip
<1>2. CASE WaitForReady
  BY <1>2 DEF WaitForReady, TypeOK, chip
<1>3. CASE StartBufferWrite
  <2>1. call.byte \in Offsets /\ call.buf \in Buffers
    BY <1>3, Arguments DEF StartBufferWrite, TypeOK
  <2> QED
    BY <1>3, <2>1, OffsetInMemory DEF StartBufferWrite, TypeOK, chip
<1>4. CASE SendByte
  <2>1. address \in Offsets /\ call.buf \in Buffers
    BY <1>4 DEF SendByte, TypeOK
  <2>2. (address + 1) % PageSize \in Offsets
    BY <2>1, CounterInRange, FlashAssumption DEF Offsets
  <2>3. bufs' \in [Buffers -> Contents]
    BY <1>4, <2>1 DEF SendByte, TypeOK, Contents, Byte
  <2> QED
    BY <1>4, <2>1, <2>2, <2>3, OffsetInMemory DEF SendByte, TypeOK
<1>5. CASE WriteBuffer
  <2>1. {call.page} \in SUBSET Pages /\ call.buf \in Buffers
    BY <1>5, Arguments DEF WriteBuffer, TypeOK
  <2> QED
    BY <1>5, <2>1, AcceptType DEF WriteBuffer, TypeOK
<1>6. CASE ErasePage
  <2>1. {call.page} \in SUBSET Pages
    BY Arguments DEF TypeOK
  <2> QED
    BY <1>6, <2>1, AcceptType DEF ErasePage, TypeOK
<1>7. CASE EraseEntireMemory
  BY <1>7, AcceptType DEF EraseEntireMemory, TypeOK
<1>8. CASE EndErase
  BY <1>8 DEF EndErase, TypeOK, chip
<1>9. CASE StartArrayRead
  <2>1. call.page * PageSize + call.byte \in 0 .. NumPages * PageSize - 1
    BY Arguments, AddressInMemory DEF TypeOK
  <2> QED
    BY <1>9, <2>1 DEF StartArrayRead, TypeOK, chip
<1>10. CASE ReadByte
  <2>1. ByteAt(address) \in Byte
    BY MemoryAtAddress DEF ByteAt, TypeOK, Contents
  <2>2. NumPages * PageSize \in Nat \ {0} /\ address + 1 \in Nat
    BY FlashAssumption DEF TypeOK
  <2>3. (address + 1) % (NumPages * PageSize) \in 0 .. NumPages * PageSize - 1
    BY <2>2, CounterInRange
  <2> QED
    BY <1>10, <2>1, <2>3 DEF ReadByte, TypeOK, chip
<1>11. CASE EndTransaction
  BY <1>11 DEF EndTransaction, TypeOK, chip
<1> QED
  BY <1>1, <1>2, <1>3, <1>4, <1>5, <1>6, <1>7, <1>8, <1>9, <1>10, <1>11
     DEF Driver

(* So do the chip's own steps and those of the outside world. *)
LEMMA ChipType == TypeOK /\ (CopyByte \/ Complete) => TypeOK'
<1> SUFFICES ASSUME TypeOK, CopyByte \/ Complete PROVE TypeOK'
  OBVIOUS
<1>1. CASE CopyByte
  <2>1. op.buf \in Buffers /\ Len(op.image) \in Offsets
    BY <1>1, FlashAssumption DEF CopyByte, TypeOK, Offsets
  <2>2. bufs[op.buf][Len(op.image)] \in Byte
    BY <2>1 DEF TypeOK, Contents
  <2>3. /\ Append(op.image, bufs[op.buf][Len(op.image)]) \in Seq(Byte)
        /\ Len(Append(op.image, bufs[op.buf][Len(op.image)])) <= PageSize
    BY <1>1, <2>2, FlashAssumption DEF CopyByte, TypeOK
  <2> QED
    BY <1>1, <2>3 DEF CopyByte, TypeOK, driver
<1>2. CASE Complete
  <2>1. op.buf # "none" => [o \in Offsets |-> op.image[o + 1]] \in Contents
    BY <1>2, FlashAssumption DEF Complete, TypeOK, Contents, Offsets
  <2>2. array' \in [Pages -> Contents]
    BY <1>2, <2>1, BlankType DEF Complete, TypeOK
  <2>3. /\ op' \in [pages : SUBSET Pages, buf : Buffers \cup {"none"},
                    image : Seq(Byte), want : Contents]
        /\ Len(op'.image) <= PageSize
    BY <1>2, BlankType, FlashAssumption DEF Complete, NoOp
  <2> QED
    BY <1>2, <2>2, <2>3 DEF Complete, TypeOK, driver
<1> QED
  BY <1>1, <1>2

(* So do resets. *)
LEMMA ResetType == TypeOK /\ (WatchdogReset \/ PowerLoss) => TypeOK'
<1> SUFFICES ASSUME TypeOK, WatchdogReset \/ PowerLoss PROVE TypeOK'
  OBVIOUS
<1>1. 0 \in 0 .. NumPages * PageSize - 1
  <2>1. 0 \in Offsets
    BY FlashAssumption DEF Offsets
  <2> QED
    BY <2>1, OffsetInMemory
<1>2. /\ address' \in 0 .. NumPages * PageSize - 1
      /\ call' \in Calls \cup {NoCall}
      /\ pc' = "idle" /\ got' \in Seq(Byte) /\ calls' \in Nat
  <2>1. Restart
    BY DEF WatchdogReset, PowerLoss
  <2> QED
    BY <1>1, <2>1 DEF Restart, TypeOK
<1>3. CASE WatchdogReset
  BY <1>2, <1>3 DEF WatchdogReset, TypeOK, chip
<1>4. CASE PowerLoss
  <2>1. /\ op' \in [pages : SUBSET Pages, buf : Buffers \cup {"none"},
                    image : Seq(Byte), want : Contents]
        /\ Len(op'.image) <= PageSize
    BY <1>4, BlankType, FlashAssumption DEF PowerLoss, NoOp
  <2>2. array' \in [Pages -> Contents]
    BY <1>4 DEF PowerLoss, TypeOK
  <2>3. bufs' \in [Buffers -> Contents] /\ losses' \in Nat
    BY <1>4, BlankType DEF PowerLoss, TypeOK
  <2> QED
    BY <1>2, <2>1, <2>2, <2>3 DEF TypeOK
<1> QED
  BY <1>3, <1>4

(* All variables keep their types: the counters of the chip never leave its *)
(* buffers and its memory, whatever the driver (dataflash.c:22-230) sends.  *)
THEOREM TypeCorrect == Spec => []TypeOK
<1>1. TypeOK /\ [Next]_vars => TypeOK'
  <2>1. TypeOK /\ UNCHANGED vars => TypeOK'
    BY DEF TypeOK, vars, chip, driver
  <2> QED
    BY <2>1, DriverType, ChipType, ResetType DEF Next
<1> QED
  BY <1>1, InitType, PTL DEF Spec

-----------------------------------------------------------------------------
(* The operation under way *)

(* The buffer it copies is not written to, so it still holds what it held   *)
(* when the command was given.                                             *)
Undisturbed ==
  /\ op # NoOp => op.pages # {}
  /\ op.buf = "none" => op.want = BlankPage
  /\ op.buf # "none" =>
       /\ op.want = bufs[op.buf]
       /\ \A i \in 1 .. Len(op.image) : op.image[i] = op.want[i - 1]

(* A command that waits for the chip finds it ready still, since only this  *)
(* driver commands it; one that does not wait has another buffer.           *)
Excluded ==
  /\ pc = "wait" => Waits(call.fn)
  /\ pc = "command" /\ Waits(call.fn) => op = NoOp
  /\ pc = "reading" => op = NoOp
  /\ \/ pc = "filling"
     \/ pc = "command" /\ call.fn = "DF_start_buffer_write_no_busy_check"
     => call.buf # op.buf

Exclusion == Undisturbed /\ Excluded

(* An operation that the chip accepts starts out undisturbed. *)
LEMMA AcceptUndisturbed ==
  ASSUME TypeOK, Undisturbed, NEW P \in SUBSET Pages, P # {},
         NEW b \in Buffers \cup {"none"}, Accept(Op(P, b)), UNCHANGED bufs
  PROVE  Undisturbed'
<1>1. CASE op = NoOp
  <2>1. op' = Op(P, b)
    BY <1>1 DEF Accept
  <2>2. op'.pages = P /\ op'.buf = b /\ op'.image = <<>>
        /\ op'.want = IF b = "none" THEN BlankPage ELSE bufs[b]
    BY <2>1 DEF Op
  <2> QED
    BY <2>2 DEF Undisturbed
<1>2. CASE op # NoOp
  BY <1>2 DEF Accept, Undisturbed
<1> QED
  BY <1>1, <1>2

(* The driver's steps. *)
LEMMA DriverExclusion == TypeOK /\ Exclusion /\ Driver => Exclusion'
<1> SUFFICES ASSUME TypeOK, Exclusion, Driver PROVE Exclusion'
  OBVIOUS
<1> USE DEF Exclusion
<1>1. CASE CallDriver
  <2>1. UNCHANGED chip
    BY <1>1 DEF CallDriver
  <2>2. PICK f \in Calls :
          /\ f.fn = "DF_start_buffer_write_no_busy_check" => f.buf # op.buf
          /\ call' = f
          /\ pc' = IF Waits(f.fn) THEN "wait" ELSE "command"
    BY <1>1 DEF CallDriver
  <2> QED
    BY <2>1, <2>2 DEF Undisturbed, Excluded, chip
<1>2. CASE WaitForReady
  BY <1>2 DEF WaitForReady, Ready, NoOp, Undisturbed, Excluded, chip, Waits
<1>3. CASE StartBufferWrite
  <2>1. call.buf # op.buf
    <3>1. CASE call.fn = "DF_start_buffer_write_no_busy_check"
      BY <1>3, <3>1 DEF StartBufferWrite, Excluded
    <3>2. CASE call.fn = "DF_start_buffer_write"
      <4>1. op = NoOp
        BY <1>3, <3>2 DEF StartBufferWrite, Excluded, Waits
      <4>2. call.buf \in Buffers
        BY <3>2, Arguments DEF TypeOK
      <4> QED
        BY <4>1, <4>2 DEF NoOp, Buffers
    <3> QED
      BY <1>3, <3>1, <3>2 DEF StartBufferWrite
  <2> QED
    BY <1>3, <2>1 DEF StartBufferWrite, Undisturbed, Excluded, chip
<1>4. CASE SendByte
  <2>1. call.buf # op.buf /\ UNCHANGED <<op, call, pc>> /\ pc = "filling"
    BY <1>4 DEF SendByte, Excluded
  <2>2. op.buf # "none" => bufs'[op.buf] = bufs[op.buf]
    BY <1>4, <2>1 DEF SendByte, TypeOK
  <2>3. Undisturbed'
    BY <2>1, <2>2 DEF Undisturbed
  <2> QED
    BY <2>1, <2>3 DEF Excluded
<1>5. CASE WriteBuffer
  <2>1. {call.page} \in SUBSET Pages /\ {call.page} # {} /\ call.buf \in Buffers
    BY <1>5, Arguments DEF WriteBuffer, TypeOK
  <2>2. Undisturbed'
    BY <1>5, <2>1, AcceptUndisturbed DEF WriteBuffer
  <2> QED
    BY <1>5, <2>2 DEF WriteBuffer, Excluded
<1>6. CASE ErasePage
  <2>1. {call.page} \in SUBSET Pages /\ {call.page} # {}
    BY Arguments DEF TypeOK
  <2>2. Undisturbed'
    BY <1>6, <2>1, AcceptUndisturbed DEF ErasePage
  <2> QED
    BY <1>6, <2>2 DEF ErasePage, Excluded
<1>7. CASE EraseEntireMemory
  <2>1. Pages # {}
    BY FlashAssumption DEF Pages
  <2>2. Undisturbed'
    BY <1>7, <2>1, AcceptUndisturbed DEF EraseEntireMemory
  <2> QED
    BY <1>7, <2>2 DEF EraseEntireMemory, Excluded
<1>8. CASE EndErase
  BY <1>8 DEF EndErase, Undisturbed, Excluded, chip
<1>9. CASE StartArrayRead
  BY <1>9 DEF StartArrayRead, Undisturbed, Excluded, chip, Waits
<1>10. CASE ReadByte
  BY <1>10 DEF ReadByte, Undisturbed, Excluded, chip
<1>11. CASE EndTransaction
  BY <1>11 DEF EndTransaction, Undisturbed, Excluded, chip
<1> QED
  BY <1>1, <1>2, <1>3, <1>4, <1>5, <1>6, <1>7, <1>8, <1>9, <1>10, <1>11
     DEF Driver

(* The chip copies what the buffer held from the start. *)
LEMMA ChipExclusion == TypeOK /\ Exclusion /\ (CopyByte \/ Complete) => Exclusion'
<1> SUFFICES ASSUME TypeOK, Exclusion, CopyByte \/ Complete PROVE Exclusion'
  OBVIOUS
<1>1. CASE CopyByte
  <2> DEFINE byte == bufs[op.buf][Len(op.image)]
  <2>1. /\ op'.pages = op.pages /\ op'.buf = op.buf /\ op'.want = op.want
        /\ op'.image = Append(op.image, byte)
        /\ op # NoOp /\ op' # NoOp /\ op.buf # "none"
        /\ UNCHANGED <<bufs, call, pc>>
    BY <1>1 DEF CopyByte, TypeOK, NoOp, driver
  <2>2. \A i \in 1 .. Len(op'.image) : op'.image[i] = op'.want[i - 1]
    <3> TAKE i \in 1 .. Len(op'.image)
    <3>1. op.image \in Seq(Byte)
      BY DEF TypeOK
    <3>2. CASE i = Len(op.image) + 1
      BY <2>1, <3>1, <3>2 DEF Exclusion, Undisturbed
    <3>3. CASE i \in 1 .. Len(op.image)
      <4>1. op.image[i] = op.want[i - 1]
        BY <2>1, <3>3 DEF Exclusion, Undisturbed
      <4>2. op'.image[i] = op.image[i]
        BY <2>1, <3>1, <3>3
      <4> QED
        BY <2>1, <4>1, <4>2
    <3> QED
      BY <2>1, <3>1, <3>2, <3>3
  <2>3. Undisturbed'
    BY <2>1, <2>2 DEF Exclusion, Undisturbed
  <2>4. Excluded'
    BY <2>1 DEF Exclusion, Excluded
  <2> QED
    BY <2>3, <2>4 DEF Exclusion
<1>2. CASE Complete
  <2>1. op' = NoOp /\ UNCHANGED <<call, pc>> /\ UNCHANGED bufs
    BY <1>2 DEF Complete, driver
  <2>2. Undisturbed'
    BY <2>1 DEF Undisturbed, NoOp
  <2>3. pc = "filling" \/ (pc = "command"
            /\ call.fn = "DF_start_buffer_write_no_busy_check")
          => call.buf # "none"
    BY Arguments DEF TypeOK, Buffers
  <2>4. Excluded'
    BY <2>1, <2>3 DEF Exclusion, Excluded, NoOp
  <2> QED
    BY <2>2, <2>4 DEF Exclusion
<1> QED
  BY <1>1, <1>2

(* A reset leaves the operation alone, a power loss ends it. *)
LEMMA ResetExclusion ==
  TypeOK /\ Exclusion /\ (WatchdogReset \/ PowerLoss) => Exclusion'
<1> SUFFICES ASSUME TypeOK, Exclusion, WatchdogReset \/ PowerLoss
             PROVE  Exclusion'
  OBVIOUS
<1>1. pc' = "idle"
  BY DEF WatchdogReset, PowerLoss, Restart
<1>2. Undisturbed'
  <2>1. CASE WatchdogReset
    BY <2>1 DEF WatchdogReset, chip, Exclusion, Undisturbed
  <2>2. CASE PowerLoss
    <3>1. op' = NoOp
      BY <2>2 DEF PowerLoss
    <3> QED
      BY <3>1 DEF NoOp, Undisturbed
  <2> QED
    BY <2>1, <2>2
<1> QED
  BY <1>1, <1>2 DEF Exclusion, Excluded

(* The exclusion holds in every state. *)
LEMMA AlwaysExclusion == Spec => []Exclusion
<1>1. Init => Exclusion
  BY DEF Init, Exclusion, Undisturbed, Excluded, NoOp
<1>2. TypeOK /\ Exclusion /\ [Next]_vars => Exclusion'
  <2>1. Exclusion /\ UNCHANGED vars => Exclusion'
    BY DEF Exclusion, Undisturbed, Excluded, vars, chip, driver
  <2> QED
    BY <2>1, DriverExclusion, ChipExclusion, ResetExclusion DEF Next
<1> QED
  BY <1>1, <1>2, TypeCorrect, PTL DEF Spec

-----------------------------------------------------------------------------
(* The driver and the chip as a page store *)

(* The store sees an operation exactly when the chip has one. *)
LEMMA SeenOperation ==
  ASSUME Exclusion
  PROVE  op = NoOp <=> [pages |-> op.pages, data |-> op.want] = Store!Nothing
<1>1. CASE op = NoOp
  <2>1. op.pages = {} /\ op.want = BlankPage
    BY <1>1 DEF NoOp
  <2> QED
    BY <1>1, <2>1 DEF Store!Nothing
<1>2. CASE op # NoOp
  <2>1. op.pages # {}
    BY <1>2 DEF Exclusion, Undisturbed
  <2>2. [pages |-> op.pages, data |-> op.want].pages # Store!Nothing.pages
    BY <2>1 DEF Store!Nothing
  <2> QED
    BY <1>2, <2>2
<1> QED
  BY <1>1, <1>2

(* A command is the beginning of an operation, or ignored by a busy chip. *)
LEMMA AcceptBegins ==
  ASSUME TypeOK, Exclusion, NEW P \in SUBSET Pages, P # {},
         NEW b \in Buffers \cup {"none"}, Accept(Op(P, b)),
         UNCHANGED <<array, losses>>
  PROVE  Store!Next \/ UNCHANGED op
<1>1. CASE op # NoOp
  BY <1>1 DEF Accept
<1>2. CASE op = NoOp
  <2> DEFINE d == IF b = "none" THEN BlankPage ELSE bufs[b]
  <2>1. d \in Contents
    BY BlankType DEF TypeOK
  <2>2. op'.pages = P /\ op'.want = d
    BY <1>2 DEF Accept, Op
  <2>3. Store!Begin(P, d)
    BY <1>2, <2>2, SeenOperation DEF Store!Begin
  <2> QED
    BY <2>1, <2>3 DEF Store!Next
<1> QED
  BY <1>1, <1>2

(* The end of an operation leaves its pages with what the buffer held when  *)
(* the command was given.                                                  *)
LEMMA CompleteEnds ==
  ASSUME TypeOK, Exclusion, Complete
  PROVE  Store!End
<1>1. op # NoOp /\ op' = NoOp /\ UNCHANGED losses
  BY DEF Complete
<1>2. op.buf # "none" => [o \in Offsets |-> op.image[o + 1]] = op.want
  <2> SUFFICES ASSUME op.buf # "none"
               PROVE  [o \in Offsets |-> op.image[o + 1]] = op.want
    OBVIOUS
  <2>1. Len(op.image) = PageSize /\ PageSize \in Nat
    BY FlashAssumption DEF Complete
  <2>2. \A o \in Offsets : o + 1 \in 1 .. Len(op.image) /\ (o + 1) - 1 = o
    BY <2>1 DEF Offsets
  <2>3. \A o \in Offsets : op.image[o + 1] = op.want[o]
    BY <2>2 DEF Exclusion, Undisturbed
  <2>4. op.want = [o \in Offsets |-> op.want[o]]
    BY DEF TypeOK, Contents
  <2> QED
    BY <2>3, <2>4
<1>3. array' = [p \in Pages |-> IF p \in op.pages THEN op.want ELSE array[p]]
  BY <1>2 DEF Complete, Exclusion, Undisturbed
<1>4. [pages |-> op'.pages, data |-> op'.want] = Store!Nothing
  BY <1>1 DEF NoOp, Store!Nothing
<1> QED
  BY <1>1, <1>3, <1>4, SeenOperation DEF Store!End

(* Any sequence of driver calls (dataflash.c:122-293), made while the chip   *)
(* programs or erases on its own, does to the pages what a page store does: *)
(* one operation at a time, each storing what its buffer held when it was   *)
(* commanded.  This is the safety part of ImplementsStore.                  *)
THEOREM DriverImplementsStore == Spec => Store!Safety
<1>1. Init => Store!Init
  BY BlankType DEF Init, Store!Init, Store!Nothing, NoOp
<1>2. TypeOK /\ TypeOK' /\ Exclusion /\ [Next]_vars => [Store!Next]_(Store!vars)
  <2> SUFFICES ASSUME TypeOK, TypeOK', Exclusion, [Next]_vars
               PROVE  \/ Store!Next
                      \/ UNCHANGED <<array, op.pages, op.want, losses>>
    BY DEF Store!vars
  <2>1. CASE Driver
    <3>1. CASE WriteBuffer
      <4>1. {call.page} \in SUBSET Pages /\ {call.page} # {}
            /\ call.buf \in Buffers
        BY <3>1, Arguments DEF WriteBuffer, TypeOK
      <4> QED
        BY <3>1, <4>1, AcceptBegins DEF WriteBuffer
    <3>2. CASE ErasePage
      <4>1. {call.page} \in SUBSET Pages /\ {call.page} # {}
        BY Arguments DEF TypeOK
      <4> QED
        BY <3>2, <4>1, AcceptBegins DEF ErasePage
    <3>3. CASE EraseEntireMemory
      <4>1. Pages # {}
        BY FlashAssumption DEF Pages
      <4> QED
        BY <3>3, <4>1, AcceptBegins DEF EraseEntireMemory
    <3>4. CASE ~(WriteBuffer \/ ErasePage \/ EraseEntireMemory)
      BY <2>1, <3>4
         DEF Driver, CallDriver, WaitForReady, StartBufferWrite, SendByte,
             EndErase, StartArrayRead, ReadByte, EndTransaction, chip
    <3> QED
      BY <3>1, <3>2, <3>3, <3>4
  <2>2. CASE CopyByte
    <3>1. /\ op'.pages = op.pages /\ op'.want = op.want
          /\ UNCHANGED <<array, losses>>
      BY <2>2 DEF CopyByte, TypeOK
    <3> QED
      BY <3>1, <2>2
  <2>3. CASE Complete
    BY <2>3, CompleteEnds DEF Store!Next
  <2>4. CASE WatchdogReset
    BY <2>4 DEF WatchdogReset, chip
  <2>5. CASE PowerLoss
    <3>1. \A p \in Pages \ op.pages : array'[p] = array[p]
      BY <2>5 DEF PowerLoss
    <3>2. array' \in [Pages -> Contents]
      BY DEF TypeOK
    <3>3. Store!PowerLoss
      BY <2>5, <3>1, <3>2 DEF PowerLoss, Store!PowerLoss, Store!Nothing, NoOp
    <3> QED
      BY <3>3 DEF Store!Next
  <2>6. CASE UNCHANGED vars
    BY <2>6 DEF vars, chip
  <2> QED
    BY <2>1, <2>2, <2>3, <2>4, <2>5, <2>6 DEF Next
<1> QED
  BY <1>1, <1>2, TypeCorrect, AlwaysExclusion, PTL DEF Spec, Store!Safety

-----------------------------------------------------------------------------
(* Array reads *)

(* The address counter, the bytes received and the array belong together. *)
ReadsOn ==
  pc = "reading" =>
    /\ address = (call.page * PageSize + call.byte + Len(got))
                   % (NumPages * PageSize)
    /\ \A k \in 1 .. Len(got) :
         got[k] = ByteAt((call.page * PageSize + call.byte + k - 1)
                           % (NumPages * PageSize))

(* A read goes on at the next address. *)
LEMMA ReadByteReadsOn == TypeOK /\ ReadsOn /\ ReadByte => ReadsOn'
<1> SUFFICES ASSUME TypeOK, ReadsOn, ReadByte PROVE ReadsOn'
  OBVIOUS
<1> DEFINE start == call.page * PageSize + call.byte
           size  == NumPages * PageSize
           n     == Len(got)
<1>1. start \in Nat /\ size \in Nat \ {0} /\ n \in Nat
  <2>1. start \in 0 .. size - 1
    BY Arguments, AddressInMemory DEF TypeOK
  <2> QED
    BY <2>1, FlashAssumption DEF TypeOK
<1>2. /\ address = (start + n) % size
      /\ \A k \in 1 .. n : got[k] = ByteAt((start + k - 1) % size)
      /\ got' = Append(got, ByteAt(address))
      /\ address' = (address + 1) % size
      /\ UNCHANGED <<array, call, pc>>
  BY DEF ReadsOn, ReadByte, chip
<1>3. got \in Seq(Byte) /\ ByteAt(address) \in Byte
  BY MemoryAtAddress DEF TypeOK, ByteAt, Contents
<1> HIDE DEF start, size
<1>4. Len(got') = n + 1 /\ start + n \in Nat
  <2>1. Len(Append(got, ByteAt(address))) = Len(got) + 1
    BY <1>3
  <2> QED
    BY <1>1, <1>2, <2>1
<1>5. address' = (start + (n + 1)) % size
  <2>1. address' = (start + n + 1) % size
    BY <1>1, <1>2, <1>4, CounterRunsOn
  <2>2. start + n + 1 = start + (n + 1)
    BY <1>1
  <2> QED
    BY <2>1, <2>2
<1>6. \A k \in 1 .. n + 1 : got'[k] = ByteAt((start + k - 1) % size)
  <2> TAKE k \in 1 .. n + 1
  <2>1. CASE k \in 1 .. n
    <3>1. got'[k] = got[k]
      BY <1>1, <1>2, <1>3, <2>1
    <3> QED
      BY <1>2, <2>1, <3>1
  <2>2. CASE k = n + 1
    <3>1. got'[k] = ByteAt(address)
      BY <1>2, <1>3, <2>2
    <3>2. start + k - 1 = start + n
      BY <1>1, <2>2
    <3> QED
      BY <1>2, <3>1, <3>2
  <2> QED
    BY <1>1, <2>1, <2>2
<1>7. start' = start
  BY <1>2 DEF start
<1>8. \A a : ByteAt(a)' = ByteAt(a)
  BY <1>2 DEF ByteAt
<1> QED
  BY <1>1, <1>2, <1>4, <1>5, <1>6, <1>7, <1>8 DEF ReadsOn, ByteAt, start, size

(* An array read (dataflash.c:154-162, gps.c:79-84) returns what the array  *)
(* holds from the page and byte it began at, across the ends of pages, and  *)
(* none of it is overwritten before the read ends.                         *)
THEOREM ReadsAreOfArray == Spec => []ReadsArray
<1>1. Init => ReadsOn
  BY DEF Init, ReadsOn
<1>2. TypeOK /\ Exclusion /\ ReadsOn /\ [Next]_vars => ReadsOn'
  <2> SUFFICES ASSUME TypeOK, Exclusion, ReadsOn, [Next]_vars PROVE ReadsOn'
    OBVIOUS
  <2>1. CASE StartArrayRead
    <3>1. call.page * PageSize + call.byte \in 0 .. NumPages * PageSize - 1
      BY Arguments, AddressInMemory DEF TypeOK
    <3>2. /\ call.page * PageSize + call.byte + 0
               = call.page * PageSize + call.byte
          /\ NumPages * PageSize \in Nat \ {0}
      BY <3>1, FlashAssumption
    <3>3. (call.page * PageSize + call.byte + 0) % (NumPages * PageSize)
            = call.page * PageSize + call.byte
      BY <3>1, <3>2, RemainderBelow
    <3> QED
      BY <2>1, <3>3 DEF StartArrayRead, ReadsOn
  <2>2. CASE ReadByte
    BY <2>2, ReadByteReadsOn
  <2>3. CASE Driver /\ ~StartArrayRead /\ ~ReadByte
    <3>1. pc' # "reading"
      BY <2>3 DEF Driver, CallDriver, WaitForReady, StartBufferWrite, SendByte,
                  WriteBuffer, ErasePage, EraseEntireMemory, EndErase,
                  EndTransaction
    <3> QED
      BY <3>1 DEF ReadsOn
  <2>4. CASE CopyByte \/ Complete
    <3>1. op # NoOp /\ UNCHANGED pc
      BY <2>4 DEF CopyByte, Complete, NoOp, driver
    <3> QED
      BY <3>1 DEF ReadsOn, Exclusion, Excluded
  <2>5. CASE WatchdogReset \/ PowerLoss
    BY <2>5 DEF WatchdogReset, PowerLoss, Restart, ReadsOn
  <2>6. CASE UNCHANGED vars
    BY <2>6 DEF vars, chip, driver, ReadsOn, ByteAt
  <2> QED
    BY <2>1, <2>2, <2>3, <2>4, <2>5, <2>6 DEF Next
<1>3. ReadsOn => ReadsArray
  BY DEF ReadsOn, ReadsArray
<1> QED
  BY <1>1, <1>2, <1>3, TypeCorrect, AlwaysExclusion, PTL DEF Spec

=============================================================================
