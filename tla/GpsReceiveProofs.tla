--------------------------- MODULE GpsReceiveProofs ---------------------------
(***************************************************************************)
(* Proofs about GpsReceive, for every buffer size, sentence size, alphabet *)
(* and length of the stream.                                               *)
(***************************************************************************)
EXTENDS GpsReceive, TLAPS

(* The history variables count characters. *)
LEMMA HistoryCounts == TypeOK => received \in Nat /\ unread \in Int
  BY DEF TypeOK, received, unread

(* The types hold in the initial state. *)
LEMMA InitType == Init => TypeOK
  BY SizesAssumption, CharsAssumption
     DEF Init, TypeOK, Slots, Cell, NoCell, Char

(* Every step preserves the types; in particular the late reset keeps      *)
(* read_head within one slot of the array, and a sentence never outgrows   *)
(* its own array.                                                          *)
LEMMA NextType == TypeOK /\ [Next]_vars => TypeOK'
<1> SUFFICES ASSUME TypeOK, [Next]_vars PROVE TypeOK'
  OBVIOUS
<1> USE SizesAssumption, CharsAssumption
<1>1. CASE RxInterrupt
  <2>1. PICK ch \in Char :
          /\ rx' = Append(rx, ch)
          /\ buffer' = [buffer EXCEPT ![write_head_AT] =
                                        [ch |-> ch, id |-> received + 1]]
    BY <1>1 DEF RxInterrupt
  <2>2. rx' \in Seq(Char) /\ received \in Nat
    BY <2>1 DEF TypeOK, received
  <2>3. buffer' \in [Slots -> Cell]
    BY <2>1, <2>2 DEF TypeOK, Cell
  <2>4. write_head_AT' \in Slots
    BY <1>1 DEF RxInterrupt, TypeOK, NextWriteHead, Slots
  <2>5. settled' \in Nat /\ tainted' \in BOOLEAN
    BY <1>1, <2>2 DEF RxInterrupt, TypeOK
  <2> QED
    BY <1>1, <2>2, <2>3, <2>4, <2>5 DEF RxInterrupt, TypeOK, Slots
<1>2. CASE BeginSentence
  BY <1>2 DEF BeginSentence, TypeOK, Slots
<1>3. CASE Poll
  <2>1. CASE HasNew
    <3>1. PICK cell \in CellsAt(read_head) :
            /\ c' = cell
            /\ settled' = IF cell.id = 0 THEN settled ELSE settled + 1
            /\ tainted' = (tainted \/ cell.id = 0)
      BY <1>3, <2>1 DEF Poll
    <3>2. cell \in Cell
      BY <3>1 DEF CellsAt, TypeOK, Slots, Cell
    <3>3. read_head' = read_head + 1
      BY <1>3, <2>1 DEF Poll
    <3> QED
      BY <1>3, <3>1, <3>2, <3>3 DEF Poll, TypeOK, Slots
  <2>2. CASE ~HasNew
    BY <1>3, <2>2 DEF Poll, TypeOK, Slots, NoCell, Cell, Char
  <2> QED
    BY <2>1, <2>2
<1>4. CASE Handle
  <2>1. read_head' \in 0 .. BufferSize
    BY <1>4 DEF Handle, TypeOK, WrapReadHead
  <2>2. sentence' \in Seq(Cell)
    <3>1. CASE sentence' = sentence
      BY <3>1 DEF TypeOK
    <3>2. CASE sentence' = Append(sentence, c)
      BY <3>2 DEF TypeOK
    <3> QED
      BY <1>4, <3>1, <3>2 DEF Handle
  <2>3. sentence_length' \in 0 .. SentenceSize
        /\ (sentence_length' = SentenceSize => pc' = "returned")
        /\ pc' \in {"poll", "returned"}
    BY <1>4 DEF Handle, TypeOK
  <2> QED
    BY <1>4, <2>1, <2>2, <2>3 DEF Handle, TypeOK, Slots
<1>5. CASE UNCHANGED vars
  BY <1>5 DEF vars, TypeOK, Slots
<1> QED
  BY <1>1, <1>2, <1>3, <1>4, <1>5 DEF Next, MainProgram

(* Type correctness of the reception for every size of both arrays.        *)
THEOREM TypeCorrect == Spec => []TypeOK
<1>1. Init => TypeOK
  BY InitType
<1>2. TypeOK /\ [Next]_vars => TypeOK'
  BY NextType
<1> QED
  BY <1>1, <1>2, PTL DEF Spec

-----------------------------------------------------------------------------
(* What the ring invariant needs to know of a state, in integers only.      *)
LEMMA RingArithmetic ==
  TypeOK =>
    /\ ReaderSlot \in Slots
    /\ \A i \in Slots : Ahead(i) \in 0 .. BufferSize - 1
    /\ \A i, j \in Slots : Ahead(i) = Ahead(j) => i = j
    /\ Ahead(ReaderSlot) = 0
  BY SizesAssumption DEF TypeOK, ReaderSlot, Ahead, Slots

(* The interrupt's slot is one further ahead of the reader than before,     *)
(* unless that completes the round.                                        *)
LEMMA WriterAdvances ==
  ASSUME TypeOK, NEW i \in Slots
  PROVE  /\ NextWriteHead(i) \in Slots
         /\ IF Ahead(i) = BufferSize - 1
              THEN NextWriteHead(i) = ReaderSlot
              ELSE Ahead(NextWriteHead(i)) = Ahead(i) + 1
  BY SizesAssumption DEF TypeOK, ReaderSlot, Ahead, Slots, NextWriteHead

(* Nothing is unread at first. *)
LEMMA InitSlots == Init => UnreadSlots
  BY SizesAssumption
     DEF Init, UnreadSlots, ReaderSlot, Ahead, Slots, unread, received

(* What the ring invariant says depends on few variables. *)
LEMMA SlotsFrame ==
  ASSUME UnreadSlots,
         UNCHANGED <<buffer, write_head_AT, rx, settled>>,
         ReaderSlot' = ReaderSlot
  PROVE  UnreadSlots'
  BY DEF UnreadSlots, Ahead, unread, received, Slots

(* The interrupt keeps the heads and the stream in agreement, a lap         *)
(* included: it leaves exactly the character it has just stored.            *)
LEMMA InterruptSlots == TypeOK /\ UnreadSlots /\ RxInterrupt => UnreadSlots'
<1> SUFFICES ASSUME TypeOK, UnreadSlots, RxInterrupt PROVE UnreadSlots'
  OBVIOUS
<1> USE SizesAssumption
<1>1. PICK ch \in Char :
        /\ rx' = Append(rx, ch)
        /\ buffer' = [buffer EXCEPT ![write_head_AT] =
                                      [ch |-> ch, id |-> received + 1]]
  BY DEF RxInterrupt
<1>2. /\ received \in Nat
      /\ received' = received + 1
      /\ rx'[received + 1] = ch
      /\ \A n \in 1 .. received : rx'[n] = rx[n]
  BY <1>1 DEF TypeOK, received
<1>3. /\ ReaderSlot' = ReaderSlot
      /\ \A i \in Slots : Ahead(i)' = Ahead(i)
  BY DEF RxInterrupt, ReaderSlot, Ahead
<1>4. /\ write_head_AT \in Slots
      /\ write_head_AT' = NextWriteHead(write_head_AT)
      /\ write_head_AT' \in Slots
  BY WriterAdvances DEF RxInterrupt, TypeOK
<1>5. /\ buffer'[write_head_AT] = [ch |-> ch, id |-> received + 1]
      /\ \A i \in Slots : i # write_head_AT => buffer'[i] = buffer[i]
  BY <1>1, <1>4 DEF TypeOK
<1>6. CASE unread = BufferSize
  <2>1. settled' = received /\ unread' = 1
    BY <1>2, <1>6 DEF RxInterrupt, unread
  <2>2. Ahead(write_head_AT) = 0
    BY <1>6, RingArithmetic DEF UnreadSlots
  <2>3. IF unread' = BufferSize
          THEN write_head_AT' = ReaderSlot'
          ELSE Ahead(write_head_AT)' = unread'
    BY <1>3, <1>4, <2>1, <2>2, WriterAdvances DEF Ahead
  <2>4. ASSUME NEW i \in Slots, Ahead(i)' < unread'
        PROVE  buffer'[i] = [ch |-> rx'[settled' + 1 + Ahead(i)'],
                             id |-> settled' + 1 + Ahead(i)']
    <3>1. Ahead(i) = 0 /\ i = write_head_AT
      BY <1>3, <1>4, <2>1, <2>2, <2>4, RingArithmetic
    <3> QED
      BY <1>2, <1>3, <1>5, <2>1, <3>1
  <2> QED
    BY <2>1, <2>3, <2>4 DEF UnreadSlots, Slots
<1>7. CASE unread # BufferSize
  <2>1. settled' = settled /\ unread' = unread + 1
    BY <1>2, <1>7 DEF RxInterrupt, unread, TypeOK
  <2>2. unread \in 0 .. BufferSize - 1 /\ Ahead(write_head_AT) = unread
    BY <1>7 DEF UnreadSlots
  <2>3. IF unread' = BufferSize
          THEN write_head_AT' = ReaderSlot'
          ELSE Ahead(write_head_AT)' = unread'
    BY <1>3, <1>4, <2>1, <2>2, WriterAdvances DEF Ahead
  <2>4. ASSUME NEW i \in Slots, Ahead(i)' < unread'
        PROVE  buffer'[i] = [ch |-> rx'[settled' + 1 + Ahead(i)'],
                             id |-> settled' + 1 + Ahead(i)']
    <3>1. Ahead(i)' = Ahead(i) /\ Ahead(i) \in 0 .. unread
      BY <1>3, <2>1, <2>2, <2>4, RingArithmetic
    <3>2. settled \in Nat /\ received = settled + unread
      BY <1>2 DEF TypeOK, unread
    <3>3. CASE i = write_head_AT
      <4>1. settled + 1 + Ahead(i) = received + 1
        BY <2>2, <3>2, <3>3
      <4> QED
        BY <1>2, <1>5, <2>1, <3>1, <3>3, <4>1
    <3>4. CASE i # write_head_AT
      <4>1. Ahead(i) < unread
        BY <1>4, <2>2, <3>1, <3>4, RingArithmetic
      <4>2. settled + 1 + Ahead(i) \in 1 .. received
        BY <3>1, <3>2, <4>1, <2>2
      <4>3. buffer[i] = [ch |-> rx[settled + 1 + Ahead(i)],
                         id |-> settled + 1 + Ahead(i)]
        BY <4>1 DEF UnreadSlots
      <4> QED
        BY <1>2, <1>5, <2>1, <3>1, <3>4, <4>2, <4>3
    <3> QED
      BY <3>3, <3>4
  <2> QED
    BY <2>1, <2>2, <2>3, <2>4 DEF UnreadSlots, Slots
<1> QED
  BY <1>6, <1>7

(* What a poll that finds something takes: the slot past the end, or the    *)
(* oldest unread character.                                                *)
LEMMA PollTakesOldest ==
  ASSUME TypeOK, UnreadSlots, HasNew, read_head < BufferSize
  PROVE  /\ unread \in 1 .. BufferSize - 1
         /\ ReaderSlot = read_head
         /\ CellsAt(read_head) = {buffer[read_head]}
         /\ buffer[read_head] = [ch |-> rx[settled + 1], id |-> settled + 1]
<1>1. ReaderSlot = read_head /\ read_head \in Slots
  BY SizesAssumption DEF TypeOK, ReaderSlot, Slots
<1>2. unread \in 1 .. BufferSize - 1
  BY <1>1, RingArithmetic, SizesAssumption
     DEF UnreadSlots, HasNew, TypeOK
<1>3. Ahead(read_head) = 0
  BY <1>1, RingArithmetic
<1>4. buffer[read_head] = [ch |-> rx[settled + 1], id |-> settled + 1]
  <2>1. settled + 1 + Ahead(read_head) = settled + 1
    BY <1>3 DEF TypeOK
  <2>2. Ahead(read_head) < unread
    BY <1>2, <1>3
  <2> QED
    BY <1>1, <2>1, <2>2 DEF UnreadSlots
<1> QED
  BY <1>1, <1>2, <1>4 DEF CellsAt

(* Polling takes at most the oldest unread character. *)
LEMMA PollSlots == TypeOK /\ UnreadSlots /\ Poll => UnreadSlots'
<1> SUFFICES ASSUME TypeOK, UnreadSlots, Poll PROVE UnreadSlots'
  OBVIOUS
<1> USE SizesAssumption
<1>1. CASE ~HasNew
  BY <1>1, SlotsFrame DEF Poll, ReaderSlot
<1>2. CASE HasNew /\ read_head >= BufferSize
  <2>1. read_head = BufferSize
    BY <1>2 DEF TypeOK, Poll
  <2>2. \A cell \in CellsAt(read_head) : cell.id = 0
    BY <2>1 DEF CellsAt
  <2>3. settled' = settled /\ read_head' = read_head + 1
    BY <1>2, <2>2 DEF Poll
  <2>4. ReaderSlot' = ReaderSlot
    BY <2>1, <2>3 DEF ReaderSlot
  <2> QED
    BY <2>3, <2>4, SlotsFrame DEF Poll
<1>3. CASE HasNew /\ read_head < BufferSize
  <2>1. /\ unread \in 1 .. BufferSize - 1
        /\ ReaderSlot = read_head
        /\ read_head \in Slots
        /\ buffer[read_head].id = settled + 1
        /\ CellsAt(read_head) = {buffer[read_head]}
    BY <1>3, PollTakesOldest DEF TypeOK, Slots
  <2>2. settled \in Nat /\ settled + 1 # 0
    BY DEF TypeOK
  <2>3. settled' = settled + 1 /\ read_head' = read_head + 1
    BY <1>3, <2>1, <2>2 DEF Poll
  <2>4. unread' = unread - 1
    BY <2>2, <2>3, HistoryCounts DEF Poll, unread, received
  <2>5. \A i \in Slots : i # read_head => Ahead(i)' = Ahead(i) - 1
    BY <2>1, <2>3 DEF Ahead, ReaderSlot, Slots, TypeOK
  <2>6. \A i \in Slots : i = read_head => Ahead(i)' = BufferSize - 1
    BY <2>1, <2>3 DEF Ahead, ReaderSlot, Slots, TypeOK
  <2>7. Ahead(write_head_AT)' = unread'
    <3>1. Ahead(write_head_AT) = unread /\ write_head_AT \in Slots
      BY <2>1 DEF UnreadSlots, TypeOK
    <3>2. write_head_AT # read_head
      BY <1>3 DEF HasNew
    <3>3. write_head_AT' = write_head_AT
      BY DEF Poll
    <3> QED
      BY <2>4, <2>5, <3>1, <3>2, <3>3 DEF Ahead
  <2>8. ASSUME NEW i \in Slots, Ahead(i)' < unread'
        PROVE  buffer'[i] = [ch |-> rx'[settled' + 1 + Ahead(i)'],
                             id |-> settled' + 1 + Ahead(i)']
    <3>1. i # read_head
      BY <2>1, <2>4, <2>6, <2>8
    <3>2. Ahead(i)' = Ahead(i) - 1 /\ Ahead(i) \in Int
      BY <2>5, <3>1, RingArithmetic
    <3>3. Ahead(i) < unread
      BY <2>1, <2>4, <2>8, <3>2
    <3>4. settled' + 1 + Ahead(i)' = settled + 1 + Ahead(i)
      BY <2>2, <2>3, <3>2
    <3> QED
      BY <3>3, <3>4 DEF UnreadSlots, Poll
  <2>9. unread' \in 0 .. BufferSize - 2
    BY <2>1, <2>4
  <2> QED
    BY <2>7, <2>8, <2>9 DEF UnreadSlots, Slots
<1> QED
  BY <1>1, <1>2, <1>3 DEF TypeOK

(* Every step preserves the ring invariant. *)
LEMMA NextSlots == TypeOK /\ UnreadSlots /\ [Next]_vars => UnreadSlots'
<1> SUFFICES ASSUME TypeOK, UnreadSlots, [Next]_vars PROVE UnreadSlots'
  OBVIOUS
<1>1. CASE RxInterrupt
  BY <1>1, InterruptSlots
<1>2. CASE BeginSentence
  BY <1>2, SlotsFrame DEF BeginSentence, ReaderSlot
<1>3. CASE Poll
  BY <1>3, PollSlots
<1>4. CASE Handle
  <2>1. ReaderSlot' = ReaderSlot
    BY <1>4, SizesAssumption DEF Handle, TypeOK, ReaderSlot, WrapReadHead
  <2> QED
    BY <1>4, <2>1, SlotsFrame DEF Handle
<1>5. CASE UNCHANGED vars
  BY <1>5, SlotsFrame DEF vars, ReaderSlot
<1> QED
  BY <1>1, <1>2, <1>3, <1>4, <1>5 DEF Next, MainProgram

(* The ring invariant: for every size of the ring and every interleaving of *)
(* the receive interrupt (gps.c:43) with the main program, the unread slots *)
(* hold the last characters of the stream in order.                        *)
THEOREM RingCorrect == Spec => []UnreadSlots
<1>1. Init => UnreadSlots
  BY InitSlots
<1>2. TypeOK /\ UnreadSlots /\ [Next]_vars => UnreadSlots'
  BY NextSlots
<1> QED
  BY <1>1, <1>2, TypeCorrect, PTL DEF Spec

-----------------------------------------------------------------------------
(* A poll yields the oldest character neither read nor overwritten.         *)
LEMMA StepInOrder ==
  TypeOK /\ UnreadSlots /\ [Next]_vars =>
    [c'.id # c.id /\ c'.id # 0 =>
       /\ c'.id = settled + 1
       /\ c'.ch = rx[settled + 1]]_vars
<1> SUFFICES ASSUME TypeOK, UnreadSlots, [Next]_vars,
                    c'.id # c.id, c'.id # 0
             PROVE  c'.id = settled + 1 /\ c'.ch = rx[settled + 1]
  OBVIOUS
<1>1. Poll
  BY DEF Next, MainProgram, RxInterrupt, BeginSentence, Handle, vars
<1>2. HasNew
  BY <1>1 DEF Poll, NoCell
<1>3. PICK cell \in CellsAt(read_head) : c' = cell
  BY <1>1, <1>2 DEF Poll
<1>4. read_head < BufferSize
  BY <1>1, <1>3, SizesAssumption DEF CellsAt, Poll, TypeOK
<1> QED
  BY <1>2, <1>3, <1>4, PollTakesOldest

(* No received character is read twice, out of order or torn, and none is   *)
(* passed over that a lap has not destroyed (gps.c:117-124).                *)
THEOREM ReadsInOrder == Spec => InOrder
<1>1. TypeOK /\ UnreadSlots /\ [Next]_vars =>
        [c'.id # c.id /\ c'.id # 0 =>
           /\ c'.id = settled + 1
           /\ c'.ch = rx[settled + 1]]_vars
  BY StepInOrder
<1> QED
  BY <1>1, TypeCorrect, RingCorrect, PTL DEF Spec, InOrder

-----------------------------------------------------------------------------
(* The sentence at each place of the main program.  While the loop runs, the *)
(* last character that was taken may be in c only; when it ends, that is    *)
(* what ended it.  A poll that takes nothing leaves NoCell in c.            *)
Assembly ==
  ~tainted =>
    /\ pc = "poll" => Assembled(settled) /\ sentence_length = Len(sentence)
    /\ pc = "handle" =>
         /\ sentence_length = Len(sentence)
         /\ \/ c = NoCell /\ Assembled(settled)
            \/ /\ c = [ch |-> rx[settled], id |-> settled]
               /\ Assembled(settled - 1)
    /\ SentenceIsLine

(* No character is in the stream or in the sentence at first. *)
LEMMA InitAssembly == Init => Assembly
  BY DEF Init, Assembly, SentenceIsLine

(* What the sentence is made of depends on what was received only.          *)
LEMMA AssembledFrame ==
  ASSUME UNCHANGED <<sentence, start>>, NEW n, Assembled(n),
         \A k \in start + 1 .. n : rx'[k] = rx[k]
  PROVE  Assembled(n)'
  BY DEF Assembled

(* A received character changes a sentence only by a lap, which taints it.   *)
LEMMA InterruptAssembly ==
  TypeOK /\ UnreadSlots /\ Assembly /\ RxInterrupt => Assembly'
<1> SUFFICES ASSUME TypeOK, UnreadSlots, Assembly, RxInterrupt, ~tainted'
             PROVE  Assembly'
  BY DEF Assembly
<1>1. PICK ch \in Char : rx' = Append(rx, ch)
  BY DEF RxInterrupt
<1>2. ~tainted /\ settled' = settled
  BY DEF RxInterrupt, TypeOK
<1>3. UNCHANGED <<sentence, sentence_length, c, pc, start>>
  BY DEF RxInterrupt
<1>4. received \in Nat /\ settled \in 0 .. received /\ start \in Nat
  BY HistoryCounts DEF UnreadSlots, unread, TypeOK
<1>5. \A k \in 1 .. received : rx'[k] = rx[k]
  BY <1>1, <1>4 DEF TypeOK, received
<1>6. \A n \in {settled, settled - 1} : Assembled(n) => Assembled(n)'
  <2> SUFFICES ASSUME NEW n \in {settled, settled - 1}, Assembled(n)
               PROVE  Assembled(n)'
    OBVIOUS
  <2>1. \A k \in start + 1 .. n : rx'[k] = rx[k]
    BY <1>4, <1>5
  <2> QED
    BY <1>3, <2>1, AssembledFrame
<1>7. \A n \in {settled, settled - 1} : Assembled(n) =>
        n >= start
  BY DEF Assembled
<1>8. settled \in 1 .. received => rx'[settled] = rx[settled]
  BY <1>5
<1>9. Assembled(settled - 1) => settled \in 1 .. received
  BY <1>4, <1>7
<1>10. /\ pc = "poll" => Assembled(settled)'
       /\ pc = "handle" =>
            \/ c = NoCell /\ Assembled(settled)'
            \/ /\ c = [ch |-> rx'[settled], id |-> settled]
               /\ Assembled(settled - 1)'
  BY <1>2, <1>6, <1>8, <1>9 DEF Assembly
<1>11. SentenceIsLine'
  BY <1>2, <1>3, <1>6, <1>8, <1>9 DEF Assembly, SentenceIsLine
<1> QED
  BY <1>2, <1>3, <1>10, <1>11 DEF Assembly

(* A sentence is begun with nothing in it. *)
LEMMA BeginAssembly == TypeOK /\ BeginSentence => Assembly'
<1> SUFFICES ASSUME TypeOK, BeginSentence PROVE Assembly'
  OBVIOUS
<1>1. /\ pc' = "poll" /\ sentence' = <<>> /\ sentence_length' = 0
      /\ start' = settled /\ UNCHANGED <<rx, settled>>
  BY DEF BeginSentence
<1>2. PICK n \in Nat : n = settled
  BY DEF TypeOK
<1>3. start' = n /\ settled' = n /\ Len(sentence') = 0
  BY <1>1, <1>2
<1>4. Assembled(settled)'
  BY <1>3 DEF Assembled
<1> QED
  BY <1>1, <1>3, <1>4 DEF Assembly, SentenceIsLine

(* A poll takes the character that follows those of the sentence, or none. *)
LEMMA PollAssembly == TypeOK /\ UnreadSlots /\ Assembly /\ Poll => Assembly'
<1> SUFFICES ASSUME TypeOK, UnreadSlots, Assembly, Poll, ~tainted'
             PROVE  Assembly'
  BY DEF Assembly
<1> USE SizesAssumption
<1>1. /\ pc = "poll" /\ pc' = "handle"
      /\ UNCHANGED <<sentence, sentence_length, rx, start>>
  BY DEF Poll
<1>2. PICK n \in Nat : n = settled
  BY DEF TypeOK
<1>3. ~tainted
  BY DEF Poll, TypeOK
<1>4. Assembled(n) /\ sentence_length = Len(sentence)
  BY <1>1, <1>2, <1>3 DEF Assembly
<1>5. Assembled(n)'
  BY <1>1, <1>4, AssembledFrame
<1>6. CASE ~HasNew
  <2>1. c' = NoCell /\ settled' = n
    BY <1>2, <1>6 DEF Poll
  <2> QED
    BY <1>1, <1>4, <1>5, <2>1 DEF Assembly, SentenceIsLine
<1>7. CASE HasNew
  <2>1. PICK cell \in CellsAt(read_head) :
          /\ c' = cell
          /\ settled' = IF cell.id = 0 THEN settled ELSE settled + 1
          /\ tainted' = (tainted \/ cell.id = 0)
    BY <1>7 DEF Poll
  <2>2. cell.id # 0
    BY <2>1
  <2>3. read_head < BufferSize
    BY <1>1, <2>1, <2>2 DEF CellsAt, TypeOK
  <2>4. c' = [ch |-> rx[n + 1], id |-> n + 1]
    BY <1>2, <1>7, <2>1, <2>3, PollTakesOldest
  <2>5. settled' = n + 1 /\ settled' - 1 = n
    BY <1>2, <2>1, <2>2
  <2>6. c' = [ch |-> rx'[settled'], id |-> settled'] /\ Assembled(settled - 1)'
    BY <1>1, <1>5, <2>4, <2>5
  <2> QED
    BY <1>1, <1>4, <2>6 DEF Assembly, SentenceIsLine
<1> QED
  BY <1>6, <1>7

(* The loop's body appends the character to the sentence unless it is a NUL,  *)
(* or returns the sentence at an LF and when it is full.                    *)
LEMMA HandleAssembly == TypeOK /\ Assembly /\ Handle => Assembly'
<1> SUFFICES ASSUME TypeOK, Assembly, Handle, ~tainted' PROVE Assembly'
  BY DEF Assembly
<1> USE SizesAssumption, CharsAssumption
<1>1. /\ pc = "handle" /\ ~tainted
      /\ UNCHANGED <<rx, settled, start, c>>
  BY DEF Handle
<1>2. PICK n \in Nat : n = settled
  BY DEF TypeOK
<1>3. PICK len \in Nat : len = Len(sentence)
  BY DEF TypeOK
<1>4. PICK b \in Nat : b = start
  BY DEF TypeOK
<1>5. sentence_length = len /\ len < SentenceSize
  BY <1>1, <1>3 DEF Assembly, TypeOK
<1>6. \/ c = NoCell /\ Assembled(n)
      \/ c = [ch |-> rx[n], id |-> n] /\ Assembled(n - 1)
  BY <1>1, <1>2 DEF Assembly
<1>7. CASE c.ch = NUL
  <2>1. pc' = "poll" /\ UNCHANGED <<sentence, sentence_length>>
    BY <1>7 DEF Handle
  <2>2. Assembled(n)
    <3>1. CASE c = [ch |-> rx[n], id |-> n] /\ Assembled(n - 1)
      <4>1. rx[n] = NUL
        BY <1>7, <3>1
      <4>2. n - 1 >= b /\ \A k \in b + 1 .. n : k = n \/ k \in b + 1 .. n - 1
        BY <1>4, <3>1 DEF Assembled
      <4> QED
        BY <1>4, <3>1, <4>1, <4>2 DEF Assembled
    <3> QED
      BY <1>6, <3>1
  <2>3. Assembled(n)'
    BY <1>1, <2>1, <2>2, AssembledFrame
  <2>4. Assembled(settled)' /\ sentence_length' = Len(sentence')
    BY <1>1, <1>2, <1>3, <1>5, <2>1, <2>3
  <2> QED
    BY <2>1, <2>4 DEF Assembly, SentenceIsLine
<1>8. CASE c.ch # NUL
  <2>1. c = [ch |-> rx[n], id |-> n] /\ Assembled(n - 1) /\ rx[n] # NUL
    BY <1>6, <1>8 DEF NoCell
  <2>2. n - 1 >= b /\ n \in b + 1 .. n /\ \A k \in b + 1 .. n : k = n \/ k \in b + 1 .. n - 1
    BY <1>4, <2>1 DEF Assembled
  <2>3. CASE UNCHANGED sentence /\ pc' = "returned"
             /\ (rx[n] = LF \/ len + 1 >= SentenceSize)
    <3>1. Assembled(n - 1)'
      BY <1>1, <2>1, <2>3, AssembledFrame
    <3>2. rx[n] = LF \/ len = SentenceSize - 1
      BY <1>5, <2>3
    <3>3. SentenceIsLine'
      BY <1>1, <1>2, <1>3, <2>1, <2>3, <3>1, <3>2 DEF SentenceIsLine
    <3> QED
      BY <2>3, <3>3 DEF Assembly
  <2>4. CASE /\ rx[n] # LF /\ pc' = "poll"
             /\ sentence' = Append(sentence, c) /\ sentence_length' = len + 1
    <3>1. /\ Len(sentence') = len + 1 /\ sentence'[len + 1] = c
          /\ \A i \in 1 .. len : sentence'[i] = sentence[i]
      BY <1>3, <2>4 DEF TypeOK
    <3>2. \A i \in 1 .. len + 1 : i = len + 1 \/ i \in 1 .. len
      OBVIOUS
    <3>3. \A i \in 1 .. len + 1 :
            /\ sentence'[i].id \in b + 1 .. n
            /\ sentence'[i].ch = rx[sentence'[i].id]
            /\ sentence'[i].ch # NUL
      <4> SUFFICES ASSUME NEW i \in 1 .. len + 1
                   PROVE  /\ sentence'[i].id \in b + 1 .. n
                          /\ sentence'[i].ch = rx[sentence'[i].id]
                          /\ sentence'[i].ch # NUL
        OBVIOUS
      <4>1. CASE i = len + 1
        BY <2>1, <2>2, <3>1, <4>1
      <4>2. CASE i \in 1 .. len
        BY <1>3, <1>4, <2>1, <3>1, <4>2 DEF Assembled
      <4> QED
        BY <3>2, <4>1, <4>2
    <3>4. \A i, j \in 1 .. len + 1 : i < j => sentence'[i].id < sentence'[j].id
      <4> SUFFICES ASSUME NEW i \in 1 .. len + 1, NEW j \in 1 .. len + 1, i < j
                   PROVE  sentence'[i].id < sentence'[j].id
        OBVIOUS
      <4>1. i \in 1 .. len /\ sentence[i].id \in b + 1 .. n - 1
        BY <1>3, <1>4, <2>1 DEF Assembled
      <4>2. CASE j = len + 1
        BY <2>1, <3>1, <4>1, <4>2
      <4>3. CASE j \in 1 .. len
        BY <1>3, <2>1, <3>1, <4>1, <4>3 DEF Assembled
      <4> QED
        BY <3>2, <4>2, <4>3
    <3>5. \A k \in b + 1 .. n :
            /\ rx[k] # LF
            /\ rx[k] # NUL => \E i \in 1 .. len + 1 : sentence'[i].id = k
      <4> SUFFICES ASSUME NEW k \in b + 1 .. n
                   PROVE  /\ rx[k] # LF
                          /\ rx[k] # NUL => \E i \in 1 .. len + 1 : sentence'[i].id = k
        OBVIOUS
      <4>1. CASE k = n
        BY <2>1, <2>4, <3>1, <4>1
      <4>2. CASE k \in b + 1 .. n - 1
        <5>1. /\ rx[k] # LF
              /\ rx[k] # NUL => \E i \in 1 .. len : sentence[i].id = k
          BY <1>3, <1>4, <2>1, <4>2 DEF Assembled
        <5> QED
          BY <3>1, <5>1
      <4> QED
        BY <2>2, <4>1, <4>2
    <3>6. Assembled(n)'
      BY <1>1, <1>4, <2>2, <3>1, <3>3, <3>4, <3>5 DEF Assembled
    <3> QED
      BY <1>1, <1>2, <2>4, <3>1, <3>6 DEF Assembly, SentenceIsLine
  <2> QED
    BY <1>5, <1>8, <2>1, <2>3, <2>4 DEF Handle
<1> QED
  BY <1>7, <1>8

(* Every step keeps the sentence and the stream in agreement. *)
LEMMA NextAssembly ==
  TypeOK /\ UnreadSlots /\ Assembly /\ [Next]_vars => Assembly'
<1> SUFFICES ASSUME TypeOK, UnreadSlots, Assembly, [Next]_vars PROVE Assembly'
  OBVIOUS
<1>1. CASE UNCHANGED vars
  BY <1>1 DEF vars, Assembly, SentenceIsLine, Assembled
<1> QED
  BY <1>1, InterruptAssembly, BeginAssembly, PollAssembly, HandleAssembly
  DEF Next, MainProgram

(* For every size of the ring and of the sentence, and every interleaving of  *)
(* the interrupt with the main program: what gps_get_sentence returns is one *)
(* line of the stream, or as much of it as fits, unless a character was lost *)
(* or read from past the buffer (gps.c:108-144).                            *)
THEOREM SentencesAreLines == Spec => []SentenceIsLine
<1>1. Init => Assembly
  BY InitAssembly
<1>2. TypeOK /\ UnreadSlots /\ Assembly /\ [Next]_vars => Assembly'
  BY NextAssembly
<1>3. TypeOK /\ Assembly => SentenceIsLine
  BY DEF Assembly, SentenceIsLine
<1> QED
  BY <1>1, <1>2, <1>3, TypeCorrect, RingCorrect, PTL DEF Spec

=============================================================================
