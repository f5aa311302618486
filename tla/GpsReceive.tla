------------------------------ MODULE GpsReceive ------------------------------
(***************************************************************************)
(* Reception of the GPS output (gps_logger/gps.c): the USART receive       *)
(* interrupt fills a circular buffer, and the main program takes           *)
(* characters out of it one by one and assembles a sentence.               *)
(*                                                                         *)
(* The interrupt may run between any two steps of the main program except  *)
(* inside the cli()/sei() section, so the section is one step (Poll) and   *)
(* what follows it another (Handle).                                       *)
(*                                                                         *)
(* Every stored character carries its position in the received stream (its *)
(* id); the program never looks at ids, the properties do.  Id 0 marks a   *)
(* character that was not received at all.                                 *)
(***************************************************************************)
EXTENDS Integers, Sequences

CONSTANTS
  BufferSize,     \* sizeof(buffer), 256 in the code
  SentenceSize,   \* sizeof(sentence), 127 in the code
  LF, NUL,        \* the end of line '\n' and the character '\0'
  Text,           \* every other character
  MaxReceived     \* bound on the characters the GPS sends

ASSUME SizesAssumption ==
  /\ BufferSize \in Nat \ {0}
  /\ SentenceSize \in Nat \ {0}
  /\ MaxReceived \in Nat

ASSUME CharsAssumption == LF # NUL /\ LF \notin Text /\ NUL \notin Text

VARIABLES
  buffer,           \* the circular buffer
  write_head_AT,    \* next slot the interrupt fills
  read_head,        \* next slot the main program reads
  sentence,         \* the string being assembled, without its terminator
  sentence_length,
  c,                \* the character the last poll took, NUL if none
  pc,               \* where the main program is
  rx,               \* history: all the characters received
  settled,          \* history: rx up to here was read, or overwritten unread
  start,            \* history: settled when the current sentence was begun
  tainted           \* history: the sentence lost or gained a character

vars == <<buffer, write_head_AT, read_head, sentence, sentence_length, c, pc,
          rx, settled, start, tainted>>

Char     == Text \cup {LF, NUL}
Cell     == [ch : Char, id : Nat]
NoCell   == [ch |-> NUL, id |-> 0]
Slots    == 0 .. BufferSize - 1
received == Len(rx)
unread   == received - settled

Init ==
  /\ buffer = [i \in Slots |-> NoCell]
  /\ write_head_AT = 0
  /\ read_head = 0
  /\ sentence = <<>>
  /\ sentence_length = 0
  /\ c = NoCell
  /\ pc = "boot"
  /\ rx = <<>>
  /\ settled = 0
  /\ start = 0
  /\ tainted = FALSE

-----------------------------------------------------------------------------
(* Mutant: the end of the array is noticed one slot too late. *)
NextWriteHeadLate(i) == IF i + 1 > BufferSize THEN 0 ELSE i + 1

(* The slot that follows i for the interrupt handler. *)
NextWriteHead(i) == IF i + 1 >= BufferSize THEN 0 ELSE i + 1

(* ISR(USARTC0_RXC_vect).  The handler never compares the heads: when a    *)
(* whole buffer is unread, one more character makes all of it unreachable. *)
RxInterrupt ==
  /\ received < MaxReceived
  /\ \E ch \in Char :
       /\ rx' = Append(rx, ch)
       /\ buffer' = [buffer EXCEPT ![write_head_AT] =
                                     [ch |-> ch, id |-> received + 1]]
  /\ write_head_AT' = NextWriteHead(write_head_AT)
  /\ LET laps == unread = BufferSize
     IN  /\ settled' = IF laps THEN received ELSE settled
         /\ tainted' = (tainted \/ laps)
  /\ UNCHANGED <<read_head, sentence, sentence_length, c, pc, start>>

(* Mutant: buffer[++read_head]. *)
CellsAtPreIncrement(i) == IF i + 1 < BufferSize THEN {buffer[i + 1]}
                                                ELSE [ch : Char, id : {0}]

(* What buffer[i] may yield.  One past the array lies whatever the linker   *)
(* put there.                                                              *)
CellsAt(i) == IF i < BufferSize THEN {buffer[i]}
                                ELSE [ch : Char, id : {0}]

(* Mutant: forgets that the interrupt's slot may have wrapped. *)
HasNewAbove == write_head_AT > read_head

(* Whether the poll finds a character to read. *)
HasNew == write_head_AT # read_head

(* Mutant: the last slot is never read. *)
WrapReadHeadEarly(i) == IF i >= BufferSize - 1 THEN 0 ELSE i

(* The slot to read next, once read_head has been advanced to i: the code   *)
(* resets it only after it has passed the end by one slot.                  *)
WrapReadHead(i) == IF i > BufferSize THEN 0 ELSE i

(* gps_get_sentence up to its first poll; the main program comes from the  *)
(* boot scan, or from handling the sentence before.                        *)
BeginSentence ==
  /\ pc \in {"boot", "returned"}
  /\ pc' = "poll"
  /\ sentence' = <<>>
  /\ sentence_length' = 0
  /\ start' = settled
  /\ tainted' = FALSE
  /\ UNCHANGED <<buffer, write_head_AT, read_head, c, rx, settled>>

(* The section between cli() and sei(). *)
Poll ==
  /\ pc = "poll"
  /\ pc' = "handle"
  /\ IF HasNew
       THEN \E cell \in CellsAt(read_head) :
              /\ c' = cell
              /\ read_head' = read_head + 1
              /\ settled' = IF cell.id = 0 THEN settled ELSE settled + 1
              /\ tainted' = (tainted \/ cell.id = 0)
       ELSE /\ c' = NoCell
            /\ UNCHANGED <<read_head, settled, tainted>>
  /\ UNCHANGED <<buffer, write_head_AT, sentence, sentence_length, rx, start>>

(* Mutant: the character is appended before it is compared with LF. *)
HandleAppendsLF ==
  /\ pc = "handle"
  /\ read_head' = WrapReadHead(read_head)
  /\ \/ /\ c.ch = NUL
        /\ pc' = "poll"
        /\ UNCHANGED <<sentence, sentence_length>>
     \/ /\ c.ch # NUL
        /\ sentence_length' = sentence_length + 1
        /\ IF sentence_length + 1 >= SentenceSize
             THEN pc' = "returned" /\ UNCHANGED sentence
             ELSE /\ sentence' = Append(sentence, c)
                  /\ pc' = IF c.ch = LF THEN "returned" ELSE "poll"
  /\ UNCHANGED <<buffer, write_head_AT, c, rx, settled, start, tainted>>

(* The rest of the loop body: append the character, or end the sentence at *)
(* LF or when it no longer fits (its last character then gives way to the   *)
(* terminator).                                                            *)
Handle ==
  /\ pc = "handle"
  /\ read_head' = WrapReadHead(read_head)
  /\ \/ /\ c.ch = NUL
        /\ pc' = "poll"
        /\ UNCHANGED <<sentence, sentence_length>>
     \/ /\ c.ch = LF
        /\ pc' = "returned"
        /\ UNCHANGED <<sentence, sentence_length>>
     \/ /\ c.ch \in Text
        /\ sentence_length' = sentence_length + 1
        /\ IF sentence_length + 1 >= SentenceSize
             THEN pc' = "returned" /\ UNCHANGED sentence
             ELSE pc' = "poll" /\ sentence' = Append(sentence, c)
  /\ UNCHANGED <<buffer, write_head_AT, c, rx, settled, start, tainted>>

MainProgram == BeginSentence \/ Poll \/ Handle

Next == RxInterrupt \/ MainProgram

(* The main program loops forever and nothing it waits for here can block   *)
(* it; what the GPS sends, and when, is not assumed.                        *)
Fairness == WF_vars(MainProgram)

Spec == Init /\ [][Next]_vars /\ Fairness

-----------------------------------------------------------------------------
(* Type invariant.  read_head may stand one slot past the array (the reset *)
(* is late) and, between poll and reset, one more.                         *)
TypeOK ==
  /\ buffer \in [Slots -> Cell]
  /\ write_head_AT \in Slots
  /\ read_head \in 0 .. BufferSize + 1
  /\ pc # "handle" => read_head <= BufferSize
  /\ sentence \in Seq(Cell)
  /\ sentence_length \in 0 .. SentenceSize
  /\ sentence_length = SentenceSize => pc = "returned"
  /\ c \in Cell
  /\ pc \in {"boot", "poll", "handle", "returned"}
  /\ rx \in Seq(Char)
  /\ settled \in Nat
  /\ start \in Nat
  /\ tainted \in BOOLEAN

(* How far slot i lies ahead of the reader, for whom the slot past the end *)
(* stands for slot 0.                                                      *)
ReaderSlot == IF read_head >= BufferSize THEN 0 ELSE read_head
Ahead(i)   == IF i >= ReaderSlot THEN i - ReaderSlot
                                 ELSE i - ReaderSlot + BufferSize

(* The two heads agree on how much is unread, up to the one ambiguity of   *)
(* this buffer (full looks empty), and the unread slots hold the last      *)
(* characters of the stream in order, whatever the interleaving and however *)
(* often the writer has lapped the reader.                                 *)
UnreadSlots ==
  /\ unread \in 0 .. BufferSize
  /\ IF unread = BufferSize THEN write_head_AT = ReaderSlot
                            ELSE Ahead(write_head_AT) = unread
  /\ \A i \in Slots : Ahead(i) < unread =>
       buffer[i] = [ch |-> rx[settled + 1 + Ahead(i)],
                    id |-> settled + 1 + Ahead(i)]

(* A poll that yields a received character yields the oldest one that has  *)
(* been neither read nor overwritten: none is read twice, out of order or  *)
(* torn, and none is passed over.                                          *)
InOrder ==
  [][c'.id # c.id /\ c'.id # 0 =>
       /\ c'.id = settled + 1
       /\ c'.ch = rx[settled + 1]]_vars

(* The sentence is made, in their order, of exactly those characters of the *)
(* stream after start and up to number n that are not NUL, which the code   *)
(* takes for "nothing received"; none of them is an LF.                    *)
Assembled(n) ==
  /\ n >= start
  /\ \A i \in 1 .. Len(sentence) :
       /\ sentence[i].id \in start + 1 .. n
       /\ sentence[i].ch = rx[sentence[i].id]
       /\ sentence[i].ch # NUL
  /\ \A i, j \in 1 .. Len(sentence) : i < j => sentence[i].id < sentence[j].id
  /\ \A k \in start + 1 .. n :
       /\ rx[k] # LF
       /\ rx[k] # NUL => \E i \in 1 .. Len(sentence) : sentence[i].id = k

(* gps_get_sentence returns exactly one line of the stream without its LF, *)
(* or SentenceSize characters of one of which it drops the last, unless a  *)
(* character was lost to a lap or read from past the buffer meanwhile.     *)
SentenceIsLine ==
  pc = "returned" /\ ~tainted =>
    /\ Assembled(settled - 1)
    /\ \/ rx[settled] = LF
       \/ rx[settled] # NUL /\ Len(sentence) = SentenceSize - 1

(* Unread characters are eventually consumed, except that exactly a full   *)
(* buffer looks like an empty one and may stay there.                      *)
Drain == (unread > 0) ~> (unread \in {0, BufferSize})

=============================================================================
