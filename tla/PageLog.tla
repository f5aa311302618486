-------------------------------- MODULE PageLog --------------------------------
(***************************************************************************)
(* The record log (gps_logger/gps.c): the boot scan of gps_init looks for  *)
(* the page to resume at, gps_add_to_flash_buffer collects records in RAM  *)
(* and programs a page of the Dataflash when it holds BUFFERED_RECORDS.    *)
(*                                                                         *)
(* A program runs inside the chip after DF_write_buffer has returned.  It  *)
(* survives a reset of the processor, but not the loss of power, after     *)
(* which the page may hold anything.                                       *)
(*                                                                         *)
(* Of a page the scan reads four bytes, the page's word.  The page image   *)
(* is written to the chip in such a way (module PageImage) that these four *)
(* bytes are not the counter of its header, as gps_init takes them for, but *)
(* the longitude of record WordRecord; so a record is abstracted to that    *)
(* word.                                                                   *)
(***************************************************************************)
EXTENDS Integers

CONSTANTS
  NumPages,         \* DF_NUM_PAGES, 32768 in the code
  BufferedRecords,  \* BUFFERED_RECORDS, 28 in the code
  WordRecord,       \* the record the word of a page comes from, 13
  Erased,           \* the word of an erased page, 0xFFFFFFFF
  Longitudes,       \* the words records hold
  IndexRange,       \* values of the uint8_t flash_buffer_index
  PageRange,        \* values of the uint16_t df_page
  MaxFlushes,       \* bound on the pages programmed
  MaxLosses         \* bound on the losses of power

ASSUME LogAssumption ==
  /\ NumPages \in Nat \ {0}
  /\ BufferedRecords \in Nat \ {0}
  /\ WordRecord \in 0 .. BufferedRecords - 1
  /\ Erased \in Nat \ {0}
  /\ Longitudes \subseteq 0 .. Erased - 1
  /\ IndexRange \in Nat /\ IndexRange > BufferedRecords
  /\ PageRange \in Nat /\ PageRange > NumPages
  /\ MaxFlushes \in Nat
  /\ MaxLosses \in Nat

VARIABLES
  flash,               \* the word of every page
  programming,         \* the program running inside the chip, or Idle
  df_page, df_page_counter,
  flash_buffer,        \* the words of the records held in RAM
  flash_buffer_index,
  page,                \* the scan's loop variable
  pc,                  \* where the main program is
  fresh,               \* history: no page was programmed since the reset
  flushes, losses      \* bounds

vars == <<flash, programming, df_page, df_page_counter, flash_buffer,
          flash_buffer_index, page, pc, fresh, flushes, losses>>

Pages == 0 .. NumPages - 1
Words == 0 .. Erased
Idle  == [page |-> NumPages, word |-> Erased]

(* memset(flash_buffer, 0xFF, sizeof(flash_buffer)) *)
BlankBuffer == [i \in 0 .. BufferedRecords - 1 |-> Erased]

(* A processor about to run gps_init: statics have their initial values. *)
Boot ==
  /\ df_page' = 0
  /\ df_page_counter' = 0
  /\ flash_buffer' = BlankBuffer
  /\ flash_buffer_index' = 0
  /\ page' = 0
  /\ pc' = "scan"
  /\ fresh' = TRUE

Init ==
  /\ flash \in [Pages -> {Erased}]
  /\ programming = Idle
  /\ df_page = 0
  /\ df_page_counter = 0
  /\ flash_buffer = BlankBuffer
  /\ flash_buffer_index = 0
  /\ page = 0
  /\ pc = "scan"
  /\ fresh = TRUE
  /\ flushes = 0
  /\ losses = 0

-----------------------------------------------------------------------------
(* gps_init *)

(* Mutant: the test for an erased page is missing. *)
ScanPageNoBreak ==
  /\ pc = "scan" /\ page < NumPages
  /\ programming = Idle
  /\ page' = page + 1
  /\ IF flash[page] > df_page_counter
       THEN df_page' = page + 1 /\ df_page_counter' = flash[page]
       ELSE UNCHANGED <<df_page, df_page_counter>>
  /\ UNCHANGED <<flash, programming, flash_buffer, flash_buffer_index, pc,
                 fresh, flushes, losses>>

(* Mutant: the loop variable is too narrow for DF_NUM_PAGES. *)
ScanPageNarrow ==
  /\ pc = "scan" /\ page < NumPages
  /\ programming = Idle
  /\ IF flash[page] = Erased
       THEN /\ df_page' = page
            /\ pc' = "wrap"
            /\ UNCHANGED <<df_page_counter, page>>
       ELSE /\ page' = (page + 1) % NumPages
            /\ IF flash[page] > df_page_counter
                 THEN /\ df_page' = page + 1
                      /\ df_page_counter' = flash[page]
                 ELSE UNCHANGED <<df_page, df_page_counter>>
            /\ UNCHANGED pc
  /\ UNCHANGED <<flash, programming, flash_buffer, flash_buffer_index, fresh,
                 flushes, losses>>

(* One round of the loop.  DF_start_array_read waits for the chip. *)
ScanPage ==
  /\ pc = "scan" /\ page < NumPages
  /\ programming = Idle
  /\ IF flash[page] = Erased
       THEN /\ df_page' = page
            /\ pc' = "wrap"
            /\ UNCHANGED <<df_page_counter, page>>
       ELSE /\ page' = page + 1
            /\ IF flash[page] > df_page_counter
                 THEN /\ df_page' = page + 1
                      /\ df_page_counter' = flash[page]
                 ELSE UNCHANGED <<df_page, df_page_counter>>
            /\ UNCHANGED pc
  /\ UNCHANGED <<flash, programming, flash_buffer, flash_buffer_index, fresh,
                 flushes, losses>>

(* Mutant: the last page in the flash was the highest, and nothing wraps. *)
FinishScanNoWrap ==
  /\ pc = "wrap" \/ (pc = "scan" /\ page >= NumPages)
  /\ pc' = "run"
  /\ UNCHANGED <<flash, programming, df_page, df_page_counter, flash_buffer,
                 flash_buffer_index, page, fresh, flushes, losses>>

(* What follows the loop. *)
FinishScan ==
  /\ pc = "wrap" \/ (pc = "scan" /\ page >= NumPages)
  /\ df_page' = IF df_page >= NumPages THEN 0 ELSE df_page
  /\ pc' = "run"
  /\ UNCHANGED <<flash, programming, df_page_counter, flash_buffer,
                 flash_buffer_index, page, fresh, flushes, losses>>

-----------------------------------------------------------------------------
(* gps_add_to_flash_buffer *)

(* Mutant: the index grows beyond its type. *)
CountUnbounded(i) ==
  /\ flash_buffer_index' = i + 1
  /\ pc' = IF i + 1 >= BufferedRecords THEN "flush" ELSE "run"

(* flash_buffer_index++, and whether the buffer is to be flushed. *)
Count(i) ==
  LET n == (i + 1) % IndexRange
  IN  /\ flash_buffer_index' = n
      /\ pc' = IF n >= BufferedRecords THEN "flush" ELSE "run"

(* A record is copied into the buffer. *)
AddRecord ==
  /\ pc = "run" /\ flash_buffer_index < BufferedRecords
  /\ \E w \in Longitudes :
       flash_buffer' = [flash_buffer EXCEPT ![flash_buffer_index] = w]
  /\ Count(flash_buffer_index)
  /\ UNCHANGED <<flash, programming, df_page, df_page_counter, page, fresh,
                 flushes, losses>>

(* Nothing resets flash_buffer_index, so the record after a flush is copied *)
(* past the end of the buffer.  Which statics lie there depends on the     *)
(* linker: any of these may be hit or spared, flash_buffer_index before the *)
(* code increments it.                                                     *)
AddPastEnd ==
  /\ pc = "run" /\ flash_buffer_index >= BufferedRecords
  /\ df_page' \in 0 .. PageRange - 1
  /\ df_page_counter' \in Words
  /\ \E i \in 0 .. IndexRange - 1 : Count(i)
  /\ UNCHANGED <<flash, programming, flash_buffer, page, fresh, flushes,
                 losses>>

(* Mutant: the chip is not waited for. *)
FlushNoWait ==
  /\ pc = "flush" /\ flushes < MaxFlushes
  /\ programming' = [page |-> df_page % NumPages,
                     word |-> flash_buffer[WordRecord]]
  /\ df_page_counter' = (df_page_counter + 1) % (Erased + 1)
  /\ df_page' = LET n == (df_page + 1) % PageRange
                IN  IF n >= NumPages THEN 0 ELSE n
  /\ flash_buffer' = BlankBuffer
  /\ pc' = "run"
  /\ fresh' = FALSE
  /\ flushes' = flushes + 1
  /\ UNCHANGED <<flash, flash_buffer_index, page, losses>>

(* The part of the function under "if": the image of the page goes to the   *)
(* chip, once that is ready, and its program starts.  The chip decodes      *)
(* fifteen bits of the page number.                                        *)
Flush ==
  /\ pc = "flush" /\ flushes < MaxFlushes
  /\ programming = Idle
  /\ programming' = [page |-> df_page % NumPages,
                     word |-> flash_buffer[WordRecord]]
  /\ df_page_counter' = (df_page_counter + 1) % (Erased + 1)
  /\ df_page' = LET n == (df_page + 1) % PageRange
                IN  IF n >= NumPages THEN 0 ELSE n
  /\ flash_buffer' = BlankBuffer
  /\ pc' = "run"
  /\ fresh' = FALSE
  /\ flushes' = flushes + 1
  /\ UNCHANGED <<flash, flash_buffer_index, page, losses>>

-----------------------------------------------------------------------------
(* The chip and the outside world. *)

(* What becomes of the page being programmed. *)
Stored(w) == flash' = [flash EXCEPT ![programming.page] = w]

(* The program ends. *)
Programmed ==
  /\ programming # Idle
  /\ Stored(programming.word)
  /\ programming' = Idle
  /\ UNCHANGED <<df_page, df_page_counter, flash_buffer, flash_buffer_index,
                 page, pc, fresh, flushes, losses>>

(* The watchdog: gps_get_sentence does not reset it while the GPS is        *)
(* silent.  The chip keeps its power and finishes what it does.            *)
WatchdogReset ==
  /\ pc = "run"
  /\ Boot
  /\ UNCHANGED <<flash, programming, flushes, losses>>

(* Power is lost.  A program with built-in erase may not have begun, or may *)
(* leave the page erased, torn or complete.                                *)
PowerLoss ==
  /\ losses < MaxLosses
  /\ losses' = losses + 1
  /\ Boot
  /\ programming' = Idle
  /\ \/ UNCHANGED flash
     \/ programming # Idle /\ \E w \in Words : Stored(w)
  /\ UNCHANGED flushes

MainProgram == ScanPage \/ FinishScan \/ AddRecord \/ AddPastEnd \/ Flush

Next == MainProgram \/ Programmed \/ WatchdogReset \/ PowerLoss

(* The chip finishes what it started, and gps_init runs without waiting for *)
(* anything else.  Whether records come is up to the GPS.                  *)
Fairness == WF_vars(Programmed) /\ WF_vars(ScanPage \/ FinishScan)

Spec == Init /\ [][Next]_vars /\ Fairness

-----------------------------------------------------------------------------
(* Type invariant.  Outside the wrap check at the end of the scan the page  *)
(* to program next may be out of range only after a record was copied past *)
(* the end of the buffer.                                                  *)
TypeOK ==
  /\ flash \in [Pages -> Words]
  /\ programming = Idle \/ programming \in [page : Pages, word : Words]
  /\ df_page \in 0 .. PageRange - 1
  /\ df_page_counter \in Words
  /\ flash_buffer \in [0 .. BufferedRecords - 1 -> Words]
  /\ flash_buffer_index \in 0 .. IndexRange - 1
  /\ page \in 0 .. NumPages
  /\ pc \in {"scan", "wrap", "run", "flush"}
  /\ fresh \in BOOLEAN
  /\ flushes \in Nat
  /\ losses \in Nat

(* Page p is the first one that reads as erased. *)
FirstErased(p) == flash[p] = Erased /\ \A q \in 0 .. p - 1 : flash[q] # Erased

(* Page p has the highest word of the first n pages, and is the first that  *)
(* has it.                                                                 *)
FirstHighest(p, n) == /\ \A q \in 0 .. n - 1 : flash[q] <= flash[p]
                      /\ \A q \in 0 .. p - 1 : flash[q] < flash[p]

(* The boot scan of the flash finds the first page that reads as erased, if  *)
(* there is one, and a page of the flash in any case: even when it follows a *)
(* watchdog reset during a program or a power loss that tore one, and it is  *)
(* still what the next flush will program when its first record arrives.     *)
(* (Of a flash with no such page only the latter is claimed: "oldest record" *)
(* is then judged by words that are not counters.)                         *)
ScanFindsErased ==
  pc \in {"run", "flush"} /\ fresh =>
    /\ df_page \in Pages
    /\ (\E q \in Pages : flash[q] = Erased) => FirstErased(df_page)

(* Which page the scan settles on, for want of an erased one that after the  *)
(* highest word; page 0 if no word is above zero.                           *)
Resumes(p) ==
  \/ FirstErased(p)
  \/ /\ \A q \in Pages : flash[q] # Erased
     /\ \/ \E h \in Pages : /\ FirstHighest(h, NumPages) /\ flash[h] > 0
                            /\ p = (h + 1) % NumPages
        \/ p = 0 /\ \A q \in Pages : flash[q] = 0

(* What the code computes, whatever the words are: the page so defined.      *)
ScanResult ==
  pc \in {"run", "flush"} /\ fresh =>
    /\ df_page \in Pages
    /\ Resumes(df_page)

(* A page that reads as written is not replaced by the first flush after a  *)
(* reset as long as the flash has a page that reads as erased.             *)
FirstFlushSparesPages ==
  [][fresh /\ ~fresh' /\ flash[programming'.page] # Erased =>
       \A q \in Pages : flash[q] # Erased]_vars

(* The log asks of the Dataflash what its driver and the chip provide (see  *)
(* ImplementsStore of module Dataflash), on the words of the pages: it      *)
(* starts one program at a time, no step but the end of one or a power loss *)
(* changes a page, and then only its own, and every program ends.          *)
Store == INSTANCE PageStore WITH
           array   <- flash,
           Data    <- Words,
           Blank   <- Erased,
           pending <- [pages |-> Pages \cap {programming.page},
                       data  |-> programming.word]

UsesStore == Store!Spec

(* Every boot gets through its scan of the flash, unless it is cut short by *)
(* another reset; it waits for a program left running, never for ever.     *)
BootCompletes == pc = "scan" ~> pc = "run"

(* "Add a record to the flash buffer": the next record has a place in it.   *)
RecordHasPlace == pc = "run" => flash_buffer_index < BufferedRecords

===============================================================================
