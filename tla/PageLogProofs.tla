----------------------------- MODULE PageLogProofs -----------------------------
(***************************************************************************)
(* Proofs about PageLog, for every number of pages and records, every set  *)
(* of words and any number of resets.                                      *)
(***************************************************************************)
EXTENDS PageLog, TLAPS

(* The remainders the code takes, explicitly or by the width of a type.     *)
LEMMA Remainders ==
  ASSUME NEW a \in Nat, NEW n \in Nat \ {0}
  PROVE  /\ a % n \in 0 .. n - 1
         /\ a < n => a % n = a
         /\ n % n = 0
  BY SMT

(* Booting sets every variable of the processor to a value of its type. *)
LEMMA BootType ==
  ASSUME Boot
  PROVE  /\ df_page' \in 0 .. PageRange - 1
         /\ df_page_counter' \in Words
         /\ flash_buffer' \in [0 .. BufferedRecords - 1 -> Words]
         /\ flash_buffer_index' \in 0 .. IndexRange - 1
         /\ page' \in 0 .. NumPages
         /\ pc' = "scan"
         /\ fresh' = TRUE
  BY LogAssumption DEF Boot, Words, BlankBuffer

(* What Count does to the index. *)
LEMMA CountType ==
  ASSUME NEW i \in 0 .. IndexRange - 1, Count(i)
  PROVE  /\ flash_buffer_index' \in 0 .. IndexRange - 1
         /\ pc' \in {"run", "flush"}
         /\ pc' = "run" => flash_buffer_index' < BufferedRecords
<1>1. i + 1 \in Nat /\ IndexRange \in Nat \ {0}
  BY LogAssumption
<1>2. (i + 1) % IndexRange \in 0 .. IndexRange - 1
  BY <1>1, Remainders
<1> QED
  BY <1>2, LogAssumption DEF Count

(* A page being programmed gets a word. *)
LEMMA StoredType ==
  ASSUME TypeOK, NEW w \in Words, Stored(w)
  PROVE  flash' \in [Pages -> Words]
  BY DEF Stored, TypeOK

(* The types hold in the initial state. *)
LEMMA InitType == Init => TypeOK
  BY LogAssumption DEF Init, TypeOK, Words, BlankBuffer, Pages

(* Every step preserves the types. *)
LEMMA NextType == TypeOK /\ [Next]_vars => TypeOK'
<1> SUFFICES ASSUME TypeOK, [Next]_vars PROVE TypeOK'
  OBVIOUS
<1> USE LogAssumption
<1>1. CASE ScanPage
  <2>1. page \in Pages /\ page + 1 \in 0 .. NumPages /\ flash[page] \in Words
    BY <1>1 DEF ScanPage, TypeOK, Pages
  <2>2. /\ df_page' \in 0 .. PageRange - 1
        /\ df_page_counter' \in Words
        /\ page' \in 0 .. NumPages
        /\ pc' \in {"scan", "wrap"}
    BY <1>1, <2>1 DEF ScanPage, TypeOK, Pages
  <2> QED
    BY <1>1, <2>2 DEF ScanPage, TypeOK
<1>2. CASE FinishScan
  BY <1>2 DEF FinishScan, TypeOK, Pages, Words
<1>3. CASE AddRecord
  <2>1. flash_buffer' \in [0 .. BufferedRecords - 1 -> Words]
    BY <1>3 DEF AddRecord, TypeOK, Words
  <2>2. flash_buffer_index' \in 0 .. IndexRange - 1 /\ pc' \in {"run", "flush"}
    BY <1>3, CountType DEF AddRecord, TypeOK
  <2> QED
    BY <1>3, <2>1, <2>2 DEF AddRecord, TypeOK
<1>4. CASE AddPastEnd
  <2>1. flash_buffer_index' \in 0 .. IndexRange - 1 /\ pc' \in {"run", "flush"}
    BY <1>4, CountType DEF AddPastEnd
  <2> QED
    BY <1>4, <2>1 DEF AddPastEnd, TypeOK
<1>5. CASE Flush
  <2>1. df_page % NumPages \in Pages
    BY Remainders DEF TypeOK, Pages
  <2>2. flash_buffer[WordRecord] \in Words
    BY DEF TypeOK
  <2>3. flushes' \in Nat
    BY <1>5 DEF Flush, TypeOK
  <2>4. programming' \in [page : Pages, word : Words]
    BY <1>5, <2>1, <2>2, <2>3 DEF Flush
  <2>5. df_page_counter' \in Words
    <3>1. df_page_counter + 1 \in Nat /\ Erased + 1 \in Nat \ {0}
      BY DEF TypeOK, Words
    <3>2. (df_page_counter + 1) % (Erased + 1) \in 0 .. (Erased + 1) - 1
      BY <3>1, Remainders
    <3> QED
      BY <1>5, <3>2 DEF Flush, Words
  <2>6. df_page' \in 0 .. PageRange - 1
    BY <1>5 DEF Flush, TypeOK
  <2>7. flash_buffer' \in [0 .. BufferedRecords - 1 -> Words]
    BY <1>5 DEF Flush, BlankBuffer, Words
  <2> QED
    BY <1>5, <2>3, <2>4, <2>5, <2>6, <2>7 DEF Flush, TypeOK
<1>6. CASE Programmed
  <2>1. flash' \in [Pages -> Words]
    BY <1>6, StoredType DEF Programmed, TypeOK
  <2> QED
    BY <1>6, <2>1 DEF Programmed, TypeOK
<1>7. CASE WatchdogReset
  BY <1>7, BootType DEF WatchdogReset, TypeOK
<1>8. CASE PowerLoss
  <2>1. flash' \in [Pages -> Words]
    BY <1>8, StoredType DEF PowerLoss, TypeOK
  <2> QED
    BY <1>8, <2>1, BootType DEF PowerLoss, TypeOK
<1>9. CASE UNCHANGED vars
  BY <1>9 DEF vars, TypeOK
<1> QED
  BY <1>1, <1>2, <1>3, <1>4, <1>5, <1>6, <1>7, <1>8, <1>9
     DEF Next, MainProgram

(* Type correctness of the log. *)
THEOREM TypeCorrect == Spec => []TypeOK
<1>1. Init => TypeOK
  BY InitType
<1>2. TypeOK /\ [Next]_vars => TypeOK'
  BY NextType
<1> QED
  BY <1>1, <1>2, PTL DEF Spec

-----------------------------------------------------------------------------
(* What the scan knows after n pages: none of them reads as erased, and     *)
(* df_page follows the first of those with the highest word above zero.     *)
Scanned(n) ==
  /\ \A q \in 0 .. n - 1 : flash[q] # Erased
  /\ \/ /\ df_page = 0 /\ df_page_counter = 0
        /\ \A q \in 0 .. n - 1 : flash[q] = 0
     \/ /\ df_page \in 1 .. n
        /\ df_page_counter = flash[df_page - 1]
        /\ df_page_counter > 0
        /\ FirstHighest(df_page - 1, n)

(* The inductive invariant.  The flash may still change when the scan has   *)
(* read no page yet (a program outlives a watchdog reset), but not from     *)
(* then on until the first flush.                                          *)
Resuming ==
  /\ pc = "scan" => Scanned(page)
  /\ pc = "wrap" => df_page \in Pages /\ FirstErased(df_page)
  /\ pc \in {"run", "flush"} /\ fresh => df_page \in Pages /\ Resumes(df_page)
  /\ fresh => programming = Idle \/ (pc = "scan" /\ page = 0)
  /\ fresh /\ pc # "flush" => flash_buffer_index < BufferedRecords
  /\ pc \in {"scan", "wrap"} => fresh

(* Nothing has been scanned when the program starts. *)
LEMMA ScannedNone ==
  ASSUME df_page = 0, df_page_counter = 0 PROVE Scanned(0)
  BY DEF Scanned

(* A boot starts the scan. *)
LEMMA BootResuming == ASSUME TypeOK, Boot PROVE Resuming'
  BY LogAssumption DEF Boot, Resuming, Scanned

(* Nothing of the log changed that the invariant looks at. *)
LEMMA ResumingFrame ==
  ASSUME Resuming,
         UNCHANGED <<flash, programming, df_page, df_page_counter, page, pc,
                     fresh, flash_buffer_index>>
  PROVE  Resuming'
  BY DEF Resuming, Scanned, Resumes, FirstErased, FirstHighest

(* One more page has been scanned. *)
LEMMA ScanPageResuming == TypeOK /\ Resuming /\ ScanPage => Resuming'
<1> SUFFICES ASSUME TypeOK, Resuming, ScanPage PROVE Resuming'
  OBVIOUS
<1> USE LogAssumption
<1>1. /\ pc = "scan" /\ fresh /\ page \in Pages /\ programming = Idle
      /\ flash \in [Pages -> Nat]
      /\ Scanned(page)
      /\ flash_buffer_index < BufferedRecords
  BY DEF ScanPage, Resuming, TypeOK, Pages, Words
<1>2. CASE flash[page] = Erased
  <2>1. pc' = "wrap" /\ df_page' = page /\ flash' = flash
    BY <1>2 DEF ScanPage
  <2>2. FirstErased(page)
    BY <1>1, <1>2 DEF FirstErased, Scanned
  <2>3. FirstErased(df_page)'
    BY <2>1, <2>2 DEF FirstErased
  <2> QED
    BY <1>1, <2>1, <2>3 DEF Resuming, ScanPage
<1>3. CASE flash[page] # Erased
  <2>1. pc' = "scan" /\ page' = page + 1 /\ flash' = flash
    BY <1>1, <1>3 DEF ScanPage
  <2>2. \A q \in 0 .. page' - 1 : flash'[q] # Erased
    BY <1>1, <1>3, <2>1 DEF Scanned, Pages
  <2>3. CASE flash[page] > df_page_counter
    <3>1. df_page' = page + 1 /\ df_page_counter' = flash[page]
      BY <1>3, <2>3 DEF ScanPage
    <3>2. \A q \in 0 .. page - 1 : flash[q] < flash[page]
      <4>1. \A q \in 0 .. page - 1 : flash[q] <= df_page_counter
        BY <1>1 DEF Scanned, FirstHighest, Pages
      <4> QED
        BY <1>1, <2>3, <4>1 DEF Pages, TypeOK, Words
    <3>3. \A q \in 0 .. page : flash[q] <= flash[page]
      <4>1. \A q \in 0 .. page : q \in 0 .. page - 1 \/ q = page
        BY <1>1 DEF Pages
      <4>2. \A q \in 0 .. page - 1 : flash[q] \in Nat
        BY <1>1 DEF Pages
      <4>3. flash[page] \in Nat
        BY <1>1
      <4> QED
        BY <3>2, <4>1, <4>2, <4>3
    <3>4. df_page_counter' > 0
      BY <1>1, <2>3, <3>1 DEF TypeOK, Words, Pages
    <3>5. Scanned(page)'
      <4>1. df_page' - 1 = page /\ page' - 1 = page /\ df_page' \in 1 .. page'
        BY <1>1, <2>1, <3>1 DEF Pages
      <4>2. FirstHighest(df_page - 1, page)'
        BY <2>1, <3>2, <3>3, <4>1 DEF FirstHighest
      <4> QED
        BY <2>1, <2>2, <3>1, <3>4, <4>1, <4>2 DEF Scanned
    <3> QED
      BY <1>1, <2>1, <3>5 DEF Resuming, ScanPage
  <2>4. CASE ~(flash[page] > df_page_counter)
    <3>1. df_page' = df_page /\ df_page_counter' = df_page_counter
      BY <1>3, <2>4 DEF ScanPage
    <3>2. flash[page] <= df_page_counter
      BY <1>1, <2>4 DEF TypeOK, Words
    <3>3. \A q \in 0 .. page' - 1 : q \in 0 .. page - 1 \/ q = page
      BY <1>1, <2>1 DEF Pages
    <3>4. ASSUME df_page = 0, df_page_counter = 0 PROVE Scanned(page)'
      <4>1. flash[page] = 0
        BY <1>1, <3>2, <3>4
      <4>2. \A q \in 0 .. page' - 1 : flash'[q] = 0
        BY <1>1, <2>1, <3>3, <3>4, <4>1 DEF Scanned
      <4> QED
        BY <2>2, <3>1, <3>4, <4>2 DEF Scanned
    <3>5. ASSUME df_page \in 1 .. page PROVE Scanned(page)'
      <4>1. /\ df_page_counter = flash[df_page - 1] /\ df_page_counter > 0
            /\ FirstHighest(df_page - 1, page)
        BY <1>1, <3>5 DEF Scanned, Pages
      <4>2. FirstHighest(df_page - 1, page)'
        BY <2>1, <3>1, <3>2, <3>3, <4>1 DEF FirstHighest
      <4>3. df_page' \in 1 .. page'
        BY <1>1, <2>1, <3>1, <3>5 DEF Pages
      <4> QED
        BY <2>1, <2>2, <3>1, <4>1, <4>2, <4>3 DEF Scanned
    <3>6. Scanned(page)'
      BY <1>1, <3>4, <3>5 DEF Scanned
    <3> QED
      BY <1>1, <2>1, <3>6 DEF Resuming, ScanPage
  <2> QED
    BY <2>3, <2>4
<1> QED
  BY <1>2, <1>3

(* The end of the scan: the wrap of df_page is that of the page after the   *)
(* highest one.                                                            *)
LEMMA FinishScanResuming == TypeOK /\ Resuming /\ FinishScan => Resuming'
<1> SUFFICES ASSUME TypeOK, Resuming, FinishScan PROVE Resuming'
  OBVIOUS
<1> USE LogAssumption
<1>1. fresh /\ fresh' /\ programming' = programming /\ flash' = flash
      /\ pc' = "run" /\ flash_buffer_index' < BufferedRecords
  BY DEF FinishScan, Resuming
<1>2. programming = Idle
  BY DEF FinishScan, Resuming
<1>3. df_page' \in Pages /\ Resumes(df_page')
  <2>1. CASE pc = "wrap"
    <3>1. df_page \in Pages /\ FirstErased(df_page)
      BY <2>1 DEF Resuming
    <3>2. df_page' = df_page
      BY <3>1 DEF FinishScan, Pages
    <3> QED
      BY <3>1, <3>2 DEF Resumes
  <2>2. CASE pc = "scan"
    <3>1. page = NumPages /\ Scanned(NumPages)
      BY <2>2 DEF FinishScan, Resuming, TypeOK
    <3>2. \A q \in Pages : flash[q] # Erased
      BY <3>1 DEF Scanned, Pages
    <3>3. CASE df_page = 0 /\ \A q \in 0 .. NumPages - 1 : flash[q] = 0
      BY <3>2, <3>3 DEF FinishScan, Resumes, Pages
    <3>4. CASE /\ df_page \in 1 .. NumPages
               /\ flash[df_page - 1] > 0
               /\ FirstHighest(df_page - 1, NumPages)
      <4>1. df_page' = df_page % NumPages
        <5>1. df_page \in Nat /\ NumPages \in Nat \ {0}
          BY <3>4
        <5>2. /\ df_page < NumPages => df_page % NumPages = df_page
              /\ NumPages % NumPages = 0
          BY <5>1, Remainders
        <5> QED
          BY <3>4, <5>2 DEF FinishScan
      <4>2. df_page - 1 \in Pages /\ df_page = (df_page - 1) + 1
        BY <3>4 DEF Pages
      <4>3. \E h \in Pages : /\ FirstHighest(h, NumPages) /\ flash[h] > 0
                             /\ df_page' = (h + 1) % NumPages
        BY <3>4, <4>1, <4>2
      <4>4. df_page' \in Pages
        BY <3>4 DEF FinishScan, Pages
      <4> QED
        BY <3>2, <4>3, <4>4 DEF Resumes
    <3> QED
      BY <3>1, <3>3, <3>4 DEF Scanned
  <2>3. pc \in {"wrap", "scan"}
    BY DEF FinishScan
  <2> QED
    BY <2>1, <2>2, <2>3
<1>4. Resumes(df_page)'
  BY <1>1, <1>3 DEF Resumes, FirstErased, FirstHighest
<1> QED
  BY <1>1, <1>2, <1>3, <1>4 DEF Resuming

(* While the log is fresh, records only fill the buffer. *)
LEMMA AddRecordResuming == TypeOK /\ Resuming /\ AddRecord => Resuming'
<1> SUFFICES ASSUME TypeOK, Resuming, AddRecord PROVE Resuming'
  OBVIOUS
<1>1. /\ pc' \in {"run", "flush"}
      /\ pc' = "run" => flash_buffer_index' < BufferedRecords
  BY CountType DEF AddRecord, TypeOK
<1>2. UNCHANGED <<flash, programming, df_page, fresh>> /\ pc = "run"
  BY DEF AddRecord
<1>3. fresh => df_page' \in Pages /\ Resumes(df_page)'
  BY <1>2 DEF Resuming, Resumes, FirstErased, FirstHighest
<1> QED
  BY <1>1, <1>2, <1>3 DEF Resuming

(* Every step preserves the invariant. *)
LEMMA NextResuming == TypeOK /\ Resuming /\ [Next]_vars => Resuming'
<1> SUFFICES ASSUME TypeOK, Resuming, [Next]_vars PROVE Resuming'
  OBVIOUS
<1>1. CASE ScanPage
  BY <1>1, ScanPageResuming
<1>2. CASE FinishScan
  BY <1>2, FinishScanResuming
<1>3. CASE AddRecord
  BY <1>3, AddRecordResuming
<1>4. CASE AddPastEnd
  <2>1. ~fresh /\ ~fresh'
    BY <1>4, LogAssumption DEF AddPastEnd, Resuming, TypeOK
  <2>2. pc' \in {"run", "flush"}
    BY <1>4, CountType DEF AddPastEnd
  <2> QED
    BY <2>1, <2>2 DEF Resuming
<1>5. CASE Flush
  BY <1>5 DEF Flush, Resuming
<1>6. CASE Programmed
  <2>1. CASE fresh
    <3>1. pc = "scan" /\ page = 0
      BY <1>6, <2>1 DEF Programmed, Resuming
    <3>2. df_page = 0 /\ df_page_counter = 0
      BY <3>1 DEF Resuming, Scanned
    <3> QED
      BY <1>6, <3>1, <3>2 DEF Programmed, Resuming, Scanned
  <2>2. CASE ~fresh
    BY <1>6, <2>2 DEF Programmed, Resuming
  <2> QED
    BY <2>1, <2>2
<1>7. CASE WatchdogReset
  BY <1>7, BootResuming DEF WatchdogReset
<1>8. CASE PowerLoss
  BY <1>8, BootResuming DEF PowerLoss
<1>9. CASE UNCHANGED vars
  BY <1>9, ResumingFrame DEF vars
<1> QED
  BY <1>1, <1>2, <1>3, <1>4, <1>5, <1>6, <1>7, <1>8, <1>9
     DEF Next, MainProgram

(* The invariant holds in every state. *)
LEMMA AlwaysResuming == Spec => []Resuming
<1>1. Init => Resuming
  BY LogAssumption DEF Init, Resuming, Scanned
<1>2. TypeOK /\ Resuming /\ [Next]_vars => Resuming'
  BY NextResuming
<1> QED
  BY <1>1, <1>2, TypeCorrect, PTL DEF Spec

(* Which page the boot scan (gps.c:75-100) settles on, whatever the resets,   *)
(* power losses and records before it did to the flash.                    *)
THEOREM ScanFindsResumePage == Spec => []ScanResult
<1>1. Resuming => ScanResult
  BY DEF Resuming, ScanResult
<1> QED
  BY <1>1, AlwaysResuming, PTL

(* If any page reads as erased, that is the first such page.                 *)
THEOREM ScanFindsErasedPage == Spec => []ScanFindsErased
<1>1. ScanResult => ScanFindsErased
  BY DEF ScanResult, Resumes, ScanFindsErased
<1> QED
  BY <1>1, ScanFindsResumePage, PTL

(* The first page programmed after a reset (gps.c:215) replaces one that    *)
(* reads as written only if no page reads as erased.                       *)
THEOREM FirstFlushIsSafe == Spec => FirstFlushSparesPages
<1>1. TypeOK /\ Resuming /\ [Next]_vars =>
        [fresh /\ ~fresh' /\ flash[programming'.page] # Erased =>
           \A q \in Pages : flash[q] # Erased]_vars
  <2> SUFFICES ASSUME TypeOK, Resuming, [Next]_vars, fresh, ~fresh',
                      flash[programming'.page] # Erased
               PROVE  \A q \in Pages : flash[q] # Erased
    OBVIOUS
  <2>1. Flush
    BY DEF Next, MainProgram, ScanPage, FinishScan, AddRecord, AddPastEnd,
           Programmed, WatchdogReset, PowerLoss, Boot, vars
  <2>2. df_page \in Pages /\ Resumes(df_page)
    BY <2>1 DEF Flush, Resuming
  <2>3. programming'.page = df_page
    <3>1. df_page \in Nat /\ NumPages \in Nat \ {0} /\ df_page < NumPages
      BY <2>2, LogAssumption DEF Pages
    <3>2. df_page % NumPages = df_page
      BY <3>1, Remainders
    <3> QED
      BY <2>1, <3>2 DEF Flush
  <2> QED
    BY <2>2, <2>3 DEF Resumes, FirstErased
<1> QED
  BY <1>1, TypeCorrect, AlwaysResuming, PTL DEF Spec, FirstFlushSparesPages

(* Idle is seen as no operation. *)
LEMMA SeenIdle ==
  [pages |-> Pages \cap {Idle.page}, data |-> Idle.word] = Store!Nothing
<1>1. NumPages \notin Pages
  BY LogAssumption DEF Pages
<1>2. Pages \cap {NumPages} = {}
  BY <1>1
<1> QED
  BY <1>2 DEF Idle, Store!Nothing

(* Of the program that runs in the chip the store sees page and word; of    *)
(* none it sees nothing.                                                   *)
LEMMA SeenProgram ==
  ASSUME TypeOK
  PROVE  /\ programming = Idle =>
              [pages |-> Pages \cap {programming.page},
               data  |-> programming.word] = Store!Nothing
         /\ programming # Idle =>
              /\ programming.page \in Pages
              /\ Pages \cap {programming.page} = {programming.page}
              /\ programming.word \in Words
              /\ [pages |-> Pages \cap {programming.page},
                  data  |-> programming.word] # Store!Nothing
<1>2. CASE programming = Idle
  BY <1>2, SeenIdle
<1>3. CASE programming # Idle
  <2>1. programming \in [page : Pages, word : Words]
    BY <1>3 DEF TypeOK
  <2>2. Pages \cap {programming.page} = {programming.page}
    BY <2>1
  <2> QED
    BY <1>3, <2>1, <2>2 DEF Store!Nothing
<1> QED
  BY <1>2, <1>3

(* A flush begins an operation of the store. *)
LEMMA FlushBegins ==
  ASSUME TypeOK, TypeOK', Flush
  PROVE  Store!Next
<1>1. df_page % NumPages \in Pages
  BY Remainders, LogAssumption DEF TypeOK, Pages
<1>2. flash_buffer[WordRecord] \in Words
  BY LogAssumption DEF TypeOK
<1>3. /\ programming'.page \in Pages /\ programming'.word \in Words
      /\ programming = Idle
      /\ UNCHANGED <<flash, losses>>
  BY <1>1, <1>2 DEF Flush
<1>4. /\ Pages \cap {programming'.page} \in SUBSET Pages
      /\ Pages \cap {programming'.page} # {}
  BY <1>3
<1>5. Store!Begin(Pages \cap {programming'.page}, programming'.word)
  BY <1>3, <1>4, SeenProgram DEF Store!Begin
<1> QED
  BY <1>3, <1>4, <1>5 DEF Store!Next

(* The end of a program is the end of the operation. *)
LEMMA ProgrammedEnds ==
  ASSUME TypeOK, TypeOK', Programmed
  PROVE  Store!End
<1>1. programming # Idle /\ programming' = Idle /\ UNCHANGED losses
  BY DEF Programmed
<1>2. flash' = [flash EXCEPT ![programming.page] = programming.word]
  BY DEF Programmed, Stored
<1>3. flash' = [p \in Pages |-> IF p \in Pages \cap {programming.page}
                                  THEN programming.word ELSE flash[p]]
  BY <1>2 DEF TypeOK
<1>4. [pages |-> Pages \cap {programming'.page},
       data  |-> programming'.word] = Store!Nothing
  BY <1>1, SeenIdle
<1> QED
  BY <1>1, <1>3, <1>4, SeenProgram DEF Store!End

(* Power is lost in the store too. *)
LEMMA PowerLossLoses ==
  ASSUME TypeOK, TypeOK', PowerLoss
  PROVE  Store!PowerLoss
<1>1. losses' = losses + 1 /\ programming' = Idle
  BY DEF PowerLoss
<1>2. flash' \in [Pages -> Words]
  BY DEF TypeOK
<1>3. \A p \in Pages \ (Pages \cap {programming.page}) : flash'[p] = flash[p]
  <2>1. CASE UNCHANGED flash
    BY <2>1
  <2>2. CASE \E w \in Words : Stored(w)
    BY <2>2 DEF Stored, TypeOK
  <2> QED
    BY <2>1, <2>2 DEF PowerLoss
<1>4. [pages |-> Pages \cap {programming'.page},
       data  |-> programming'.word] = Store!Nothing
  BY <1>1, SeenIdle
<1> QED
  BY <1>1, <1>2, <1>3, <1>4 DEF Store!PowerLoss

(* All the log does to the Dataflash (gps.c:187-221) is to begin a program  *)
(* of one page when none is running; whatever happens to the processor, the *)
(* pages change only as an operation ends or power is lost.  This is the    *)
(* safety part of UsesStore.                                               *)
THEOREM LogUsesStore == Spec => Store!Safety
<1>1. Init => Store!Init
  <2> SUFFICES ASSUME Init PROVE Store!Init
    OBVIOUS
  <2>1. TypeOK
    BY InitType
  <2> QED
    BY <2>1, SeenProgram DEF Init, Store!Init, TypeOK
<1>2. TypeOK /\ TypeOK' /\ [Next]_vars => [Store!Next]_(Store!vars)
  <2> SUFFICES ASSUME TypeOK, TypeOK', [Next]_vars
               PROVE  Store!Next \/ UNCHANGED <<flash, programming, losses>>
    BY DEF Store!vars
  <2>1. CASE ScanPage \/ FinishScan \/ AddRecord \/ AddPastEnd
    BY <2>1 DEF ScanPage, FinishScan, AddRecord, AddPastEnd
  <2>2. CASE Flush
    BY <2>2, FlushBegins
  <2>3. CASE Programmed
    BY <2>3, ProgrammedEnds DEF Store!Next
  <2>4. CASE WatchdogReset
    BY <2>4 DEF WatchdogReset
  <2>5. CASE PowerLoss
    BY <2>5, PowerLossLoses DEF Store!Next
  <2>6. CASE UNCHANGED vars
    BY <2>6 DEF vars
  <2> QED
    BY <2>1, <2>2, <2>3, <2>4, <2>5, <2>6 DEF Next, MainProgram
<1> QED
  BY <1>1, <1>2, TypeCorrect, PTL DEF Spec, Store!Safety

=============================================================================
