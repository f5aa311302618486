------------------------------ MODULE CdcRxProofs ------------------------------
(***************************************************************************)
(* Proofs about module CdcRx, for every size of packets and buffers, every   *)
(* number of bytes, connections and interrupts.                            *)
(***************************************************************************)
EXTENDS CdcRx, Integers, TLAPS

(* The hardware receives, or has received, for a job that fills the buffer   *)
(* which is not current.  Between the swap of udi_cdc_rx_start and its job    *)
(* only a new connection brings another job, and nothing is received then.   *)
Endpoint ==
  /\ busy => rx_trans_ongoing
  /\ busy /\ ~enabled => count = 0
  /\ enabled /\ (armed \/ tc) => busy /\ target = Other(rx_buf_sel)
  /\ enabled /\ tc => ~armed
  /\ settling => ~tc
  /\ pc \in {"run", "lock"} =>
       /\ rx_trans_ongoing
       /\ busy => settling
       /\ enabled /\ ~busy => trans = Other(rx_buf_sel)

(* The buffers hold bytes that were received, whenever that was. *)
Stored == \A b \in Buffers : \A i \in 0 .. rx_buf_nb[b] - 1 : rx_buf[b][i] >= 1

(* The current buffer has nothing, from index i on, but bytes of an earlier   *)
(* connection, and none was read in this one.                               *)
IsOld(i) ==
  /\ got = start
  /\ \A j \in i .. rx_buf_nb[rx_buf_sel] - 1 : rx_buf[rx_buf_sel][j] \in 1 .. start

(* The host has set up the interface since the snapshot of udi_cdc_getc, and  *)
(* has sent nothing since.                                                 *)
SetUpMeanwhile == settling /\ IsOld(0)

(* The snapshot is still true. *)
Fresh == pos = rx_pos /\ buf_sel = rx_buf_sel

(* What udi_cdc_getc knows of the buffers is still true, or leads nowhere, or *)
(* leads to a byte of an earlier connection.                                *)
Pass ==
  /\ pc = "compare" =>
       \/ Fresh
       \/ buf_sel # rx_buf_sel /\ rx_pos < rx_buf_nb[rx_buf_sel]
       \/ SetUpMeanwhile /\ (pos < rx_buf_nb[buf_sel] =>
                               rx_buf[buf_sel][pos] \in 1 .. start)
  /\ pc = "read" =>
       \/ Fresh /\ pos < rx_buf_nb[rx_buf_sel]
       \/ SetUpMeanwhile /\ rx_buf[buf_sel][pos] \in 1 .. start
  /\ pc = "advance" =>
       \/ Fresh /\ pos < rx_buf_nb[rx_buf_sel]
       \/ SetUpMeanwhile

(* Where reading will go on in the current buffer. *)
At == IF pc = "advance" THEN pos + 1 ELSE rx_pos

(* The rest of the current buffer is of an earlier connection, or ends with  *)
(* byte base ...                                                            *)
Current(base) ==
  \/ IsOld(At) /\ base = got
  \/ /\ At <= rx_buf_nb[rx_buf_sel]
     /\ base = got + (rx_buf_nb[rx_buf_sel] - At)
     /\ \A i \in At .. rx_buf_nb[rx_buf_sel] - 1 :
          rx_buf[rx_buf_sel][i] = got + 1 + (i - At)

(* ... and the n bytes of the other buffer come after it. *)
Others(n, base) ==
  \A i \in 0 .. n - 1 : rx_buf[Other(rx_buf_sel)][i] = base + 1 + i

Following(base) ==
  /\ ~rx_trans_ongoing =>
       /\ Others(rx_buf_nb[Other(rx_buf_sel)], base)
       /\ enabled => base + rx_buf_nb[Other(rx_buf_sel)] = put
  /\ enabled /\ rx_trans_ongoing =>
       IF armed \/ tc THEN base + count = put /\ Others(count, base)
                      ELSE base = put

InLine == \E base \in 0 .. put : Current(base) /\ Following(base)

(* All of this holds until interrupts outrun a pass. *)
Sound == Endpoint /\ Stored /\ Pass /\ InLine

IInv == TypeOK /\ (outrun \/ Sound)

-----------------------------------------------------------------------------
(* Integers *)

(* Two multiples of n are at least n apart, and the next one is a multiple. *)
LEMMA NextMultiple ==
  ASSUME NEW n \in Nat \ {0}, NEW c \in Nat, NEW r \in Nat,
         c % n = 0, r % n = 0, c < r
  PROVE  c + n <= r /\ (c + n) % n = 0
<1> DEFINE q == c \div n
           p == r \div n
<1>1. q \in Nat /\ p \in Nat /\ c = n * q /\ r = n * p
  BY SMT
<1> HIDE DEF q, p
<1>2. q < p
  <2> SUFFICES ASSUME q >= p PROVE FALSE
    BY <1>1, SMT
  <2>1. n * q >= n * p
    BY <1>1, SMT
  <2> QED
    BY <1>1, <2>1, SMT
<1>3. n * q + n <= n * p
  <2>1. p - q - 1 \in Nat
    BY <1>1, <1>2, SMT
  <2>2. n * (p - q - 1) >= 0
    BY <2>1, SMT
  <2> QED
    BY <1>1, <2>2, SMT
<1>4. (c + n) % n = 0
  BY <1>1, SMT
<1> QED
  BY <1>1, <1>3, <1>4

(* There are two buffers. *)
LEMMA OtherBuffer == \A b \in Buffers : Other(b) \in Buffers /\ Other(Other(b)) = b
                                         /\ Other(b) # b
  BY DEF Buffers, Other

(* Nothing is enabled, received or read in the initial state. *)
LEMMA InitInv == Init => IInv
<1> SUFFICES ASSUME Init PROVE IInv
  OBVIOUS
<1> USE RxAssumption
<1>1. TypeOK
  <2>1. /\ {data_running, configured, rx_trans_ongoing} \subseteq BOOLEAN
        /\ {enabled, armed, tc, busy, databit_9} \subseteq BOOLEAN
        /\ {settling, outrun} \subseteq BOOLEAN
        /\ ~armed
    BY DEF Init
  <2>2. /\ rx_buf \in [Buffers -> [0 .. RxBuffers - 1 -> 0 .. put]]
        /\ rx_buf_nb \in [Buffers -> 0 .. RxBuffers]
    BY DEF Init
  <2>3. /\ {rx_buf_sel, target, buf_sel, trans} \subseteq Buffers
        /\ {rx_pos, count, pos} \subseteq 0 .. RxBuffers
    BY DEF Init, Buffers
  <2> QED
    BY <2>1, <2>2, <2>3 DEF Init, TypeOK
<1>2. Endpoint /\ Stored /\ Pass
  BY DEF Init, Endpoint, Stored, Pass, Buffers
<1>3. Current(0) /\ Following(0)
  <2>1. At = 0 /\ got = 0 /\ start = 0 /\ rx_buf_nb[rx_buf_sel] = 0
        /\ rx_buf_nb[Other(rx_buf_sel)] = 0 /\ ~enabled
    BY DEF Init, At, Buffers, Other
  <2> QED
    BY <2>1 DEF Current, IsOld, Following, Others
<1>4. 0 \in 0 .. put
  BY DEF Init
<1> QED
  BY <1>1, <1>2, <1>3, <1>4 DEF IInv, Sound, InLine

-----------------------------------------------------------------------------
(* Types: interrupts may outrun a pass, but every index stays in its buffer. *)

LEMMA GetcTypes == ASSUME TypeOK, Getc PROVE TypeOK'
<1>1. CASE CallGetc \/ Snapshot \/ TryAgain \/ GiveUp
  <2>1. /\ UNCHANGED <<class, rx_buf, configured, ep, put, got, start, race, setups,
                       trans>>
        /\ pc' \in {"idle", "snapshot", "compare"} /\ databit_9' \in BOOLEAN
        /\ pos' \in {pos, rx_pos} /\ buf_sel' \in {buf_sel, rx_buf_sel}
    BY <1>1 DEF CallGetc, Snapshot, TryAgain, GiveUp, others, history, TypeOK
  <2> QED
    BY <2>1 DEF TypeOK, class, ep, race
<1>2. CASE Compare
  <2>1. /\ UNCHANGED <<class, rx_buf, configured, ep, put, got, start, setups, pos,
                       buf_sel, trans, databit_9>>
        /\ pc' = IF Empty THEN "test" ELSE "read"
        /\ settling' \in BOOLEAN /\ outrun' \in BOOLEAN
    BY <1>2 DEF Compare, others, history, TypeOK
  <2>2. pos \in Nat /\ rx_buf_nb[buf_sel] \in 0 .. RxBuffers /\ RxBuffers \in Nat
    BY RxAssumption DEF TypeOK
  <2>3. pc' \in {"read", "advance"} => pos < RxBuffers
    BY <2>1, <2>2 DEF Empty
  <2> QED
    BY <2>1, <2>3 DEF TypeOK, class, ep
<1>3. CASE Read
  <2>1. /\ UNCHANGED <<class, rx_buf, configured, ep, put, start, race, setups, pos,
                       buf_sel, trans, databit_9>>
        /\ pc = "read" /\ pc' = "advance"
        /\ got' \in {got, rx_buf[buf_sel][pos]}
        /\ got' = rx_buf[buf_sel][pos] => rx_buf[buf_sel][pos] > start \/ got' = got
    BY <1>3 DEF Read
  <2>2. pos \in 0 .. RxBuffers - 1
    <3>1. pos \in 0 .. RxBuffers /\ pos < RxBuffers /\ RxBuffers \in Nat
      BY <2>1, RxAssumption DEF TypeOK
    <3> QED
      BY <3>1
  <2>3. rx_buf[buf_sel][pos] \in 0 .. put /\ put \in Nat
        /\ got \in 0 .. put /\ start \in 0 .. got
    <3>1. rx_buf \in [Buffers -> [0 .. RxBuffers - 1 -> 0 .. put]] /\ buf_sel \in Buffers
      BY DEF TypeOK
    <3>2. rx_buf[buf_sel][pos] \in 0 .. put
      BY <2>2, <3>1
    <3> QED
      BY <3>2 DEF TypeOK
  <2>4. got' \in 0 .. put /\ start \in 0 .. got'
    BY <2>1, <2>3
  <2> QED
    BY <2>1, <2>4 DEF TypeOK, class, ep, race
<1>4. CASE Advance
  <2>1. /\ UNCHANGED <<data_running, rx_buf_nb, rx_buf_sel, rx_trans_ongoing, others,
                       outrun, pos, buf_sel, trans, databit_9>>
        /\ pc = "advance" /\ pc' = "start" /\ rx_pos' = pos + 1 /\ settling' = FALSE
    BY <1>4 DEF Advance
  <2>2. pos \in 0 .. RxBuffers /\ pos < RxBuffers /\ RxBuffers \in Nat
    BY <2>1, RxAssumption DEF TypeOK
  <2>3. pos + 1 \in 0 .. RxBuffers
    BY <2>2
  <2> QED
    BY <2>1, <2>3 DEF TypeOK, others, history, ep
<1>5. CASE SkipStart \/ CheckEnabled \/ JobBusy
  <2>1. /\ UNCHANGED <<class, others, outrun, pos, buf_sel, trans>>
        /\ pc' \in {"snapshot", "idle", "lock"} /\ databit_9' \in BOOLEAN
        /\ settling' \in BOOLEAN
    BY <1>5 DEF SkipStart, CheckEnabled, JobBusy, EndPass, TypeOK
  <2> QED
    BY <2>1 DEF TypeOK, class, others, history, ep
<1>6. CASE SwapBuffers
  <2>1. /\ UNCHANGED <<data_running, rx_buf_nb, others, race, pos, buf_sel, databit_9>>
        /\ pc' = "run" /\ trans' = rx_buf_sel /\ rx_pos' = 0
        /\ rx_buf_sel' = Other(rx_buf_sel) /\ rx_trans_ongoing' = TRUE
    BY <1>6 DEF SwapBuffers, Swap
  <2>2. rx_buf_sel' \in Buffers /\ 0 \in 0 .. RxBuffers
    BY <2>1, OtherBuffer, RxAssumption DEF TypeOK
  <2> QED
    BY <2>1, <2>2 DEF TypeOK, others, history, ep, race
<1>7. CASE RunJob
  <2>1. /\ UNCHANGED <<class, rx_buf, configured, enabled, tc, put, got, start, outrun,
                       setups, pos, buf_sel, trans>>
        /\ pc' \in {"snapshot", "idle"} /\ databit_9' = FALSE /\ settling' = FALSE
        /\ busy' = TRUE /\ target' = trans /\ count' = 0 /\ armed' = TRUE
    BY <1>7 DEF RunJob, Run, EndPass, history
  <2>2. count' % EpSize = 0 /\ count' < RxBuffers /\ count' \in 0 .. RxBuffers
    BY <2>1, RxAssumption
  <2> QED
    BY <2>1, <2>2 DEF TypeOK, class
<1> QED
  BY <1>1, <1>2, <1>3, <1>4, <1>5, <1>6, <1>7 DEF Getc

LEMMA InterruptTypes ==
  ASSUME TypeOK, TransferComplete \/ Disable
  PROVE  TypeOK'
<1>1. CASE StaleTransfer \/ Disable
  <2>1. /\ UNCHANGED <<rx_buf, rx_buf_nb, rx_buf_sel, rx_pos, rx_trans_ongoing,
                       target, count, getc, history, race, setups>>
        /\ {data_running', configured', enabled', armed', tc', busy'} \subseteq BOOLEAN
        /\ armed' => armed
    <3>1. ASSUME StaleTransfer PROVE <2>1
      <4>1. /\ UNCHANGED <<class, rx_buf, configured, enabled, armed, busy, target,
                           count, getc, history, race, setups>>
            /\ tc' = FALSE
        BY <3>1 DEF StaleTransfer
      <4> QED
        BY <4>1 DEF class, TypeOK
    <3>2. ASSUME Disable PROVE <2>1
      <4>1. /\ UNCHANGED <<rx_buf, rx_buf_nb, rx_buf_sel, rx_pos, rx_trans_ongoing,
                           tc, target, count, getc, history, race, setups>>
            /\ configured' \in {configured, FALSE} /\ ~enabled' /\ ~armed' /\ ~busy'
            /\ ~data_running' /\ enabled' \in BOOLEAN /\ armed' \in BOOLEAN
            /\ busy' \in BOOLEAN /\ data_running' \in BOOLEAN
        BY <3>2 DEF Disable
      <4> QED
        BY <4>1 DEF TypeOK
    <3> QED
      BY <1>1, <3>1, <3>2
  <2> QED
    BY <2>1 DEF TypeOK, getc, history, race
<1>2. Other(rx_buf_sel) \in Buffers /\ 0 \in 0 .. RxBuffers /\ 0 % EpSize = 0
      /\ 0 < RxBuffers
  BY OtherBuffer, RxAssumption DEF TypeOK
<1>3. rx_buf_nb' = [rx_buf_nb EXCEPT ![Other(rx_buf_sel)] = count] =>
        rx_buf_nb' \in [Buffers -> 0 .. RxBuffers]
  BY DEF TypeOK
<1>4. CASE EmptyTransfer
  <2>1. /\ UNCHANGED <<class, rx_buf, configured, enabled, getc, history, race, setups>>
        /\ tc' = FALSE /\ busy' = TRUE /\ target' = Other(rx_buf_sel) /\ count' = 0
        /\ armed' = TRUE
    BY <1>4 DEF EmptyTransfer, Run
  <2> QED
    BY <1>2, <2>1 DEF TypeOK, class, getc, history, race
<1>5. CASE StoreTransfer
  <2>1. /\ UNCHANGED <<data_running, rx_buf, rx_buf_sel, rx_pos, configured,
                       enabled, armed, target, count, getc, history, race, setups>>
        /\ tc' = FALSE /\ busy' = FALSE /\ rx_trans_ongoing' = FALSE
        /\ rx_buf_nb' = [rx_buf_nb EXCEPT ![Other(rx_buf_sel)] = count]
    BY <1>5 DEF StoreTransfer
  <2> QED
    BY <1>3, <2>1 DEF TypeOK, getc, history, race
<1>6. CASE SwapTransfer
  <2>1. /\ UNCHANGED <<data_running, rx_buf, configured, enabled, getc, history, race,
                       setups>>
        /\ tc' = FALSE /\ busy' = TRUE /\ target' = rx_buf_sel /\ count' = 0
        /\ armed' = TRUE /\ rx_trans_ongoing' = TRUE /\ rx_pos' = 0
        /\ rx_buf_sel' = Other(rx_buf_sel)
        /\ rx_buf_nb' = [rx_buf_nb EXCEPT ![Other(rx_buf_sel)] = count]
    BY <1>6 DEF SwapTransfer, Swap, Run
  <2> QED
    BY <1>2, <1>3, <2>1 DEF TypeOK, getc, history, race
<1> QED
  BY <1>1, <1>4, <1>5, <1>6 DEF TransferComplete

LEMMA SetUpTypes == ASSUME TypeOK, Enable \/ FailEnable PROVE TypeOK'
<1>1. 0 \in Buffers /\ 1 \in Buffers /\ 0 \in 0 .. RxBuffers /\ 0 % EpSize = 0
      /\ 0 < RxBuffers
  BY RxAssumption DEF Buffers
<1>2. /\ UNCHANGED <<rx_buf, getc, put, outrun>>
      /\ setups' = setups + 1
      /\ configured' = TRUE /\ enabled' = TRUE /\ tc' = FALSE
      /\ rx_buf_sel' = 1 /\ rx_buf_nb' = [rx_buf_nb EXCEPT ![0] = 0]
      /\ rx_pos' = 0 /\ rx_trans_ongoing' = TRUE
      /\ got' = put /\ start' = put
      /\ settling' \in BOOLEAN
  <2>1. Reinit
    BY DEF Enable, FailEnable
  <2>2. MidPass \in BOOLEAN
    BY DEF MidPass
  <2> QED
    BY <2>1, <2>2 DEF Reinit
<1>3. /\ {busy', data_running', armed'} \subseteq BOOLEAN
      /\ target' \in Buffers /\ count' \in 0 .. RxBuffers
      /\ armed' => count' = 0
  <2>1. ASSUME Enable PROVE <1>3
    BY <1>1, <2>1 DEF Enable, Run
  <2>2. ASSUME FailEnable PROVE <1>3
    BY <2>2 DEF FailEnable, TypeOK
  <2> QED
    BY <2>1, <2>2
<1>4. /\ rx_buf_nb' \in [Buffers -> 0 .. RxBuffers]
      /\ setups' \in Nat /\ got' \in 0 .. put' /\ start' \in 0 .. got'
  BY <1>1, <1>2 DEF TypeOK
<1> QED
  BY <1>1, <1>2, <1>3, <1>4 DEF TypeOK, getc

(* A packet fits into the rest of the buffer. *)
LEMMA PacketTypes ==
  ASSUME TypeOK, NEW n \in 0 .. EpSize, HostPacket(n)
  PROVE  /\ TypeOK'
         /\ count + n \in 0 .. RxBuffers
         /\ rx_buf'[target] = [i \in 0 .. RxBuffers - 1 |->
                                 IF i \in count .. count + n - 1
                                   THEN put + 1 + i - count ELSE rx_buf[target][i]]
         /\ \A b \in Buffers : b # target => rx_buf'[b] = rx_buf[b]
<1> DEFINE Filled == [i \in 0 .. RxBuffers - 1 |->
                        IF i \in count .. count + n - 1 THEN put + 1 + i - count
                                                        ELSE rx_buf[target][i]]
<1>1. /\ UNCHANGED <<class, configured, enabled, busy, target, getc, got, start, out,
                     settling, setups>>
      /\ armed
      /\ put' = put + n /\ count' = count + n
      /\ armed' = ~EndsTransfer(n) /\ tc' = EndsTransfer(n)
      /\ outrun' = (outrun \/ settling)
      /\ rx_buf' = [rx_buf EXCEPT ![target] = Filled]
  BY DEF HostPacket
<1>2. /\ rx_buf \in [Buffers -> [0 .. RxBuffers - 1 -> 0 .. put]]
      /\ target \in Buffers
      /\ put \in Nat /\ count \in Nat /\ n \in Nat /\ n <= EpSize
      /\ EpSize \in Nat \ {0} /\ RxBuffers \in Nat \ {0} /\ RxBuffers % EpSize = 0
      /\ count % EpSize = 0 /\ count < RxBuffers
  <2>1. /\ rx_buf \in [Buffers -> [0 .. RxBuffers - 1 -> 0 .. put]]
        /\ target \in Buffers /\ put \in Nat /\ count \in 0 .. RxBuffers
        /\ count % EpSize = 0 /\ count < RxBuffers
    BY <1>1 DEF TypeOK
  <2>2. /\ EpSize \in Nat \ {0} /\ RxBuffers \in Nat \ {0} /\ RxBuffers % EpSize = 0
    BY RxAssumption
  <2>3. n \in Nat /\ n <= EpSize /\ count \in Nat
    BY <2>1, <2>2
  <2> QED
    BY <2>1, <2>2, <2>3
<1>3. count + EpSize <= RxBuffers /\ (count + EpSize) % EpSize = 0
  BY <1>2, NextMultiple
<1>4. count + n \in 0 .. RxBuffers /\ put' \in Nat
  BY <1>1, <1>2, <1>3
<1>5. armed' => count' % EpSize = 0 /\ count' < RxBuffers
  <2> SUFFICES ASSUME armed' PROVE count' % EpSize = 0 /\ count' < RxBuffers
    OBVIOUS
  <2>1. ~(n < EpSize) /\ count + n # RxBuffers
    BY <1>1 DEF EndsTransfer
  <2>2. n = EpSize
    BY <1>2, <2>1
  <2> QED
    BY <1>1, <1>2, <1>3, <2>1, <2>2
<1>6. Filled \in [0 .. RxBuffers - 1 -> 0 .. put']
  <2> SUFFICES ASSUME NEW i \in 0 .. RxBuffers - 1
               PROVE  (IF i \in count .. count + n - 1
                         THEN put + 1 + i - count ELSE rx_buf[target][i]) \in 0 .. put'
    OBVIOUS
  <2>1. rx_buf[target][i] \in 0 .. put
    BY <1>2
  <2>2. i \in count .. count + n - 1 => put + 1 + i - count \in 0 .. put + n
    BY <1>2
  <2> QED
    BY <1>1, <1>2, <2>1, <2>2
<1> HIDE DEF Filled
<1>7. /\ rx_buf'[target] = Filled
      /\ \A b \in Buffers : b # target => rx_buf'[b] = rx_buf[b]
  BY <1>1, <1>2
<1>8. rx_buf' \in [Buffers -> [0 .. RxBuffers - 1 -> 0 .. put']]
  <2>1. \A b \in Buffers : b # target => rx_buf[b] \in [0 .. RxBuffers - 1 -> 0 .. put']
    <3>1. 0 .. put \subseteq 0 .. put'
      BY <1>1, <1>2
    <3> QED
      BY <1>2, <3>1
  <2> QED
    BY <1>1, <1>2, <1>6, <2>1
<1>9. {enabled', armed', tc', busy', databit_9', settling', outrun'} \subseteq BOOLEAN
  <2>1. armed' \in BOOLEAN /\ tc' \in BOOLEAN /\ outrun' \in BOOLEAN
    BY <1>1 DEF EndsTransfer, TypeOK
  <2> QED
    BY <1>1, <2>1 DEF TypeOK, getc
<1>10. {rx_pos', count', pos'} \subseteq 0 .. RxBuffers
  BY <1>1, <1>4 DEF TypeOK, class, getc
<1>11. got' \in 0 .. put' /\ start' \in 0 .. got'
  <2>1. got \in 0 .. put /\ start \in 0 .. got
    BY DEF TypeOK
  <2> QED
    BY <1>1, <1>2, <2>1
<1>12. TypeOK'
  BY <1>1, <1>4, <1>5, <1>8, <1>9, <1>10, <1>11 DEF TypeOK, class, getc
<1> QED
  BY <1>4, <1>7, <1>12 DEF Filled

LEMMA NextTypes == ASSUME TypeOK, [Next]_vars PROVE TypeOK'
<1>1. CASE UNCHANGED vars
  BY <1>1 DEF TypeOK, vars, class, ep, getc, history, race
<1> QED
  BY <1>1, GetcTypes, InterruptTypes, SetUpTypes, PacketTypes DEF Next

-----------------------------------------------------------------------------
(* Steps of udi_cdc_getc that change neither the buffers nor the endpoint,   *)
(* and come neither from nor to a byte that is read and still in the buffer. *)
LEMMA LocalKeeps ==
  ASSUME Sound,
         UNCHANGED <<class, rx_buf, configured, ep, put, got, start, setups>>,
         pc # "advance", pc' # "advance"
  PROVE  Stored' /\ InLine'
<1>1. UNCHANGED <<data_running, rx_buf_nb, rx_buf_sel, rx_pos, rx_trans_ongoing,
                  rx_buf, enabled, armed, tc, count, put, got, start>> /\ At' = At
  BY DEF class, ep, At
<1>2. Stored'
  BY <1>1 DEF Sound, Stored
<1>3. PICK base \in 0 .. put : Current(base) /\ Following(base)
  BY DEF Sound, InLine
<1>4. Current(base)' /\ Following(base)'
  BY <1>1, <1>3 DEF Current, IsOld, Following, Others
<1> QED
  BY <1>1, <1>2, <1>4 DEF InLine

(* The call, the end of an attempt and the snapshot. *)
LEMMA BeginKeeps ==
  ASSUME TypeOK, Sound, CallGetc \/ Snapshot \/ TryAgain \/ GiveUp
  PROVE  Sound'
<1>1. Endpoint
  BY DEF Sound
<1>2. /\ UNCHANGED <<class, rx_buf, configured, ep, put, got, start, setups>>
      /\ UNCHANGED settling
      /\ pc \in {"idle", "snapshot", "test"} /\ pc' \in {"snapshot", "compare", "idle"}
      /\ pc' = "compare" => pos' = rx_pos /\ buf_sel' = rx_buf_sel
  BY DEF CallGetc, Snapshot, TryAgain, GiveUp, class, ep, others, history, race
<1>3. Stored' /\ InLine'
  BY <1>2, LocalKeeps
<1>4. Endpoint' /\ Pass'
  BY <1>1, <1>2 DEF Endpoint, Pass, Fresh, class, ep
<1> QED
  BY <1>3, <1>4 DEF Sound

(* What looks like data is data, or of an earlier connection. *)
LEMMA CompareKeeps == ASSUME TypeOK, Sound, Compare, ~outrun' PROVE Sound'
<1>1. Endpoint /\ Pass
  BY DEF Sound
<1>2. /\ UNCHANGED <<class, rx_buf, configured, ep, put, got, start, setups>>
      /\ UNCHANGED <<pos, buf_sel, trans, databit_9>>
      /\ pc = "compare" /\ pc' = IF Empty THEN "test" ELSE "read"
      /\ settling' = (settling /\ ~Empty)
      /\ ~Empty => buf_sel = rx_buf_sel
  BY DEF Compare, class, ep, others, history
<1>3. pos \in Nat /\ rx_buf_nb[buf_sel] \in Nat
  <2>1. RxBuffers \in Nat
    BY RxAssumption
  <2> QED
    BY <2>1 DEF TypeOK
<1>4. pc' = "read" => pos < rx_buf_nb[buf_sel] /\ (settling' <=> settling)
  <2>1. pc' = "read" => ~Empty
    BY <1>2
  <2>2. ~Empty => pos < rx_buf_nb[buf_sel]
    BY <1>3 DEF Empty
  <2> QED
    BY <1>2, <2>1, <2>2
<1>5. Stored' /\ InLine'
  BY <1>2, LocalKeeps
<1>6. Endpoint'
  BY <1>1, <1>2 DEF Endpoint, class, ep
<1>7. Pass'
  <2>1. UNCHANGED <<rx_buf_nb, rx_buf_sel, rx_pos, rx_buf, got, start>>
    BY <1>2 DEF class
  <2>2. pc' = "read" => SetUpMeanwhile' = SetUpMeanwhile
    BY <1>4, <2>1 DEF SetUpMeanwhile, IsOld
  <2>3. pc' = "read" => buf_sel = rx_buf_sel
    BY <1>2
  <2> QED
    BY <1>1, <1>2, <1>4, <2>1, <2>2, <2>3 DEF Pass, Fresh
<1> QED
  BY <1>5, <1>6, <1>7 DEF Sound

(* Steps behind the byte that leave the buffers alone. *)
LEMMA EndsKeep ==
  ASSUME TypeOK, Sound, SkipStart \/ CheckEnabled \/ JobBusy
  PROVE  Sound'
<1>1. Endpoint
  BY DEF Sound
<1>2. /\ UNCHANGED <<class, rx_buf, configured, ep, put, got, start, setups>>
      /\ UNCHANGED <<pos, buf_sel, trans>>
      /\ pc \in {"start", "run", "lock"} /\ pc' \in {"snapshot", "idle", "lock"}
      /\ pc' = "lock" => pc = "run" /\ settling' = settling
      /\ settling' => settling
  BY DEF SkipStart, CheckEnabled, JobBusy, EndPass, class, ep, others, history
<1>3. Stored' /\ InLine'
  BY <1>2, LocalKeeps
<1>4. Endpoint' /\ Pass'
  BY <1>1, <1>2 DEF Endpoint, Pass, class, ep
<1> QED
  BY <1>3, <1>4 DEF Sound

(* When all of the current buffer is old, the new bytes begin after it. *)
LEMMA OldEnds ==
  ASSUME TypeOK, IsOld(0), NEW base, Current(base)
  PROVE  base = got
<1>1. /\ got \in Nat /\ start \in Nat /\ rx_buf_nb[rx_buf_sel] \in Nat /\ At \in Nat
  BY DEF TypeOK, At
<1>2. CASE ~(IsOld(At) /\ base = got)
  <2>1. /\ At <= rx_buf_nb[rx_buf_sel]
        /\ base = got + (rx_buf_nb[rx_buf_sel] - At)
        /\ \A i \in At .. rx_buf_nb[rx_buf_sel] - 1 :
             rx_buf[rx_buf_sel][i] = got + 1 + (i - At)
    BY <1>2 DEF Current
  <2>2. CASE At < rx_buf_nb[rx_buf_sel]
    <3>1. At \in At .. rx_buf_nb[rx_buf_sel] - 1 /\ At \in 0 .. rx_buf_nb[rx_buf_sel] - 1
      BY <1>1, <2>2
    <3>2. rx_buf[rx_buf_sel][At] = got + 1 + (At - At)
      BY <2>1, <3>1
    <3>3. rx_buf[rx_buf_sel][At] \in 1 .. start /\ got = start
      BY <3>1 DEF IsOld
    <3> QED
      BY <1>1, <3>2, <3>3
  <2> QED
    BY <1>1, <2>1, <2>2
<1> QED
  BY <1>2

(* A byte is read: the next one of this connection, or one of an earlier one *)
(* before the first of this.                                               *)
LEMMA ReadIsNext ==
  ASSUME TypeOK, Sound, Read
  PROVE  /\ Sound'
         /\ Channel!Next
<1> DEFINE sel  == rx_buf_sel
           byte == rx_buf[buf_sel][pos]
<1>1. Endpoint /\ Stored /\ Pass
  BY DEF Sound
<1>2. /\ UNCHANGED <<data_running, rx_buf_nb, rx_buf_sel, rx_pos, rx_trans_ongoing,
                     rx_buf, configured, enabled, armed, tc, busy, target, count,
                     put, start, setups, pos, buf_sel, trans, databit_9, settling>>
      /\ pc = "read" /\ pc' = "advance"
      /\ out' = <<byte>>
      /\ got' = IF byte > start THEN byte ELSE got
  BY DEF Read, class, ep, race
<1>3. /\ pos \in 0 .. RxBuffers - 1 /\ rx_pos \in Nat /\ RxBuffers \in Nat
      /\ byte \in 0 .. put /\ put \in Nat /\ got \in 0 .. put /\ start \in 0 .. got
      /\ rx_buf_nb[sel] \in Nat
  <2>1. /\ pos \in 0 .. RxBuffers /\ pos < RxBuffers /\ buf_sel \in Buffers
        /\ sel \in Buffers /\ rx_pos \in 0 .. RxBuffers
        /\ put \in Nat /\ got \in 0 .. put /\ start \in 0 .. got
        /\ rx_buf \in [Buffers -> [0 .. RxBuffers - 1 -> 0 .. put]]
        /\ rx_buf_nb \in [Buffers -> 0 .. RxBuffers]
    BY <1>2 DEF TypeOK
  <2>2. pos \in 0 .. RxBuffers - 1 /\ RxBuffers \in Nat
    BY <2>1, RxAssumption
  <2> QED
    BY <2>1, <2>2
<1>4. PICK base \in 0 .. put : Current(base) /\ Following(base)
  BY DEF Sound, InLine
<1>5. At = rx_pos /\ At' = pos + 1
  BY <1>2 DEF At
<1>6. \/ pos = rx_pos /\ buf_sel = sel /\ pos < rx_buf_nb[sel]
      \/ SetUpMeanwhile /\ byte \in 1 .. start
  BY <1>1, <1>2 DEF Pass, Fresh
<1> HIDE DEF sel, byte
(* A byte of an earlier connection. *)
<1>7. ASSUME byte \in 1 .. start, got = start PROVE Channel!Next /\ got' = got
  <2>1. got' = got
    BY <1>2, <1>3, <1>7
  <2>2. Channel!TakeOld
    BY <1>2, <1>7, <2>1 DEF Channel!TakeOld
  <2> QED
    BY <2>1, <2>2 DEF Channel!Next
<1>8. ASSUME SetUpMeanwhile, byte \in 1 .. start
      PROVE  Channel!Next /\ got' \in start .. put /\ Pass' /\ Current(base)'
  <2>1. Channel!Next /\ got' = got /\ got = start
    BY <1>7, <1>8 DEF SetUpMeanwhile, IsOld
  <2>2. SetUpMeanwhile'
    BY <1>2, <1>8, <2>1 DEF SetUpMeanwhile, IsOld
  <2>3. Pass'
    BY <1>2, <2>2 DEF Pass
  <2>4. base = got
    BY <1>1, <1>4, <1>8, OldEnds DEF SetUpMeanwhile
  <2>5. IsOld(At)'
    BY <1>3, <1>5, <2>2 DEF SetUpMeanwhile, IsOld
  <2>6. got' \in start .. put
    BY <1>3, <2>1
  <2> QED
    BY <2>1, <2>3, <2>4, <2>5, <2>6 DEF Current
<1>9. ASSUME pos = rx_pos, buf_sel = sel, pos < rx_buf_nb[sel]
      PROVE  Channel!Next /\ got' \in start .. put /\ Pass' /\ Current(base)'
  <2>1. Pass'
    BY <1>2, <1>9 DEF Pass, Fresh, sel
  <2>2. pos \in At .. rx_buf_nb[sel] - 1
    BY <1>3, <1>5, <1>9
  <2>3. CASE IsOld(At) /\ base = got
    <3>1. byte \in 1 .. start /\ got = start
      BY <1>9, <2>2, <2>3 DEF IsOld, sel, byte
    <3>2. Channel!Next /\ got' = got
      BY <1>7, <3>1
    <3>3. IsOld(At)'
      BY <1>2, <1>3, <1>5, <1>9, <2>3, <3>2 DEF IsOld
    <3>4. got' \in start .. put
      BY <1>3, <3>2
    <3> QED
      BY <2>1, <2>3, <3>2, <3>3, <3>4 DEF Current
  <2>4. CASE ~(IsOld(At) /\ base = got)
    <3>1. /\ base = got + (rx_buf_nb[sel] - pos)
          /\ \A i \in pos .. rx_buf_nb[sel] - 1 : rx_buf[sel][i] = got + 1 + (i - pos)
      BY <1>4, <1>5, <1>9, <2>4 DEF Current, sel
    <3>2. byte = got + 1
      BY <1>3, <1>9, <3>1 DEF byte
    <3>3. got' = got + 1 /\ got + 1 <= put /\ got' \in start .. put
      BY <1>2, <1>3, <3>2
    <3>4. out' = [i \in 1 .. 1 |-> got + i]
      <4>1. <<byte>> = [i \in 1 .. 1 |-> got + i]
        BY <3>2
      <4> QED
        BY <1>2, <4>1
    <3>5. Channel!Take(1)
      BY <1>2, <3>3, <3>4 DEF Channel!Take
    <3>6. 1 \in 0 .. EpSize
      BY RxAssumption
    <3>7. /\ pos + 1 <= rx_buf_nb[sel]
          /\ base = got' + (rx_buf_nb[sel] - (pos + 1))
          /\ \A i \in pos + 1 .. rx_buf_nb[sel] - 1 :
               rx_buf[sel][i] = got' + 1 + (i - (pos + 1))
      BY <1>3, <1>9, <3>1, <3>3
    <3>8. Current(base)'
      BY <1>2, <1>5, <3>7 DEF Current, sel
    <3> QED
      BY <2>1, <3>3, <3>5, <3>6, <3>8 DEF Channel!Next
  <2> QED
    BY <2>3, <2>4
<1>10. Channel!Next /\ got' \in start .. put /\ Pass' /\ Current(base)'
  BY <1>6, <1>8, <1>9
<1>11. Endpoint' /\ Stored'
  BY <1>1, <1>2 DEF Endpoint, Stored
<1>12. Following(base)'
  BY <1>2, <1>4 DEF Following, Others
<1> QED
  BY <1>2, <1>10, <1>11, <1>12 DEF Sound, InLine

(* The position goes on behind the byte, even in buffers that were swapped    *)
(* meanwhile: those have nothing but old bytes.                             *)
LEMMA AdvanceKeeps == ASSUME TypeOK, Sound, Advance PROVE Sound'
<1>1. Endpoint /\ Stored
  BY DEF Sound
<1>2. /\ UNCHANGED <<data_running, rx_buf_nb, rx_buf_sel, rx_trans_ongoing,
                     rx_buf, configured, enabled, armed, tc, busy, target, count,
                     put, got, start, setups, pos, buf_sel, trans, databit_9>>
      /\ pc = "advance" /\ pc' = "start" /\ rx_pos' = pos + 1
      /\ ~settling'
  BY DEF Advance, others, history, ep
<1>3. Endpoint' /\ Stored' /\ Pass'
  BY <1>1, <1>2 DEF Endpoint, Stored, Pass
<1>4. PICK base \in 0 .. put : Current(base) /\ Following(base)
  BY DEF Sound, InLine
<1>5. At' = At
  BY <1>2 DEF At
<1>6. Current(base)' /\ Following(base)'
  BY <1>2, <1>4, <1>5 DEF Current, IsOld, Following, Others
<1> QED
  BY <1>2, <1>3, <1>4, <1>6 DEF Sound, InLine

(* A buffer that was read to its end is swapped for the other one, whose     *)
(* bytes are the next ones.                                                *)
LEMMA SwapKeeps == ASSUME TypeOK, Sound, SwapBuffers PROVE Sound'
<1>1. Endpoint /\ Stored
  BY DEF Sound
<1>2. PICK sel \in Buffers : sel = rx_buf_sel
  BY DEF TypeOK
<1> DEFINE oth == Other(sel)
           nb  == rx_buf_nb[oth]
<1>3. /\ UNCHANGED <<data_running, rx_buf_nb, rx_buf, configured, enabled, armed,
                     tc, busy, target, count, put, got, start, setups, pos,
                     buf_sel, databit_9, settling>>
      /\ pc = "start" /\ pc' = "run" /\ trans' = sel
      /\ rx_pos' = 0 /\ rx_buf_sel' = oth /\ rx_trans_ongoing'
      /\ ~rx_trans_ongoing /\ ~(rx_pos < rx_buf_nb[sel])
  BY <1>2 DEF SwapBuffers, NoStart, Swap, others, history, ep, race
<1>4. oth \in Buffers /\ Other(oth) = sel
  BY <1>2, OtherBuffer
<1>5. /\ nb \in 0 .. RxBuffers /\ rx_buf_nb[sel] \in Nat /\ rx_pos \in Nat
      /\ put \in Nat /\ got \in 0 .. put /\ RxBuffers \in Nat
      /\ rx_buf[oth] \in [0 .. RxBuffers - 1 -> 0 .. put]
  <2>1. /\ rx_buf \in [Buffers -> [0 .. RxBuffers - 1 -> 0 .. put]]
        /\ rx_buf_nb \in [Buffers -> 0 .. RxBuffers]
        /\ rx_pos \in 0 .. RxBuffers /\ put \in Nat /\ got \in 0 .. put
    BY DEF TypeOK
  <2>2. nb \in 0 .. RxBuffers /\ rx_buf_nb[sel] \in 0 .. RxBuffers
    BY <1>4, <2>1
  <2> QED
    BY <1>4, <2>1, <2>2, RxAssumption
<1>6. PICK base \in 0 .. put : Current(base) /\ Following(base)
  BY DEF Sound, InLine
<1> HIDE DEF oth, nb
<1>7. base = got
  <2>1. At = rx_pos
    BY <1>3 DEF At
  <2> QED
    BY <1>2, <1>3, <1>5, <1>6, <2>1 DEF Current
<1>8. /\ \A i \in 0 .. nb - 1 : rx_buf[oth][i] = got + 1 + i
      /\ enabled => got + nb = put
  BY <1>2, <1>3, <1>6, <1>7 DEF Following, Others, oth, nb
<1>9. got + nb \in 0 .. put
  <2>1. CASE nb = 0
    BY <1>5, <2>1
  <2>2. CASE nb # 0
    <3>1. nb - 1 \in 0 .. nb - 1 /\ nb - 1 \in 0 .. RxBuffers - 1
      BY <1>5, <2>2
    <3>2. rx_buf[oth][nb - 1] = got + 1 + (nb - 1) /\ rx_buf[oth][nb - 1] \in 0 .. put
      BY <1>5, <1>8, <3>1
    <3> QED
      BY <1>5, <3>2
  <2> QED
    BY <2>1, <2>2
<1> PICK new \in 0 .. put : new = got + nb
  BY <1>9
<1>10. ~busy /\ ~(enabled /\ (armed \/ tc))
  BY <1>1, <1>3 DEF Endpoint
<1>11. Endpoint'
  BY <1>1, <1>3, <1>4, <1>10 DEF Endpoint
<1>12. Stored' /\ Pass'
  BY <1>1, <1>3 DEF Stored, Pass
<1>13. Current(new)'
  <2>1. At' = 0 /\ rx_buf_nb'[rx_buf_sel'] = nb /\ rx_buf'[rx_buf_sel'] = rx_buf[oth]
    BY <1>3 DEF At, nb
  <2>2. 0 <= nb /\ new = got + (nb - 0)
        /\ \A i \in 0 .. nb - 1 : rx_buf[oth][i] = got + 1 + (i - 0)
    BY <1>5, <1>8
  <2> QED
    BY <1>3, <2>1, <2>2 DEF Current
<1>14. Following(new)'
  BY <1>3, <1>8, <1>10 DEF Following
<1> QED
  BY <1>3, <1>11, <1>12, <1>13, <1>14 DEF Sound, InLine

(* The job begins with an empty transfer into the buffer that is not current. *)
LEMMA RunKeeps == ASSUME TypeOK, Sound, RunJob PROVE Sound'
<1>1. Endpoint /\ Stored
  BY DEF Sound
<1>2. /\ UNCHANGED <<data_running, rx_buf_nb, rx_buf_sel, rx_pos, rx_trans_ongoing,
                     rx_buf, configured, enabled, tc, put, got, start, setups, pos,
                     buf_sel, trans>>
      /\ pc = "lock" /\ pc' \in {"snapshot", "idle"} /\ ~busy
      /\ busy' /\ busy' \in BOOLEAN /\ target' = trans /\ count' = 0 /\ armed'
      /\ armed' \in BOOLEAN /\ ~settling'
  BY DEF RunJob, Run, EndPass, class, history
<1>3. rx_trans_ongoing /\ (enabled => trans = Other(rx_buf_sel)) /\ ~(enabled /\ (armed \/ tc))
  BY <1>1, <1>2 DEF Endpoint
<1>4. Endpoint'
  <2>1. enabled => ~tc
    BY <1>1, <1>2, <1>3 DEF Endpoint
  <2> QED
    BY <1>1, <1>2, <1>3, <2>1 DEF Endpoint
<1>5. Stored' /\ Pass'
  BY <1>1, <1>2 DEF Stored, Pass
<1>6. PICK base \in 0 .. put : Current(base) /\ Following(base)
  BY DEF Sound, InLine
<1>7. Current(base)'
  <2>1. At' = At
    BY <1>2 DEF At
  <2> QED
    BY <1>2, <1>6, <2>1 DEF Current, IsOld
<1>8. Following(base)'
  <2>1. enabled => base = put
    BY <1>3, <1>6 DEF Following
  <2>2. Others(0, base)'
    BY DEF Others
  <2>3. base + 0 = base
    BY <1>6
  <2> QED
    BY <1>2, <1>3, <2>1, <2>2, <2>3 DEF Following
<1> QED
  BY <1>2, <1>4, <1>5, <1>6, <1>7, <1>8 DEF Sound, InLine

-----------------------------------------------------------------------------
(* The USB interrupt *)

(* An aborted job, and an endpoint that is freed. *)
LEMMA StaleKeeps ==
  ASSUME TypeOK, Sound, StaleTransfer \/ Disable
  PROVE  Sound'
<1>1. Endpoint /\ Stored /\ Pass
  BY DEF Sound
<1>2. /\ UNCHANGED <<rx_buf_nb, rx_buf_sel, rx_pos, rx_trans_ongoing, rx_buf, target,
                     count, put, got, start, pc, pos, buf_sel, trans, settling>>
      /\ ~enabled' /\ ~busy' /\ (tc' => tc)
  <2>1. ASSUME StaleTransfer PROVE <1>2
    <3>1. /\ UNCHANGED <<class, rx_buf, target, count, getc, history, race, enabled,
                         busy>>
          /\ tc /\ ~busy /\ tc' = FALSE
      BY <2>1 DEF StaleTransfer
    <3>2. ~enabled
      BY <1>1, <3>1 DEF Endpoint
    <3> QED
      BY <3>1, <3>2 DEF class, getc, history, race
  <2>2. ASSUME Disable PROVE <1>2
    BY <2>2 DEF Disable, getc, history, race
  <2> QED
    BY <2>1, <2>2
<1>3. Endpoint' /\ Stored' /\ Pass'
  BY <1>1, <1>2 DEF Endpoint, Stored, Pass, Fresh, SetUpMeanwhile, IsOld
<1>4. PICK base \in 0 .. put : Current(base) /\ Following(base)
  BY DEF Sound, InLine
<1>5. At' = At
  BY <1>2 DEF At
<1>6. Current(base)' /\ Following(base)'
  BY <1>2, <1>4, <1>5 DEF Current, IsOld, Following, Others
<1> QED
  BY <1>2, <1>3, <1>4, <1>6 DEF Sound, InLine

(* A transfer that is complete comes in no pass that the set-up of the       *)
(* interface has interrupted.                                              *)
LEMMA Settled ==
  ASSUME Sound, tc, busy
  PROVE  /\ ~settling
         /\ pc \notin {"run", "lock"}
         /\ pc = "compare" =>
              Fresh \/ (buf_sel # rx_buf_sel /\ rx_pos < rx_buf_nb[rx_buf_sel])
         /\ pc \in {"read", "advance"} => Fresh /\ pos < rx_buf_nb[rx_buf_sel]
<1>1. ~settling /\ pc \notin {"run", "lock"}
  BY DEF Sound, Endpoint
<1>2. Pass
  BY DEF Sound
<1>3. ~SetUpMeanwhile
  BY <1>1 DEF SetUpMeanwhile
<1>4. pc = "compare" =>
        \/ Fresh
        \/ buf_sel # rx_buf_sel /\ rx_pos < rx_buf_nb[rx_buf_sel]
  BY <1>2, <1>3, Zenon DEF Pass
<1>5. pc \in {"read", "advance"} => Fresh /\ pos < rx_buf_nb[rx_buf_sel]
  BY <1>2, <1>3, Zenon DEF Pass
<1> QED
  BY <1>1, <1>4, <1>5

(* A transfer that is started once more. *)
LEMMA EmptyKeeps == ASSUME TypeOK, Sound, EmptyTransfer PROVE Sound'
<1>1. Endpoint /\ Stored /\ Pass
  BY DEF Sound
<1>2. /\ UNCHANGED <<data_running, rx_buf_nb, rx_buf_sel, rx_pos, rx_trans_ongoing,
                     rx_buf, configured, enabled, put, got, start, setups, pc, pos,
                     buf_sel, trans, settling>>
      /\ tc /\ busy /\ count = 0
      /\ tc' = FALSE /\ busy' = TRUE /\ armed' = TRUE /\ count' = 0
      /\ target' = Other(rx_buf_sel)
  BY DEF EmptyTransfer, Run, class, getc, history, race
<1>3. ~settling /\ pc \notin {"run", "lock"}
  BY <1>2, Settled
<1>4. rx_trans_ongoing
  BY <1>1, <1>2 DEF Endpoint
<1>5. Endpoint' /\ Stored' /\ Pass'
  BY <1>1, <1>2, <1>3, <1>4 DEF Endpoint, Stored, Pass, Fresh, SetUpMeanwhile
<1>6. PICK base \in 0 .. put : Current(base) /\ Following(base)
  BY DEF Sound, InLine
<1>7. At' = At
  BY <1>2 DEF At
<1>8. Current(base)'
  BY <1>2, <1>6, <1>7 DEF Current, IsOld
<1>9. Following(base)'
  <2>1. enabled => base + 0 = put
    BY <1>2, <1>4, <1>6 DEF Following
  <2>2. Others(0, base)'
    BY DEF Others
  <2> QED
    BY <1>2, <1>4, <2>1, <2>2 DEF Following
<1> QED
  BY <1>2, <1>5, <1>6, <1>8, <1>9 DEF Sound, InLine

(* What a transfer with data has left in the other buffer. *)
LEMMA Transferred ==
  ASSUME TypeOK, Sound, tc, busy, count > 0
  PROVE  /\ enabled /\ rx_trans_ongoing /\ target = Other(rx_buf_sel) /\ ~armed
         /\ count \in 1 .. RxBuffers
         /\ \E base \in 0 .. put : /\ Current(base)
                                   /\ base + count = put
                                   /\ Others(count, base)
<1>1. Endpoint
  BY DEF Sound
<1>2. count \in 1 .. RxBuffers
  <2>1. count \in 0 .. RxBuffers /\ RxBuffers \in Nat
    BY RxAssumption DEF TypeOK
  <2> QED
    BY <2>1
<1>3. enabled /\ rx_trans_ongoing /\ target = Other(rx_buf_sel) /\ ~armed
  BY <1>1, <1>2 DEF Endpoint
<1>4. PICK base \in 0 .. put : Current(base) /\ Following(base)
  BY DEF Sound, InLine
<1> QED
  BY <1>2, <1>3, <1>4 DEF Following

(* The buffer that was filled holds received bytes like the other one. *)
LEMMA StoredWith ==
  ASSUME TypeOK, Stored, NEW base \in Nat, NEW n \in 1 .. RxBuffers, Others(n, base),
         rx_buf' = rx_buf,
         rx_buf_nb' = [rx_buf_nb EXCEPT ![Other(rx_buf_sel)] = n]
  PROVE  /\ Stored'
         /\ rx_buf_nb' \in [Buffers -> 0 .. RxBuffers]
         /\ rx_buf_nb'[Other(rx_buf_sel)] = n
         /\ rx_buf_nb'[rx_buf_sel] = rx_buf_nb[rx_buf_sel]
<1>1. PICK sel \in Buffers, oth \in Buffers : sel = rx_buf_sel /\ oth = Other(sel)
  BY OtherBuffer DEF TypeOK
<1>2. sel # oth
  BY <1>1, OtherBuffer
<1>3. rx_buf_nb \in [Buffers -> 0 .. RxBuffers] /\ n \in 0 .. RxBuffers
  BY RxAssumption DEF TypeOK
<1>4. rx_buf_nb' = [rx_buf_nb EXCEPT ![oth] = n]
  BY <1>1
<1>5. /\ rx_buf_nb' \in [Buffers -> 0 .. RxBuffers]
      /\ rx_buf_nb'[oth] = n
      /\ \A b \in Buffers : b # oth => rx_buf_nb'[b] = rx_buf_nb[b]
  BY <1>3, <1>4
<1>6. \A i \in 0 .. n - 1 : rx_buf[oth][i] >= 1
  <2> SUFFICES ASSUME NEW i \in 0 .. n - 1 PROVE rx_buf[oth][i] >= 1
    OBVIOUS
  <2>1. rx_buf[oth][i] = base + 1 + i /\ i \in Nat
    BY <1>1 DEF Others
  <2> QED
    BY <2>1
<1>7. Stored'
  BY <1>5, <1>6 DEF Stored
<1> QED
  BY <1>1, <1>2, <1>5, <1>7

(* The transfer is kept until the current buffer has been read ... *)
LEMMA StoreKeeps == ASSUME TypeOK, Sound, StoreTransfer PROVE Sound'
<1>1. Endpoint /\ Stored /\ Pass
  BY DEF Sound
<1>2. /\ UNCHANGED <<data_running, rx_buf, rx_buf_sel, rx_pos, configured,
                     enabled, armed, target, count, put, got, start, pc, pos,
                     buf_sel, trans, settling>>
      /\ tc /\ busy /\ count > 0
      /\ tc' = FALSE /\ busy' = FALSE /\ rx_trans_ongoing' = FALSE
      /\ rx_buf_nb' = [rx_buf_nb EXCEPT ![Other(rx_buf_sel)] = count]
  BY DEF StoreTransfer, getc, history, race
<1>3. /\ ~settling /\ pc \notin {"run", "lock"}
      /\ pc = "compare" =>
           Fresh \/ (buf_sel # rx_buf_sel /\ rx_pos < rx_buf_nb[rx_buf_sel])
      /\ pc \in {"read", "advance"} => Fresh /\ pos < rx_buf_nb[rx_buf_sel]
  BY <1>2, Settled
<1>4. /\ enabled /\ ~armed
      /\ count \in 1 .. RxBuffers
      /\ \E base \in 0 .. put : Current(base) /\ base + count = put /\ Others(count, base)
  BY <1>2, Transferred
<1>5. PICK base \in 0 .. put : Current(base) /\ base + count = put /\ Others(count, base)
  BY <1>4
<1>6. /\ Stored'
      /\ rx_buf_nb' \in [Buffers -> 0 .. RxBuffers]
      /\ rx_buf_nb'[Other(rx_buf_sel)] = count
      /\ rx_buf_nb'[rx_buf_sel] = rx_buf_nb[rx_buf_sel]
  <2>1. base \in Nat
    BY DEF TypeOK
  <2> QED
    BY <1>1, <1>2, <1>4, <1>5, <2>1, StoredWith
<1>7. Endpoint'
  BY <1>2, <1>3, <1>4 DEF Endpoint
<1>8. Pass'
  BY <1>2, <1>3, <1>6 DEF Pass, Fresh
<1>9. Current(base)' /\ Following(base)'
  <2>1. At' = At
    BY <1>2 DEF At
  <2> QED
    BY <1>2, <1>5, <1>6, <2>1 DEF Current, IsOld, Following, Others
<1> QED
  BY <1>2, <1>5, <1>6, <1>7, <1>8, <1>9 DEF Sound, InLine

(* ... or begins the current one, when the last was read to its end. *)
LEMMA SwapTransferKeeps == ASSUME TypeOK, Sound, SwapTransfer PROVE Sound'
<1>1. Endpoint /\ Stored /\ Pass
  BY DEF Sound
<1>2. PICK sel \in Buffers, oth \in Buffers :
        sel = rx_buf_sel /\ oth = Other(sel) /\ sel = Other(oth)
  BY OtherBuffer DEF TypeOK
<1>3. /\ UNCHANGED <<data_running, rx_buf, configured, enabled, put, got, start,
                     pc, pos, buf_sel, trans, settling>>
      /\ tc /\ busy /\ count > 0 /\ rx_pos >= rx_buf_nb[sel]
      /\ tc' = FALSE /\ busy' = TRUE /\ rx_trans_ongoing' = TRUE /\ armed' = TRUE
      /\ rx_pos' = 0 /\ rx_buf_sel' = oth /\ target' = sel /\ count' = 0
      /\ rx_buf_nb' = [rx_buf_nb EXCEPT ![oth] = count]
  BY <1>2 DEF SwapTransfer, Swap, Run, getc, history, race
<1>4. /\ rx_buf_nb[sel] \in Nat /\ rx_pos \in Nat /\ got \in Nat /\ put \in Nat
      /\ RxBuffers \in Nat \ {0} /\ 0 % EpSize = 0
  <2>1. /\ rx_buf_nb \in [Buffers -> 0 .. RxBuffers] /\ rx_pos \in 0 .. RxBuffers
        /\ put \in Nat /\ got \in 0 .. put
    BY DEF TypeOK
  <2>2. rx_buf_nb[sel] \in 0 .. RxBuffers
    BY <2>1
  <2> QED
    BY <2>1, <2>2, RxAssumption
<1>5. /\ ~settling /\ pc \notin {"run", "lock"}
      /\ pc = "compare" => buf_sel = sel
      /\ pc \in {"read", "advance"} => pos = rx_pos /\ pos < rx_buf_nb[sel]
  <2>1. ~(rx_pos < rx_buf_nb[sel])
    BY <1>3, <1>4
  <2> QED
    BY <1>2, <1>3, <2>1, Settled DEF Fresh
<1>6. pc \notin {"read", "advance"}
  BY <1>3, <1>4, <1>5
<1>7. /\ count \in 1 .. RxBuffers
      /\ \E base \in 0 .. put : Current(base) /\ base + count = put /\ Others(count, base)
  BY <1>3, Transferred
<1>8. PICK base \in 0 .. put : Current(base) /\ base + count = put /\ Others(count, base)
  BY <1>7
<1>9. base = got
  <2>1. At = rx_pos
    BY <1>6 DEF At
  <2>2. \/ base = got
        \/ rx_pos <= rx_buf_nb[sel] /\ base = got + (rx_buf_nb[sel] - rx_pos)
    BY <1>2, <1>8, <2>1 DEF Current
  <2> QED
    BY <1>3, <1>4, <2>2
<1>10. /\ Stored'
       /\ rx_buf_nb' \in [Buffers -> 0 .. RxBuffers]
       /\ rx_buf_nb'[oth] = count
       /\ rx_buf_nb'[sel] = rx_buf_nb[sel]
  <2>1. base \in Nat
    BY <1>4
  <2> QED
    BY <1>1, <1>2, <1>3, <1>7, <1>8, <2>1, StoredWith
<1>11. Endpoint'
  BY <1>2, <1>3, <1>5 DEF Endpoint
<1>12. Pass'
  <2>1. rx_pos' < rx_buf_nb'[rx_buf_sel']
    BY <1>3, <1>7, <1>10
  <2> QED
    BY <1>2, <1>3, <1>5, <1>6, <2>1, OtherBuffer DEF Pass
<1>13. PICK new \in 0 .. put : new = put /\ new = got + count
  BY <1>4, <1>8, <1>9
<1>14. Current(new)'
  <2>1. At' = 0
    BY <1>3, <1>6 DEF At
  <2>2. \A i \in 0 .. count - 1 : rx_buf[oth][i] = got + 1 + (i - 0)
    <3>1. \A i \in 0 .. count - 1 : rx_buf[oth][i] = got + 1 + i
      BY <1>2, <1>8, <1>9 DEF Others
    <3>2. count \in Nat /\ \A i \in 0 .. count - 1 : i - 0 = i
      BY <1>4, <1>7
    <3> QED
      BY <3>1, <3>2
  <2>3. 0 <= count /\ new = got + (count - 0)
    BY <1>7, <1>13
  <2> QED
    BY <1>3, <1>10, <2>1, <2>2, <2>3 DEF Current
<1>15. Following(new)'
  <2>1. Others(0, new)'
    BY DEF Others
  <2>2. new + 0 = put
    BY <1>4, <1>13
  <2> QED
    BY <1>3, <2>1, <2>2 DEF Following
<1> QED
  BY <1>3, <1>10, <1>11, <1>12, <1>13, <1>14, <1>15 DEF Sound, InLine

(* A new connection: all that the buffers hold is old, and a job in buffer 0  *)
(* is started, or there is one that keeps the hardware from receiving.       *)
LEMMA SetUpKeeps == ASSUME TypeOK, Sound, Enable \/ FailEnable PROVE Sound'
<1>1. Stored /\ Pass
  BY DEF Sound
<1>2. /\ UNCHANGED <<rx_buf, pc, pos, buf_sel, trans, databit_9, put>>
      /\ enabled' = TRUE /\ tc' = FALSE
      /\ rx_buf_sel' = 1 /\ rx_buf_nb' = [rx_buf_nb EXCEPT ![0] = 0]
      /\ rx_pos' = 0 /\ rx_trans_ongoing' = TRUE
      /\ got' = put /\ start' = put
      /\ settling' = MidPass
  BY DEF Enable, FailEnable, Reinit, getc
<1>3. /\ busy' = TRUE
      /\ armed' => target' = 0 /\ count' = 0
  BY DEF Enable, FailEnable, Run
<1>4. /\ rx_buf \in [Buffers -> [0 .. RxBuffers - 1 -> 0 .. put]]
      /\ rx_buf_nb \in [Buffers -> 0 .. RxBuffers]
      /\ put \in Nat /\ RxBuffers \in Nat \ {0} /\ 0 % EpSize = 0
      /\ pos \in Nat /\ buf_sel \in Buffers
  <2>1. pos \in 0 .. RxBuffers
    BY DEF TypeOK
  <2> QED
    BY <2>1, RxAssumption DEF TypeOK
<1>5. /\ 0 \in Buffers /\ 1 \in Buffers /\ Other(1) = 0
      /\ \A b \in Buffers : b = 0 \/ b = 1
  BY DEF Buffers, Other
<1>6. /\ rx_buf_nb' \in [Buffers -> 0 .. RxBuffers]
      /\ rx_buf_nb'[0] = 0 /\ rx_buf_nb'[1] = rx_buf_nb[1]
  <2>1. 0 \in 0 .. RxBuffers
    BY <1>4
  <2> QED
    BY <1>2, <1>4, <1>5, <2>1
<1>7. \A b \in Buffers : \A j \in 0 .. rx_buf_nb[b] - 1 : rx_buf[b][j] \in 1 .. put
  <2> SUFFICES ASSUME NEW b \in Buffers, NEW j \in 0 .. rx_buf_nb[b] - 1
               PROVE  rx_buf[b][j] \in 1 .. put
    OBVIOUS
  <2>1. rx_buf_nb[b] \in 0 .. RxBuffers /\ rx_buf[b] \in [0 .. RxBuffers - 1 -> 0 .. put]
    BY <1>4
  <2>2. j \in 0 .. RxBuffers - 1
    BY <1>4, <2>1
  <2>3. rx_buf[b][j] \in 0 .. put /\ rx_buf[b][j] >= 1
    BY <1>1, <2>1, <2>2 DEF Stored
  <2> QED
    BY <1>4, <2>3
<1>8. \A j \in 0 .. rx_buf_nb'[rx_buf_sel'] - 1 :
        rx_buf'[rx_buf_sel'][j] \in 1 .. start'
  BY <1>2, <1>5, <1>6, <1>7
<1>9. IsOld(0)'
  BY <1>2, <1>8 DEF IsOld
<1>10. Endpoint'
  BY <1>2, <1>3, <1>5 DEF Endpoint, MidPass
<1>11. Stored'
  <2>1. \A b \in Buffers : \A i \in 0 .. rx_buf_nb'[b] - 1 : rx_buf[b][i] >= 1
    BY <1>1, <1>5, <1>6 DEF Stored
  <2> QED
    BY <1>2, <2>1 DEF Stored
<1>12. Pass'
  <2>1. MidPass => SetUpMeanwhile'
    BY <1>2, <1>9 DEF SetUpMeanwhile
  <2>2. pos < rx_buf_nb'[buf_sel] => rx_buf[buf_sel][pos] \in 1 .. put
    <3> SUFFICES ASSUME pos < rx_buf_nb'[buf_sel] PROVE rx_buf[buf_sel][pos] \in 1 .. put
      OBVIOUS
    <3>1. buf_sel = 1 /\ pos < rx_buf_nb[1]
      BY <1>4, <1>5, <1>6
    <3>2. rx_buf_nb[1] \in 0 .. RxBuffers
      BY <1>4, <1>5
    <3>3. pos \in 0 .. rx_buf_nb[1] - 1
      BY <1>4, <3>1, <3>2
    <3> QED
      BY <1>5, <1>7, <3>1, <3>3
  <2>3. pc = "read" => rx_buf[buf_sel][pos] \in 1 .. put
    <3> SUFFICES ASSUME pc = "read" PROVE rx_buf[buf_sel][pos] \in 1 .. put
      OBVIOUS
    <3>1. CASE SetUpMeanwhile /\ rx_buf[buf_sel][pos] \in 1 .. start
      <4>1. start \in 0 .. put
        BY DEF TypeOK
      <4> QED
        BY <1>4, <3>1, <4>1
    <3>2. CASE Fresh /\ pos < rx_buf_nb[rx_buf_sel]
      <4>1. buf_sel = rx_buf_sel /\ pos < rx_buf_nb[rx_buf_sel]
        BY <3>2 DEF Fresh
      <4>2. rx_buf_nb[buf_sel] \in 0 .. RxBuffers
        BY <1>4
      <4>3. pos \in 0 .. rx_buf_nb[buf_sel] - 1
        BY <1>4, <4>1, <4>2
      <4> QED
        BY <1>4, <1>7, <4>3
    <3> QED
      BY <1>1, <3>1, <3>2 DEF Pass
  <2> QED
    BY <1>2, <2>1, <2>2, <2>3 DEF Pass, MidPass
<1>13. PICK base \in 0 .. put : base = put
  BY <1>4
<1>14. Current(base)'
  <2>1. At' \in Nat
    BY <1>2, <1>4 DEF At
  <2>2. rx_buf_nb'[rx_buf_sel'] \in 0 .. RxBuffers
    BY <1>2, <1>5, <1>6
  <2>3. \A j \in At' .. rx_buf_nb'[rx_buf_sel'] - 1 : j \in 0 .. rx_buf_nb'[rx_buf_sel'] - 1
    BY <2>1, <2>2
  <2>4. IsOld(At)'
    BY <1>2, <1>8, <2>3 DEF IsOld
  <2> QED
    BY <1>2, <1>13, <2>4 DEF Current
<1>15. Following(base)'
  <2>1. Others(0, base)'
    BY DEF Others
  <2>2. base + 0 = put
    BY <1>4, <1>13
  <2> QED
    BY <1>2, <1>3, <1>13, <2>1, <2>2 DEF Following
<1> QED
  BY <1>2, <1>10, <1>11, <1>12, <1>13, <1>14, <1>15 DEF Sound, InLine

-----------------------------------------------------------------------------
(* The bytes of a packet follow those that the buffer holds. *)
LEMMA PacketKeeps ==
  ASSUME TypeOK, Sound, NEW n \in 0 .. EpSize, HostPacket(n), ~outrun'
  PROVE  Sound'
<1>1. Endpoint /\ Stored /\ Pass
  BY DEF Sound
<1>2. PICK sel \in Buffers, oth \in Buffers :
        sel = rx_buf_sel /\ oth = Other(sel) /\ sel # oth
  BY OtherBuffer DEF TypeOK
<1> DEFINE Filled == [i \in 0 .. RxBuffers - 1 |->
                        IF i \in count .. count + n - 1 THEN put + 1 + i - count
                                                        ELSE rx_buf[oth][i]]
<1>3. /\ UNCHANGED <<data_running, rx_buf_nb, rx_buf_sel, rx_pos, rx_trans_ongoing,
                     enabled, busy, target, got, start, pc, pos, buf_sel, trans,
                     settling>>
      /\ enabled /\ armed /\ ~settling
      /\ put' = put + n /\ count' = count + n
      /\ armed' = ~EndsTransfer(n) /\ tc' = EndsTransfer(n)
  BY DEF HostPacket, class, getc
<1>4. busy /\ target = oth /\ rx_trans_ongoing /\ ~tc /\ pc \notin {"run", "lock"}
  BY <1>1, <1>2, <1>3 DEF Endpoint
<1>5. /\ rx_buf'[oth] = Filled /\ rx_buf'[sel] = rx_buf[sel]
      /\ \A b \in Buffers : b # oth => rx_buf'[b] = rx_buf[b]
  BY <1>2, <1>4, PacketTypes
<1>6. /\ rx_buf_nb \in [Buffers -> 0 .. RxBuffers]
      /\ put \in Nat /\ count \in Nat /\ n \in Nat /\ RxBuffers \in Nat
      /\ count + n <= RxBuffers
  <2>1. /\ rx_buf_nb \in [Buffers -> 0 .. RxBuffers]
        /\ put \in Nat /\ count \in 0 .. RxBuffers /\ count + n \in 0 .. RxBuffers
    BY PacketTypes DEF TypeOK
  <2>2. RxBuffers \in Nat /\ EpSize \in Nat
    BY RxAssumption
  <2>3. n \in Nat /\ count \in Nat /\ count + n <= RxBuffers
    BY <2>1, <2>2
  <2> QED
    BY <2>1, <2>2, <2>3
<1>7. \A i \in 0 .. RxBuffers - 1 :
        /\ i \in count .. count + n - 1 => Filled[i] = put + 1 + i - count
        /\ i \notin count .. count + n - 1 => Filled[i] = rx_buf[oth][i]
  OBVIOUS
<1> HIDE DEF Filled
<1>8. Endpoint'
  <2>1. tc' => ~armed'
    <3>1. armed' = ~EndsTransfer(n) /\ tc' = EndsTransfer(n)
      BY <1>3
    <3>2. EndsTransfer(n) \in BOOLEAN
      BY DEF EndsTransfer
    <3> QED
      BY <3>1, <3>2, Zenon
  <2> QED
    BY <1>1, <1>2, <1>3, <1>4, <2>1 DEF Endpoint
<1>9. Stored'
  <2> SUFFICES ASSUME NEW b \in Buffers, NEW i \in 0 .. rx_buf_nb[b] - 1
               PROVE  rx_buf'[b][i] >= 1
    BY <1>3 DEF Stored
  <2>1. rx_buf[b][i] >= 1
    BY <1>1 DEF Stored
  <2>2. ASSUME b = oth PROVE rx_buf'[b][i] >= 1
    <3>1. rx_buf_nb[b] \in 0 .. RxBuffers
      BY <1>6
    <3>2. i \in 0 .. RxBuffers - 1
      BY <1>6, <3>1
    <3>3. i \in count .. count + n - 1 => put + 1 + i - count >= 1
      BY <1>6
    <3>4. rx_buf'[b][i] = Filled[i]
      BY <1>5, <2>2
    <3> QED
      BY <1>7, <2>1, <2>2, <3>2, <3>3, <3>4
  <2> QED
    BY <1>5, <2>1, <2>2
<1>10. Pass'
  BY <1>1, <1>2, <1>3, <1>4, <1>5 DEF Pass, Fresh, SetUpMeanwhile
<1>11. PICK base \in 0 .. put : Current(base) /\ Following(base)
  BY DEF Sound, InLine
<1>12. base \in 0 .. put' /\ base \in Nat
  BY <1>3, <1>6
<1>13. Current(base)'
  <2>1. At' = At
    BY <1>3 DEF At
  <2> QED
    BY <1>2, <1>3, <1>5, <1>11, <2>1 DEF Current, IsOld
<1>14. Following(base)'
  <2>1. base + count = put /\ \A i \in 0 .. count - 1 : rx_buf[oth][i] = base + 1 + i
    BY <1>2, <1>3, <1>4, <1>11 DEF Following, Others
  <2>2. base + count' = put'
    BY <1>3, <1>6, <1>12, <2>1
  <2>3. \A i \in 0 .. count' - 1 : rx_buf'[oth][i] = base + 1 + i
    <3> SUFFICES ASSUME NEW i \in 0 .. count' - 1 PROVE rx_buf'[oth][i] = base + 1 + i
      OBVIOUS
    <3>1. i \in 0 .. RxBuffers - 1 /\ i \in 0 .. count + n - 1
      BY <1>3, <1>6, <1>6
    <3>2. CASE i \in count .. count + n - 1
      <4>1. Filled[i] = put + 1 + i - count
        BY <1>7, <3>1, <3>2
      <4>2. put + 1 + i - count = base + 1 + i
        BY <1>6, <1>12, <2>1, <3>1
      <4> QED
        BY <1>5, <4>1, <4>2
    <3>3. CASE i \notin count .. count + n - 1
      <4>1. Filled[i] = rx_buf[oth][i]
        BY <1>7, <3>1, <3>3
      <4>2. i \in 0 .. count - 1
        <5>1. i \in Nat /\ i < count + n
          BY <1>6, <3>1
        <5>2. ~(count <= i)
          BY <1>6, <3>3, <5>1
        <5> QED
          BY <1>6, <5>1, <5>2
      <4> QED
        BY <1>5, <2>1, <4>1, <4>2
    <3> QED
      BY <3>2, <3>3
  <2>4. Others(count, base)'
    BY <1>2, <1>3, <2>3 DEF Others
  <2> QED
    BY <1>3, <1>4, <2>2, <2>4 DEF Following
<1> QED
  BY <1>8, <1>9, <1>10, <1>12, <1>13, <1>14 DEF Sound, InLine

-----------------------------------------------------------------------------
LEMMA NextInv == ASSUME IInv, [Next]_vars PROVE IInv'
<1>1. TypeOK'
  BY NextTypes DEF IInv
<1>2. outrun => outrun'
  <2>1. outrun \in BOOLEAN
    BY DEF IInv, TypeOK
  <2>2. CASE UNCHANGED vars \/ TransferComplete \/ Disable \/ Enable \/ FailEnable
    BY <2>2 DEF vars, race, TransferComplete, StaleTransfer, EmptyTransfer,
                StoreTransfer, SwapTransfer, Disable, Enable, FailEnable, Reinit
  <2>3. CASE Getc
    BY <2>1, <2>3 DEF Getc, CallGetc, Snapshot, Compare, TryAgain, GiveUp, Read, Advance,
                      SkipStart, SwapBuffers, CheckEnabled, RunJob, JobBusy, race
  <2>4. ASSUME NEW n \in 0 .. EpSize, HostPacket(n) PROVE outrun => outrun'
    BY <2>4 DEF HostPacket
  <2> QED
    BY <2>2, <2>3, <2>4 DEF Next
<1>3. ASSUME TypeOK, Sound, ~outrun' PROVE Sound'
  <2>1. CASE UNCHANGED vars
    <3>1. UNCHANGED <<data_running, rx_buf, rx_buf_nb, rx_buf_sel, rx_pos,
                      rx_trans_ongoing, enabled, armed, tc, busy, target, count, pc,
                      pos, buf_sel, trans, put, got, start, settling>>
      BY <2>1 DEF vars, class, ep, getc, history, race
    <3>2. Endpoint' /\ Stored' /\ Pass'
      BY <1>3, <3>1 DEF Sound, Endpoint, Stored, Pass, Fresh, SetUpMeanwhile, IsOld
    <3>3. InLine'
      BY <1>3, <3>1 DEF Sound, InLine, Current, Following, Others, IsOld, At
    <3> QED
      BY <3>2, <3>3 DEF Sound
  <2>2. CASE TransferComplete
    BY <1>3, <2>2, StaleKeeps, EmptyKeeps, StoreKeeps, SwapTransferKeeps
       DEF TransferComplete
  <2>3. CASE Disable
    BY <1>3, <2>3, StaleKeeps
  <2>4. CASE Enable \/ FailEnable
    BY <1>3, <2>4, SetUpKeeps
  <2>5. CASE Getc
    BY <1>3, <2>5, BeginKeeps, CompareKeeps, EndsKeep, ReadIsNext, AdvanceKeeps,
       SwapKeeps, RunKeeps DEF Getc
  <2>6. CASE \E n \in 0 .. EpSize : HostPacket(n)
    BY <1>3, <2>6, PacketKeeps
  <2> QED
    BY <2>1, <2>2, <2>3, <2>4, <2>5, <2>6 DEF Next
<1> QED
  BY <1>1, <1>2, <1>3 DEF IInv

LEMMA AlwaysInv == Spec => []IInv
<1>1. Init => IInv
  BY InitInv
<1>2. IInv /\ [Next]_vars => IInv'
  BY NextInv
<1> QED
  BY <1>1, <1>2, PTL DEF Spec

(* Every variable keeps its type, and no byte is read or written behind the  *)
(* end of a buffer (udi_cdc_getc, udi_cdc_data_received, udd_ep_run), however *)
(* the USB interrupt and the reading of the program are interleaved.         *)
THEOREM TypeCorrect == Spec => []TypeOK
<1>1. IInv => TypeOK
  BY DEF IInv
<1> QED
  BY <1>1, AlwaysInv, PTL

(* Whoever swaps the buffers, the hardware never receives into the one that  *)
(* udi_cdc_getc reads, until interrupts outrun one of its passes.            *)
THEOREM ReceivesApart == Spec => []ReceivesAside
<1>1. IInv => ReceivesAside
  BY DEF IInv, Sound, Endpoint, ReceivesAside
<1> QED
  BY <1>1, AlwaysInv, PTL

(* A step of reception is a step of the byte channel, or none, unless it      *)
(* outruns a pass or one was outrun before.                                 *)
LEMMA StepIsNext ==
  ASSUME IInv, [Next]_vars
  PROVE  [Channel!Next \/ outrun']_<<data_running, put, got, start, out>>
<1>1. data_running \in BOOLEAN /\ put \in Nat
  BY DEF IInv, TypeOK
<1>2. CASE UNCHANGED vars \/ TransferComplete
  BY <1>2 DEF vars, class, history, TransferComplete, StaleTransfer, EmptyTransfer,
              StoreTransfer, SwapTransfer
<1>3. ASSUME Disable PROVE Channel!Close
  BY <1>3 DEF Disable, history, Channel!Close
<1>4. ASSUME Enable \/ FailEnable PROVE Channel!SetUp
  <2>1. /\ got' = put /\ start' = put /\ UNCHANGED <<put, out>>
        /\ data_running' \in BOOLEAN
    BY <1>1, <1>4 DEF Enable, FailEnable, Reinit
  <2> QED
    BY <2>1 DEF Channel!SetUp
<1>5. CASE Getc
  <2>1. CASE CallGetc \/ Snapshot \/ Compare \/ TryAgain \/ Advance \/ SkipStart
             \/ SwapBuffers \/ CheckEnabled \/ RunJob \/ JobBusy
    BY <2>1 DEF CallGetc, Snapshot, Compare, TryAgain, Advance, SkipStart, SwapBuffers,
                CheckEnabled, RunJob, JobBusy, class, history, others
  <2>2. ASSUME GiveUp PROVE Channel!Refuse
    BY <2>2 DEF GiveUp, class, Channel!Refuse
  <2>3. ASSUME Read PROVE Channel!Next \/ outrun'
    <3>1. CASE outrun
      BY <2>3, <3>1 DEF Read, race
    <3>2. CASE Sound
      BY <2>3, <3>2, ReadIsNext DEF IInv
    <3> QED
      BY <3>1, <3>2 DEF IInv
  <2> QED
    BY <1>5, <2>1, <2>2, <2>3 DEF Getc, Channel!Next
<1>6. ASSUME NEW n \in 0 .. EpSize, HostPacket(n) PROVE Channel!Put(n)
  BY <1>6 DEF HostPacket, class, Channel!Put
<1> QED
  BY <1>2, <1>3, <1>4, <1>5, <1>6 DEF Next, Channel!Next

(* udi_cdc_getc returns the bytes of the host in order, each once, and 0     *)
(* only when the interface is not running; only before the first byte of a   *)
(* new connection may bytes of an earlier one come.  It does so until        *)
(* interrupts outrun a pass: two transfers completed between its critical    *)
(* section and its test, or a packet of a new connection came before the      *)
(* pass was over in which it was set up.                                    *)
THEOREM ReceivesInOrder == Spec => InOrderUnlessOutrun
<1>1. Init => Channel!Init
  BY DEF Init, Channel!Init
<1>2. IInv /\ [Next]_vars =>
        [Channel!Next \/ outrun']_<<data_running, put, got, start, out>>
  BY StepIsNext
<1> QED
  BY <1>1, <1>2, AlwaysInv, PTL DEF Spec, InOrderUnlessOutrun, Channel!vars

===============================================================================
