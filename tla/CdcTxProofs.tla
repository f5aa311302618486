------------------------------ MODULE CdcTxProofs ------------------------------
(***************************************************************************)
(* Proofs about module CdcTx, for every size of packets and buffers, every   *)
(* number of frames, bytes and connections.                                *)
(***************************************************************************)
EXTENDS CdcTx, Integers, TLAPS

(* The job is that of the buffer which is not selected, its transfer has     *)
(* those bytes of it that are not in an earlier one, and a completion is for *)
(* the whole transfer.  A job that was aborted may leave a completion, but   *)
(* only on an endpoint that is not enabled.                                *)
Job ==
  /\ busy => /\ enabled /\ tx_trans_ongoing
             /\ source = Other(tx_buf_sel)
             /\ nb_trans + bytecnt = tx_buf_nb[source]
             /\ shortpacket => nb_trans = 0
             /\ tc => sent = bytecnt
  /\ loaded => busy
  /\ tc => busy \/ ~enabled

(* A buffer that is neither being sent nor waiting is empty. *)
OtherIsEmpty ==
  ~tx_trans_ongoing /\ ~tx_both_buf_to_send => tx_buf_nb[Other(tx_buf_sel)] = 0

(* With buffer sel selected, the other one holds the bytes after number base *)
(* and sel those after them, up to the last one written.                    *)
Holds(sel, base) ==
  /\ base + tx_buf_nb[Other(sel)] + tx_buf_nb[sel] = put
  /\ \A i \in 0 .. tx_buf_nb[Other(sel)] - 1 :
       tx_buf[Other(sel)][i] = base + 1 + i
  /\ \A i \in 0 .. tx_buf_nb[sel] - 1 :
       tx_buf[sel][i] = base + tx_buf_nb[Other(sel)] + 1 + i

(* The bytes of the present job that the host has got. *)
Done == IF busy THEN nb_trans + sent ELSE 0

InLine == enabled => Holds(tx_buf_sel, got - Done)

IInv == TypeOK /\ RoomStays /\ Job /\ OtherIsEmpty /\ InLine

-----------------------------------------------------------------------------
(* Integers *)

(* The remainder of a division. *)
LEMMA Remainder == ASSUME NEW a \in Nat, NEW n \in Nat \ {0}
                   PROVE  a % n \in 0 .. n - 1
  OBVIOUS

(* One more is no fewer. *)
LEMMA OneMore == \A p \in Nat : p + 1 \in Nat /\ 0 .. p \subseteq 0 .. p + 1
  OBVIOUS

(* A difference that SMT does not see below a prime. *)
LEMMA MinusZero == \A n \in Nat : n - 0 = n
  OBVIOUS

(* There are two buffers. *)
LEMMA OtherBuffer == \A b \in Buffers : Other(b) \in Buffers /\ Other(Other(b)) = b
                                         /\ Other(b) # b
  BY DEF Buffers, Other

(* Nothing is enabled, written or sent in the initial state. *)
LEMMA InitInv == Init => IInv
  BY TxAssumption DEF Init, IInv, TypeOK, RoomStays, Job, OtherIsEmpty, InLine, Buffers, Other

-----------------------------------------------------------------------------
(* udi_cdc_tx_send keeps the invariant, wherever it is called: with no job,   *)
(* the other buffer empty unless both wait, and the bytes in line.           *)
LEMMA TxSendKeeps ==
  ASSUME NEW sel \in Buffers, NEW last \in 0 .. Frames - 1,
         TypeOK, TxSend(sel, last),
         UNCHANGED <<tx_buf, put, pc, databit_9>>,
         {data_running', configured', enabled', tc'} \subseteq BOOLEAN,
         tx_both_buf_to_send' \in BOOLEAN,
         frame' \in 0 .. Frames - 1, got' \in 0 .. put, setups' \in Nat,
         tx_buf_nb' \in [Buffers -> 0 .. TxBuffers],
         ~tx_both_buf_to_send' => tx_buf_nb'[Other(sel)] = 0,
         pc = "write" => tx_buf_nb'[sel] < TxBuffers,
         enabled' => ~tc' /\ Holds(sel, got)'
  PROVE  IInv'
<1> USE TxAssumption
<1>0. got' \in Nat
  BY DEF TypeOK
<1>1. CASE tx_buf_sel' = sel /\ tx_trans_ongoing' = FALSE /\ tx_sof_num' = last
           /\ sof_zlp_counter' \in 0 .. ZlpPeriod - 1 /\ NoJob
  <2>1. /\ busy' = FALSE /\ loaded' = FALSE
        /\ UNCHANGED <<source, nb_trans, shortpacket, bytecnt, sent>>
    BY <1>1 DEF NoJob
  <2>2. Done' = 0
    BY <2>1 DEF Done
  <2>3. InLine'
    BY <1>1, <2>2 DEF InLine, Holds
  <2>4. Job' /\ OtherIsEmpty' /\ RoomStays'
    BY <1>1, <2>1 DEF Job, OtherIsEmpty, RoomStays
  <2>5. TypeOK'
    BY <1>1, <2>1 DEF TypeOK
  <2> QED
    BY <2>3, <2>4, <2>5 DEF IInv
<1>2. CASE SendBuffer(sel)
  <2> DEFINE b     == IF tx_both_buf_to_send' THEN Other(sel) ELSE sel
             short == tx_buf_nb'[b] # TxBuffers
  <2>1. b \in Buffers /\ tx_buf_nb'[b] \in 0 .. TxBuffers
    BY OtherBuffer
  <2>2. /\ tx_buf_sel' = Other(b) /\ tx_trans_ongoing' = TRUE
        /\ sof_zlp_counter' = 0
        /\ tx_sof_num' = IF short THEN frame' ELSE 0
        /\ IF enabled' THEN Run(b, tx_buf_nb'[b], short) ELSE NoJob
    BY <1>2 DEF SendBuffer
  <2>3. RoomStays'
    <3>1. tx_buf_sel' = sel \/ tx_buf_nb'[tx_buf_sel'] = 0
      BY <2>2, OtherBuffer
    <3> QED
      BY <3>1 DEF RoomStays
  <2>4. /\ tx_buf_sel' \in Buffers
        /\ tx_sof_num' \in 0 .. Frames - 1 /\ sof_zlp_counter' \in 0 .. ZlpPeriod - 1
    BY <2>1, <2>2, OtherBuffer
  <2>5. OtherIsEmpty'
    BY <2>2 DEF OtherIsEmpty
  <2>6. ASSUME enabled' PROVE
          /\ busy' = TRUE /\ loaded' = TRUE /\ shortpacket' \in BOOLEAN
          /\ source' = b /\ nb_trans' = 0 /\ sent' = 0 /\ bytecnt' = tx_buf_nb'[b]
    BY <2>2, <2>6 DEF Run
  <2>7. ASSUME ~enabled' PROVE
          /\ busy' = FALSE /\ loaded' = FALSE
          /\ UNCHANGED <<source, nb_trans, shortpacket, bytecnt, sent>>
    BY <2>2, <2>7 DEF NoJob
  <2>8. Job'
    <3>1. ASSUME enabled' PROVE Job'
      <4>1. busy' /\ loaded' /\ ~tc' /\ tx_trans_ongoing'
        BY <2>2, <2>6, <3>1
      <4>2. source' = Other(tx_buf_sel')
        BY <2>1, <2>2, <2>6, <3>1, OtherBuffer
      <4>3. nb_trans' = 0 /\ nb_trans' + bytecnt' = tx_buf_nb'[source']
        BY <2>1, <2>6, <3>1
      <4> QED
        BY <3>1, <4>1, <4>2, <4>3 DEF Job
    <3>2. ASSUME ~enabled' PROVE Job'
      BY <2>7, <3>2 DEF Job
    <3> QED
      BY <3>1, <3>2
  <2>9. InLine'
    <3> SUFFICES ASSUME enabled' PROVE Holds(tx_buf_sel, got - Done)'
      BY DEF InLine
    <3>1. Done' = 0 /\ got' - Done' = got'
      <4>1. busy' /\ nb_trans' = 0 /\ sent' = 0
        BY <2>6
      <4>2. Done' = 0
        BY <4>1 DEF Done
      <4> QED
        BY <4>2, <1>0, MinusZero
    <3>2. CASE tx_both_buf_to_send'
      <4>1. tx_buf_sel' = sel
        BY <2>2, <3>2, OtherBuffer
      <4>2. /\ got' + tx_buf_nb'[Other(sel)] + tx_buf_nb'[sel] = put'
            /\ \A i \in 0 .. tx_buf_nb'[Other(sel)] - 1 :
                 tx_buf'[Other(sel)][i] = got' + 1 + i
            /\ \A i \in 0 .. tx_buf_nb'[sel] - 1 :
                 tx_buf'[sel][i] = got' + tx_buf_nb'[Other(sel)] + 1 + i
        BY DEF Holds
      <4> QED
        BY <3>1, <4>1, <4>2 DEF Holds
    <3>3. CASE ~tx_both_buf_to_send'
      <4>1. tx_buf_sel' = Other(sel) /\ tx_buf_nb'[Other(sel)] = 0 /\ Other(Other(sel)) = sel
            /\ sel \in Buffers /\ Other(sel) \in Buffers
        BY <2>2, <3>3, OtherBuffer
      <4>2. Holds(sel, got)'
        BY DEF TypeOK
      <4>3. tx_buf_nb'[sel] \in Nat /\ got' \in Nat
        BY <4>1
      <4>4. got' + tx_buf_nb'[sel] + 0 = put'
        BY <4>1, <4>2, <4>3 DEF Holds
      <4>5. \A i \in 0 .. tx_buf_nb'[sel] - 1 : tx_buf'[sel][i] = got' + 1 + i
        BY <4>1, <4>2, <4>3 DEF Holds
      <4> QED
        BY <3>1, <4>1, <4>3, <4>4, <4>5 DEF Holds
    <3> QED
      BY <3>2, <3>3
  <2>10. /\ busy' \in BOOLEAN /\ loaded' \in BOOLEAN /\ shortpacket' \in BOOLEAN
         /\ source' \in Buffers
         /\ bytecnt' \in 0 .. TxBuffers /\ nb_trans' \in 0 .. TxBuffers
         /\ sent' \in 0 .. bytecnt'
    <3>1. ASSUME enabled' PROVE <2>10!:
      BY <2>1, <2>6, <3>1
    <3>2. ASSUME ~enabled' PROVE <2>10!:
      BY <2>7, <3>2 DEF TypeOK
    <3> QED
      BY <3>1, <3>2
  <2>11. TypeOK'
    BY <2>2, <2>4, <2>10 DEF TypeOK
  <2> QED
    BY <2>3, <2>5, <2>8, <2>9, <2>11 DEF IInv
<1>3. SendBuffer(sel) \/
        /\ tx_buf_sel' = sel /\ tx_trans_ongoing' = FALSE /\ tx_sof_num' = last
        /\ sof_zlp_counter' \in 0 .. ZlpPeriod - 1 /\ NoJob
  <2>1. sof_zlp_counter \in 0 .. ZlpPeriod - 1
    BY DEF TypeOK
  <2> QED
    BY <2>1 DEF TxSend
<1> QED
  BY <1>1, <1>2, <1>3

-----------------------------------------------------------------------------
(* The actions, one by one. *)

(* A frame may start a transfer if none is on-going, when there is no job. *)
LEMMA StartOfFrameKeeps == ASSUME IInv, StartOfFrame PROVE IInv'
<1> USE TxAssumption
<1>1. TypeOK /\ RoomStays /\ Job /\ OtherIsEmpty /\ InLine
  BY DEF IInv
<1>2. frame' \in 0 .. Frames - 1
  <2>1. frame + 1 \in Nat
    BY <1>1 DEF TypeOK
  <2> QED
    BY <2>1, Remainder DEF StartOfFrame
<1>3. UNCHANGED <<data_running, tx_buf, tx_buf_nb, tx_both_buf_to_send,
                  configured, enabled, tc, pc, databit_9, put, got, out, setups>>
  BY DEF StartOfFrame, putc, history
<1>4. CASE configured /\ ~tx_trans_ongoing
  <2>1. TxSend(tx_buf_sel, tx_sof_num)
    BY <1>4 DEF StartOfFrame
  <2>2. tx_buf_sel \in Buffers /\ tx_sof_num \in 0 .. Frames - 1
    BY <1>1 DEF TypeOK
  <2>3. ~busy /\ (enabled => ~tc)
    BY <1>1, <1>4 DEF Job
  <2>4. got - Done = got
    BY <1>1, <2>3, MinusZero DEF Done, TypeOK
  <2>5. PICK sel \in Buffers : sel = tx_buf_sel
    BY <2>2
  <2>6. PICK last \in 0 .. Frames - 1 : last = tx_sof_num
    BY <2>2
  <2>7. enabled => Holds(sel, got)
    BY <1>1, <2>4, <2>5 DEF InLine
  <2>8. enabled' => ~tc' /\ Holds(sel, got)'
    BY <1>3, <2>3, <2>7 DEF Holds
  <2>9. ~tx_both_buf_to_send' => tx_buf_nb'[Other(sel)] = 0
    BY <1>1, <1>3, <1>4, <2>5 DEF OtherIsEmpty
  <2>10. pc = "write" => tx_buf_nb'[sel] < TxBuffers
    BY <1>1, <1>3, <2>5 DEF RoomStays
  <2>11. TxSend(sel, last)
    BY <2>1, <2>5, <2>6
  <2>12. /\ {data_running', configured', enabled', tc'} \subseteq BOOLEAN
         /\ tx_both_buf_to_send' \in BOOLEAN
         /\ got' \in 0 .. put /\ setups' \in Nat
         /\ tx_buf_nb' \in [Buffers -> 0 .. TxBuffers]
    BY <1>1, <1>3 DEF TypeOK
  <2> QED
    BY <1>1, <1>2, <1>3, <2>8, <2>9, <2>10, <2>11, <2>12, TxSendKeeps
<1>5. CASE ~(configured /\ ~tx_trans_ongoing)
  <2>1. UNCHANGED <<tx_buf_sel, tx_sof_num, tx_trans_ongoing, sof_zlp_counter,
                    loaded, bytecnt, sent, busy, source, nb_trans, shortpacket>>
    BY <1>5 DEF StartOfFrame, hardware, job
  <2>2. TypeOK'
    BY <1>1, <1>2, <1>3, <2>1 DEF TypeOK
  <2>3. RoomStays' /\ Job' /\ OtherIsEmpty'
    BY <1>1, <1>3, <2>1 DEF RoomStays, Job, OtherIsEmpty
  <2>4. InLine'
    BY <1>1, <1>3, <2>1 DEF InLine, Holds, Done
  <2> QED
    BY <2>2, <2>3, <2>4 DEF IInv
<1> QED
  BY <1>4, <1>5

(* A job aborted is none: taking note of its completion changes nothing. *)
LEMMA StaleTransferKeeps == ASSUME IInv, StaleTransfer PROVE IInv'
<1>1. TypeOK' /\ RoomStays' /\ Job' /\ OtherIsEmpty'
  BY DEF StaleTransfer, IInv, TypeOK, RoomStays, Job, OtherIsEmpty, class, hardware,
         job, putc, history
<1>2. InLine'
  BY DEF StaleTransfer, IInv, InLine, Holds, Done, class, hardware, job, putc, history
<1> QED
  BY <1>1, <1>2 DEF IInv

(* The empty packet belongs to the job whose bytes are all sent. *)
LEMMA SendZlpKeeps == ASSUME IInv, SendZlp PROVE IInv'
<1>1. TypeOK /\ RoomStays /\ Job /\ OtherIsEmpty /\ InLine
  BY DEF IInv
<1>2. UNCHANGED <<data_running, tx_buf, tx_buf_nb, tx_buf_sel, tx_sof_num,
                  tx_trans_ongoing, tx_both_buf_to_send, sof_zlp_counter, frame,
                  configured, enabled, busy, source, pc, databit_9, put, got, out,
                  setups>>
  BY DEF SendZlp, class, putc, history
<1>3. /\ busy /\ tc /\ sent = bytecnt /\ nb_trans = 0
      /\ tc' = FALSE /\ shortpacket' = FALSE /\ nb_trans' = nb_trans + sent
      /\ loaded' = TRUE /\ bytecnt' = 0 /\ sent' = 0
  BY <1>1 DEF SendZlp, Job
<1>4. nb_trans' \in 0 .. TxBuffers /\ nb_trans' = bytecnt
  BY <1>1, <1>3 DEF TypeOK
<1>5. TypeOK'
  <2>1. {bytecnt', nb_trans'} \subseteq 0 .. TxBuffers /\ sent' \in 0 .. bytecnt'
    BY <1>3, <1>4, TxAssumption
  <2>2. {shortpacket', tc', loaded'} \subseteq BOOLEAN
    BY <1>3
  <2> QED
    BY <1>1, <1>2, <2>1, <2>2 DEF TypeOK
<1>6. Job'
  BY <1>1, <1>2, <1>3, <1>4 DEF Job, TypeOK
<1>7. Done' = Done
  BY <1>2, <1>3, <1>4 DEF Done
<1>8. RoomStays' /\ OtherIsEmpty' /\ InLine'
  BY <1>1, <1>2, <1>7 DEF RoomStays, OtherIsEmpty, InLine, Holds
<1> QED
  BY <1>5, <1>6, <1>8 DEF IInv

(* The buffer that is freed has been sent. *)
LEMMA DataSentKeeps == ASSUME IInv, DataSent PROVE IInv'
<1>1. TypeOK /\ RoomStays /\ Job /\ OtherIsEmpty /\ InLine
  BY DEF IInv
<1>2. UNCHANGED <<data_running, tx_buf, frame, configured, enabled, pc, databit_9,
                  put, got, out, setups>>
  BY DEF DataSent, putc, history
<1>3. PICK sel \in Buffers : sel = tx_buf_sel
  BY <1>1 DEF TypeOK
<1>4. PICK last \in 0 .. Frames - 1 : last = tx_sof_num
  BY <1>1 DEF TypeOK
<1>5. TxSend(sel, last) /\ ~tc' /\ tc' \in BOOLEAN /\ tx_both_buf_to_send' = FALSE
  BY <1>3, <1>4 DEF DataSent
<1>6. tx_buf_nb' = [tx_buf_nb EXCEPT ![Other(sel)] = 0]
  BY <1>3 DEF DataSent, Freed
<1>7. /\ tx_buf_nb' \in [Buffers -> 0 .. TxBuffers]
      /\ tx_buf_nb'[Other(sel)] = 0 /\ tx_buf_nb'[sel] = tx_buf_nb[sel]
  BY <1>1, <1>6, OtherBuffer, TxAssumption DEF TypeOK
<1>8. pc = "write" => tx_buf_nb'[sel] < TxBuffers
  BY <1>1, <1>3, <1>7 DEF RoomStays
<1>9. enabled' => Holds(sel, got)'
  <2> SUFFICES ASSUME enabled PROVE Holds(sel, got)'
    BY <1>2
  <2>1. Done = tx_buf_nb[Other(sel)]
    BY <1>1, <1>3 DEF DataSent, Done, Job
  <2>2. Holds(sel, got - tx_buf_nb[Other(sel)])
    BY <1>1, <1>3, <2>1 DEF InLine
  <2>3. /\ got \in Nat /\ tx_buf_nb[Other(sel)] \in Nat /\ tx_buf_nb[sel] \in Nat
    BY <1>1, OtherBuffer DEF TypeOK
  <2>4. got + tx_buf_nb[sel] = put
    BY <2>2, <2>3 DEF Holds
  <2>5. \A i \in 0 .. tx_buf_nb[sel] - 1 : tx_buf[sel][i] = got + 1 + i
    BY <2>2, <2>3 DEF Holds
  <2> QED
    BY <1>2, <1>7, <2>3, <2>4, <2>5 DEF Holds
<1>10. /\ {data_running', configured', enabled', tc'} \subseteq BOOLEAN
       /\ frame' \in 0 .. Frames - 1
       /\ got' \in 0 .. put /\ setups' \in Nat
  BY <1>1, <1>2, <1>5 DEF TypeOK
<1> QED
  BY <1>1, <1>2, <1>5, <1>7, <1>8, <1>9, <1>10, TxSendKeeps

(* An endpoint that is freed has no job and nothing in line. *)
LEMMA DisableKeeps == ASSUME IInv, Disable PROVE IInv'
<1>1. TypeOK' /\ RoomStays' /\ OtherIsEmpty'
  BY DEF Disable, IInv, TypeOK, RoomStays, OtherIsEmpty, class, putc, history
<1>2. Job' /\ InLine'
  BY DEF Disable, Job, InLine
<1> QED
  BY <1>1, <1>2 DEF IInv

(* What was in line is given up. *)
LEMMA EnableKeeps == ASSUME IInv, Enable PROVE IInv'
<1>1. TypeOK /\ RoomStays
  BY DEF IInv
<1>2. /\ UNCHANGED <<tx_buf, frame, pc, databit_9, put, out>>
      /\ got' = put /\ tc' = FALSE /\ tx_both_buf_to_send' = FALSE
      /\ setups' = setups + 1 /\ configured' = TRUE /\ enabled' = TRUE
      /\ data_running' \in BOOLEAN
      /\ tx_buf_nb' = [b \in Buffers |-> 0]
      /\ TxSend(0, 0)
  BY DEF Enable, putc
<1>3. /\ 0 \in Buffers /\ 0 \in 0 .. Frames - 1
      /\ tx_buf_nb' \in [Buffers -> 0 .. TxBuffers]
      /\ tx_buf_nb'[0] = 0 /\ tx_buf_nb'[Other(0)] = 0
      /\ 0 < TxBuffers
  BY <1>2, OtherBuffer, TxAssumption DEF Buffers
<1>4. Holds(0, got)'
  BY <1>1, <1>2, <1>3 DEF Holds, TypeOK
<1>5. /\ {data_running', configured', enabled', tc'} \subseteq BOOLEAN
      /\ frame' \in 0 .. Frames - 1
      /\ got' \in 0 .. put /\ setups' \in Nat
  <2>1. frame' \in 0 .. Frames - 1 /\ got' \in 0 .. put /\ setups' \in Nat
    BY <1>1, <1>2 DEF TypeOK
  <2> QED
    BY <1>2, <2>1
<1>6. PICK sel \in Buffers : sel = 0
  BY <1>3
<1>7. PICK last \in 0 .. Frames - 1 : last = 0
  BY <1>3
<1>8. TxSend(sel, last) /\ Holds(sel, got)'
  BY <1>2, <1>4, <1>6, <1>7
<1> QED
  BY <1>1, <1>2, <1>3, <1>5, <1>6, <1>8, TxSendKeeps

(* A packet takes bytes of the job, the first that are left. *)
LEMMA PacketIsNext ==
  ASSUME IInv, HostPacket
  PROVE  /\ IInv'
         /\ Channel!Next
<1>1. TypeOK /\ RoomStays /\ Job /\ OtherIsEmpty /\ InLine
  BY DEF IInv
<1> DEFINE n    == IF bytecnt - sent < EpSize THEN bytecnt - sent ELSE EpSize
           from == nb_trans + sent
           old  == Other(tx_buf_sel)
<1>2. /\ out' = [i \in 1 .. n |-> tx_buf[source][from + i - 1]]
      /\ got' = got + n
      /\ sent' = sent + n
      /\ loaded' = (sent' # bytecnt)
      /\ tc' = (sent' = bytecnt)
  BY DEF HostPacket
<1>3. UNCHANGED <<data_running, tx_buf, tx_buf_nb, tx_buf_sel, tx_sof_num,
                  tx_trans_ongoing, tx_both_buf_to_send, sof_zlp_counter, frame,
                  configured, enabled, bytecnt, busy, source, nb_trans, shortpacket,
                  pc, databit_9, put, setups>>
  BY DEF HostPacket, class, job, putc
<1>4. /\ busy /\ enabled /\ tx_trans_ongoing /\ source = old
      /\ nb_trans + bytecnt = tx_buf_nb[old]
      /\ shortpacket => nb_trans = 0
  BY <1>1 DEF HostPacket, Job
<1>5. /\ EpSize \in Nat /\ bytecnt \in Nat /\ sent \in 0 .. bytecnt /\ nb_trans \in Nat
      /\ got \in Nat /\ put \in Nat
      /\ tx_buf_nb[old] \in Nat /\ tx_buf_nb[tx_buf_sel] \in Nat
  BY <1>1, OtherBuffer, TxAssumption DEF TypeOK
<1>6. n \in 0 .. EpSize /\ sent + n \in 0 .. bytecnt
  BY <1>5
<1>7. Done = from /\ Holds(tx_buf_sel, got - from)
  BY <1>1, <1>4 DEF Done, InLine
<1>8. got - from + tx_buf_nb[old] + tx_buf_nb[tx_buf_sel] = put
  BY <1>7 DEF Holds
<1>9. got + n \in 0 .. put
  <2>1. got + (bytecnt - sent) + tx_buf_nb[tx_buf_sel] = put
    BY <1>4, <1>5, <1>8
  <2> QED
    BY <1>5, <1>6, <2>1
<1>10. Channel!Next
  <2>1. ASSUME NEW i \in 1 .. n PROVE tx_buf[source][from + i - 1] = got + i
    <3>1. from + i - 1 \in 0 .. tx_buf_nb[old] - 1
      BY <1>4, <1>5, <1>6
    <3>2. tx_buf[old][from + i - 1] = got - from + 1 + (from + i - 1)
      BY <1>7, <3>1 DEF Holds
    <3> QED
      BY <1>4, <1>5, <1>6, <3>2
  <2>2. out' = [i \in 1 .. n |-> got + i]
    BY <1>2, <2>1
  <2>3. Channel!Take(n)
    BY <1>2, <1>3, <1>9, <2>2 DEF Channel!Take
  <2> QED
    BY <1>6, <2>3 DEF Channel!Next
<1>11. TypeOK'
  <2>1. got' \in 0 .. put' /\ sent' \in 0 .. bytecnt' /\ {loaded', tc'} \subseteq BOOLEAN
    BY <1>2, <1>3, <1>6, <1>9
  <2> QED
    BY <1>1, <1>3, <2>1 DEF TypeOK
<1>12. Job' /\ RoomStays' /\ OtherIsEmpty'
  BY <1>1, <1>2, <1>3, <1>4 DEF Job, RoomStays, OtherIsEmpty
<1>13. InLine'
  <2>1. Done' = from + n /\ got' - Done' = got - from
    BY <1>2, <1>3, <1>4, <1>5, <1>6 DEF Done
  <2> QED
    BY <1>3, <1>7, <2>1 DEF InLine, Holds
<1> QED
  BY <1>10, <1>11, <1>12, <1>13 DEF IInv

-----------------------------------------------------------------------------
(* udi_cdc_putc *)

(* Its tests leave the buffers alone, and find room before the write. *)
LEMMA TestsKeep ==
  ASSUME IInv, CallPutc \/ HasRoom \/ NoRoom \/ TestRunning
  PROVE  IInv'
<1>1. TypeOK /\ RoomStays /\ Job /\ OtherIsEmpty /\ InLine
  BY DEF IInv
<1>2. /\ UNCHANGED <<others, tx_buf, tx_buf_nb, tx_buf_sel, tx_both_buf_to_send,
                     put, got, out>>
      /\ databit_9' \in BOOLEAN /\ pc' \in {"idle", "check", "test", "write"}
      /\ pc' = "write" => ~Full
  BY <1>1 DEF CallPutc, HasRoom, NoRoom, TestRunning, history, TypeOK
<1>3. TypeOK'
  BY <1>1, <1>2 DEF TypeOK, others, hardware, job
<1>4. RoomStays'
  <2>1. tx_buf_nb[tx_buf_sel] \in 0 .. TxBuffers
    BY <1>1 DEF TypeOK
  <2> QED
    BY <1>2, <2>1, TxAssumption DEF RoomStays, Full
<1>5. Job' /\ OtherIsEmpty'
  BY <1>1, <1>2 DEF Job, OtherIsEmpty, others, hardware, job
<1>6. InLine'
  BY <1>1, <1>2 DEF InLine, Holds, Done, others, hardware, job
<1> QED
  BY <1>3, <1>4, <1>5, <1>6 DEF IInv

(* The buffer it takes is empty, the one it leaves waits. *)
LEMMA TakeOtherKeeps == ASSUME IInv, TakeOther PROVE IInv'
<1>1. TypeOK /\ RoomStays /\ Job /\ OtherIsEmpty /\ InLine
  BY DEF IInv
<1>2. /\ UNCHANGED <<others, databit_9, tx_buf, tx_buf_nb, put, got, out>>
      /\ pc' = "write" /\ tx_both_buf_to_send' = TRUE
      /\ tx_buf_sel' = Other(tx_buf_sel)
      /\ ~tx_trans_ongoing /\ ~tx_both_buf_to_send
  BY DEF TakeOther, OtherIsFree, history
<1>3. ~busy /\ ~loaded
  BY <1>1, <1>2 DEF Job
<1>4. /\ tx_buf_nb[Other(tx_buf_sel)] = 0
      /\ tx_buf_sel' \in Buffers /\ Other(tx_buf_sel') = tx_buf_sel
  BY <1>1, <1>2, OtherBuffer DEF OtherIsEmpty, TypeOK
<1>5. TypeOK'
  BY <1>1, <1>2, <1>4 DEF TypeOK, others, hardware, job
<1>6. RoomStays' /\ OtherIsEmpty'
  BY <1>2, <1>4, TxAssumption DEF RoomStays, OtherIsEmpty
<1>7. Job'
  BY <1>1, <1>2, <1>3 DEF Job, others, hardware, job
<1>8. InLine'
  <2>1. UNCHANGED <<enabled, busy, nb_trans, sent>>
    BY <1>2 DEF others, hardware, job
  <2> SUFFICES ASSUME enabled PROVE Holds(tx_buf_sel, got - Done)'
    BY <2>1 DEF InLine
  <2>2. Done = 0 /\ Done' = 0
    BY <1>3, <2>1 DEF Done
  <2>3. got \in Nat /\ tx_buf_nb[tx_buf_sel] \in Nat
    BY <1>1 DEF TypeOK
  <2>4. Holds(tx_buf_sel, got)
    BY <1>1, <2>2, <2>3, MinusZero DEF InLine
  <2>5. got + tx_buf_nb[tx_buf_sel] + 0 = put
    BY <1>4, <2>3, <2>4 DEF Holds
  <2>6. \A i \in 0 .. tx_buf_nb[tx_buf_sel] - 1 : tx_buf[tx_buf_sel][i] = got + 1 + i
    BY <1>4, <2>3, <2>4 DEF Holds
  <2>7. got' - Done' = got
    BY <1>2, <2>2, <2>3, MinusZero
  <2> QED
    BY <1>2, <1>4, <2>5, <2>6, <2>7 DEF Holds
<1> QED
  BY <1>5, <1>6, <1>7, <1>8 DEF IInv

(* The byte goes behind the last one. *)
LEMMA WriteIsNext ==
  ASSUME IInv, Write
  PROVE  /\ IInv'
         /\ Channel!Next
<1> DEFINE sel   == tx_buf_sel
           other == Other(tx_buf_sel)
           last  == tx_buf_nb[tx_buf_sel]
<1>1. TypeOK /\ RoomStays /\ Job /\ OtherIsEmpty /\ InLine
  BY DEF IInv
<1>2. /\ UNCHANGED <<others, tx_buf_sel, tx_both_buf_to_send, got, out>>
      /\ pc = "write" /\ put' = put + 1
      /\ tx_buf' = [tx_buf EXCEPT ![sel][last] = put']
      /\ tx_buf_nb' = [tx_buf_nb EXCEPT ![sel] = @ + 1]
      /\ pc' \in {"idle", "check"} /\ databit_9' = FALSE
  BY DEF Write
<1>3. /\ sel \in Buffers /\ other \in Buffers /\ other # sel
      /\ last \in 0 .. TxBuffers - 1 /\ put \in Nat /\ got \in Nat
      /\ tx_buf_nb[other] \in Nat
  <2>1. sel \in Buffers /\ put \in Nat /\ got \in Nat
    BY <1>1 DEF TypeOK
  <2>2. other \in Buffers /\ other # sel
    BY <2>1, OtherBuffer
  <2>3. last \in 0 .. TxBuffers /\ tx_buf_nb[other] \in 0 .. TxBuffers
    BY <1>1, <2>1, <2>2 DEF TypeOK
  <2>4. last < TxBuffers
    BY <1>1, <1>2 DEF RoomStays
  <2> QED
    BY <2>1, <2>2, <2>3, <2>4, TxAssumption
<1>4. /\ tx_buf_nb' \in [Buffers -> 0 .. TxBuffers]
      /\ tx_buf_nb'[sel] = last + 1 /\ tx_buf_nb'[other] = tx_buf_nb[other]
  <2>1. tx_buf_nb \in [Buffers -> 0 .. TxBuffers] /\ last + 1 \in 0 .. TxBuffers
    <3>1. tx_buf_nb \in [Buffers -> 0 .. TxBuffers]
      BY <1>1 DEF TypeOK
    <3>2. last + 1 \in 0 .. TxBuffers
      BY <1>3, TxAssumption
    <3> QED
      BY <3>1, <3>2
  <2>2. tx_buf_nb' = [tx_buf_nb EXCEPT ![sel] = last + 1]
    BY <1>2
  <2> HIDE DEF sel, other, last
  <2> QED
    BY <1>3, <2>1, <2>2
<1>5. /\ tx_buf' \in [Buffers -> [0 .. TxBuffers - 1 -> 0 .. put']]
      /\ tx_buf'[other] = tx_buf[other]
      /\ \A i \in 0 .. last - 1 : tx_buf'[sel][i] = tx_buf[sel][i]
      /\ tx_buf'[sel][last] = put'
  <2> DEFINE Places == 0 .. TxBuffers - 1
             new    == [tx_buf[sel] EXCEPT ![last] = put']
  <2>1. tx_buf \in [Buffers -> [Places -> 0 .. put']]
    <3>1. 0 .. put \subseteq 0 .. put'
      BY <1>2, <1>3
    <3>2. tx_buf \in [Buffers -> [Places -> 0 .. put]]
      BY <1>1 DEF TypeOK
    <3> HIDE DEF Places
    <3> QED
      BY <3>1, <3>2
  <2>2. put' \in 0 .. put' /\ last \in Places
    BY <1>2, <1>3
  <2>3. tx_buf' = [tx_buf EXCEPT ![sel] = new]
    BY <1>2
  <2>4. Places = 0 .. TxBuffers - 1 /\ last \notin 0 .. last - 1
        /\ 0 .. last - 1 \subseteq Places
    BY <1>3, TxAssumption
  <2> HIDE DEF Places, sel, other, last
  <2>5. tx_buf[sel] \in [Places -> 0 .. put']
    BY <1>3, <2>1
  <2>6. /\ new \in [Places -> 0 .. put'] /\ new[last] = put'
        /\ \A i \in 0 .. last - 1 : new[i] = tx_buf[sel][i]
    BY <2>2, <2>4, <2>5
  <2> HIDE DEF new
  <2>7. tx_buf' \in [Buffers -> [Places -> 0 .. put']] /\ tx_buf'[sel] = new
        /\ tx_buf'[other] = tx_buf[other]
    BY <1>3, <2>1, <2>3, <2>6
  <2> QED
    BY <2>4, <2>6, <2>7
<1>6. TypeOK'
  <2>1. got \in 0 .. put
    BY <1>1 DEF TypeOK
  <2>2. put' \in Nat /\ got' \in 0 .. put' /\ databit_9' \in BOOLEAN
    <3>1. got' = got /\ put' = put + 1 /\ databit_9' = FALSE
      BY <1>2
    <3>2. put \in Nat
      BY <1>3
    <3> QED
      BY <2>1, <3>1, <3>2, OneMore
  <2> QED
    BY <1>1, <1>2, <1>4, <1>5, <2>2 DEF TypeOK, others, hardware, job
<1>7. UNCHANGED <<enabled, busy, tc, loaded, source, nb_trans, bytecnt, sent,
                  shortpacket, tx_trans_ongoing, data_running>>
  BY <1>2 DEF others, hardware, job
<1>8. Job' /\ RoomStays' /\ OtherIsEmpty'
  BY <1>1, <1>2, <1>4, <1>7 DEF Job, RoomStays, OtherIsEmpty
<1>9. InLine'
  <2> SUFFICES ASSUME enabled PROVE Holds(tx_buf_sel, got - Done)'
    BY <1>7 DEF InLine
  <2> DEFINE base == got - Done
  <2>1. got' - Done' = base /\ base \in Int
    BY <1>1, <1>2, <1>3, <1>7 DEF Done, TypeOK
  <2>2. Holds(tx_buf_sel, base)
    BY <1>1 DEF InLine
  <2> HIDE DEF base
  <2>3. base + tx_buf_nb[other] + last = put
    BY <2>2 DEF Holds
  <2>4. base + tx_buf_nb'[other] + tx_buf_nb'[sel] = put'
    BY <1>2, <1>3, <1>4, <2>1, <2>3
  <2>5. \A i \in 0 .. tx_buf_nb'[other] - 1 : tx_buf'[other][i] = base + 1 + i
    BY <1>4, <1>5, <2>2 DEF Holds
  <2>6. ASSUME NEW i \in 0 .. tx_buf_nb'[sel] - 1
        PROVE  tx_buf'[sel][i] = base + tx_buf_nb'[other] + 1 + i
    <3>1. CASE i = last
      BY <1>2, <1>3, <1>4, <1>5, <2>1, <2>3, <3>1
    <3>2. CASE i # last
      <4>1. i \in 0 .. last - 1
        BY <1>3, <1>4, <3>2
      <4> QED
        BY <1>4, <1>5, <2>2, <4>1 DEF Holds
    <3> QED
      BY <3>1, <3>2
  <2> QED
    BY <1>2, <2>1, <2>4, <2>5, <2>6 DEF Holds
<1>10. Channel!Next
  <2>1. 1 \in 0 .. EpSize
    BY TxAssumption
  <2>2. Channel!Put(1)
    BY <1>2, <1>7 DEF Channel!Put
  <2> QED
    BY <2>1, <2>2 DEF Channel!Next
<1> QED
  BY <1>6, <1>8, <1>9, <1>10 DEF IInv

-----------------------------------------------------------------------------
(* Every step keeps the invariant. *)
LEMMA NextInv == IInv /\ [Next]_vars => IInv'
<1> SUFFICES ASSUME IInv, [Next]_vars PROVE IInv'
  OBVIOUS
<1>1. CASE StartOfFrame
  BY <1>1, StartOfFrameKeeps
<1>2. CASE StaleTransfer
  BY <1>2, StaleTransferKeeps
<1>3. CASE SendZlp
  BY <1>3, SendZlpKeeps
<1>4. CASE DataSent
  BY <1>4, DataSentKeeps
<1>5. CASE Disable
  BY <1>5, DisableKeeps
<1>6. CASE Enable
  BY <1>6, EnableKeeps
<1>7. CASE HostPacket
  BY <1>7, PacketIsNext
<1>8. CASE CallPutc \/ HasRoom \/ NoRoom \/ TestRunning
  BY <1>8, TestsKeep
<1>9. CASE TakeOther
  BY <1>9, TakeOtherKeeps
<1>10. CASE Write
  BY <1>10, WriteIsNext
<1>11. CASE UNCHANGED vars
  <2>1. TypeOK' /\ RoomStays' /\ Job' /\ OtherIsEmpty'
    BY <1>11 DEF vars, class, hardware, job, putc, history, IInv, TypeOK, RoomStays,
                 Job, OtherIsEmpty
  <2>2. InLine'
    BY <1>11 DEF vars, class, hardware, job, putc, history, IInv, InLine, Holds, Done
  <2> QED
    BY <2>1, <2>2 DEF IInv
<1> QED
  BY <1>1, <1>2, <1>3, <1>4, <1>5, <1>6, <1>7, <1>8, <1>9, <1>10, <1>11
     DEF Next, TransferComplete, Putc

(* The invariant holds throughout. *)
LEMMA AlwaysInv == Spec => []IInv
<1>1. Init => IInv
  BY InitInv
<1>2. IInv /\ [Next]_vars => IInv'
  BY NextInv
<1> QED
  BY <1>1, <1>2, PTL DEF Spec

(* The variables keep their types; in particular no buffer of udi_cdc_putc   *)
(* gets more bytes than it has places (udi_cdc.c:974, 1030-1036).           *)
THEOREM TypeCorrect == Spec => []TypeOK
<1>1. IInv => TypeOK
  BY DEF IInv
<1> QED
  BY <1>1, AlwaysInv, PTL

(* The room found by udi_cdc_multi_get_free_tx_buffer is there when the byte *)
(* is written (udi_cdc.c:1027), whatever the interrupt did in between.       *)
THEOREM RoomIsThere == Spec => []RoomStays
<1>1. IInv => RoomStays
  BY DEF IInv
<1> QED
  BY <1>1, AlwaysInv, PTL

(* Other steps are none of the channel, or end or begin a connection. *)
LEMMA OthersAsChannel ==
  ASSUME IInv, Next, ~HostPacket, ~Write
  PROVE  [Channel!Next]_(Channel!vars)
<1>1. CASE Disable
  <2>1. Channel!Close
    BY <1>1 DEF Disable, Channel!Close, history
  <2> QED
    BY <2>1 DEF Channel!Next
<1>2. CASE Enable
  <2>1. Channel!SetUp
    BY <1>2 DEF Enable, Channel!SetUp
  <2> QED
    BY <2>1 DEF Channel!Next
<1>3. CASE StartOfFrame \/ TransferComplete \/ CallPutc \/ HasRoom \/ TakeOther
           \/ NoRoom \/ TestRunning
  <2>1. UNCHANGED <<data_running, put, got, out>>
    BY <1>3 DEF StartOfFrame, TransferComplete, StaleTransfer, SendZlp, DataSent,
                CallPutc, HasRoom, TakeOther, NoRoom, TestRunning, history, others
  <2> QED
    BY <2>1 DEF Channel!vars
<1> QED
  BY <1>1, <1>2, <1>3 DEF Next, Putc

(* The host gets the bytes as they were written (udi_cdc.c:699-776, 966-1039): *)
(* transmission is a channel that keeps their order, loses none and repeats   *)
(* none as long as the connection lasts.                                    *)
THEOREM TransmitsInOrder == Spec => InOrder
<1>1. Init => Channel!Init
  BY DEF Init, Channel!Init
<1>2. IInv /\ [Next]_vars => [Channel!Next]_(Channel!vars)
  <2> SUFFICES ASSUME IInv, [Next]_vars PROVE [Channel!Next]_(Channel!vars)
    OBVIOUS
  <2>1. CASE HostPacket
    BY <2>1, PacketIsNext
  <2>2. CASE Write
    BY <2>2, WriteIsNext
  <2>3. CASE Next /\ ~HostPacket /\ ~Write
    BY <2>3, OthersAsChannel
  <2>4. CASE UNCHANGED vars
    BY <2>4 DEF vars, history, Channel!vars
  <2> QED
    BY <2>1, <2>2, <2>3, <2>4
<1> QED
  BY <1>1, <1>2, AlwaysInv, PTL DEF Spec, InOrder, Channel!Spec

===============================================================================
