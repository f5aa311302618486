----------------------------- MODULE MCNmeaDecode -----------------------------
(***************************************************************************)
(* Lines for NmeaDecode: RMC sentences with the fields that matter in      *)
(* several forms (good, impossible, empty), cut short, and others.         *)
(***************************************************************************)
EXTENDS NmeaDecode

Good == <<<<2, 3, 5, 9, 0, 7, Dot, 0, 0, 0>>, <<A>>, <<5, 0, Dot, 7>>, <<Other>>,
          <<1, Dot, 4>>, <<Other>>, <<>>, <<>>, <<2, 6, 1, 1, 1, 4>>, <<>>,
          <<Other>>>>

Forms ==
  {[Good EXCEPT ![1] = time, ![2] = status, ![3] = lat, ![5] = lon] :
     time   \in {Good[1], <<2, 4, 0, 0, 0, 0>>, <<>>},
     status \in {Good[2], <<Other>>},
     lat    \in {Good[3], <<5>>, <<>>},
     lon    \in {Good[5], <<>>}}

(* At most one of the fields is not good. *)
RMCFields == {f \in Forms : Cardinality({k \in 1 .. 11 : f[k] # Good[k]}) <= 1}

(* The date is empty and ends with the array. *)
AtTheEnd == [Good EXCEPT ![8] = [i \in 1 .. 17 |-> Other], ![9] = <<>>, ![11] = <<>>]

TestBehind == {[i \in BehindSlots |-> 2]}

TestLines ==
  {[kind |-> "RMC", fields |-> f] : f \in RMCFields}
  \cup {[kind |-> "RMC", fields |-> [i \in 1 .. 11 |-> <<>>]],
        [kind |-> "RMC", fields |-> AtTheEnd],
        [kind |-> "RMC", fields |-> [i \in 1 .. 5 |-> <<1>>]],
        [kind |-> "RMC", fields |-> <<<<>>>>],
        [kind |-> "VTG", fields |-> [i \in 1 .. 8 |-> <<2, Dot, 5>>]],
        [kind |-> "VTG", fields |-> [i \in 1 .. 4 |-> <<7>>]],
        [kind |-> "other", fields |-> [i \in 1 .. 20 |-> <<3>>]],
        [kind |-> "other", fields |-> [i \in 1 .. 21 |-> <<>>]],
        [kind |-> "ignored", fields |-> <<<<4, 4, 4>>>>]}
===============================================================================
