------------------------------- MODULE PageStore -------------------------------
(***************************************************************************)
(* What the program expects of the Dataflash: pages that change only when  *)
(* it says so, one operation at a time, each of which takes a while and    *)
(* then has its whole effect, unless power is lost before.                 *)
(***************************************************************************)
EXTENDS Naturals

CONSTANTS
  Pages,
  Data,      \* what a page may hold
  Blank      \* what an erased page holds

VARIABLES
  array,     \* the contents of the pages
  pending,   \* the operation under way: data is to fill pages
  losses     \* the number of times that power was lost

vars == <<array, pending, losses>>

Nothing == [pages |-> {}, data |-> Blank]

Init ==
  /\ array \in [Pages -> Data]
  /\ pending = Nothing
  /\ losses = 0

(* An operation begins. *)
Begin(P, d) ==
  /\ pending = Nothing
  /\ P # {}
  /\ pending' = [pages |-> P, data |-> d]
  /\ UNCHANGED <<array, losses>>

(* The operation under way ends. *)
End ==
  /\ pending # Nothing
  /\ array' = [p \in Pages |-> IF p \in pending.pages THEN pending.data
                                                      ELSE array[p]]
  /\ pending' = Nothing
  /\ UNCHANGED losses

(* Power is lost: the pages of the operation under way may hold anything,   *)
(* all others what they held.                                              *)
PowerLoss ==
  /\ losses' = losses + 1
  /\ array' \in [Pages -> Data]
  /\ \A p \in Pages \ pending.pages : array'[p] = array[p]
  /\ pending' = Nothing

Next == \/ \E P \in SUBSET Pages, d \in Data : Begin(P, d)
        \/ End
        \/ PowerLoss

(* What it may do, and that every operation ends. *)
Safety == Init /\ [][Next]_vars

Spec == Safety /\ WF_vars(End)

=============================================================================
