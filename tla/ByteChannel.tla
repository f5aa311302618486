------------------------------ MODULE ByteChannel ------------------------------
(***************************************************************************)
(* What the two directions of the CDC data interface promise: bytes come   *)
(* out in the order in which they went in, none twice and none left out,   *)
(* until the connection is closed or set up anew.  Bytes are known by      *)
(* their numbers: 1 .. put have gone in, 1 .. got have come out or were     *)
(* given up.                                                               *)
(***************************************************************************)
EXTENDS Naturals, Sequences

CONSTANTS
  Most,       \* the most bytes that go in or come out at once
  KeepsOld    \* whether bytes of an earlier connection may come out

VARIABLES
  open,     \* the channel is in use
  put,      \* the bytes that have gone in
  got,      \* those of them that have come out or were given up
  start,    \* if it KeepsOld: those that had gone in at its last set-up
  out       \* what the last read gave

vars == <<open, put, got, start, out>>

Init ==
  /\ open = FALSE
  /\ put = 0
  /\ got = 0
  /\ start = 0
  /\ out = <<>>

Put(n) ==
  /\ put' = put + n
  /\ UNCHANGED <<open, got, start, out>>

(* The next n bytes come out. *)
Take(n) ==
  /\ got + n <= put
  /\ got' = got + n
  /\ out' = [i \in 1 .. n |-> got + i]
  /\ UNCHANGED <<open, put, start>>

(* Before the first byte of a new connection, bytes of an earlier one may   *)
(* come out once more.                                                     *)
TakeOld ==
  /\ KeepsOld
  /\ got = start
  /\ \E i \in 1 .. start : out' = <<i>>
  /\ UNCHANGED <<open, put, got, start>>

(* A closed channel gives nothing. *)
Refuse ==
  /\ ~open
  /\ out' = <<>>
  /\ UNCHANGED <<open, put, got, start>>

Close ==
  /\ open' = FALSE
  /\ UNCHANGED <<put, got, start, out>>

(* A new connection, if it comes about: what was under way is given up. *)
SetUp ==
  /\ open' \in BOOLEAN
  /\ got' = put
  /\ start' = IF KeepsOld THEN put ELSE start
  /\ UNCHANGED <<put, out>>

Next == \/ \E n \in 0 .. Most : Put(n) \/ Take(n)
        \/ TakeOld \/ Refuse \/ Close \/ SetUp

Spec == Init /\ [][Next]_vars

=============================================================================
