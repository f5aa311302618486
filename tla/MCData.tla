------------------------------- MODULE MCData -------------------------------
(***************************************************************************)
(* Three parts of the program that do not interact, checked in one run: the *)
(* decoder with its lines, the atomic buffer with its contents, and the     *)
(* page image.  A behaviour is one of one of them.                         *)
(***************************************************************************)
EXTENDS MCNmeaDecode, MCFramAtomic, PageImage

VARIABLE part      \* the part that runs

DataInit ==
  /\ part \in {"decode", "fram", "image"}
  /\ DecodeInit /\ Init /\ ImageInit
  /\ part # "fram" => fram = [a \in Addresses |-> 0]

DecodeRuns ==
  /\ part = "decode" /\ DecodeNext
  /\ UNCHANGED <<part, vars, imageVars>>

FramRuns ==
  /\ part = "fram" /\ Next
  /\ UNCHANGED <<part, decodeVars, imageVars>>

ImageRuns ==
  /\ part = "image" /\ ImageNext
  /\ UNCHANGED <<part, decodeVars, vars>>

DataNext == DecodeRuns \/ FramRuns \/ ImageRuns

DataSpec == DataInit /\ [][DataNext]_<<part, decodeVars, vars, imageVars>>
=============================================================================
