--------------------------------- MODULE MCUsb ---------------------------------
(***************************************************************************)
(* The control endpoint, and the terminal with the keys it sets: they share *)
(* no state and are checked in one run.  A behaviour is one of one of them.  *)
(***************************************************************************)
EXTENDS UsbControl, MCUsbTerminal

VARIABLE part      \* the part that runs

usbVars == <<part, vars, terminalVars>>

UsbInit ==
  /\ part \in {"control", "terminal"}
  /\ Init /\ TerminalInit
  /\ part = "control" => aes_on

ControlRuns(Step) ==
  /\ part = "control" /\ Step
  /\ UNCHANGED <<part, terminalVars>>

TerminalRuns ==
  /\ part = "terminal" /\ TerminalNext
  /\ UNCHANGED <<part, vars>>

UsbNext == ControlRuns(Next) \/ TerminalRuns

(* The fairness of UsbControl. *)
UsbSpec ==
  /\ UsbInit /\ [][UsbNext]_usbVars
  /\ WF_usbVars(ControlRuns(Underflow)) /\ SF_usbVars(ControlRuns(Overflow))
  /\ SF_usbVars(ControlRuns(TransferComplete)) /\ WF_usbVars(ControlRuns(Token))
=============================================================================
