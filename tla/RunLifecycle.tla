----------------------------- MODULE RunLifecycle -----------------------------
(***************************************************************************)
(* What a run promises about its lifecycle: one status that moves only     *)
(* along the transition matrix of ADR 0039 and never leaves a terminal     *)
(* state.  RunControl.tla, where this status lives in two places that      *)
(* several threads write, is checked against it.                           *)
(***************************************************************************)
EXTENDS RunStates

VARIABLE status

Init == status = "pending"

\* A control action that takes effect.
Accept(a) ==
    /\ status \in AllowedFrom[a]
    /\ status' = Target[a]

\* The first tick of a run that nobody has started.
AutoStart ==
    /\ status = "pending"
    /\ status' = "running"

Next == AutoStart \/ \E a \in ControlAction : Accept(a)

Spec == Init /\ [][Next]_status
===============================================================================
