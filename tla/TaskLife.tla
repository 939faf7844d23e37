-------------------------------- MODULE TaskLife --------------------------------
(***************************************************************************)
(* What the task of a run promises, whatever ports it serves and whoever   *)
(* stops it: it ticks only while the run goes on and nobody has cancelled  *)
(* it, it leaves that phase for one of three reasons, once, and a run that *)
(* a defect ended is never compared with its reference.                    *)
(*                                                                         *)
(* RunDriver.tla has the task from await to await, RunService.tla sees the *)
(* tasks of several runs from outside; both are checked against this.      *)
(***************************************************************************)
EXTENDS RunStates

VARIABLES
    life,      \* "unused", "created", "live", "closing" or "ended"
    cancelled, \* a cancel() waits for the task
    control,   \* the control state of the run
    failed,    \* the run is marked as failed
    verdict    \* what finalize() decided: "none", "noop", "partial" or "diffed"

vars == <<life, cancelled, control, failed, verdict>>

Init ==
    /\ life = "unused"
    /\ cancelled = FALSE
    /\ control = "pending"
    /\ failed = FALSE
    /\ verdict = "none"

Create ==
    /\ life = "unused"
    /\ life' = "created"
    /\ UNCHANGED <<cancelled, control, failed, verdict>>

\* Only a task that is not done can be cancelled.
Cancel ==
    /\ life \in {"created", "live", "closing"}
    /\ cancelled' = TRUE
    /\ UNCHANGED <<life, control, failed, verdict>>

\* A task cancelled before its first step does nothing at all.
Begin ==
    /\ life = "created"
    /\ life' = IF cancelled THEN "ended" ELSE "live"
    /\ cancelled' = FALSE
    /\ UNCHANGED <<control, failed, verdict>>

\* A tick flips a run that nobody has started.
Tick ==
    /\ life = "live" /\ ~cancelled
    /\ control \in {"pending", "running"}
    /\ control' = "running"
    /\ UNCHANGED <<life, cancelled, failed, verdict>>

\* The orderly end of the live phase.
Leave ==
    /\ life = "live"
    /\ cancelled \/ control \in Terminal
    /\ life' = "closing"
    /\ cancelled' = FALSE
    /\ UNCHANGED <<control, failed, verdict>>

\* A defect ends it: the run is marked, and stopped unless it is over already or
\* the repository is out.
Fail ==
    /\ life = "live" /\ ~cancelled
    /\ life' = "closing"
    /\ failed' = TRUE
    /\ \/ control' = control
       \/ control = "pending" /\ control' = "running"
       \/ control \notin Terminal /\ control' = "stopped"
    /\ UNCHANGED <<cancelled, verdict>>

\* finalize(), unless another cancel() comes first.  A run without a reference has
\* nothing to diff.
End ==
    /\ life = "closing"
    /\ life' = "ended"
    /\ cancelled' = FALSE
    /\ \/ verdict' \in {"noop", IF failed THEN "partial" ELSE "diffed"}
       \/ cancelled /\ UNCHANGED verdict
    /\ UNCHANGED <<control, failed>>

\* A control request that takes effect, of a client or of stop().
Request(a) ==
    /\ control \in AllowedFrom[a]
    /\ control' = Target[a]
    /\ UNCHANGED <<life, cancelled, failed, verdict>>

Next ==
    \/ Create \/ Cancel \/ Begin \/ Tick \/ Leave \/ Fail \/ End
    \/ \E a \in ControlAction : Request(a)

Spec == Init /\ [][Next]_vars
===============================================================================
