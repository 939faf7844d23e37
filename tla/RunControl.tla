------------------------------ MODULE RunControl ------------------------------
(***************************************************************************)
(* The control state of one run (TickLoop.request, the pre-tick guard of   *)
(* TickLoop.tick and the tick task of DemoTickLoopDriver), read and        *)
(* written by several threads:                                             *)
(*                                                                         *)
(*   - every POST /runs/{id}/control runs TickLoop.request in a worker     *)
(*     thread of the web server (the endpoint is a plain `def`);           *)
(*   - the driver task runs tick(), and request("stop"), in the thread of  *)
(*     the event loop.                                                     *)
(*                                                                         *)
(* The code takes no lock, so each read or write of `_control_state` and   *)
(* each call of the run repository is a step of its own.  With Overlap =   *)
(* FALSE a call starts only while no other one is under way, which is how  *)
(* ADR 0039 pictures the control surface ("kein Threading") and how a      *)
(* headless caller behaves; with Overlap = TRUE calls interleave freely,   *)
(* as they do behind the HTTP adapter.                                     *)
(***************************************************************************)
EXTENDS Naturals, RunStates

CONSTANTS
    Workers,      \* threads that execute TickLoop.request for HTTP clients
    Loop,         \* the event-loop thread, which runs the tick task
    Overlap,      \* may a call start while another one is under way?
    RepoMayFail   \* may RunRepositoryPort.update_status raise?

ASSUME LoopAssumption == Loop \notin Workers
ASSUME SwitchAssumption == Overlap \in BOOLEAN /\ RepoMayFail \in BOOLEAN

VARIABLES
    cache,    \* TickLoop._control_state
    repo,     \* the status the run repository holds
    pc,       \* per thread: the next access it will make
    act,      \* per thread: the action of its current or last request
    outcome,  \* per thread: how its last request ended
    \* The tick task:
    failed,   \* TickLoop._run_failed
    verdict,  \* what finalize() decided: "none" until it ran
    \* History, read by no action:
    defect,   \* a tick body or a repository call of tick() has raised
    late      \* tick bodies begun since the control state left "running"

vars == <<cache, repo, pc, act, outcome, failed, verdict, defect, late>>

-------------------------------------------------------------------------------
Threads == Workers \cup {Loop}

\* Where a thread can be inside request().
RequestPC == {"same", "allowed", "repo", "cache"}

\* Where the event-loop thread can be inside the tick task.
TickPC == {"tick_paused", "tick_terminal", "tick_pending", "tick_flip",
           "tick_mirror", "tick_body", "force_stop", "finalize", "stop_check"}

\* A thread between two calls: a worker waiting for a request, the tick task
\* asleep (or about to poll) in _tick_forever, the tick task gone.
RestPC == {"idle", "poll", "ended"}

AtRest(t) == pc[t] \in RestPC

\* May t begin a call now?
MayBegin(t) == Overlap \/ \A u \in Threads \ {t} : AtRest(u)

Goto(t, label) == pc' = [pc EXCEPT ![t] = label]

\* Where request() returns to: the worker's pool, or the place of the tick
\* task that called it -- the except branch of _run_loop, which goes on to its
\* finally, or DemoTickLoopDriver.stop(), which comes after finalize().
ReturnPC(t) ==
    IF t # Loop THEN "idle" ELSE IF verdict = "none" THEN "finalize" ELSE "ended"

TypeOK ==
    /\ cache \in RunStatus
    /\ repo \in RunStatus
    /\ pc \in [Threads -> RequestPC \cup TickPC \cup RestPC]
    /\ \A w \in Workers : pc[w] \in RequestPC \cup {"idle"}
    /\ pc[Loop] # "idle"
    /\ act \in [Threads -> ControlAction]
    /\ outcome \in [Threads -> {"none", "ok", "noop", "invalid", "error"}]
    /\ failed \in BOOLEAN
    /\ verdict \in {"none", "diffed", "partial"}
    /\ defect \in BOOLEAN
    /\ late \in 0..2

Init ==
    /\ cache = "pending"
    /\ repo = "pending"
    /\ pc = [t \in Threads |-> IF t = Loop THEN "poll" ELSE "idle"]
    /\ act = [t \in Threads |-> "stop"]
    /\ outcome = [t \in Threads |-> "none"]
    /\ failed = FALSE
    /\ verdict = "none"
    /\ defect = FALSE
    /\ late = 0

-------------------------------------------------------------------------------
(***************************************************************************)
(* TickLoop.request(action)                                                *)
(***************************************************************************)

taskVars == <<failed, verdict, defect, late>>

\* A client's POST /runs/{id}/control reaches a worker thread.
Begin(w, a) ==
    /\ pc[w] = "idle"
    /\ MayBegin(w)
    /\ Goto(w, "same")
    /\ act' = [act EXCEPT ![w] = a]
    /\ outcome' = [outcome EXCEPT ![w] = "none"]
    /\ UNCHANGED <<cache, repo, taskVars>>

\* "if self._control_state == target_state: return"
CheckSame(t) ==
    /\ pc[t] = "same"
    /\ \/ /\ cache = Target[act[t]]
          /\ Goto(t, ReturnPC(t))
          /\ outcome' = [outcome EXCEPT ![t] = "noop"]
       \/ /\ cache # Target[act[t]]
          /\ Goto(t, "allowed")
          /\ UNCHANGED outcome
    /\ UNCHANGED <<cache, repo, act, taskVars>>

\* Mutant: the second read is skipped.
CheckNothing(t) ==
    /\ pc[t] = "allowed"
    /\ Goto(t, "repo")
    /\ UNCHANGED <<cache, repo, act, outcome, taskVars>>

\* "if self._control_state not in allowed_from: raise" -- a second read.
CheckAllowed(t) ==
    /\ pc[t] = "allowed"
    /\ \/ /\ cache \in AllowedFrom[act[t]]
          /\ Goto(t, "repo")
          /\ UNCHANGED outcome
       \/ /\ cache \notin AllowedFrom[act[t]]
          /\ Goto(t, ReturnPC(t))
          /\ outcome' = [outcome EXCEPT ![t] = "invalid"]
    /\ UNCHANGED <<cache, repo, act, taskVars>>

\* Mutant: the mirror call is forgotten.
UpdateNothing(t) ==
    /\ pc[t] = "repo"
    /\ Goto(t, "cache")
    /\ UNCHANGED <<cache, repo, act, outcome, taskVars>>

\* "self._run_repository.update_status(...)"
UpdateStatus(t) ==
    /\ pc[t] = "repo"
    /\ \/ /\ repo' = Target[act[t]]
          /\ Goto(t, "cache")
          /\ UNCHANGED outcome
       \/ /\ RepoMayFail
          /\ Goto(t, ReturnPC(t))
          /\ outcome' = [outcome EXCEPT ![t] = "error"]
          /\ UNCHANGED repo
    /\ UNCHANGED <<cache, act, taskVars>>

\* "self._control_state = target_state"
SetCache(t) ==
    /\ pc[t] = "cache"
    /\ cache' = Target[act[t]]
    /\ Goto(t, ReturnPC(t))
    /\ outcome' = [outcome EXCEPT ![t] = "ok"]
    /\ late' = IF Target[act[t]] = "running" THEN 0 ELSE late
    /\ UNCHANGED <<repo, act, failed, verdict, defect>>

Request(t) == CheckSame(t) \/ CheckAllowed(t) \/ UpdateStatus(t) \/ SetCache(t)

-------------------------------------------------------------------------------
(***************************************************************************)
(* The tick task: DemoTickLoopDriver._tick_forever around TickLoop.tick()  *)
(***************************************************************************)

\* Mutants: the tick task does not look for a terminal state, or sleeps on it.
PollBlind ==
    /\ pc[Loop] = "poll"
    /\ MayBegin(Loop)
    /\ \/ cache = "paused" /\ UNCHANGED pc
       \/ cache # "paused" /\ Goto(Loop, "tick_paused")
    /\ UNCHANGED <<cache, repo, act, outcome, taskVars>>

PollSleepy ==
    /\ pc[Loop] = "poll"
    /\ MayBegin(Loop)
    /\ \/ cache \in Terminal \cup {"paused"} /\ UNCHANGED pc
       \/ cache \notin Terminal \cup {"paused"} /\ Goto(Loop, "tick_paused")
    /\ UNCHANGED <<cache, repo, act, outcome, taskVars>>

\* _tick_forever wakes up and reads control_state once.
Poll ==
    /\ pc[Loop] = "poll"
    /\ MayBegin(Loop)
    /\ \/ cache \in Terminal /\ Goto(Loop, "finalize")
       \/ cache = "paused" /\ UNCHANGED pc
       \/ cache \notin Terminal \cup {"paused"} /\ Goto(Loop, "tick_paused")
    /\ UNCHANGED <<cache, repo, act, outcome, taskVars>>

\* First test of tick(): a paused run returns an empty result.
TickPaused ==
    /\ pc[Loop] = "tick_paused"
    /\ Goto(Loop, IF cache = "paused" THEN "poll" ELSE "tick_terminal")
    /\ UNCHANGED <<cache, repo, act, outcome, taskVars>>

\* Second test of tick(): a terminal run raises TickLoopStoppedError, which the
\* except branch of _run_loop answers with mark_run_failed().
TickTerminal ==
    /\ pc[Loop] = "tick_terminal"
    /\ \/ /\ cache \in Terminal
          /\ failed' = TRUE
          /\ Goto(Loop, "force_stop")
       \/ /\ cache \notin Terminal
          /\ Goto(Loop, "tick_pending")
          /\ UNCHANGED failed
    /\ UNCHANGED <<cache, repo, act, outcome, verdict, defect, late>>

\* Third test of tick(): only a pending run is flipped.
TickPending ==
    /\ pc[Loop] = "tick_pending"
    /\ Goto(Loop, IF cache = "pending" THEN "tick_flip" ELSE "tick_body")
    /\ UNCHANGED <<cache, repo, act, outcome, taskVars>>

\* The flip writes the control state first ...
TickFlip ==
    /\ pc[Loop] = "tick_flip"
    /\ cache' = "running"
    /\ late' = 0
    /\ Goto(Loop, "tick_mirror")
    /\ UNCHANGED <<repo, act, outcome, failed, verdict, defect>>

\* ... and the repository second.
TickMirror ==
    /\ pc[Loop] = "tick_mirror"
    /\ \/ /\ repo' = "running"
          /\ Goto(Loop, "tick_body")
          /\ UNCHANGED <<failed, defect>>
       \/ /\ RepoMayFail
          /\ Goto(Loop, "force_stop")
          /\ failed' = TRUE
          /\ defect' = TRUE
          /\ UNCHANGED repo
    /\ UNCHANGED <<cache, act, outcome, verdict, late>>

TickBodyAgain ==
    /\ pc[Loop] = "tick_body"
    /\ late' = IF cache = "running" \/ late = 2 THEN late ELSE late + 1
    /\ Goto(Loop, "tick_pending")
    /\ UNCHANGED <<cache, repo, act, outcome, failed, verdict, defect>>

\* The tick body: it completes and the task sleeps, or it raises.
TickBody ==
    /\ pc[Loop] = "tick_body"
    /\ late' = IF cache = "running" \/ late = 2 THEN late ELSE late + 1
    /\ \/ /\ Goto(Loop, "poll")
          /\ UNCHANGED <<failed, defect>>
       \/ /\ Goto(Loop, "force_stop")
          /\ failed' = TRUE
          /\ defect' = TRUE
    /\ UNCHANGED <<cache, repo, act, outcome, verdict>>

\* _force_stop_after_failure: stop the run unless it is terminal already.
ForceStop ==
    /\ pc[Loop] = "force_stop"
    /\ Goto(Loop, IF cache \in Terminal THEN "finalize" ELSE "same")
    /\ act' = [act EXCEPT ![Loop] = "stop"]
    /\ UNCHANGED <<cache, repo, outcome, taskVars>>

\* DemoTickLoopDriver.stop() cancels the task while it sleeps.
Cancel ==
    /\ pc[Loop] = "poll"
    /\ MayBegin(Loop)
    /\ Goto(Loop, "stop_check")
    /\ verdict' = IF failed THEN "partial" ELSE "diffed"
    /\ UNCHANGED <<cache, repo, act, outcome, failed, defect, late>>

\* The finally branch of _run_loop: TickLoop.finalize() of a run with a replay
\* binding rejects a failed run and diffs any other.
Finalize ==
    /\ pc[Loop] = "finalize"
    /\ verdict' = IF failed THEN "partial" ELSE "diffed"
    /\ Goto(Loop, "ended")
    /\ UNCHANGED <<cache, repo, act, outcome, failed, defect, late>>

\* The tail of DemoTickLoopDriver.stop(): mirror the end of the task.
StopCheck ==
    /\ pc[Loop] = "stop_check"
    /\ Goto(Loop, IF cache \in Terminal THEN "ended" ELSE "same")
    /\ act' = [act EXCEPT ![Loop] = "stop"]
    /\ UNCHANGED <<cache, repo, outcome, taskVars>>

TickTask ==
    \/ Poll \/ TickPaused \/ TickTerminal \/ TickPending \/ TickFlip
    \/ TickMirror \/ TickBody \/ ForceStop \/ Cancel \/ Finalize \/ StopCheck

Next ==
    \/ \E w \in Workers, a \in ControlAction : Begin(w, a)
    \/ \E t \in Threads : Request(t)
    \/ TickTask

Spec == Init /\ [][Next]_vars

-------------------------------------------------------------------------------
(***************************************************************************)
(* Fairness: a thread that is inside a call gets to run, and the event     *)
(* loop wakes the sleeping task.  Clients and stop() owe nothing.          *)
(***************************************************************************)
TaskProgress ==
    \/ Poll \/ TickPaused \/ TickTerminal \/ TickPending \/ TickFlip
    \/ TickMirror \/ TickBody \/ ForceStop \/ Finalize \/ StopCheck
    \/ Request(Loop)

Fairness ==
    /\ \A w \in Workers : WF_vars(Request(w))
    /\ WF_vars(TaskProgress)

FairSpec == Spec /\ Fairness

-------------------------------------------------------------------------------
(***************************************************************************)
(* Properties                                                              *)
(***************************************************************************)

AllAtRest == \A t \in Threads : AtRest(t)

\* Between two calls the control state and the repository agree: the control
\* state is a cache of what the repository holds (TickLoop._attach_control_state).
MirrorAtRest == AllAtRest => cache = repo

\* A terminal control state is final: no request and no tick revives a run that
\* has been stopped (TickLoop.request, ADR 0039).
TerminalIsFinal == [][(cache \in Terminal) => (cache' = cache)]_vars

CacheView == INSTANCE RunLifecycle WITH status <- cache
RepoView == INSTANCE RunLifecycle WITH status <- repo

\* The control state and the status the repository shows to clients both follow
\* the matrix of ADR 0039, step by step, although they are written in two steps.
BothFollowMatrix == CacheView!Spec /\ RepoView!Spec

\* mark_run_failed() means that a tick went wrong: a run that was merely stopped
\* is never taken for a failed one, whose replay diff finalize() withholds.
FailedOnlyByDefect == failed => defect

\* When the tick task is gone the run is terminal for everyone: neither the
\* control state nor the repository is left at "running" (driver stop() and
\* _force_stop_after_failure).
EndIsVisible == pc[Loop] = "ended" /\ AllAtRest => cache \in Terminal /\ repo \in Terminal

\* The end of a run is what everybody sees of it, and a failure only a defect.
EndIsHonest == FailedOnlyByDefect /\ EndIsVisible

\* Pausing or stopping a run takes effect within one tick: at most the tick whose
\* guard was already passed still executes its body.
AtMostOneLateTick == late <= 1

\* A stop is sealed once no call that would write another state has passed its
\* guard ...
Sealed ==
    /\ cache = "stopped"
    /\ \A t \in Threads : pc[t] \in {"repo", "cache"} => act[t] = "stop"
    /\ pc[Loop] \notin {"tick_flip", "tick_mirror"}

\* ... and a sealed stop is never undone, however calls interleave.
SealedStopIsFinal == [][Sealed => Sealed']_vars

\* A sealed stop ends the tick task.
SealedStopEndsTask == Sealed ~> pc[Loop] = "ended"
===============================================================================
