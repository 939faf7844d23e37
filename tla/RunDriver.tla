------------------------------- MODULE RunDriver -------------------------------
(***************************************************************************)
(* The task of one run: DemoTickLoopDriver (_tick_loop_driver.py).         *)
(*                                                                         *)
(* start() creates an asyncio task which opens the field-server ports one  *)
(* after the other, ticks until the run is terminal, closes the ports in   *)
(* the reverse order and calls TickLoop.finalize().  stop() cancels the    *)
(* task, waits for it and mirrors the end of the run.                      *)
(*                                                                         *)
(* Three kinds of actors interleave:                                       *)
(*   - the event loop runs the task and the callers of stop(); only one of *)
(*     them at a time, from one await to the next;                         *)
(*   - worker threads run the blocking start() and stop() of the ports     *)
(*     (asyncio.to_thread): cancelling the task abandons a call it waits   *)
(*     for, and cannot interrupt one that has begun;                       *)
(*   - worker threads of the web server change the control state; module   *)
(*     RunControl has their detail, here a request is one step.            *)
(*                                                                         *)
(* External: cancel() takes effect when the task is resumed, and discards  *)
(* the result the task was waiting for; a task cancelled before its first  *)
(* step never enters its coroutine (asyncio).                              *)
(***************************************************************************)
EXTENDS Naturals, Sequences, RunStates

CONSTANTS
    Stoppers,        \* callers of stop(), each calling it once
    CancelAnywhere,  \* may stop() find the task at any of its awaits?
    RepoMayFail,     \* may the repository call of request("stop") raise?
    PortSets         \* the configurations of ports a run may have

VARIABLES
    configured, \* the ports whose provider returns one
    resolved,   \* the ports the driver has asked its providers for and got
    port,       \* per port: "closed", "open" after its start(), "shut" after its stop()
    job,        \* per port: the call handed to a worker thread and how far it is
    active,     \* per port: the driver's _active_... field is set
    faulty,     \* push ports with a failed publish (_field_publish_failures > 0)
    control,    \* TickLoop._control_state
    failed,     \* TickLoop._run_failed
    verdict,    \* what finalize() decided: "none" until it ran
    at,         \* where the task is
    next,       \* the port the task is dealing with, as an index
    cancelled,  \* a cancel() waits for the task to be resumed
    raised,     \* the exception on its way out of the task
    held,       \* the driver's _task field is set
    caller,     \* per stopper: where its stop() is
    \* History, read by no action:
    cut,        \* the places at which a cancel() has hit the task
    refused,    \* ports whose start() has raised
    broke,      \* a tick or the start of the device server has raised
    outage      \* a request("stop") has raised

vars == <<configured, resolved, port, job, active, faulty, control, failed, verdict, at,
          next, cancelled, raised, held, caller, cut, refused, broke, outage>>

portVars == <<configured, resolved, port, job, active, faulty, refused>>
runVars == <<control, failed, verdict, broke, outage>>
taskVars == <<at, next, cancelled, raised, cut>>
stopVars == <<held, caller>>

-------------------------------------------------------------------------------
StartOrder == <<"field", "bess", "server">>
StopOrder == <<"server", "bess", "field">>
Ports == {"field", "bess", "server"}

ASSUME SwitchAssumption == CancelAnywhere \in BOOLEAN /\ RepoMayFail \in BOOLEAN
ASSUME PortAssumption == PortSets \subseteq SUBSET Ports

\* The push ports (MQTT and bess-ems) degrade when their broker is away; the
\* pull server is bound before the first tick or the run does not start.
PushPorts == {"field", "bess"}

\* Places where the task waits, so that the event loop can run a stop().
Awaits == {"opening", "sleep", "closing"}
Suspended == at \in Awaits \cup {"none", "created", "ended"}
LoopFree == Suspended /\ \A s \in Stoppers : caller[s] # "mirror"
Running == {"open", "poll", "tick", "except", "force", "finally", "finalize"}

Waiting == {"await", "mirror"}
Returned == {"noop", "returned", "raised"}

TypeOK ==
    /\ configured \in PortSets
    /\ resolved \subseteq configured
    /\ port \in [Ports -> {"closed", "open", "shut"}]
    /\ job \in [Ports -> {"none", "start_queued", "start_runs", "start_ok",
                          "start_failed", "stop_queued", "stop_runs", "stop_done"}]
    /\ active \in [Ports -> BOOLEAN]
    /\ faulty \subseteq PushPorts
    /\ control \in RunStatus
    /\ failed \in BOOLEAN
    /\ verdict \in {"none", "diffed", "partial"}
    /\ at \in {"none", "created", "ended"} \cup Awaits \cup Running
    /\ next \in 1..4
    /\ cancelled \in BOOLEAN
    /\ raised \in {"none", "cancel", "error"}
    /\ held \in BOOLEAN
    /\ caller \in [Stoppers -> {"out"} \cup Waiting \cup Returned]
    /\ cut \subseteq {"created"} \cup Awaits
    /\ refused \subseteq Ports
    /\ broke \in BOOLEAN
    /\ outage \in BOOLEAN

Init ==
    /\ configured \in PortSets
    /\ resolved = {}
    /\ port = [p \in Ports |-> "closed"]
    /\ job = [p \in Ports |-> "none"]
    /\ active = [p \in Ports |-> FALSE]
    /\ faulty = {}
    /\ control = "pending"
    /\ failed = FALSE
    /\ verdict = "none"
    /\ at = "none"
    /\ next = 1
    /\ cancelled = FALSE
    /\ raised = "none"
    /\ held = FALSE
    /\ caller = [s \in Stoppers |-> "out"]
    /\ cut = {}
    /\ refused = {}
    /\ broke = FALSE
    /\ outage = FALSE

-------------------------------------------------------------------------------
(***************************************************************************)
(* The task, from await to await                                           *)
(***************************************************************************)

\* DemoTickLoopDriver.start(), called once by the lifespan or the registry.
Start ==
    /\ at = "none"
    /\ at' = "created"
    /\ held' = TRUE
    /\ UNCHANGED <<next, cancelled, raised, cut, portVars, runVars, caller>>

\* The task takes its first step, or never enters _run_loop.
FirstStep ==
    /\ at = "created"
    /\ \/ /\ ~cancelled
          /\ at' = "open"
          /\ UNCHANGED <<cancelled, raised, cut>>
       \/ /\ cancelled
          /\ at' = "ended"
          /\ cancelled' = FALSE
          /\ raised' = "cancel"
          /\ cut' = cut \cup {"created"}
    /\ UNCHANGED <<next, portVars, runVars, stopVars>>

\* _start_field_publish, _start_bess_ems, _start_device_server: hand start() of
\* a configured port to a worker thread.
OpenNext ==
    /\ at = "open" /\ next <= 3
    /\ LET p == StartOrder[next] IN
       \/ /\ p \in configured
          /\ resolved' = resolved \cup {p}
          /\ job' = [job EXCEPT ![p] = "start_queued"]
          /\ at' = "opening"
          /\ UNCHANGED next
       \/ /\ p \notin configured
          /\ next' = next + 1
          /\ UNCHANGED <<resolved, job, at>>
    /\ UNCHANGED <<configured, port, active, faulty, refused, cancelled, raised, cut, runVars, stopVars>>

\* Mutant: a device server that cannot bind is tolerated like a broker.
OpenedSoft ==
    /\ at = "opening" /\ ~cancelled
    /\ LET p == StartOrder[next] IN
       /\ job[p] \in {"start_ok", "start_failed"}
       /\ job' = [job EXCEPT ![p] = "none"]
       /\ active' = [active EXCEPT ![p] = job[p] = "start_ok"]
       /\ at' = "open" /\ next' = next + 1
    /\ UNCHANGED <<configured, resolved, port, faulty, refused, cancelled, raised, cut, runVars, stopVars>>

\* The start() has come back.  A push port that failed is skipped for this run,
\* a device server that failed ends it.
Opened ==
    /\ at = "opening" /\ ~cancelled
    /\ LET p == StartOrder[next] IN
       /\ job[p] \in {"start_ok", "start_failed"}
       /\ job' = [job EXCEPT ![p] = "none"]
       /\ \/ /\ job[p] = "start_ok"
             /\ active' = [active EXCEPT ![p] = TRUE]
             /\ at' = "open" /\ next' = next + 1
             /\ UNCHANGED broke
          \/ /\ job[p] = "start_failed" /\ p \in PushPorts
             /\ at' = "open" /\ next' = next + 1
             /\ UNCHANGED <<active, broke>>
          \/ /\ job[p] = "start_failed" /\ p \notin PushPorts
             /\ at' = "except" /\ broke' = TRUE
             /\ UNCHANGED <<active, next>>
    /\ UNCHANGED <<configured, resolved, port, faulty, refused, cancelled, raised, cut, control, failed, verdict, outage, stopVars>>

\* All ports are dealt with: the tick loop begins.
AllOpened ==
    /\ at = "open" /\ next = 4
    /\ at' = "poll"
    /\ UNCHANGED <<next, cancelled, raised, cut, portVars, runVars, stopVars>>

\* Mutant: a terminal run is slept on.
PollSleepy ==
    /\ at = "poll"
    /\ at' = IF control \in Terminal \cup {"paused"} THEN "sleep" ELSE "tick"
    /\ UNCHANGED <<next, cancelled, raised, cut, portVars, runVars, stopVars>>

\* _tick_forever reads the control state.
Poll ==
    /\ at = "poll"
    /\ \/ control \in Terminal /\ at' = "finally" /\ next' = 1
       \/ control = "paused" /\ at' = "sleep" /\ UNCHANGED next
       \/ control \notin Terminal \cup {"paused"} /\ at' = "tick" /\ UNCHANGED next
    /\ UNCHANGED <<cancelled, raised, cut, portVars, runVars, stopVars>>

\* tick() and the publishing of its result.  A run paused since the poll is
\* skipped and one stopped since the poll raises, as does a defect of the tick,
\* of its repository call or of the alarm stream.  A push port that cannot
\* publish is only counted.
Tick ==
    /\ at = "tick"
    /\ \/ /\ control = "paused"
          /\ at' = "sleep"
          /\ UNCHANGED <<control, faulty, broke>>
       \/ /\ control \notin Terminal \cup {"paused"}
          /\ control' = "running"
          /\ \E lost \in SUBSET {p \in PushPorts : active[p]} : faulty' = faulty \cup lost
          /\ at' = "sleep"
          /\ UNCHANGED broke
       \/ /\ control' = IF control = "pending" THEN "running" ELSE control
          /\ control # "paused"
          /\ at' = "except"
          /\ broke' = TRUE
          /\ UNCHANGED faulty
    /\ UNCHANGED <<configured, resolved, port, job, active, refused, failed, verdict, outage,
                   next, cancelled, raised, cut, stopVars>>

SleepOver ==
    /\ at = "sleep" /\ ~cancelled
    /\ at' = "poll"
    /\ UNCHANGED <<next, cancelled, raised, cut, portVars, runVars, stopVars>>

\* Mutant: the failure is logged but not marked.
ExceptUnmarked ==
    /\ at = "except"
    /\ at' = "force"
    /\ UNCHANGED <<next, cancelled, raised, cut, portVars, runVars, stopVars>>

\* "except Exception": mark the run as failed ...
Except ==
    /\ at = "except"
    /\ failed' = TRUE
    /\ at' = "force"
    /\ UNCHANGED <<next, cancelled, raised, cut, portVars, control, verdict, broke, outage, stopVars>>

\* request("stop") of a run that is not terminal: TRUE when it succeeds.
StopRequest(succeeds) ==
    /\ \/ control \in Terminal /\ succeeds /\ UNCHANGED <<control, outage>>
       \/ control \notin Terminal /\ succeeds /\ control' = "stopped" /\ UNCHANGED outage
       \/ control \notin Terminal /\ RepoMayFail /\ ~succeeds /\ outage' = TRUE /\ UNCHANGED control
    /\ UNCHANGED <<failed, verdict, broke>>

\* ... and stop it (_force_stop_after_failure); an exception in here leaves the
\* task after the finally branch.
ForceStop ==
    /\ at = "force"
    /\ \E succeeds \in BOOLEAN :
         /\ StopRequest(succeeds)
         /\ raised' = IF succeeds THEN "none" ELSE "error"
    /\ at' = "finally" /\ next' = 1
    /\ UNCHANGED <<cancelled, cut, portVars, stopVars>>

\* The finally branch: _stop_device_server, _stop_bess_ems, _stop_field_publish.
CloseNext ==
    /\ at = "finally" /\ next <= 3
    /\ LET p == StopOrder[next] IN
       \/ /\ active[p]
          /\ active' = [active EXCEPT ![p] = FALSE]
          /\ job' = [job EXCEPT ![p] = "stop_queued"]
          /\ at' = "closing"
          /\ UNCHANGED next
       \/ /\ ~active[p]
          /\ next' = next + 1
          /\ UNCHANGED <<active, job, at>>
    /\ UNCHANGED <<configured, resolved, port, faulty, refused, cancelled, raised, cut, runVars, stopVars>>

\* The stop() has come back; an exception of it is logged.
Closed ==
    /\ at = "closing" /\ ~cancelled
    /\ LET p == StopOrder[next] IN
       /\ job[p] = "stop_done"
       /\ job' = [job EXCEPT ![p] = "none"]
    /\ at' = "finally" /\ next' = next + 1
    /\ UNCHANGED <<configured, resolved, port, active, faulty, refused, cancelled, raised, cut, runVars, stopVars>>

\* The last statement of the finally branch; an exception of it is logged.
Finalize ==
    /\ at = "finally" /\ next = 4
    /\ verdict' = IF failed THEN "partial" ELSE "diffed"
    /\ at' = "ended"
    /\ UNCHANGED <<next, cancelled, raised, cut, portVars, control, failed, broke, outage, stopVars>>

\* Mutant: a cancelled sleep ends the task at once.
SleepCancelledQuits ==
    /\ at = "sleep" /\ cancelled
    /\ cancelled' = FALSE /\ raised' = "cancel" /\ cut' = cut \cup {at}
    /\ at' = "ended" /\ next' = 1
    /\ UNCHANGED <<portVars, runVars, stopVars>>

\* Mutant: the sleep swallows the cancellation.
SleepCancelledIgnored ==
    /\ at = "sleep" /\ cancelled
    /\ cancelled' = FALSE /\ cut' = cut \cup {at}
    /\ at' = "poll"
    /\ UNCHANGED <<next, raised, portVars, runVars, stopVars>>

\* CancelledError in _tick_forever: "raise", by way of the finally branch.
SleepCancelled ==
    /\ at = "sleep" /\ cancelled
    /\ cancelled' = FALSE /\ raised' = "cancel" /\ cut' = cut \cup {at}
    /\ at' = "finally" /\ next' = 1
    /\ UNCHANGED <<portVars, runVars, stopVars>>

\* A call that no thread has picked up is dropped; any other goes on alone.
Abandon(p) ==
    job' = [job EXCEPT ![p] = IF @ \in {"start_queued", "stop_queued"} THEN "none" ELSE @]

\* CancelledError while a start() is awaited: the port is not recorded.
OpeningCancelled ==
    /\ at = "opening" /\ cancelled
    /\ Abandon(StartOrder[next])
    /\ cancelled' = FALSE /\ raised' = "cancel" /\ cut' = cut \cup {at}
    /\ at' = "finally" /\ next' = 1
    /\ UNCHANGED <<configured, resolved, port, active, faulty, refused, runVars, stopVars>>

\* CancelledError while a stop() is awaited leaves the finally branch.
ClosingCancelled ==
    /\ at = "closing" /\ cancelled
    /\ Abandon(StopOrder[next])
    /\ cancelled' = FALSE /\ raised' = "cancel" /\ cut' = cut \cup {at}
    /\ at' = "ended"
    /\ UNCHANGED <<next, configured, resolved, port, active, faulty, refused, runVars, stopVars>>

RunLoop ==
    \/ FirstStep \/ OpenNext \/ Opened \/ AllOpened \/ Poll \/ Tick \/ SleepOver
    \/ Except \/ ForceStop \/ CloseNext \/ Closed \/ Finalize
    \/ SleepCancelled \/ OpeningCancelled \/ ClosingCancelled

-------------------------------------------------------------------------------
(***************************************************************************)
(* Worker threads and clients                                              *)
(***************************************************************************)

\* A worker thread picks up a call and finishes it.
Pickup(p) ==
    /\ \/ job[p] = "start_queued" /\ job' = [job EXCEPT ![p] = "start_runs"]
       \/ job[p] = "stop_queued" /\ job' = [job EXCEPT ![p] = "stop_runs"]
    /\ UNCHANGED <<configured, resolved, port, active, faulty, refused, runVars, taskVars, stopVars>>

Complete(p) ==
    /\ \/ /\ job[p] = "start_runs"
          /\ \/ /\ job' = [job EXCEPT ![p] = "start_ok"]
                /\ port' = [port EXCEPT ![p] = "open"]
                /\ UNCHANGED refused
             \/ /\ job' = [job EXCEPT ![p] = "start_failed"]
                /\ refused' = refused \cup {p}
                /\ UNCHANGED port
       \/ /\ job[p] = "stop_runs"
          /\ job' = [job EXCEPT ![p] = "stop_done"]
          /\ port' = [port EXCEPT ![p] = "shut"]
          /\ UNCHANGED refused
    /\ UNCHANGED <<configured, resolved, active, faulty, runVars, taskVars, stopVars>>

\* A POST /runs/{id}/control that is accepted.
Client(a) ==
    /\ control \in AllowedFrom[a]
    /\ control' = Target[a]
    /\ UNCHANGED <<failed, verdict, broke, outage, portVars, taskVars, stopVars>>

-------------------------------------------------------------------------------
(***************************************************************************)
(* DemoTickLoopDriver.stop()                                               *)
(***************************************************************************)

\* Cancel the task and wait for it.  A cancel() of a task that has ended does
\* nothing, and stop() of a driver without a task returns.
StopBegin(s) ==
    /\ caller[s] = "out" /\ LoopFree
    /\ CancelAnywhere \/ at \notin {"created", "opening", "closing"}
    /\ caller' = [caller EXCEPT ![s] = IF held THEN "await" ELSE "noop"]
    /\ cancelled' = (cancelled \/ (held /\ at \in Awaits \cup {"created"}))
    /\ UNCHANGED <<held, at, next, raised, cut, portVars, runVars>>

\* The task has ended.  stop() swallows its CancelledError and no other.
StopWake(s) ==
    /\ caller[s] = "await" /\ at = "ended" /\ LoopFree
    /\ caller' = [caller EXCEPT ![s] = IF raised = "error" THEN "raised" ELSE "mirror"]
    /\ held' = (held /\ raised = "error")
    /\ UNCHANGED <<portVars, runVars, taskVars>>

\* A run that is not terminal by itself is stopped.
StopMirror(s) ==
    /\ caller[s] = "mirror"
    /\ \E succeeds \in BOOLEAN :
         /\ StopRequest(succeeds)
         /\ caller' = [caller EXCEPT ![s] = IF succeeds THEN "returned" ELSE "raised"]
    /\ UNCHANGED <<held, portVars, taskVars>>

Stop(s) == StopBegin(s) \/ StopWake(s) \/ StopMirror(s)

-------------------------------------------------------------------------------
\* Everything is over: nothing is left to do but further client requests.
Quiet ==
    /\ at = "ended" /\ \A s \in Stoppers : caller[s] \notin Waiting
    /\ \A p \in Ports : job[p] \notin {"start_queued", "start_runs", "stop_queued", "stop_runs"}

Next ==
    \/ Start \/ RunLoop
    \/ \E p \in Ports : Pickup(p) \/ Complete(p)
    \/ \E a \in ControlAction : Client(a)
    \/ \E s \in Stoppers : Stop(s)

Spec == Init /\ [][Next]_vars

\* The event loop runs what is ready and wakes sleepers, the thread pool picks up
\* its calls, and the port libraries bound theirs by timeouts.
Fairness ==
    /\ WF_vars(RunLoop)
    /\ \A p \in Ports : WF_vars(Pickup(p) \/ Complete(p))
    /\ \A s \in Stoppers : WF_vars(StopWake(s) \/ StopMirror(s))

FairSpec == Spec /\ Fairness

-------------------------------------------------------------------------------
(***************************************************************************)
(* Properties                                                              *)
(***************************************************************************)

\* finalize() is missed only when the cancellation hits the task before its first
\* step or while it closes its ports (comments in stop() and _run_loop, ADR 0067).
FinalizedUnlessCut ==
    at = "ended" /\ cut \cap {"created", "closing"} = {} => verdict # "none"

\* A port is left open only when the cancellation hits the task while it opens or
\* closes its ports.
ClosedUnlessCut ==
    Quiet /\ cut \cap {"opening", "closing"} = {} => \A p \in Ports : port[p] # "open"

\* However the task ends, it leaves nothing behind: the verdict is recorded and the
\* ports are closed, but for a cancellation in the wrong moment.
CleanUnlessCut == FinalizedUnlessCut /\ ClosedUnlessCut

\* No tick without the device server: a run whose Modbus server is configured
\* ticks only while it serves (_start_device_server).
ServedTicks ==
    at \in {"tick", "sleep"} /\ "server" \in configured => port["server"] = "open"

\* finalize() never diffs a run that a tick or the device server ended (ADR 0067).
BrokenIsPartial == broke /\ verdict # "none" => verdict = "partial"

\* When the task is gone the run is terminal, unless the repository refused it:
\* neither a failed run nor a cancelled one is shown as running for ever.
EndIsTerminal == Quiet /\ ~outage => control \in Terminal

\* A run that broke is told from one that was stopped, and neither from one that runs.
EndIsHonest == BrokenIsPartial /\ EndIsTerminal

\* stop() comes back, whatever the task is doing when it is called.
StopReturns == \A s \in Stoppers : caller[s] = "await" ~> caller[s] \in Returned

\* A run that a client has stopped ends its task and closes its ports.
TerminalEndsTask == control \in Terminal /\ at # "none" ~> at = "ended"

\* Nobody waits for ever: neither the caller of stop() nor the task of an ended run.
NobodyWaits == StopReturns /\ TerminalEndsTask

-------------------------------------------------------------------------------
(***************************************************************************)
(* The task as its users see it                                            *)
(***************************************************************************)

\* The phase of the task that a place belongs to.
Phase ==
    CASE at = "none" -> "unused"
      [] at = "created" -> "created"
      [] at \in {"finally", "closing"} -> "closing"
      [] at = "ended" -> "ended"
      [] OTHER -> "live"

\* A failure shows when _force_stop_after_failure is through with it.
TaskView == INSTANCE TaskLife WITH life <- Phase, failed <- (failed /\ at # "force")

\* Whatever its ports do and wherever a cancellation hits it, the task keeps the
\* contract of TaskLife, which module RunService counts on: no tick once it is
\* cancelled or its run is over, one way into the finally branch for every reason,
\* and no diff of a failed run.
TaskKeepsContract == TaskView!Spec
===============================================================================
