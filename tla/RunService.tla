------------------------------- MODULE RunService -------------------------------
(***************************************************************************)
(* Running several runs side by side: POST /scenarios, POST /runs,         *)
(* POST /runs/{id}/start, the RunDriverRegistry that holds the driver of   *)
(* each active run, the shutdown of the application, and the diff of a     *)
(* replay against its reference run (TickLoop.finalize, diff_replay).      *)
(*                                                                         *)
(* The event loop runs one handler or one step of a task at a time.  The   *)
(* task of a driver is the one of module RunDriver, seen from outside: it  *)
(* ticks, it fails or is cancelled, it closes its ports (an await) and     *)
(* finalizes.  Runs and drivers are numbered in the order of creation; a   *)
(* driver that the registry refuses is garbage and gets no number.         *)
(*                                                                         *)
(* A run is a deterministic function of its scenario and its seed: what    *)
(* the n-th tick persists is <<scenario, seed, n>>.                        *)
(***************************************************************************)
EXTENDS Naturals, Sequences, FiniteSets, RunStates

CONSTANTS
    Runs,         \* numbers of the runs that clients create
    Drivers,      \* numbers of the drivers that are ever started
    Scenarios,    \* scenario hashes
    Buildable,    \* those whose content can be built into a tick loop
    SeedsOf,      \* per run: the seeds its POST /runs may carry
    None,         \* no reference run
    Caps,         \* values of max_active_runs
    MaxTicks,     \* bound: ticks of one driver
    RepoMayFail   \* may update_status raise?

VARIABLES
    maxActive, \* max_active_runs of the registry
    store,     \* the scenario store
    meta,      \* per run: its RunMetadata, None before POST /runs
    status,    \* per run: the status in the repository
    samples,   \* per run: its points in the shared telemetry sink
    registry,  \* the drivers in RunDriverRegistry._drivers
    of,        \* per driver: its run, None before it is started
    life,      \* per driver: where its task is
    cancelled, \* per driver: a cancel() waits for its task
    control,   \* per driver: control_state of its tick loop
    count,     \* per driver: tick_count of its tick loop
    failed,    \* per driver: _run_failed of its tick loop
    broken,    \* drivers whose task ended with an exception
    verdict,   \* per driver: what finalize() decided
    stop,      \* per driver: where the stop() of it is
    phase,     \* of the application
    toStop,    \* drivers stop_all() has still to stop
    \* History, read by no action:
    starts,    \* per run: how often it was started
    uneven     \* drivers finalized when the two runs of the diff had not the same ticks

vars == <<maxActive, store, meta, status, samples, registry, of, life, cancelled, control, count,
          failed, broken, verdict, stop, phase, toStop, starts, uneven>>

apiVars == <<maxActive, store, meta>>
taskVars == <<life, cancelled, control, count, failed, broken, verdict, uneven>>
stopVars == <<stop, phase, toStop>>

ASSUME BoundAssumption == Caps \subseteq Nat /\ MaxTicks \in Nat
ASSUME NumberAssumption == Runs \subseteq Nat /\ IsFiniteSet(Drivers) /\ Drivers \subseteq Nat
ASSUME NoneAssumption == None \notin Runs
ASSUME ScenarioAssumption == Buildable \subseteq Scenarios /\ RepoMayFail \in BOOLEAN

-------------------------------------------------------------------------------
Seeds == UNION {SeedsOf[r] : r \in Runs}
Metadata == [scenario : Scenarios, seed : Seeds, replay_of : Runs \cup {None}]
Sample == Scenarios \X Seeds \X (1..MaxTicks)

\* RunDriver.is_running: the task is there and not done.
IsRunning(d) == life[d] \in {"created", "live", "closing"}

TypeOK ==
    /\ maxActive \in Caps
    /\ store \subseteq Scenarios
    /\ meta \in [Runs -> Metadata \cup {None}]
    /\ status \in [Runs -> RunStatus]
    /\ samples \in [Runs -> Seq(Sample)]
    /\ registry \subseteq Drivers
    /\ of \in [Drivers -> Runs \cup {None}]
    /\ life \in [Drivers -> {"unused", "created", "live", "closing", "ended"}]
    /\ cancelled \in [Drivers -> BOOLEAN]
    /\ control \in [Drivers -> RunStatus]
    /\ count \in [Drivers -> 0..MaxTicks]
    /\ failed \in [Drivers -> BOOLEAN]
    /\ broken \subseteq Drivers
    /\ verdict \in [Drivers -> {"none", "noop", "partial", "mismatch", "clean", "diverged"}]
    /\ stop \in [Drivers -> {"none", "await", "done", "raised"}]
    /\ phase \in {"serving", "stopping", "down", "aborted"}
    /\ toStop \subseteq Drivers
    /\ starts \in [Runs -> Nat]
    /\ uneven \subseteq Drivers

Init ==
    /\ maxActive \in Caps
    /\ store = {}
    /\ meta = [r \in Runs |-> None]
    /\ status = [r \in Runs |-> "pending"]
    /\ samples = [r \in Runs |-> <<>>]
    /\ registry = {}
    /\ of = [d \in Drivers |-> None]
    /\ life = [d \in Drivers |-> "unused"]
    /\ cancelled = [d \in Drivers |-> FALSE]
    /\ control = [d \in Drivers |-> "pending"]
    /\ count = [d \in Drivers |-> 0]
    /\ failed = [d \in Drivers |-> FALSE]
    /\ broken = {}
    /\ verdict = [d \in Drivers |-> "none"]
    /\ stop = [d \in Drivers |-> "none"]
    /\ phase = "serving"
    /\ toStop = {}
    /\ starts = [r \in Runs |-> 0]
    /\ uneven = {}

-------------------------------------------------------------------------------
(***************************************************************************)
(* The HTTP API                                                            *)
(***************************************************************************)

\* post_scenarios with a matching hash; intake_scenario refuses any other.
PostScenario(h) ==
    /\ phase = "serving" /\ h \notin store
    /\ store' = store \cup {h}
    /\ UNCHANGED <<maxActive, meta, status, samples, registry, of, taskVars, stopVars, starts>>

\* post_runs: the reference must exist, the scenario need not.
PostRun(r, h, seed, ref) ==
    /\ phase = "serving"
    /\ meta[r] = None /\ \A q \in Runs : q < r => meta[q] # None
    /\ ref # None => meta[ref] # None
    /\ meta' = [meta EXCEPT ![r] = [scenario |-> h, seed |-> seed, replay_of |-> ref]]
    /\ UNCHANGED <<maxActive, store, status, samples, registry, of, taskVars, stopVars, starts>>

\* The checks of post_run_start that come before the registry.
Startable(r) ==
    /\ phase = "serving"
    /\ meta[r] # None
    /\ status[r] \notin Terminal
    /\ meta[r].scenario \in store \cap Buildable

\* Mutant: the eviction goes by the status of the run.
EvictedByStatus == {d \in registry : status[of[d]] \notin Terminal}

\* The registry after _evict_terminated().
Evicted == {d \in registry : IsRunning(d)}

\* Mutant: one driver too many.
RefusedOffByOne(r) == (\E d \in Evicted : of[d] = r) \/ Cardinality(Evicted) > maxActive

\* register_and_start raises RunAlreadyActiveError or RunConcurrencyLimitError.
Refused(r) == (\E d \in Evicted : of[d] = r) \/ Cardinality(Evicted) >= maxActive

\* post_run_start up to 409/429: only the eviction remains of it.
PostStartRefused(r) ==
    /\ Startable(r) /\ Refused(r)
    /\ registry' = Evicted
    /\ UNCHANGED <<apiVars, status, samples, of, taskVars, stopVars, starts>>

\* post_run_start up to 202: a new driver is built, started and stored.
PostStart(r) ==
    /\ Startable(r) /\ ~Refused(r)
    /\ \E d \in Drivers :
         /\ life[d] = "unused" /\ \A e \in Drivers : e < d => life[e] # "unused"
         /\ registry' = Evicted \cup {d}
         /\ of' = [of EXCEPT ![d] = r]
         /\ life' = [life EXCEPT ![d] = "created"]
    /\ starts' = [starts EXCEPT ![r] = @ + 1]
    /\ UNCHANGED <<apiVars, status, samples, cancelled, control, count, failed, broken, verdict,
                   stopVars, uneven>>

-------------------------------------------------------------------------------
(***************************************************************************)
(* The task of a driver                                                    *)
(***************************************************************************)

\* A task that is cancelled before its first step never enters its coroutine.
FirstStep(d) ==
    /\ life[d] = "created"
    /\ life' = [life EXCEPT ![d] = IF cancelled[d] THEN "ended" ELSE "live"]
    /\ cancelled' = [cancelled EXCEPT ![d] = FALSE]
    /\ UNCHANGED <<apiVars, status, samples, registry, of, control, count, failed, broken,
                   verdict, stopVars, starts, uneven>>

\* What the tick after n ticks persists.
Point(r, n) == <<meta[r].scenario, meta[r].seed, n + 1>>

\* TickLoop.tick(): the first one flips the run to "running".
Tick(d) ==
    LET r == of[d] IN
    /\ life[d] = "live" /\ ~cancelled[d] /\ count[d] < MaxTicks
    /\ control' = [control EXCEPT ![d] = "running"]
    /\ status' = [status EXCEPT ![r] = IF control[d] = "pending" THEN "running" ELSE @]
    /\ samples' = [samples EXCEPT ![r] = Append(@, Point(r, count[d]))]
    /\ count' = [count EXCEPT ![d] = @ + 1]
    /\ UNCHANGED <<apiVars, registry, of, life, cancelled, failed, broken, verdict, stopVars,
                   starts, uneven>>

\* Mutant: the failed run is stopped, its task goes on.
TickFailsGoesOn(d) ==
    /\ life[d] = "live" /\ ~cancelled[d]
    /\ control' = [control EXCEPT ![d] = "stopped"]
    /\ status' = [status EXCEPT ![of[d]] = "stopped"]
    /\ failed' = [failed EXCEPT ![d] = TRUE]
    /\ UNCHANGED <<apiVars, life, samples, registry, of, cancelled, count, broken, verdict,
                   stopVars, starts, uneven>>

\* A tick raises (before or after its points are persisted): the run is marked as
\* failed and stopped; when the repository refuses that too the task will end
\* with the exception.
TickFails(d) ==
    LET r == of[d] IN
    /\ life[d] = "live" /\ ~cancelled[d]
    /\ \/ UNCHANGED <<samples, count>>
       \/ /\ count[d] < MaxTicks
          /\ samples' = [samples EXCEPT ![r] = Append(@, Point(r, count[d]))]
          /\ count' = [count EXCEPT ![d] = @ + 1]
    /\ failed' = [failed EXCEPT ![d] = TRUE]
    /\ life' = [life EXCEPT ![d] = "closing"]
    /\ \/ /\ control' = [control EXCEPT ![d] = "stopped"]
          /\ status' = [status EXCEPT ![r] = "stopped"]
          /\ UNCHANGED broken
       \/ /\ RepoMayFail
          /\ control' = [control EXCEPT ![d] = "running"]
          /\ status' \in {status, [status EXCEPT ![r] = IF control[d] = "pending" THEN "running" ELSE @]}
          /\ broken' = broken \cup {d}
    /\ UNCHANGED <<apiVars, registry, of, cancelled, verdict, stopVars, starts, uneven>>

\* Mutant: the sleep swallows the cancellation.
TaskCancelIgnored(d) ==
    /\ life[d] = "live" /\ cancelled[d]
    /\ cancelled' = [cancelled EXCEPT ![d] = FALSE]
    /\ UNCHANGED <<apiVars, life, status, samples, registry, of, control, count, failed, broken,
                   verdict, stopVars, starts, uneven>>

\* CancelledError at the sleep of _tick_forever.
TaskCancelled(d) ==
    /\ life[d] = "live" /\ cancelled[d]
    /\ life' = [life EXCEPT ![d] = "closing"]
    /\ cancelled' = [cancelled EXCEPT ![d] = FALSE]
    /\ UNCHANGED <<apiVars, status, samples, registry, of, control, count, failed, broken,
                   verdict, stopVars, starts, uneven>>

\* Mutant: a metadata field is not compared.
PreflightNoSeed(r, ref) == meta[r].scenario = meta[ref].scenario

\* diff_replay: the positions of the samples that differ or are missing on one side.
DiffReplay(expected, actual) ==
    {i \in DOMAIN expected \cup DOMAIN actual :
        i \notin DOMAIN expected \/ i \notin DOMAIN actual \/ expected[i] # actual[i]}

\* _replay_preflight_mismatch: only runs of the same identity are compared.
Preflight(r, ref) ==
    /\ meta[r].scenario = meta[ref].scenario
    /\ meta[r].seed = meta[ref].seed

\* _emit_replay_diff_status: every difference counts; the one volatile field,
\* the position of a sample, never differs where two samples are compared.
ReplayDiffStatus(deltas) == IF deltas = {} THEN "clean" ELSE "diverged"

\* What finalize() decides.
Outcome(d) ==
    LET r == of[d]
        ref == meta[r].replay_of IN
    IF ref = None THEN "noop"
    ELSE IF failed[d] THEN "partial"
    ELSE IF ~Preflight(r, ref) THEN "mismatch"
    ELSE ReplayDiffStatus(DiffReplay(samples[ref], samples[r]))

\* The run or its reference was started twice, or they have not ticked as often.
Uneven(d) ==
    LET r == of[d]
        ref == meta[r].replay_of IN
    /\ ref # None
    /\ \/ starts[r] > 1 \/ starts[ref] > 1
       \/ Len(samples[r]) # Len(samples[ref])

\* The ports are closed, finalize() runs and the task ends; a second cancel()
\* while the ports are being closed ends it without finalize().
EndTask(d) ==
    /\ life[d] = "closing"
    /\ life' = [life EXCEPT ![d] = "ended"]
    /\ cancelled' = [cancelled EXCEPT ![d] = FALSE]
    /\ \/ /\ verdict' = [verdict EXCEPT ![d] = Outcome(d)]
          /\ uneven' = IF Uneven(d) THEN uneven \cup {d} ELSE uneven
          /\ UNCHANGED broken
       \/ /\ cancelled[d]
          /\ broken' = broken \ {d}
          /\ UNCHANGED <<verdict, uneven>>
    /\ UNCHANGED <<apiVars, status, samples, registry, of, control, count, failed, stopVars,
                   starts>>

Task(d) == FirstStep(d) \/ Tick(d) \/ TickFails(d) \/ TaskCancelled(d) \/ EndTask(d)

-------------------------------------------------------------------------------
(***************************************************************************)
(* Stopping drivers                                                        *)
(***************************************************************************)

\* The first half of DemoTickLoopDriver.stop(): cancel the task and wait for it.
Cancel(d) ==
    /\ stop' = [stop EXCEPT ![d] = "await"]
    /\ cancelled' = [cancelled EXCEPT ![d] = IsRunning(d)]

\* RunDriverRegistry.stop(run_id): the driver leaves the registry at once.
StopRun(d) ==
    /\ phase = "serving"
    /\ d \in registry
    /\ registry' = registry \ {d}
    /\ Cancel(d)
    /\ UNCHANGED <<apiVars, status, samples, of, life, control, count, failed, broken, verdict,
                   phase, toStop, starts, uneven>>

\* The lifespan ends when the server has answered its requests: stop_all().
Shutdown ==
    /\ phase = "serving"
    /\ phase' = "stopping"
    /\ toStop' = registry
    /\ UNCHANGED <<apiVars, status, samples, registry, of, taskVars, stop, starts>>

\* stop_all() stops one driver after the other (in the order they were stored;
\* here in any order).
StopNext(d) ==
    /\ phase = "stopping"
    /\ d \in toStop /\ \A e \in toStop : stop[e] # "await"
    /\ Cancel(d)
    /\ UNCHANGED <<apiVars, status, samples, registry, of, life, control, count, failed, broken,
                   verdict, phase, toStop, starts, uneven>>

\* stop() of d is over; when it raises, stop_all() does not get to the others.
StopOver(d, how) ==
    /\ stop' = [stop EXCEPT ![d] = how]
    /\ toStop' = toStop \ {d}
    /\ phase' = IF d \in toStop /\ how = "raised" THEN "aborted" ELSE phase

\* Mutant: stop() leaves the status alone.
StopWakeNoMirror(d) ==
    /\ stop[d] = "await" /\ life[d] = "ended"
    /\ StopOver(d, IF d \in broken THEN "raised" ELSE "done")
    /\ UNCHANGED <<apiVars, status, control, samples, registry, of, life, cancelled, count,
                   failed, broken, verdict, starts, uneven>>

\* The second half of stop(): the task has ended; its exception is raised, and a
\* run that is not terminal is stopped.
StopWake(d) ==
    /\ stop[d] = "await" /\ life[d] = "ended"
    /\ \/ /\ d \in broken
          /\ StopOver(d, "raised")
          /\ UNCHANGED <<control, status>>
       \/ /\ d \notin broken /\ control[d] \in Terminal
          /\ StopOver(d, "done")
          /\ UNCHANGED <<control, status>>
       \/ /\ d \notin broken /\ control[d] \notin Terminal
          /\ StopOver(d, "done")
          /\ control' = [control EXCEPT ![d] = "stopped"]
          /\ status' = [status EXCEPT ![of[d]] = "stopped"]
       \/ /\ d \notin broken /\ control[d] \notin Terminal /\ RepoMayFail
          /\ StopOver(d, "raised")
          /\ UNCHANGED <<control, status>>
    /\ UNCHANGED <<apiVars, samples, registry, of, life, cancelled, count, failed, broken,
                   verdict, starts, uneven>>

\* The end of stop_all().
Cleared ==
    /\ phase = "stopping" /\ toStop = {}
    /\ registry' = {}
    /\ phase' = "down"
    /\ UNCHANGED <<apiVars, status, samples, of, taskVars, stop, toStop, starts>>

StopAll == (\E d \in Drivers : StopNext(d)) \/ Cleared

-------------------------------------------------------------------------------
Next ==
    \/ \E h \in Scenarios : PostScenario(h)
    \/ \E r \in Runs, h \in Scenarios, ref \in Runs \cup {None} :
           \E seed \in SeedsOf[r] : PostRun(r, h, seed, ref)
    \/ \E r \in Runs : PostStart(r) \/ PostStartRefused(r)
    \/ \E d \in Drivers : Task(d) \/ StopRun(d) \/ StopWake(d)
    \/ Shutdown \/ StopAll

Spec == Init /\ [][Next]_vars

\* The event loop runs what is ready; a task wakes from its sleep and the ports
\* come back (RunDriver).  Nothing makes a run fail.
Fairness ==
    /\ \A d \in Drivers :
          /\ WF_vars(FirstStep(d) \/ TaskCancelled(d) \/ EndTask(d))
          /\ WF_vars(StopWake(d))
    /\ WF_vars(StopAll)

FairSpec == Spec /\ Fairness

-------------------------------------------------------------------------------
(***************************************************************************)
(* Properties                                                              *)
(***************************************************************************)

\* Drivers whose run is going on and that nobody is stopping.
Active == {d \in Drivers : IsRunning(d) /\ stop[d] = "none"}

\* Never more loops than the cap, other than those that are being stopped: the
\* registry counts what runs, not what it has in its dictionary.
CapHolds == Cardinality(Active) <= maxActive

\* Never two loops for one run, other than one that is being stopped: they would
\* write the same samples and the same status (RunAlreadyActiveError).
OneLoopPerRun == \A d, e \in Active : of[d] = of[e] => d = e

\* No loop without an owner: one that the registry does not know is being stopped.
NoOrphan == Active \subseteq registry

\* When stop_all() has come back every loop has ended that nobody else stops, and
\* every run it has stopped is shown as over, unless it was started twice.
DownIsQuiet ==
    phase = "down" =>
        /\ Active = {}
        /\ \A d \in Drivers : stop[d] = "done" =>
              ~IsRunning(d) /\ (starts[of[d]] = 1 => status[of[d]] \in Terminal)

\* A run that is shown as over stays over: no tick of it is persisted any more and
\* its status does not come back, unless it was started twice.
OverIsOver ==
    [][\A r \in Runs : (status[r] \in Terminal /\ starts[r] <= 1) =>
          (samples'[r] = samples[r] /\ status'[r] = status[r])]_vars

\* A replay and its reference are two runs of one scenario and one seed, so the
\* verdict means this.  A divergence: one of them is shorter, or the samples of two
\* loops are mixed; no tick that both have made differs.  A clean diff: the points
\* of the replay are those of the reference, one by one, and this stays so when
\* the reference goes on.
VerdictIsEarned ==
    \A d \in Drivers :
        LET r == of[d]
            ref == meta[r].replay_of IN
        /\ verdict[d] = "diverged" => d \in uneven
        /\ (verdict[d] = "clean" /\ starts[r] <= 1 /\ starts[ref] <= 1) =>
              /\ Len(samples[r]) <= Len(samples[ref])
              /\ \A i \in DOMAIN samples[r] : samples[r][i] = samples[ref][i]

\* The shutdown ends.
ShutdownEnds == phase = "stopping" ~> phase \in {"down", "aborted"}

-------------------------------------------------------------------------------
(***************************************************************************)
(* What the tasks and the registry promise                                 *)
(***************************************************************************)

\* The three results of a comparison are one to the contract.
Judgement(d) == IF verdict[d] \in {"mismatch", "clean", "diverged"} THEN "diffed" ELSE verdict[d]

TaskOf(d) ==
    INSTANCE TaskLife WITH life <- life[d], cancelled <- cancelled[d], control <- control[d],
                           failed <- failed[d], verdict <- Judgement(d)

\* However the handlers of the API, the shutdown and the tasks of other runs
\* interleave, each task keeps the contract that module RunDriver implements.
TasksKeepContract ==
    /\ \A d \in Drivers : TaskOf(d)!Init
    /\ [][\A d \in Drivers : TaskOf(d)!Next \/ UNCHANGED TaskOf(d)!vars]_vars

\* The registry as a pool: an active loop holds one of max_active_runs slots.  The
\* pool has CapHolds and OneLoopPerRun by its first action.
Taken == {<<d, of[d]>> : d \in Active}
Lengths == [r \in Runs |-> Len(samples[r])]

Slots ==
    INSTANCE RunSlots WITH Loops <- Drivers, cap <- maxActive, open <- (phase = "serving"),
                           slots <- Taken, length <- Lengths

\* The registry is a pool of slots: one is taken only when one is free and the run
\* has none, and no loop without one adds a point to a run, although the registry
\* forgets an ended loop only when the next run is started and a loop that is being
\* stopped leaves it before it has ended.
RegistryIsPool == Slots!Spec
===============================================================================
