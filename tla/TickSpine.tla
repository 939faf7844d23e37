------------------------------- MODULE TickSpine -------------------------------
(***************************************************************************)
(* One tick of a run, and what is left of a run after a snapshot or in a   *)
(* replay: TickLoop.tick with its scenario commands (A0s), agents (A0a,    *)
(* D2), inbound writes (A0i), device faults (A2) and quality faults, and   *)
(* TickLoop.snapshot / from_snapshot.                                      *)
(*                                                                         *)
(* Tick is a function of the scenario, the state of the loop and the       *)
(* writes that have arrived.  Three loops are compared: the live one, one  *)
(* resumed from a snapshot of it, and a replay of the recorded writes; the *)
(* last two share nothing with the first and are evaluated on demand.      *)
(* The devices are batteries that reach a set point within a tick and are  *)
(* far from empty and full; load overlays, grid connections and the grid   *)
(* model, which such a scenario does not have, are left out, and so is the *)
(* control state (module RunControl).  Agents' targets are validated when  *)
(* the scenario is loaded, so the check A0v never refuses one.             *)
(***************************************************************************)
EXTENDS Integers, Sequences, FiniteSets, SequencesExt

CONSTANTS
    Devices,
    Ghost,         \* a device that inbound writes may name and no scenario has
    Limit,         \* max_charge_kw and max_discharge_kw
    Writes,        \* the inbound writes that may arrive: <<device, value>>
    TickMs,        \* tick_ms
    Scenarios,     \* the scenarios to run
    None,          \* nothing cached, no snapshot
    MaxTicks,      \* bound: ticks of the live loop
    MaxWrites,     \* bound: inbound writes
    MaxRecoveries  \* bound: manual recoveries

VARIABLES
    scenario, \* the scenario of the run
    live,     \* the state of the live loop
    buffer,   \* InboundCommandBuffer._pending
    capture,  \* InboundCommandBuffer._capture
    log,      \* the results of the live loop, as persisted
    manual,   \* history: <<fault, ticks made>> of each manual recovery
    snap      \* a snapshot of the live loop

vars == <<scenario, live, buffer, capture, log, manual, snap>>

\* What the loader has accepted, in the order of the file: targets are devices.
Window == [target : Devices, start : Int, end : Int]
Rule == [metric : {"tick", "time"}, when : SUBSET Int, value : Int]
ScenarioOK(s) ==
    s \in [commands : Seq([at : Int, target : Devices, value : Int]),
           faults : Seq(Window), nans : Seq(Window),
           stales : Seq([target : Devices, start : Int, end : Int, maxAge : Int]),
           agents : Seq([target : Devices, rules : Seq(Rule)])]

ASSUME ScenarioAssumption == \A s \in Scenarios : ScenarioOK(s)
ASSUME TickAssumption == TickMs \in Nat \ {0} /\ Limit \in Nat
ASSUME BoundAssumption == MaxTicks \in Nat /\ MaxWrites \in Nat /\ MaxRecoveries \in Nat
ASSUME NoneAssumption ==
    /\ None \notin Seq([target : Devices, value : Int])
    /\ \A D \in SUBSET Devices : None \notin [D -> Int \X Int]
ASSUME GhostAssumption == Ghost \notin Devices /\ Writes \subseteq (Devices \cup {Ghost}) \X Int

-------------------------------------------------------------------------------
(***************************************************************************)
(* Commands                                                                *)
(***************************************************************************)

\* The members of q at the places in I, in their order.
Sift(q, I) ==
    LET upTo[n \in 0..Len(q)] ==
            IF n = 0 THEN <<>> ELSE IF n \in I THEN Append(upTo[n - 1], q[n]) ELSE upTo[n - 1]
    IN  upTo[Len(q)]

\* sorted() by keys that differ: before holds <<i, j>> when the key of q[i] is the smaller one.
Sorted(q, before) ==
    LET Rank(j) == Cardinality({i \in DOMAIN q : <<i, j>> \in before})
    IN  [k \in DOMAIN q |-> q[CHOOSE j \in DOMAIN q : Rank(j) = k - 1]]

\* Mutant: the end of the span belongs to it.
DueCommandsClosed(s, now) ==
    Sift(s.commands, {i \in DOMAIN s.commands :
                          now <= s.commands[i].at /\ s.commands[i].at <= now + TickMs})

\* ScenarioCommandEngine.due_commands
DueCommands(s, now) ==
    Sift(s.commands, {i \in DOMAIN s.commands :
                          now <= s.commands[i].at /\ s.commands[i].at < now + TickMs})

\* validate_set_power_command: the value within the limits of the device.
Clamp(value) ==
    IF value > Limit THEN Limit ELSE IF value < -Limit THEN -Limit ELSE value

\* The commands of one source, in the order they are applied.
By(source, commands) ==
    [i \in DOMAIN commands |->
        [by |-> source, target |-> commands[i].target, value |-> commands[i].value]]

\* Scenario before agents before inbound writes; the ghost is skipped.
Applied(s, loop, writes, now) ==
    By("scenario", DueCommands(s, now)) \o By("agent", loop.pending)
      \o By("inbound", Sift(writes, {i \in DOMAIN writes : writes[i].target \in Devices}))

\* BatteryDevice.apply_command for each of them.
SetPoints(setpoint, commands) ==
    LET upTo[n \in 0..Len(commands)] ==
            IF n = 0 THEN setpoint
            ELSE [upTo[n - 1] EXCEPT ![commands[n].target] = Clamp(commands[n].value)]
    IN  upTo[Len(commands)]

\* A condition is the set of instants (ticks or times) in which it holds.
ConditionMatches(rule, tick, now) == (IF rule.metric = "tick" THEN tick ELSE now) \in rule.when

\* RuleBasedAgent.tick: at most one command, that of the first rule whose condition holds.
AgentTick(agent, tick, now) ==
    LET hits == {i \in DOMAIN agent.rules : ConditionMatches(agent.rules[i], tick, now)}
    IN  IF hits = {} THEN <<>>
        ELSE <<[target |-> agent.target, value |-> agent.rules[Min(hits)].value]>>

\* What the agents decide in a tick, for the next one, in the order of the scenario.
AgentCommands(agents, tick, now) ==
    FlattenSeq([i \in DOMAIN agents |-> AgentTick(agents[i], tick, now)])

-------------------------------------------------------------------------------
(***************************************************************************)
(* Faults                                                                  *)
(***************************************************************************)

\* The half-open window of a fault.
InWindow(f, now) == f.start <= now /\ now < f.end

\* Mutant: a fault is never cleared when its window is over.
FaultStepNoClear(st, i, f, now) ==
    IF InWindow(f, now) /\ i \notin st.active
    THEN [st EXCEPT !.active = @ \cup {i}, !.faulty[f.target] = TRUE]
    ELSE st

\* One fault in ScenarioFaultEngine.apply_active_faults.
FaultStep(st, i, f, now) ==
    CASE i \in st.recover ->
            [st EXCEPT !.recover = @ \ {i}, !.active = @ \ {i},
                       !.faulty[f.target] = @ /\ i \notin st.active]
      [] i \notin st.recover /\ InWindow(f, now) /\ i \notin st.active ->
            [st EXCEPT !.active = @ \cup {i}, !.faulty[f.target] = TRUE]
      [] i \notin st.recover /\ ~InWindow(f, now) /\ i \in st.active ->
            [st EXCEPT !.active = @ \ {i}, !.faulty[f.target] = FALSE]
      [] OTHER -> st

ApplyFaults(faults, loop, now) ==
    LET upTo[n \in 0..Len(faults)] ==
            IF n = 0
            THEN [faulty |-> loop.faulty, active |-> loop.active, recover |-> loop.recover]
            ELSE FaultStep(upTo[n - 1], n, faults[n], now)
    IN  upTo[Len(faults)]

\* BatteryDevice.tick: a cell failure halves the discharge.
Power(setpoint, faulty) ==
    IF faulty /\ setpoint < -(Limit \div 2) THEN -(Limit \div 2) ELSE setpoint

-------------------------------------------------------------------------------
(***************************************************************************)
(* Quality faults                                                          *)
(***************************************************************************)

ActiveNan(s, now) == {i \in DOMAIN s.nans : InWindow(s.nans[i], now)}

\* The active stale_data faults of a device: the last one counts.
ActiveStale(s, d, now) ==
    {i \in DOMAIN s.stales : s.stales[i].target = d /\ InWindow(s.stales[i], now)}

\* _collect_active_nan: an alarm when a fault becomes active.
NewAlarms(s, loop, now) == ActiveNan(s, now) \ loop.alarmed

\* _update_last_valid_cache: the values of the targets that are not stale now.
Cached(s, cache, power, now) ==
    [d \in Devices |->
        IF (\E i \in DOMAIN s.stales : s.stales[i].target = d) /\ ActiveStale(s, d, now) = {}
        THEN <<power[d], now>> ELSE cache[d]]

\* _apply_stale: the last valid value, marked once it is too old.
Stale(f, cached, value, now) ==
    IF cached = None THEN [value |-> value, quality |-> "valid"]
    ELSE [value |-> cached[1],
          quality |-> IF now - cached[2] > f.maxAge THEN "stale" ELSE "valid"]

\* _rewrite_point: NaN before stale.
Point(s, d, cache, power, now) ==
    LET stale == ActiveStale(s, d, now) IN
    IF \E i \in ActiveNan(s, now) : s.nans[i].target = d
    THEN [value |-> 0, quality |-> "nan"]
    ELSE IF stale # {} THEN Stale(s.stales[Max(stale)], cache[d], power[d], now)
    ELSE [value |-> power[d], quality |-> "valid"]

\* QualityFaultRuntime.apply_stage, on the powers of the devices: what is cached is
\* the value before it is rewritten.
QualityStage(s, loop, power, now) ==
    LET cache == Cached(s, loop.cache, power, now)
    IN  [cache |-> cache, alarmed |-> ActiveNan(s, now), alarms |-> NewAlarms(s, loop, now),
         points |-> [d \in Devices |-> Point(s, d, cache, power, now)]]

-------------------------------------------------------------------------------
(***************************************************************************)
(* The loop                                                                *)
(***************************************************************************)

\* A loop that was just built.
InitLoop ==
    [time |-> 0, count |-> 0, pending |-> <<>>,
     setpoint |-> [d \in Devices |-> 0], faulty |-> [d \in Devices |-> FALSE],
     active |-> {}, recover |-> {}, alarmed |-> {}, cache |-> [d \in Devices |-> None]]

\* _build_tick_result, before the tick is counted; the orders that were applied and the
\* powers before they were rewritten are kept beside it.
TickResult(loop, now, quality, commands, power) ==
    [tick |-> loop.count, time |-> now, points |-> quality.points, alarms |-> quality.alarms,
     applied |-> commands, real |-> power]

\* _run_tick_body: the loop after a tick, and the result of the tick.
Tick(s, loop, writes) ==
    LET now == loop.time + TickMs
        commands == Applied(s, loop, writes, now)
        setpoint == SetPoints(loop.setpoint, commands)
        faults == ApplyFaults(s.faults, loop, now)
        power == [d \in Devices |-> Power(setpoint[d], faults.faulty[d])]
        quality == QualityStage(s, loop, power, now)
    IN [loop |-> [time |-> now, count |-> loop.count + 1,
                  pending |-> AgentCommands(s.agents, loop.count, now),
                  setpoint |-> setpoint, faulty |-> faults.faulty,
                  active |-> faults.active, recover |-> faults.recover,
                  alarmed |-> quality.alarmed, cache |-> quality.cache],
        result |-> TickResult(loop, now, quality, commands, power)]

\* The sub-snapshot of the commands the agents have decided: none when there are none.
PendingSnapshot(pending) == IF pending = <<>> THEN None ELSE pending

\* The parser accepts what the writer wrote; the typed errors of a damaged one are left out.
PendingRestored(raw) == IF raw = None THEN <<>> ELSE raw

\* The sub-snapshot of the cached values: none when nothing is cached, else an entry
\* for each device that has one.
CacheSnapshot(cache) ==
    LET held == {d \in Devices : cache[d] # None}
    IN  IF held = {} THEN None ELSE [d \in held |-> cache[d]]

CacheRestored(raw) ==
    [d \in Devices |-> IF raw # None /\ d \in DOMAIN raw THEN raw[d] ELSE None]

\* TickLoop.snapshot: what a snapshot holds of a loop.
SnapshotOf(loop) ==
    [time |-> loop.time, count |-> loop.count, setpoint |-> loop.setpoint,
     faulty |-> loop.faulty, pending |-> PendingSnapshot(loop.pending),
     cache |-> CacheSnapshot(loop.cache)]

\* Mutant: the commands the agents have decided are forgotten.
FromSnapshotNoPending(state) ==
    [InitLoop EXCEPT !.time = state.time, !.count = state.count,
                     !.setpoint = state.setpoint, !.faulty = state.faulty,
                     !.cache = CacheRestored(state.cache)]

\* TickLoop.from_snapshot: fresh engines, the same devices, agents and faults.
FromSnapshot(state) ==
    [InitLoop EXCEPT !.time = state.time, !.count = state.count,
                     !.setpoint = state.setpoint, !.faulty = state.faulty,
                     !.pending = PendingRestored(state.pending),
                     !.cache = CacheRestored(state.cache)]

\* It has no parameter for a command engine or an inbound source.
Resumable(s) == [s EXCEPT !.commands = <<>>]

-------------------------------------------------------------------------------
(***************************************************************************)
(* The recorded writes; loops that play                                    *)
(***************************************************************************)

\* Mutant: a write is resolved to the tick before the one that applies it.
ResolvedEarly(w, time) == [at |-> time, target |-> w.target, value |-> w.value, seq |-> w.seq]

\* An InboundWriteCapture: the write, resolved to the tick that applies it.
Resolved(w, time) ==
    [at |-> time + TickMs, target |-> w.target, value |-> w.value, seq |-> w.seq]

\* materialize_inbound_writes
Materialized(captures) ==
    LET Before(v, w) == v.at < w.at \/ (v.at = w.at /\ v.seq < w.seq)
    IN  Sorted(captures, {p \in (DOMAIN captures) \X (DOMAIN captures) :
                              Before(captures[p[1]], captures[p[2]])})

\* A loop of scenario s after n ticks without inbound writes, and their results.
PlayTick(s, run) ==
    LET t == Tick(s, run.loop, <<>>) IN [loop |-> t.loop, log |-> Append(run.log, t.result)]

Play(s, loop, n) ==
    LET upTo[k \in 0..n] ==
            IF k = 0 THEN [loop |-> loop, log |-> <<>>] ELSE PlayTick(s, upTo[k - 1])
    IN  upTo[n]

\* The scenario with the recorded writes as commands.
Recorded == [scenario EXCEPT !.commands = @ \o Materialized(capture)]

\* The loop resumed from the snapshot, ticked as often as the live one since.
Relive == Play(Resumable(scenario), FromSnapshot(snap.state), Len(log) - snap.at)

-------------------------------------------------------------------------------
Init ==
    /\ scenario \in Scenarios
    /\ live = InitLoop
    /\ buffer = <<>> /\ capture = <<>>
    /\ log = <<>> /\ manual = {}
    /\ snap = None

\* Writes that have arrived so far.
Arrived == Len(capture) + Len(buffer)

\* InboundCommandBuffer.enqueue, from the thread of a field server.
Enqueue(target, value) ==
    /\ Arrived < MaxWrites
    /\ buffer' = Append(buffer, [target |-> target, value |-> value, seq |-> Arrived])
    /\ UNCHANGED <<scenario, live, capture, log, manual, snap>>

\* ScenarioFaultEngine.register_manual_recovery of the live loop.
Recover(i) ==
    /\ Cardinality(manual) < MaxRecoveries
    /\ live' = [live EXCEPT !.recover = @ \cup {i}]
    /\ manual' = manual \cup {<<i, Len(log)>>}
    /\ UNCHANGED <<scenario, buffer, capture, log, snap>>

\* InboundCommandBuffer.drain_due: by arrival_sequence.
Drain ==
    Sorted(buffer, {p \in (DOMAIN buffer) \X (DOMAIN buffer) : buffer[p[1]].seq < buffer[p[2]].seq})

\* TickLoop.tick of the live loop, its result persisted.
LiveTick ==
    /\ Len(log) < MaxTicks
    /\ LET t == Tick(scenario, live, Drain) IN
       /\ live' = t.loop
       /\ log' = Append(log, t.result)
    /\ capture' = capture \o [i \in DOMAIN buffer |-> Resolved(Drain[i], live.time)]
    /\ buffer' = <<>>
    /\ UNCHANGED <<scenario, manual, snap>>

\* TickLoop.snapshot, between two ticks.  What it leaves out is kept as history.
Snapshot ==
    /\ snap = None
    /\ snap' = [state |-> SnapshotOf(live), at |-> Len(log), active |-> live.active,
                alarmed |-> live.alarmed]
    /\ UNCHANGED <<scenario, live, buffer, capture, log, manual>>

Next ==
    \/ \E w \in Writes : Enqueue(w[1], w[2])
    \/ \E i \in DOMAIN scenario.faults : Recover(i)
    \/ LiveTick \/ Snapshot

Spec == Init /\ [][Next]_vars
-------------------------------------------------------------------------------
(***************************************************************************)
(* Properties                                                              *)
(***************************************************************************)
LoopOK(loop) ==
    /\ loop.count \in 0..MaxTicks
    /\ loop.time = loop.count * TickMs
    /\ \A i \in DOMAIN loop.pending : loop.pending[i].target \in Devices
    /\ loop.setpoint \in [Devices -> -Limit..Limit]
    /\ loop.faulty \in [Devices -> BOOLEAN]
    /\ loop.active \cup loop.recover \subseteq DOMAIN scenario.faults
    /\ loop.alarmed \subseteq DOMAIN scenario.nans
    /\ \A d \in Devices : loop.cache[d] = None \/ loop.cache[d][2] <= loop.time

\* Every loop is in a state it can be in: its time is its tick count, its set
\* points are within the limits, what it remembers lies in the past.
TypeOK ==
    /\ scenario \in Scenarios
    /\ LoopOK(live) /\ Len(log) = live.count
    /\ snap # None => snap.state.count = snap.at /\ LoopOK(Relive.loop)
    /\ \A i \in DOMAIN capture : capture[i].at \in 0..live.time

\* The commands of one source among those applied in a tick.
From(source, applied) == Sift(applied, {i \in DOMAIN applied : applied[i].by = source})

\* A command of the scenario is applied exactly once: in the tick whose number
\* is its time divided by tick_ms, so one that lies before the first tick never.
CommandsExactlyOnce ==
    \A n \in DOMAIN log :
        LET due == {i \in DOMAIN scenario.commands : scenario.commands[i].at \div TickMs = n}
        IN  From("scenario", log[n].applied) = By("scenario", Sift(scenario.commands, due))

\* A device of the live loop is faulty only in the window of one of its faults:
\* recoveries and overlaps may end a fault early, nothing makes it last longer.
\* And in its window a fault is in force in every tick, unless another fault of
\* the device was cleared in the tick it began in, or since, or somebody recovered the
\* device.
FaultInForce ==
    /\ \A d \in Devices : live.faulty[d] =>
          \E f \in ToSet(scenario.faults) : f.target = d /\ live.time \in f.start..(f.end - 1)
    /\ \A i \in DOMAIN scenario.faults :
          LET f == scenario.faults[i]
              Cleared(g) ==
                  /\ g.target = f.target /\ g.end <= live.time
                  /\ \A n \in DOMAIN log : g.end <= log[n].time => f.start <= log[n].time
          IN (live.count > 0 /\ live.time \in f.start..(f.end - 1)) =>
                \/ live.faulty[f.target]
                \/ \E g \in ToSet(scenario.faults) : Cleared(g)
                \/ \E m \in manual : scenario.faults[m[1]].target = f.target

\* A value that is persisted as valid is the value of the device, or was so at
\* most max_age_ms ago: a frozen value is marked before it is older.
FrozenValueIsMarked ==
    \A n \in DOMAIN log, d \in Devices :
        LET p == log[n].points[d] IN
        p.quality = "valid" =>
            \/ p.value = log[n].real[d]
            \/ \E m \in 1..(n - 1), f \in ToSet(scenario.stales) :
                  /\ f.target = d /\ log[m].real[d] = p.value
                  /\ log[n].time - log[m].time <= f.maxAge

\* A nan_injection fault raises one alarm, not one per tick.
AlarmOncePerFault ==
    \A i \in DOMAIN scenario.nans :
        Cardinality({n \in DOMAIN log : i \in log[n].alarms}) <= 1

\* A quality fault is told in its mark and in one alarm.
QualityIsTold == FrozenValueIsMarked /\ AlarmOncePerFault

\* Faults act in their windows, and what they do to a value is told.
FaultsActAndAreTold == FaultInForce /\ QualityIsTold

\* The inbound writes of all ticks, as they were applied.
AppliedWrites ==
    FlattenSeq([n \in DOMAIN log |-> From("inbound", log[n].applied)])

\* Every write that has arrived is recorded or waits, in the order of arrival
\* and none twice, and the live run has applied exactly the recorded ones that
\* name a device, in that order.
WritesInArrivalOrder ==
    LET all == capture \o buffer
        known == {i \in DOMAIN capture : capture[i].target \in Devices}
    IN /\ \A i \in DOMAIN all : all[i].seq = i - 1
       /\ AppliedWrites = By("inbound", Sift(capture, known))

\* No order is lost, repeated or overtaken, whichever way it came.
OrdersAreApplied == CommandsExactlyOnce /\ WritesInArrivalOrder

\* An agent and an inbound write have set the same device in tick n.
Clash(n) ==
    \E x \in ToSet(log[n].applied), y \in ToSet(log[n].applied) :
        x.by = "agent" /\ y.by = "inbound" /\ x.target = y.target

\* The recorded writes, materialised as commands of the scenario, reproduce the
\* live run point by point, as long as no agent and no write have set the same
\* device in one tick, no write named an unknown device (the scenario would not
\* load) and nobody recovered a fault by hand.
ReplayAgreesUnlessExcused ==
    LET replay == Play(Recorded, InitLoop, Len(log)).log
        excused == manual # {} \/ \E i \in DOMAIN capture : capture[i].target = Ghost
    IN excused \/ \A n \in DOMAIN log :
                      \/ \E m \in 1..n : Clash(m)
                      \/ replay[n].points = log[n].points /\ replay[n].alarms = log[n].alarms

\* What the resumed loop cannot know at its n-th tick: commands of the scenario
\* and writes, recoveries, and a fault that was active in the engine and is over
\* before the first tick, or whose device had been cleared by another fault.
ResumeExcused(n) ==
    \/ \E m \in (snap.at + 1)..(snap.at + n) :
          \E x \in ToSet(log[m].applied) : x.by # "agent"
    \/ \E m \in manual : m[2] >= snap.at
    \/ \E i \in snap.active :
          \/ scenario.faults[i].end <= snap.state.time + TickMs
          \/ ~snap.state.faulty[scenario.faults[i].target]

\* A resumed run persists what the live run does after the snapshot, except for
\* these reasons; an alarm is at most repeated, and only in the first tick.
ResumedAgreesUnlessExcused ==
    snap # None => \A n \in DOMAIN Relive.log :
        \/ ResumeExcused(n)
        \/ LET old == log[snap.at + n]
               new == Relive.log[n] IN
           /\ new.points = old.points
           /\ old.alarms \subseteq new.alarms
           /\ new.alarms \ old.alarms \subseteq IF n = 1 THEN snap.alarmed ELSE {}

\* GG-SIM-005 as it is written: the values after the snapshot are the same.
ResumedAgrees ==
    snap # None => \A n \in DOMAIN Relive.log : Relive.log[n].points = log[snap.at + n].points
===============================================================================
