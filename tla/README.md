# grid-gym in TLA+

Models of the grid-gym simulator (`src/src/grid_gym`): the scenario a client posts and
what becomes of it, the lifecycle of a run, the task that drives it, the registry that
holds several runs, the deterministic tick with its commands and faults, the plant the
tick computes, and the field ports and the field server through which a run meets the
outside. TLC checks small instances of every model; TLAPS proves the theorems of the
eight `...Proofs` modules for every value of the constants.

Paths without a prefix are below `src/src/grid_gym`.

Contents: [the system](#the-system) · [modules](#modules) · [run control](#run-control) ·
[run driver](#run-driver) · [run service](#run-service) · [scenario intake](#scenario-intake) ·
[tick](#the-tick) · [plant](#the-plant) · [field ports](#field-ports) ·
[codecs](#codecs-and-configurations) · [field server](#field-server) · [proofs](#proofs) ·
[findings](#findings-and-observations) · [not modelled](#what-is-not-modelled) · [plan](#plan)

## The system

grid-gym executes *runs*. A run is a `TickLoop` built from a scenario: a clock, an
event scheduler, devices, agents, faults and the balance of a grid. A driver task in
an asyncio event loop calls `tick()` about once per interval; HTTP clients create
runs, start them, control them and read their status; field servers let outside
systems write set points. Two runs of one scenario with one seed are to be the same,
and a run can replay another one and be compared with it.

### Inventory

State, operations and partners of every component, what is hard about it, and the
properties that make it correct. Names of properties in the last column are
definitions of the modules; where there is none the component is in the plan or in
[what is not modelled](#what-is-not-modelled).

| component (source) | state | operations | works with | hard about it | correct when |
|---|---|---|---|---|---|
| run control (`hexagon/core/simulation/tick_loop.py` 820-930, 1200-1250; `adapters/driving/http_api/_runs_action_router.py`) | `_control_state`, the status in the repository, `_run_failed` | `request(start, pause, resume, stop)`, head of `tick()`, `mark_run_failed`, `finalize` | REST worker threads, tick task, run repository | no lock; two writers in opposite orders; a repository that raises | `BothFollowMatrix`, `MirrorAtRest`, `SealedStopIsFinal`, `SealedStopEndsTask`, `AtMostOneLateTick`, `EndIsHonest` |
| run driver (`adapters/driving/http_api/_tick_loop_driver.py`) | the task, three `_active_...` ports, failure counters | `start`, `stop`, `_run_loop`, `_tick_forever`, opening and closing the ports | event loop, thread pool, ports, tick loop | a cancellation may arrive at any await; calls in threads cannot be cancelled | `CleanUnlessCut`, `ServedTicks`, `EndIsHonest`, `NobodyWaits`, `TaskKeepsContract` |
| registry and run service (`_run_driver_registry.py`, `_run_start_router.py`, `_runs_router.py`, `_scenarios_router.py`) | the drivers by run, the scenario store, run metadata | create scenario, create run, start, stop, evict, `stop_all` | drivers, run repository, telemetry sink | a cap, eviction, a stop that pops before it awaits, a restart after an outage | `NoOrphan`, `DownIsQuiet`, `OverIsOver`, `ShutdownEnds`, `RegistryIsPool` (with `CapHolds` and `OneLoopPerRun`), `TasksKeepContract` |
| replay diff (`hexagon/core/replay`, `TickLoop.finalize`) | the samples of two runs, the verdict | metadata pre-check, diff | telemetry sink | the reference may still tick, have failed, be shorter | `VerdictIsEarned` |
| tick spine (`TickLoop._run_tick_body`) | time, tick count, pending commands | `tick()` | all engines below | the order of the stages is what makes a run reproducible | `OrdersAreApplied`, `ReplayAgreesUnlessExcused` |
| scenario command engine (`hexagon/core/commands`) | none | `due_commands` | tick | half-open spans | `OrdersAreApplied` |
| inbound command buffer (`adapters/driving/_inbound_command_buffer.py`) | pending writes, capture log, sequence | `enqueue` (server thread), `drain_due` (tick), `materialize_inbound_writes` | field server, tick | two threads; recorded writes must replay | `OrdersAreApplied`, `ReplayAgreesUnlessExcused` |
| fault engines (`hexagon/core/faults`) | active faults, manual recoveries | `apply_active_faults`, `register_manual_recovery` | devices | overlapping faults share a flag; lost on resume | `FaultsActAndAreTold` |
| quality faults (`hexagon/core/simulation/quality_fault.py`) | last valid values, alarmed faults | NaN, stale | telemetry | order of cache and rewrite; age of a frozen value | `FaultsActAndAreTold` |
| agents (`hexagon/core/agents`) | commands for the next tick; bus queues | `tick` of each agent | tick | decided in one tick, applied in the next | `ReplayAgreesUnlessExcused`, `ResumedAgreesUnlessExcused` |
| snapshot and resume (`TickLoop.snapshot`, `from_snapshot`, `hexagon/core/serialization`) | a dictionary | write, rebuild | all of the above | what it leaves out, what it is resumed into | `ResumedAgreesUnlessExcused`, `ResumedPlantAgrees` |
| devices (`hexagon/core/devices`: battery, EV charger, diesel generator, load, PV, grid connection, transformer, wind turbine, smart meter) | set point, power, stored energy, fault | `initialize`, `apply_command`, `tick`, `inject_fault`, `clear_fault`, `snapshot` | tick, grid | limits, ramps, derating and saturation in one tick | `DevicesWithinLimits`, `TelemetryAddsUp` |
| grid model (`hexagon/core/grid_model`) | imbalance, frequency, voltage; load events and profiles | `update`, overlays | tick | two passes; which device closes the balance | `BalanceCloses`, `OverlaysComeAndGo` |
| intake, loader, validator (`composition/scenario_intake.py`, `scenario_yaml.py`, `hexagon/core/scenario`, `persistence_inmemory/scenario_store.py`, `_scenarios_router.py`, `_run_start_router.py`) | the stored scenarios by hash | `post_scenarios`, `post_run_start`, `validate_scenario_mapping`, `build_tick_loop` | service, tick | four checks one after the other, each relying on the one before; a hash that is to stand for the content | `NumbersArrive`, `PostedIsWhatRuns` |
| event scheduler (`hexagon/core/simulation/scheduler.py`) | heap | schedule, `pop_due` | tick | ties; feeds only a gauge and the result | plan |
| protocol ports (`hexagon/ports/driven/device_protocol.py`, `_protocol_comm_failure_wrap.py`, `_protocol_otel_wrap.py`, five adapters) | started ports, clients, MQTT queues, the OPC UA loop thread | start, stop, read, write | tick, devices in the field | partial start, a stop that raises, late writes, arrivals in another thread | `SessionsAreKnown`, `ReadsFollowArrival`, `FailuresAreTold`, `WritesAreAccountedFor` |
| field codecs and profiles (`protocol_*/_codec.py`, `_config.py`) | none | encode, decode, validate | ports, server | edges of types, answers of the wrong type | `ValuesSurvive`, `AnswersAreJudged`, `AcceptedServes` |
| Modbus device server (`adapters/driving/device_server_modbus`, `_field_current_value.py`) | a thread with its own loop, register windows, the latest values | start, stop, refresh, write hook | driver, buffer, masters | ready timeout, torn frames, who holds the port | `ServedWhileOwned`, `SetpointsArrive`, `PollsGoForward`, `ServerLives` |
| field publication (`field_publish_mqtt`, `field_publish_bess_ems`) | a client | start, stop, publish | driver | partial failure, acknowledgement | its outcome in run driver |
| streams (`telemetry_stream_inmemory`, `alarm_stream_inmemory`, SSE routers) | a bounded queue per subscriber, a history | publish, subscribe, recent | tick, REST threads | drop-oldest before the run filter | plan |
| demo wiring, health, `TickLoopRegistry`, composition | singletons | build | all | what is left unconfigured | observations |
| PostgreSQL, random numbers, observability, UI | - | - | - | I/O, libraries, output | not modelled |

### Who runs what, and when

- **Event loop thread.** Driver tasks, `async def` handlers (`POST /runs/{id}/start`) and
  the lifespan. One of them at a time, from one await to the next. `tick()` is
  synchronous: nothing else of this thread runs during a tick.
- **Worker threads of the web server.** Plain `def` handlers, `POST /runs/{id}/control`
  among them. They interleave with the event loop at any access.
- **Worker threads of `asyncio.to_thread`.** `start()` and `stop()` of the ports, which
  block on the network. A cancelled await leaves them running.
- **The server thread** of the Modbus server: writes of clients reach
  `InboundCommandBuffer.enqueue` there.

There is no lock around the control state. The deterministic part, from the commands
to the persisted points, runs in one thread and reads nothing that another one
writes, except the inbound buffer, which it drains once per tick.

## Modules

| module | models | kind |
|---|---|---|
| `RunStates` | statuses, actions, their matrix (`domain/run.py`) | shared operators |
| `RunLifecycle` | what a status promises: only transitions of the matrix | abstract specification |
| `RunControl` | `request()` and the head of `tick()`, one access per step | detailed; refines `RunLifecycle` twice |
| `RunControlProofs` | | theorems |
| `TaskLife` | what the task of a run promises to whoever starts and stops it | abstract specification |
| `RunDriver` | the task of one run, its ports, its callers of `stop()` | detailed; refines `TaskLife` |
| `RunDriverProofs` | | theorems |
| `RunSlots` | what the registry promises: a pool of slots for loops | abstract specification |
| `RunService` | several runs, the registry, the replay verdict | composes coarser drivers; refines `RunSlots`, and `TaskLife` once per driver |
| `RunServiceProofs` | | theorems |
| `ScenarioDocuments` | JSON values, their conversion to Decimals, the canonical form | algorithms |
| `DeviceConfigs` | what the config class of each device accepts, what its ticks divide by | algorithms |
| `ScenarioRules` | the validator, the constructors, the scenario that is built, what is hashed | algorithms |
| `ScenarioIntake` | posting, storing, starting, ticking a scenario | composes the three above |
| `TickSpine` | the order of a tick; snapshot, resume and replay compared | deterministic function under an environment |
| `TickSpineProofs` | | theorems |
| `Devices` | the nine device models as pure operators | algorithms |
| `Plant` | overlays, two passes, closing, balance; resume compared | composes `Devices` |
| `PlantProofs` | | theorems, on the devices and on the plant |
| `FieldPorts` | the protocol ports of a run and the five adapters behind them | detailed |
| `FieldPortsProofs` | | theorems |
| `Registers` | numbers in Modbus registers, for the client and for the server | algorithms |
| `FieldCodecs` | one value through one codec, one profile through its checks | algorithms, as a small machine |
| `FieldCodecsProofs` | | theorems |
| `FieldServer` | the Modbus server, its caller, its thread, its masters | detailed; uses `Registers` |
| `FieldServerProofs` | | theorems |
| `MC...` | instances for TLC | model checking |

The layers meet at named places. `RunControl` shows that a request is safe to take as
one step when calls do not overlap, and what is left when they do; `RunDriver` takes a
request as one step and adds cancellation and ports. `RunService` takes the task of
`RunDriver` as *created, live, closing, ended* and adds other runs; that both modules speak
of the same task is what `TaskLife` is for, which each of them implements. A run is there "a
deterministic function of its scenario and its seed", which is what `TickSpine` and
`Plant` are about. `TickSpine` has the sources of orders and faults but trivial
devices; `Plant` has the devices and takes any order and any fault. `ScenarioIntake` says
which scenarios get that far. `FieldServer` ends where `TickSpine` begins: with a command
in the inbound buffer; `RunDriver` opens and closes both kinds of ports without looking inside.

Operators whose comment begins with *Mutant* are wrong on purpose: each is the
plausible mistake that the property named for it in `PROJECT.json` detects when it
takes the place of the definition it stands before. No specification uses them.

## Run control

`RunControl` has one variable per shared field (`cache` is `_control_state`, `repo` the
status in the repository, `failed` is `_run_failed`) and a program counter per thread.
Its actions are the accesses of the code in their order:

- `Begin`, `CheckSame`, `CheckAllowed`, `UpdateStatus`, `SetCache`: `request()`, with the
  two separate reads of its two tests, the repository first and the cache second;
- `Poll`, `TickPaused`, `TickTerminal`, `TickPending`, `TickFlip`, `TickMirror`, `TickBody`:
  `_tick_forever` around the head of `tick()`, which flips the cache first and the
  repository second;
- `ForceStop`, `Finalize`, `Cancel`, `StopCheck`: the ways out of the task. They call
  `Request(Loop)`, the same `request()`, in the thread of the event loop.

Two constants choose the environment: `Overlap` (may a call begin during another one?)
and `RepoMayFail`.

| run | environment | shows |
|---|---|---|
| `control_serial` | 2 workers, no overlap, the repository answers | ADR 0039's own picture: cache and repository each implement `RunLifecycle` (`BothFollowMatrix`, a refinement by `INSTANCE`), agree between calls (`MirrorAtRest`), a run is marked failed only by a defect, and ends terminal for everyone (`EndIsHonest`) |
| `control_race` | 2 workers, free interleaving, the repository may fail | at most one tick after a stop or pause; a *sealed* stop (no call that would write something else has passed its guard) is never undone, and ends the task |
| `control_stop_undone` | free interleaving | finding: an accepted stop is overwritten |

*Bounds.* The module is finite without any: `late` saturates at 2, everything else is
a finite set. Two workers are enough for the lost update, which needs two writers;
the loop thread is the third. `RunControlProofs` removes the bound for every safety property.

*Fairness.* A thread inside a call goes on (`WF` of `Request(w)`) and the task goes on
(`WF` of `TaskProgress`): the scheduler of the operating system and the event loop.
Clients need not call, and `Cancel` need not happen.

## Run driver

`RunDriver` models `DemoTickLoopDriver`: `at` is the place of the task, `next` the index
of the port it deals with, `job` the call in a worker thread (queued, running, done),
`active` the `_active_...` fields, `caller` the callers of `stop()`. Steps go from one
await to the next; a step of the event loop needs `LoopFree`. A `cancel()` takes effect
when the task is resumed and discards the result it waited for; a call that no thread
has picked up is dropped, a running one goes on alone (`Abandon`); a task cancelled
before its first step never enters its coroutine. These three are asyncio's rules.

| run | instance | shows |
|---|---|---|
| `driver_any` | 2 callers of `stop()`, any subset of the 3 ports, a cancellation at any await, port starts and ticks may fail, the repository may fail | `CleanUnlessCut`: exactly which cancellations cost what, `finalize()` being missed only if the task is hit before its first step or while it closes, a port staying open only if it is hit while opening or closing. `EndIsHonest`: without an outage the run ends terminal, and a run that broke is never diffed. No tick without a configured device server. `NobodyWaits`: every `stop()` returns, and a stopped run ends its task. `TaskKeepsContract`: whatever hits it, the task is one of `TaskLife` |

`TaskLife` is what is left of a task when ports and awaits are forgotten: it ticks only while it
is not cancelled and its run goes on; it leaves that phase once, cancelled, over or failed; a
failed run is not diffed; nothing but a second cancellation skips the verdict. The places of
the task are mapped to its phases by `Phase`; a failure is shown when `_force_stop_after_failure`
is through, so that the mark and the stop are one step of the contract.

*Bounds.* The module is finite. Two callers of `stop()` because a second `cancel()` is
what breaks the closing of the ports. The run says `CHECK_DEADLOCK FALSE`: when
the task is over and the run stopped, nothing is left to do.

*Fairness.* `WF` of the task (the event loop runs what is ready and wakes sleepers), of
each port call (the thread pool picks it up, the libraries have timeouts), of the two
later halves of `stop()`. Nobody has to call `stop()`, start a run or send a request.

## Run service

`RunService` numbers runs and drivers in the order of their creation. `registry`,
`store`, `meta`, `status`, `samples` are the shared state of the application; `life`,
`control`, `count`, `failed`, `verdict` belong to a driver. Actions: `PostScenario`,
`PostRun`, `PostStart`, `PostStartRefused` (409 and 429, of which the eviction remains),
`FirstStep`, `Tick`, `TickFails`, `TaskCancelled`, `EndTask`, `StopRun`, `Shutdown`,
`StopNext`, `StopWake`, `Cleared`.

| run | instance | shows |
|---|---|---|
| `service_all` | 2 runs, 2 drivers, cap 1 or 2, equal or different seeds, the second run possibly a replay of the first, 2 ticks, the repository may fail | the cap and one loop per run hold for loops that nobody is stopping; every such loop is in the registry; after `stop_all()` all is quiet; a terminal run produces no more samples; a verdict says what the samples say; the shutdown ends. `TasksKeepContract`: each task is one of `TaskLife`. `RegistryIsPool`: the registry is the pool of `RunSlots` |

`RunSlots` is the registry as its users may think of it: a loop takes one of `cap` slots for a run
that has none, only a loop in a slot adds points to its run, and it gives the slot up once. A
slot is taken by a loop that is running and that nobody stops (`Taken`), not by an entry of
the dictionary: the code evicts late, and `stop()` removes early.

*Bounds.* Two drivers cover a start refused by the cap, a start refused because the
run is active, an eviction, and a restart of a run whose first driver failed in an
outage. Two ticks make a replay shorter, equal or longer than its reference. The
proofs remove the bounds for everything but `ShutdownEnds`.
`CHECK_DEADLOCK FALSE`: an application that is down stops.

*Fairness.* Steps of a task that is past its sleep, the second half of `stop()`, and
`stop_all()`. No fairness of ticks or failures: a run may go on for ever.

*Excuses in the properties.* Samples and status of a run that was started twice are
mixed by the code (see the observations), so `OverIsOver` and the clean half of
`VerdictIsEarned` speak of runs started once.

## Scenario intake

Four checks stand between a client and a running scenario, and each relies on the one
before: `coerce_scenario_mapping` turns numeric strings into Decimals (`CoerceDecimals`),
the validator looks at sections, keys and types (`Valid`), the constructors look at values
(`Builds`), the canonical form refuses what is not finite (`Finite`); at the start of a run
`build_tick_loop` builds devices, agents, overlays and the loop (`StartVerdict`). What
raises the wrong error, or none, shows later: as a 500, or in a tick (`TickRaises`).

`ScenarioDocuments` has JSON values as tagged records, numbers in hundredths so that
every threshold of a configuration is exact; a string is known by whether it reads as a
number, since nothing else of it is looked at. `DeviceConfigs` and `ScenarioRules` are the
checks, each an operator; `ScenarioIntake` is the service around them, with `store` as
`InMemoryScenarioStore._store`, and the actions `PostScenario`, `StartRun` and `Tick`. A hash is
the canonical form itself: SHA-256 is taken as free of collisions.

| run | instance | shows |
|---|---|---|
| `scenario_intake` | 403 documents: a good one, every section good and bad, and every parameter of every device type missing, an int, a float, a word, zero, negative, huge, not a number; two posts, with the hash of the client right or wrong, two starts, three ticks | `NumbersArrive`: a scenario that would go through with its numbers read as such goes through as the client writes it, with strings, and fails for four names exactly, two at the post and two at the start: the list of what is read, the validator and the constructors agree on the rest. `PostedIsWhatRuns`: what is stored under a hash stays what it was, up to the type of a number, and a run that was accepted fails a tick for two reasons only, a fault its target does not know and an agent without a target |

*Bounds.* One post decides one document; the second is what may replace it under the
same hash, so only documents that can share one are posted second (`Later`). Two starts
run the scenario before and after. Three ticks pass the start and the end of the faults
and the threshold of the rules. `CHECK_DEADLOCK FALSE`: the bounds end a behaviour.

The documents are those of the model *and* of the code: all 403 were also posted to the
real application, started and ticked three times, and the verdict of the post, the
verdict of the start, the tick that fails and the equality of the hashes agree.

## The tick

`TickSpine.Tick(s, loop, writes)` is the tick body as a function: due scenario commands,
then agents' commands of the tick before, then inbound writes; faults; devices; agents,
whose rules look at the tick or at the time; quality stages; the points that are
persisted. Around it only the environment acts: `Enqueue` (server thread), `Recover`
(manual recovery), `LiveTick`, `Snapshot`. The loop resumed from the snapshot (`Relive`)
and the replay of the recorded writes (`Play` of `Recorded`) are computed from the state,
so TLC compares three loops in every state.

| run | instance | shows |
|---|---|---|
| `tick_twins` | 32 scenarios (with and without commands, with no, separate or overlapping faults, also one listed after a later one, with and without quality faults and an agent of two rules), 2 time units per tick, 5 ticks, 2 writes, 1 recovery, a snapshot after any tick | `OrdersAreApplied`: commands exactly once, writes in order of arrival and none twice. `FaultsActAndAreTold`: a fault in force in its window unless another of the device was cleared, and never outside, a frozen value marked in time, one alarm per NaN fault. Replay and resume agree except for named reasons |
| `tick_resume_differs` | one scenario with one command | finding: the command is not applied after a resume |

The lists a tick goes through (due commands, orders, faults, recorded writes) are read by `Sift`,
`Sorted` and recursive functions of a place, in the order in which the code loops over them.

*Bounds.* Windows and commands of the scenarios lie on a tick, between two ticks and
across several; one command lies before the first tick. Five ticks let the longest
window (4 to 10) open and close. Two writes are needed for an order between them.
The devices are two batteries that reach any set point at once, so that a wrong
command is visible in the next point. `CHECK_DEADLOCK FALSE`: the bounds end a
behaviour. No property of these runs is a liveness property, hence no fairness.

The *Excused* in two names is the content of the properties: they list every reason for
which the code does not keep its promise, and TLC shows that there is no other.
For a replay: an agent and a write set the same device in one tick, a write named an
unknown device, somebody recovered a fault. For a resume: a command, a write or a
recovery after the snapshot; a fault that was active and is over before the first
tick, or whose device another fault had cleared.

## The plant

`Devices` has each device model as operators on records: `...Init`, the validator of its
orders, `...Tick`, and the set of fields its snapshot keeps. Powers are integers in kW,
a tick lasts one unit, charging and discharging losses are whole factors, so that
every comparison in the code is exact here. `Plant` is the tick body around them:
`Commanded`, `LoadInputs` (event before profile before rated power), `Faulted`, the first
`Pass` over everything except the connections (or the device that forms an island),
`CloseOrders`, the second `Pass`, `GridUpdated` with the two temperatures of a transformer
limit. Each step takes at most one order, any set of faults and any draw of the wind.

`Resume` and `ResumeAnew` build a second loop from a snapshot, `wired` to a plant that somebody
hands over (`Handed`): the same one, one without overlays, without its last device, without
any, with a device of another rating, with another grid. A snapshot that has no devices takes
whatever is handed over (`tick_loop.py:2626`), which `Empty` is there for and
`ResumedPlantAgrees` excuses. The devices are restored from
their sub-snapshots, or built anew; `DevicesMatch`, `GridMatches`, `OverlaysMatch` and
`FormingIsKnown` are what `from_snapshot` compares before it accepts them.

Facts of the code the model keeps, which are easy to overlook: a meter sums what its
sources have reported when *it* ticks, and nothing of a transformer or another meter, which
report no power; every automatic connection is given the whole
rest, not its share; a manual one keeps an old reactive set point; EV chargers do not
understand `set_power_kw`, wind turbines and meters no order at all; the forming device is
always ordered, manual or not, and the connections of an island tick with the set
point they have; a window is tested at the start of a tick; a resumed meter has no
sources, since only the loader attaches them.

| run | instance | shows |
|---|---|---|
| `plant_ticks` | 11 plants (nothing, a house, one with a meter and profiles, two connections with meters of a transformer and of a meter, a village behind a transformer limit, a wind farm, a garage, islands formed by a battery, a diesel generator, an EV charger, a load), 4 ticks of 2 time units, resumed after any tick | no store leaves its limits and no device its rating (`DevicesWithinLimits`); stores match the reported powers up to the named losses, and a meter the sum of sources that tick before it (`TelemetryAddsUp`); the balance closes when one device closes it and reaches its set point; what somebody set stays and overlays leave no trace (`OverlaysComeAndGo`); whatever plant is handed over, a resumed loop agrees or was refused, except for named reasons |

*Bounds.* The ratings are small and chosen so that within four ticks a battery reaches
both limits, a tank runs dry with a remainder, a car becomes full and empty, a ramp
takes several ticks, and orders beyond each limit occur. One order per tick: several
orders to one device in a tick are the subject of `TickSpine`, and orders to different
devices do not meet before the balance. The transformer limit is exceeded after three
ticks of full load and recovers. The draw of the wind is nothing or rated.
`CHECK_DEADLOCK FALSE`: `MaxTicks` ends a behaviour.

## Field ports

`FieldPorts` is `start_protocol_ports` and `stop_protocol_ports` over ports of five kinds. A call of the
loop is a sequence of steps, one port each (`StartNext`, `CleanNext`, `StopNext`), since a message
or a late write may come between two of them; `...Start` and `...Stop` are the outcomes of an
adapter, `Errors` the base classes of what it raises: the clean-up catches port errors
only, and the reader of a port tells read from write errors by them. `Read` takes the way
through the wrapper for spans (`Traced`) and the one for communication failures (`Guarded`), `Arrive`
is the network thread of MQTT. A write of OPC UA is somewhere when its caller has given it up:
in the event loop, which may still send it (`Send`), or on the wire, where it takes effect whatever
the client does (`TakesEffect`). `stop()` cancels what is in the loop (`Abandoned`), unless the thread does
not join: then that thread keeps its writes, beside any loop started since, until it ends
(`HungLoopEnds`).

| run | instance | shows |
|---|---|---|
| `field_ports` | 6 setups of up to three ports in different orders (every kind, MQTT with one and with two targets), 4 calls of start and stop, 2 messages, 2 writes; links break at any time | `SessionsAreKnown`: whatever fails in whichever order, the loop knows the ports it still has to stop, except for two named ways to lose one. `ReadsFollowArrival`: no MQTT point is lost, doubled or overtaken, across a restart too. `FailuresAreTold`: a guarded read never raises and never invents a value, its alarm comes once and no span stays open, even when the trace port fails; a write is refused with a write error, except for what each adapter cannot pack (`Unpackable`). `WritesAreAccountedFor`: a confirmed write has taken effect, none takes effect twice, the confirmed ones keep their order whatever late ones come between, and what waits in an event loop belongs to a port that holds a client |

*Bounds.* Three ports are one before, one that fails, one after; four calls are two rounds of
start and stop, or starts that fail and are repeated. Two messages and two writes have an
order. `CHECK_DEADLOCK FALSE`: after the last call nothing need happen.

## Codecs and configurations

`FieldCodecs` sends one value through one codec, or one profile through its checks; a step
is `Encode`, `Decode` or `Validate`. A value is known by its type, whether it is finite, and its
size in halves, so that a cut-off fraction is seen. `Registers` has bytes of base `Byte`: every
width, byte order and word order is there with few patterns, and a float32 is one of
`Byte^4` patterns, three of them not finite. Rounding is left out.

| run | instance | shows |
|---|---|---|
| `field_codecs` | base 4; numbers at both sides of every limit of every type, NaN, infinities, booleans, text; answers of every kind; register answers of up to three words; about 1500 profiles good and bad | `ValuesSurvive`: what was sent is what is read, in every layout, and a register the server has filled is what the client reads. `AnswersAreJudged`: nothing but text is invalid, no text passes as a number and no boolean as another type; what cannot be decoded is a codec error. `AcceptedServes`: an accepted profile can do what it promises for each target, a refused one is refused with an error of its own adapter |

*Bounds.* Every type of width two and four has its limits within `Halves`; the way of a value
has two steps. `CHECK_DEADLOCK FALSE`: a value that has arrived is done.

## Field server

`FieldServer` has the three parties of a Modbus server: the caller of `start()` and `stop()`
(`Start`, `Started`, `StartFailed`, `StartTimesOut`, `Stop`, `Shutdown`, `Hang`, `Joined`), the server thread
(`Build`, `Bind`, one `PushWindow` and one `PushDiscrete` per window, `Refresh`, `End`), and those outside:
ticks that project their values (`Project`), masters (`MasterWrite`), other processes that take
the port (`ForeignBinds`). A server that was given up is kept, because it may still bind.

| run | instance | shows |
|---|---|---|
| `field_server` | 2 read windows, 3 write windows (two of them for one setpoint), 2 ticks, 2 starts, 2 writes that hit all windows, two halves, or one with no number, 1 fault (a push that fails, a foreign owner, a hang) | `ServedWhileOwned`: the adapter serves exactly while it holds a server, filled once before `start()` returns with nothing older than what the ticks had projected when it was called (`had`), and leaves none on the port except one that was late, hung or failed. `PollsGoForward`: what a poll sees of a device never gets older. Both speak of the read windows no request of a master touches (`Untouched`): the server lets a master write into the others, until the next refresh. `SetpointsArrive`: a setpoint written as a whole becomes one command, and its registers show the last command for it, for no refresh puts them back; where two windows are for one setpoint (`OnlyWindow`) each shows what was last written into it, which may be neither the last command nor what the other shows. `ServerLives`: registers catch up, and `start()` and `stop()` end |

*Bounds.* Two windows let a poll see one of each tick; two starts let a late server meet
the next one; the proofs remove these bounds for `ServedWhileOwned` and `PollsGoForward`. Base 2 leaves patterns enough for the values of two ticks.
`CHECK_DEADLOCK FALSE`: a stopped server is quiet.

*Fairness.* `WF` of the thread of each server (its event loop runs what is ready, the interval
of the refresh passes) and of the waits of the caller, which have timeouts. Nobody has to
start, stop, tick or write, and nothing need go wrong.

## Proofs

`tlapm` checks every leaf. The theorems hold for every value of the constants that
satisfies the named assumptions of the modules; these say no more than what the code
guarantees of them (the event loop is not one of the worker threads, runs and drivers
are numbered and drivers finitely many, ratings are what the config classes accept, a
list of ports and a register map are sequences, a register is an address with words, a
word holds the number of every tick). Each inductive invariant was checked by TLC on the
instance of its module before it was proved.

**`RunControlProofs`.** Any number of workers.

- `TypeCorrect` : `Spec => []TypeOK`, in every environment.
- `SealedStop` : `SealedStopIsFinal` in every environment. `Sealed` is preserved by every
  step; no invariant is needed beyond `TypeOK`, because `Sealed` already says what is
  under way.
- `LateTicks` : `AtMostOneLateTick` in every environment, by `LateInv`. A tick that has been
  counted as late leaves a state in which the next guard refuses (`late = 1 => cache` is not
  one that ticks); a resume resets the count in whichever order its two writes arrive.
- `SerialGuards` : without overlap, `SerialInv` is inductive. It is `TypeOK`, `Exclusive` (only
  one thread is inside a call) and `Guarded` (what the guard of a call has established
  still holds when it writes). `Guarded` alone is not inductive: another call could
  write in between; that it cannot is `Exclusive`.
- `SerialMatrix` (the control state implements `RunLifecycle`) and `SerialTerminal` (a
  terminal control state is final) follow from `Guarded` at the step that writes.
- `SerialMirror` : `MirrorAtRest`, without overlap and without outages, by `MirrorInv`,
  which says in addition what the one call under way has done to the repository.
- `SerialBoth` : `BothFollowMatrix`, with the repository as the second refinement of `RunLifecycle`. The flip of the
  first tick writes the repository last, when the cache has already changed; `FlipGuarded`
  says that the repository still waits for it.
- `SerialEnd` : `EndIsHonest`, by `EndInv`, which follows the task from its last guard to
  its end: past the guards of a tick the cache is not terminal, past `finalize()` it is.

**`RunDriverProofs`.** Any callers of `stop()`, any set of configured ports, cancellations
anywhere.

- `TypeCorrect` : by `TypeInv`, which adds that a port call that is awaited belongs to a port.
- `ServedEver` (`ServedTicks`) and `CleanEver` (`CleanUnlessCut`) : by `PortsInv`. `PortInv` accounts for
  every open port: it is active, or its opening or closing is the call the task awaits,
  unless a cancellation has cut such a call. `GivenUp` says how far the task has come in
  `StopOrder`, `Bound` that a configured server was bound before the first tick. Without
  `PortInv` neither of the others is inductive, because a call goes on in its thread
  while the task is elsewhere.
- `HonestEver` (`EndIsHonest`) : by `BrokenInv` (a defect is marked before the verdict) and `EndInv`:
  past its last tick the task leaves a terminal run, an outage, or a caller of `stop()` who
  has cancelled it and is still to request the stop.
- `ContractKept` (`TaskKeepsContract`, the refinement of `TaskLife`) : step by step under the
  invariants just named. `EndInv` says where a cancellation can be waiting, hence that no tick, no
  poll and no failure meets one; `MarkedInv` that a defect is marked once and after the last tick.

**`RunServiceProofs`.** Any runs, drivers, scenarios, seeds, caps.

- `TypeCorrect` : by `TypeInv`, which adds `Started` (a driver that was started has a run that
  was created). Without it the type of a persisted point does not follow.
- `NoOrphanEver`, `CapEver`, `OneLoopEver` : by `RegistryInv`. The promises are about loops;
  what the code looks at is its dictionary (`WithinCap`, `Unique`). `NoOrphan` is the link
  between them. It would break when `stop_all()` clears the dictionary, unless all
  drivers in it were stopped, which is `Handled`. The cap needs facts about the
  cardinality of finite sets (`FiniteSetTheorems`).
- `DownEver` (`DownIsQuiet`) and `OverEver` (`OverIsOver`, an action property) : by `OwnInv`. A run that
  was started once has one driver (`Sole`), which nobody else writes for; its status is
  over exactly when the control state of that driver is (`Mirrored`), and then its task
  ticks no more (`Wound`).
- `VerdictEver` (`VerdictIsEarned`) : by `JudgedInv` on top of `OwnInv`. The samples of a run
  started once are the ticks 1, 2, ... of its scenario and seed (`Logged`), so two runs
  that passed the pre-check differ in length only; a clean verdict stays true while the
  reference goes on, because the replay has ended and the other only grows.
- `ContractsKept` (`TasksKeepContract`, the refinement of `TaskLife` by every driver) : by `TaskInv` and
  `Wound`. A step of one task is none to the others (`StillStutters`); that a task still ticks
  means that its run is neither over nor paused; a task that is done has no cancellation
  waiting, so cancelling it changes nothing.
- `PoolEver` (`RegistryIsPool`, the refinement of `RunSlots`) : by `TaskInv` and `RegistryInv`. A task that may
  tick is nobody's to stop, because `stop()` cancels whatever it waits for, so whoever records a
  point has a slot (`PoolRecord`). A slot is free when a start is accepted: the loops that have one
  are among those the eviction leaves (`ActiveEvicted`), and no more than these (`TakenFew`).

**`FieldPortsProofs`.** Any list of ports of the known kinds, any number of calls, messages and
writes.

- `SessionsEver` (`SessionsAreKnown`) : by `CallInv` and `SessionInv`. The ports of a call are those
  of a prefix of the list; the clients that are not excused are a prefix too, and the
  call, or a later stop, still reaches its end (`Reach`).
- `ReadsEver` (`ReadsFollowArrival`) : by `QueueInv`, for each target what was read followed by what
  waits.
- `WritesEver` (`WritesAreAccountedFor`) : by `LoopInv` (an OPC UA adapter has a loop exactly while it has
  a client) and `WriteInv` (a write is in one place, and the list of the server holds those that are
  there, once each). Nothing is claimed of a write on the wire or left to a thread that did not join.
- `FailuresEver` (`FailuresAreTold`) : for every port and every payload but the `Unpackable` ones of its
  adapter, through the two wrappers;
  the lemmas (`TraceKept`, `GuardKept`, `LossTold`, `WriteAnswered`) say of each wrapper what it keeps
  of the outcome below it.

**`FieldCodecsProofs`.** Any base of a byte, any size of the register space, any answer, any profile.

- `AnswersEver` (`AnswersAreJudged`) : by `StageInv`, that what was read is what the codec made of the
  answer. One lemma per protocol says of its codec when it refuses, and with which error
  (`ModbusAnswer` to `MqttAnswer`); of a poll the point is one of its own (`FindAnswer`, which needs that
  a set of numbers has a least element, `LeastOf`).
- `AcceptedEver` (`AcceptedServes`) : what may be said of a profile is taken apart once for each adapter
  (`ModbusTold` to `MqttTold`), and every error is one of the adapter's own (`ErrorsOwn`). A topic
  leads back to its device because no two are equal (`MqttServes`). Of the server: the windows share
  no register, since their joint list does not (`WindowsApart`); the last of them fits into the
  room that is made (`RoomFor`); and a write of one window as a whole covers no other,
  so it gives its command alone (`CommandOf`).

- `ValuesEver` (`ValuesSurvive`) : by `SentInv`, that what is read of a command is what the codec makes
  of what it has encoded. One lemma per direction says that nothing is lost: a number is its quotient and
  its remainder (`Quotients`), so its bytes give it back in either order (`BytesBack`), and so do the
  registers they fill, swapped or not (`PackedBack`); two's complement gives back an integer
  (`SignedBack`), the pattern of a float32 a number within its range and nothing else (`FloatBack`,
  `SpecialBack`). For the server and the client to agree, the default layout has to be the two words of
  the pattern (`DefaultWords`, `FloatWords`). Nothing is needed of the base of a
  byte but that it is two at least (`ByteAssumption`).

The assumptions are about the inputs: `JobAssumption`, that an answer is a value of its client
library, that a value is sent to a target of a datatype the config enumerates, in one of the two
byte orders `ModbusTargetError` lets pass, and `ProfileAssumption`, that a profile names an adapter,
that its endpoint has one of the errors its adapter knows, and that windows have addresses.

**`FieldServerProofs`.** Any register map without overlaps, any number of starts, ticks, masters
and faults.

- `ServedEver` (`ServedWhileOwned`) : by `OwnedInv` and `FilledInv`. `PortInv` says per server who holds the
  port: one that is up does, one that has ended soundly has left it; `CallerInv` what the
  caller may rely on at each of its waits. Every action of a thread is one of few moves
  of its life (`LifeStep`), so that the invariant is shown once per move.
- `PollsEver` (`PollsGoForward`, an action property) : `FilledInv` orders four values of a window:
  what there was at the start, what the store holds, what the frame under way holds,
  what the projection has now. A refresh takes its frame before it pushes it, so the
  frame may be old when its last window is written; it is never older than the store.
- `SetpointsEver` (`SetpointsArrive`) : by `SettledInv`. The commands of a request stand in the order of
  their addresses: the number of windows up to one is its place, and `Placed` shows that these
  places are a bijection, which gives both how many commands arrive (`AsManyArrive`) and which one
  a window's is (`ArrivedTyped`). So the last command for a setpoint is the one of its only window,
  unless the request leaves that window alone (`RequestTold`). No other step writes such a window while
  the server listens (`StoreKept`); a new one starts with none. The attempt showed that the property needs
  `OnlyWindow`: with two windows for one setpoint it is false, which the run confirms.

**`PlantProofs`.** Any list of devices the config classes accept, in any order, any overlays and
windows, any orders, faults and draws, any number of ticks.

- `BatteryKeepsLimits`, `EvKeepsLimits`, `DieselKeepsLimits` : `BatteryOK`, `EvOK` and `DieselOK` hold
  initially and are preserved by every operation. Their core is in the lemmas: a ramp
  between two set points within the limits stays within them and derating only takes
  from it (`BatteryPower`); the taper of the charging power does not exceed the rating
  (`EvTaper`). They need the bound on the *set point* as well as on the power.
- The sums of a plant are recursive functions of the number of devices. What they do for
  every number is shown by the least number for which it would fail: `Least` (from `WFMin`)
  and `UpTo`. On them rest `SumUnfolds`, `SumTyped`, `SumAdds` and `SumOfOne`, which are cited
  for balances and meters alike.
- `LimitsEver` (`DevicesWithinLimits`) : by `PlantInv`, that every device is `KindOK` (for the three
  stores the invariants just named, which bound the set point as well) and the
  voltage a number. `StepsOK` takes a tick apart into its stages (orders, overlays,
  faults, first pass, closing, second pass, grid), each of which keeps it.
- `BalanceEver` (`BalanceCloses`) : what is left over is the residual of the first pass and the power
  of the one device of the last (`LeftOver`), which is its negative when the device took
  and reached the order.
- `TelemetryEver` (`TelemetryAddsUp`) : by `BooksInv` on top of `PlantInv`. Per kind of store a lemma says
  what a tick moves (`BatteryTells`, `EvTells`, `DieselTells`); the fuel is exact only while there
  is some, which the invariant has to say too. A meter is told the sum of what its sources report
  *while it ticks* (`Seen`), which is what they report in the end when they tick before it.
- `OverlaysEver` (`OverlaysComeAndGo`) : a walk through the stages of one tick; what no stage
  names it keeps.
- `ResumeEver` (`ResumedPlantAgrees`) : for every plant handed to the second loop, not only the
  ones of the run. By `TwinInv`: from the snapshot on, the loops hold devices that are
  `Alike`, equal in all that a snapshot keeps of their kind. No order, fault or tick can tell
  two such devices apart (`CommandAlike`, `FaultAlike`, `TickAlike`), and what the snapshot left
  out is computed anew by one tick, after which the plants are equal
  (`TickAgrees`, `SamePlantSameTick`). Meters, which read the others, are followed
  separately: they have no part in any balance. The assumption it needs of what is handed over,
  `HandedOK`, is the one of the signature: the five parts, each a list where a tuple is passed.

**`TickSpineProofs`.** Any scenario the loader accepts, any number of ticks, writes and recoveries.

- `FaultsEver` (`FaultsActAndAreTold`) : by `EngineInv`, what the engine knows between two ticks: its
  active faults are those in their windows, but for recoveries, and an active fault whose
  device is healthy was cut short by another one. It holds of every place of the list while
  the engine goes through it (`FaultsKept`, an induction over the list), with the windows of the
  tick before for the faults still to come. `QualityInv` relates the cache to the log: a frozen value
  was real in a tick whose time is kept beside it, and the faults already told are those active now.
- `OrdersEver` (`OrdersAreApplied`) : by `OrdersInv`. The clock is the number of ticks, so that the
  span of a tick holds exactly the commands of its number (`DueInTick`); the writes lie in the
  buffer as they arrived, so that sorting leaves them (`DrainInOrder`). What a tick applies is taken
  apart by source (`AppliedParts`), and what the log holds of the writes grows by what is
  recorded of them (`AppliedLonger`, `RecordedLonger`). The lemmas about lists (`SiftConcat`, `ByCat`,
  `FromCat`, `FlattenAppend`) are inductions over places by `UpTo`.
- `ResumeEver` (`ResumedAgreesUnlessExcused`) : by `ResumeInv`. The second loop is a function of the
  snapshot and the number of ticks, so it takes one tick whenever the live one does (`PlaySteps`).
  At the snapshot it holds what was written of the live loop, which `Restored` reads back: this needs
  `NoneAssumption`, that a missing part is not taken for a list or a cache. Its engine is fresh:
  after one tick it is the live one again (`BothEngines`, an induction over the faults), because what
  is active in a window is found again (`FaultsFoundAgain`), unless it is one of the excuses. Then
  the loops are equal, and stay so while only agents give orders (`ResumedTick`). An excuse stays one
  (`ExcusedLonger`), so it never hides a difference that comes before it.
- `ReplayEver` (`ReplayAgreesUnlessExcused`) : by `CaptureInv` and `ReplayInv`. What is recorded lies in
  the order of its ticks and its arrival, so that materialising leaves it (`MaterializedIs`). A tick records at its
  own time: the replay of the ticks before it is what it was (`ReplayStill`), and in the tick itself
  exactly the new writes are due (`DueParts`), but now before the agents. Where no agent
  and no write meet, their orders commute (`SetCommutes`, `SwapSame`), the set points are the same
  (`ReplayOrders`) and so is everything a tick computes from them (`TickAlike`). From the first clash on
  nothing is claimed: the loops may differ for good.

*Only model-checked.* Liveness (`SealedStopEndsTask`, `NobodyWaits`, `ShutdownEnds`, `ServerLives`) is out of
the reach of the prover. So are inductions over data that need an operator as a
parameter: the walks over nested documents of `ScenarioDocuments` are recursive
operators, and with them `NumbersArrive` and `PostedIsWhatRuns` of `ScenarioIntake`.
The type invariants of `TickSpine` and `Plant` hold on the same instances;
they are not part of the runs, which are kept for what could be wrong.


## Findings and observations

Two runs expect a violation; each quotes, in `PROJECT.json`, the line of the repository
that says otherwise.

| run | the code | says otherwise |
|---|---|---|
| `control_stop_undone` | a start that passed its guard writes over an accepted stop | ADR 0039:614 |
| `tick_resume_differs` | a resumed run does not apply the commands of its scenario | `spec/lastenheft.md:312` |

Seen while modelling, kept by the models, and without a run of their own:

*Control.* The flip of the first tick writes the cache before the repository (ADR 0039:255
has it the other way). `start` on a running run is a no-op, not an error. A run that
is cancelled before its first step never finalizes. The publication status is
"degraded" while a port is still connecting.

*Driver.* A `stop()` that finds the ended run closing its ports skips `finalize()`
(`_tick_loop_driver.py:257`, comment at 260); a port whose `start()` is under way when the task is
cancelled stays open (437, comment at 254). A subscriber of the alarms that raises in
`publish()` ends the run (354).

*Service.* No entry point in `src/` configures the run driver registry and the scenario
store; only tests do. The loop of the demo run is not in the registry, so a second
loop for it is possible. Runs started by the API are not in the `TickLoopRegistry`, so
`POST /runs/{id}/control` answers 503 for them. `build_run_driver` passes no log or
metrics port: the verdict of an API replay is computed and dropped. `stop_all()` ends at
the first `stop()` that raises. `stop(run_id)` pops the driver before it awaits it. A
reference that never ran, or still runs, is diffed as it is (nothing against nothing is
clean). Runs of different length diverge although no common tick differs
(`tick_loop.py:924`; `spec/lastenheft.md:65`). A run restarted after an outage appends a second
series of samples.

*Intake.* `POST /scenarios` answers 500 for numbers of the grid model or an overlay that are
Decimals but out of range, for a command whose type is a list or a mapping, and for any
given `voltage_sensitivity_v_per_kvar`; `POST /runs/{id}/start` for an unknown fault type and
for an agent with rules that leaves out its target. `validator.py:145` promises that the
constructors run without type errors, but nothing before them looks at the type of
`voltage_sensitivity_v_per_kvar` (`grid_model/config.py:233`) or `is_islanded` (258). A target that is null passes, although
`agents/rule_based.py:228` says the validator guarantees one. `transformer_limit`, the
`volt_var` block of a PV and the `cell` block of a battery can never be posted, because their
strings are not converted; `frequency_hz` and `delta_hz` of a frequency drop are ignored as
strings or ints, although `grid_connection/model.py:530` relies on Decimals. An int and a
string of the same value share a hash, although `scenario_store.py:32` says the hash
determines the content; the later post replaces the earlier. The `events` of a scenario are
validated and hashed but never scheduled. A meter of a transformer or of another meter sums nothing
(`smart_meter/model.py:317`).

*Field.* `read()` and `write()` of the protocol ports, and the start of the ports, have no caller but tests. A
start ended by an error that is no port error (an OPC UA loop that did not come up)
leaves the ports before it open; so does a stop that raises in the clean-up. The Modbus codec
raises an untyped error for a NaN as an integer and for a number beyond float32, the OPC UA
library for a Float too large, and MQTT encodes a command outside any try
(`protocol_mqtt/_port.py:193`), so that a float or a NaN leaves it as an error of the serializer;
`ports/driven/device_protocol.py:138` promises a write error for what fails. A
hung OPC UA thread goes on beside the loop that a restart has made. The
second register of a value may lie beyond the address space. Only IEC 61850 refuses a NaN. A
server that binds after `start()` has given up stays on the port. Two write windows may be for one
setpoint (`device_server_modbus/_config.py:206` compares addresses only): each goes on showing its own
last value.

*Tick.* `register_manual_recovery`, `from_snapshot` and `materialize_inbound_writes` have no
caller but tests. A manual recovery inside the window of a fault lasts one tick. A
command before the first tick is never delivered, one between ticks up to a tick
early. Overlapping faults of one type on a device share one flag: the end of one clears the
device for both, and when the later one is listed first even in the tick in which it begins
(`scenario_fault_engine.py:97`), so that it never acts. Recorded writes
replay before the agents of their tick, live writes come after them.

*Plant.* A device that forms an island but does not take the order (an EV charger), ramps,
or stays below its starting power leaves an imbalance; ADR 0060:125 expects none
unless the set point is clamped. A load may form an island, too: it is given the set point
of a generator, so that what it takes doubles the deficit (`tick_loop.py:1808`, whose
docstring inverts the sign for storage only); `BalanceCloses` excuses it. Two automatic connections each take the whole rest. A battery that reaches a
limit within a tick reports no power for it (`StoresMatchTelemetry` bounds the loss). A meter adds values
of two ticks when a source ticks after it, a connection always (`tick_loop.py:1758`; ADR 0018:457). An
order to a load is overwritten by its baseline in the same tick (documented, ADR
0026:194). An EV charger judges an order with the fault flag of the tick before. A snapshot
is resumed without complaint into a loop without overlays (`tick_loop.py:2686`) or without devices
(2626), and the order of the devices is not compared. The random stream of a wind turbine
starts anew after a resume (ADR 0057).

## What is not modelled

- **Event scheduler, agent bus, streams, demo loop**: in the plan. Nothing of a run's results
  depends on the first two.
- **Field publication**: its outcome is in `RunDriver`; the connection and the encoders follow
  those of the protocol ports.
- **In the field modules**: what the client libraries do, rounding of floats, what travels
  besides a value. In the intake: the text of messages, the HTTP framework, plugins.
- **Encodings** of snapshots and of answers: pure, sequential, covered by tests.
- **Persistence in PostgreSQL**: a database; its failures are `RepoMayFail`. Its status
  methods raise `NotImplementedError`.
- **In devices**: temperature, cell voltages, health, DC bus, losses, energy counters, alarms,
  clamp counters, the voltage and frequency faults of a connection. They are derived and
  feed nothing back into powers or stores. Quantisation to decimals: the integers of the
  models need none.
- **Random numbers**: a draw is any value. That a seed gives the same draws is a matter of
  the library.
- **Metrics, traces, logs, user interface, composition**: output and wiring.
- **Demo wiring and health checks**: construction at start-up and reads of timestamps.

## Hazards

`PROJECT.json` lists what is hard to test in this code, at its line, with the properties
that would show it going wrong: 40 entries, from lost updates of the control state to
the last unit of fuel. Two have no property: the second loop of the demo run, and the queue
of a subscriber that is full before it is filtered.

## Plan

In order of importance; the numbers of a run are bounds to begin with.

1. **`Streams`** with an abstract specification *some subsequence, in order*: bounded queues,
   drop-oldest, the run filter behind the queue, removal in `finally`; the alarm history read
   from worker threads. Refinement by `INSTANCE`. Run: 2 subscribers, 2 runs, capacity 2.
2. **The demo loop** as a further driver of `RunService` outside of the registry.
3. **`Scheduler`** and the agent bus: order of a heap against a reference definition, a
   duplicate id refused, delivery in the next tick.
4. **Abstract specifications**: a run as its log (`TickSpine` implements *append the result of
   the next tick*), a field server as *the latest value of each device*.

To keep the project readable the number of runs stays near the present one: properties that
a theorem has taken over make room.

Theorems worth proving next, in this order:

1. That `RunService` allows everything `RunDriver` does, seen through `TaskLife`; now both are known
   to keep to it.
2. The remaining abstract specifications of the plan, once stated.
