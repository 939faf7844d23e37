--------------------------------- MODULE Plant ---------------------------------
(***************************************************************************)
(* The physical half of TickLoop._run_tick_body: orders, load overlays and *)
(* faults reach the devices, the devices tick in two passes, and the       *)
(* device of the second pass closes the balance of the grid: the automatic *)
(* grid connection, or the device that forms an island.                    *)
(*                                                                         *)
(* Where an order comes from (scenario, agent, field) makes no difference  *)
(* here, and which fault is active is the choice of the fault engine (both *)
(* in module TickSpine): a tick takes any order of the scenario's set, and *)
(* any set of faulty devices.                                              *)
(***************************************************************************)
EXTENDS Devices, Sequences, FiniteSets, FiniteSetsExt, SequencesExt

CONSTANTS
    TickMs,    \* tick_ms
    Scenarios, \* the plants to run: devices, forming, events, profiles, grid, orders
    Handed(_), \* the plants somebody may hand over to resume a plant
    MaxTicks   \* bound: ticks

VARIABLES
    scenario,    \* the plant that runs
    tick,        \* TickLoop._tick_count
    plant,       \* its devices and GridModelBilanz, after the last tick
    closing,     \* the orders that closed the balance of the last tick
    resumed,     \* the tick after which a second loop was built from a snapshot
    wired,       \* what that loop runs; until then the same
    twin,        \* the plant of that loop; until then the same plant
    booked,      \* history: the energy each device has reported
    saturations, \* history: how often a battery has stopped at a limit
    lastOrders   \* history: the orders of the last tick

vars ==
    <<scenario, tick, plant, closing, resumed, wired, twin, booked, saturations, lastOrders>>

Indices(s) == DOMAIN s.devices

Connections(s) == {i \in Indices(s) : s.devices[i].kind = "grid_connection"}

OfKind(s, kind) == {i \in Indices(s) : s.devices[i].kind = kind}

\* A list is a function of the numbers up to its length.
IsList(q) == Len(q) \in Nat /\ q = [k \in 1..Len(q) |-> q[k]]

\* forming is 0 unless the plant is islanded.
ScenarioOK(s) ==
    /\ IsList(s.devices) /\ IsList(s.events) /\ IsList(s.profiles)
    /\ \A i \in Indices(s) : DeviceConfigOK(s.devices[i])
    /\ \A i \in OfKind(s, "smart_meter") : s.devices[i].sources \subseteq Indices(s)
    /\ s.forming \in {0} \cup Indices(s)
    /\ \A e \in {s.events[k] : k \in DOMAIN s.events} :
          /\ e.target \in OfKind(s, "load") \cup Connections(s)
          /\ e.start \in Nat /\ e.duration \in Nat \ {0} /\ e.kw \in Nat
    /\ \A p \in {s.profiles[k] : k \in DOMAIN s.profiles} :
          /\ p.target \in OfKind(s, "load") \cup Connections(s)
          /\ p.every \in Nat \ {0}
          /\ IsList(p.values) /\ Len(p.values) > 0
          /\ \A k \in DOMAIN p.values : p.values[k] \in Nat
    /\ {s.grid.hzPerKw, s.grid.maxHz, s.grid.voltPerKw, s.grid.voltPerKvar, s.grid.maxVolt}
          \subseteq Nat
    /\ \A l \in s.grid.limit :
          /\ {l.rated, l.rise, l.constant} \subseteq Nat \ {0}
          /\ {l.ambient, l.hotRise, l.hotLimit} \subseteq Nat
    /\ \A o \in s.orders : o.target \in Indices(s) /\ o.value \in Int /\ o.q \subseteq Int

\* What may be handed over to a second loop: the parts of a plant, not necessarily one.
HandedOK(h) ==
    /\ {"devices", "forming", "events", "profiles", "grid"} \subseteq DOMAIN h
    /\ IsList(h.devices) /\ \A i \in Indices(h) : DeviceConfigOK(h.devices[i])

ASSUME PlantAssumption ==
    /\ TickMs \in Nat \ {0} /\ MaxTicks \in Nat
    /\ \A s \in Scenarios : ScenarioOK(s)
    /\ \A s \in Scenarios : \A h \in Handed(s) : HandedOK(h)

-------------------------------------------------------------------------------
(***************************************************************************)
(* What reaches the devices before they tick                               *)
(***************************************************************************)

\* Each device in I makes a step of its own.
Each(I, Step(_), dev) == [i \in DOMAIN dev |-> IF i \in I THEN Step(i) ELSE dev[i]]

\* The sum of f over 1..n.
SumTo(f, n) ==
    LET upTo[i \in 0..n] == IF i = 0 THEN 0 ELSE upTo[i - 1] + f[i]
    IN  upTo[n]

\* The sum of Value(i) over the devices in I.
SumOver(s, I, Value(_)) ==
    SumTo([i \in Indices(s) |-> IF i \in I THEN Value(i) ELSE 0], Len(s.devices))

SetPower(value, q) == [type |-> "set_power_kw", value |-> value, q |-> q]

\* The orders of a tick, to at most one device.
Commanded(s, dev, given) ==
    Each({o.target : o \in given},
         LAMBDA i : Command(s.devices[i], dev[i], CHOOSE o \in given : TRUE).device, dev)

\* The start of the tick lies in the window of the event.
Covers(e, t) == e.start <= t * TickMs /\ t * TickMs < e.start + e.duration

EventsOn(s, i, t) ==
    {k \in DOMAIN s.events : s.events[k].target = i /\ Covers(s.events[k], t)}

ProfilesOn(s, i) == {k \in DOMAIN s.profiles : s.profiles[k].target = i}

\* The value of the profile at this tick; its last one from its end on.
ProfileValue(p, t) == p.values[Min({(t * TickMs) \div p.every, Len(p.values) - 1}) + 1]

\* The set point the overlays give to device i: an event before a profile before
\* the rated power of a load, the later one of two events.
Intent(s, i, t) ==
    IF EventsOn(s, i, t) # {}
    THEN {s.events[Max(EventsOn(s, i, t))].kw}
    ELSE IF ProfilesOn(s, i) # {}
    THEN {ProfileValue(s.profiles[Max(ProfilesOn(s, i))], t)}
    ELSE IF s.devices[i].kind = "load" THEN {s.devices[i].rated} ELSE {}

LoadInputs(s, dev, t) ==
    Each({i \in Indices(s) : Intent(s, i, t) # {}},
         LAMBDA i : Command(s.devices[i], dev[i],
                            SetPower(CHOOSE v \in Intent(s, i, t) : TRUE, {})).device, dev)

\* Mutant: an overlay does not count.
ManualByOrder(s, given, t) == {i \in Connections(s) : \E o \in given : o.target = i}

\* Connections somebody has set in this tick: the balance leaves them alone.
Manual(s, given, t) ==
    {i \in Connections(s) :
        (\E o \in given : o.target = i) \/ EventsOn(s, i, t) # {} \/ ProfilesOn(s, i) # {}}

Faulted(s, dev, faults) ==
    Each({i \in Indices(s) : s.devices[i].kind \in Faultable},
         LAMBDA i : WithFault(dev[i], i \in faults), dev)

-------------------------------------------------------------------------------
(***************************************************************************)
(* The two passes                                                          *)
(***************************************************************************)

LastPass(s) == IF s.forming # 0 THEN {s.forming} ELSE Connections(s)

FirstPass(s) == Indices(s) \ LastPass(s)

\* What a meter can sum up: neither another meter nor a transformer reports a power_kw.
Readable(kind) == kind \notin {"smart_meter", "transformer"}

\* A pass over the devices in I, in the order of the scenario, which only the meters
\* notice: those sources that tick after the meter still report the tick before.
Seen(I, i, dev, Own(_), j) == IF j \in I /\ j < i THEN Own(j).told ELSE dev[j].told

Pass(s, I, dev, volt, draw) ==
    LET Own(i)     == Tick(s.devices[i], dev[i], volt, draw, 0)
        Sources(i) == {j \in s.devices[i].sources : Readable(s.devices[j].kind)}
        Total(i)   == SumOver(s, Sources(i), LAMBDA j : Seen(I, i, dev, Own, j))
    IN  Each(I, LAMBDA i : IF s.devices[i].kind = "smart_meter"
                           THEN MeterTick(dev[i], Total(i)) ELSE Own(i), dev)

Generation == {"pv", "wind_turbine", "diesel_generator"}
Storage == {"battery", "ev_charger"}

\* Mutant: charging counts as generation.
SignOfStorage(kind) ==
    IF kind \in Generation \cup Storage \cup {"grid_connection"} THEN 1
    ELSE IF kind = "load" THEN -1 ELSE 0

\* The bucket of a kind, as its sign in the balance; the other kinds have none.
Sign(kind) ==
    IF kind \in Generation \cup {"grid_connection"} THEN 1
    ELSE IF kind \in Storage \cup {"load"} THEN -1 ELSE 0

\* What the devices in I leave over: power > 0 is a surplus.
Residual(s, dev, I) == SumOver(s, I, LAMBDA i : Sign(s.devices[i].kind) * dev[i].told)

Reactive(s, dev, I) == SumOver(s, I, LAMBDA i : dev[i].q)

\* The set points that close the balance.  Every connection that is not manual is
\* given the whole rest, the reactive rest as well; in an island the forming device
\* always: storage takes the surplus, anything else delivers the deficit.
CloseOrders(s, dev, manual) ==
    LET rest == Residual(s, dev, FirstPass(s))
        q    == Reactive(s, dev, FirstPass(s))
    IN  IF s.forming = 0
        THEN [i \in Connections(s) \ manual |-> SetPower(-rest, {-q})]
        ELSE [i \in {s.forming} |->
                 SetPower(IF s.devices[i].kind \in Storage THEN rest ELSE -rest, {})]

Closed(s, dev, orders) ==
    Each(DOMAIN orders, LAMBDA i : Command(s.devices[i], dev[i], orders[i]).device, dev)

\* The square of the apparent power through the transformer at the grid's end.  What
\* the balance leaves of the reactive power flows through it in a grid, none in an island.
Apparent2(s, dev) ==
    LET kw   == SumOver(s, Connections(s), LAMBDA i : dev[i].told)
        kvar == IF s.forming = 0 THEN Reactive(s, dev, FirstPass(s)) ELSE 0
    IN  kw * kw + kvar * kvar

\* The oil of the transformer goes the constant's share of the way to the temperature
\* this load would lead to; the hot spot lies above the oil, as far as the load says.
Heated(s, dev, oil) ==
    {LET share(rise) == (rise * Apparent2(s, dev)) \div (l.rated * l.rated)
         warm(t)     == t + ((l.ambient + share(l.rise) - t) * TickMs) \div l.constant
     IN  [oil |-> warm(o), hot |-> warm(o) + share(l.hotRise) > l.hotLimit]
        : l \in s.grid.limit, o \in oil}

\* GridModelBilanz.update: the imbalance, what it does to frequency and voltage
\* within their clamps, and to the transformer when the model has one.
GridUpdated(s, dev, grid) ==
    LET kw   == Residual(s, dev, Indices(s))
        kvar == Reactive(s, dev, Indices(s))
        heat == Heated(s, dev, grid.oil)
    IN  [imbalance |-> kw, kvar |-> kvar,
         hz |-> LimitTo(-s.grid.maxHz, s.grid.maxHz, s.grid.hzPerKw * kw),
         volt |-> LimitTo(-s.grid.maxVolt, s.grid.maxVolt,
                          s.grid.voltPerKw * kw + s.grid.voltPerKvar * kvar),
         oil |-> {h.oil : h \in heat}, violated |-> \E h \in heat : h.hot]

\* The body of a tick, on the plant p; `ready` is each device as its tick finds it.
Ticked(s, t, p, given, faults, draw) ==
    LET loaded == Faulted(s, LoadInputs(s, Commanded(s, p.device, given), t), faults)
        first  == Pass(s, FirstPass(s), loaded, p.grid.volt, draw)
        orders == CloseOrders(s, first, Manual(s, given, t))
        closed == Closed(s, first, orders)
        second == Pass(s, LastPass(s), closed, p.grid.volt, draw)
    IN  [device |-> second, grid |-> GridUpdated(s, second, p.grid),
         ready |-> Each(LastPass(s), LAMBDA i : closed[i], loaded),
         closing |-> [i \in DOMAIN orders |->
                         [result |-> Command(s.devices[i], first[i], orders[i]).result,
                          value |-> orders[i].value]]]

-------------------------------------------------------------------------------
(***************************************************************************)
(* A run of the plant, and a second loop resumed from a snapshot of it     *)
(***************************************************************************)

\* The loader has attached the sources of the meters.
Built(s) ==
    [i \in Indices(s) |->
        IF s.devices[i].kind = "smart_meter"
        THEN [Fresh(s.devices[i]) EXCEPT !.attached = TRUE]
        ELSE Fresh(s.devices[i])]

\* A grid model that was just built: in equilibrium, the oil at ambient temperature.
BuiltGrid(s) ==
    [imbalance |-> 0, kvar |-> 0, hz |-> 0, volt |-> 0,
     oil |-> {l.ambient : l \in s.grid.limit}, violated |-> FALSE]

BuiltPlant(s) == [device |-> Built(s), grid |-> BuiltGrid(s)]

\* No snapshot was taken.
Never == -1

Init ==
    /\ scenario \in Scenarios
    /\ tick = 0
    /\ plant = BuiltPlant(scenario)
    /\ closing = <<>>
    /\ resumed = Never /\ wired = scenario /\ twin = plant
    /\ booked = [i \in Indices(scenario) |-> 0]
    /\ saturations = booked
    /\ lastOrders = {}

State(result) == [device |-> result.device, grid |-> result.grid]

\* The energy that the reported power of a tick stands for.
Energy(c, power) ==
    IF c.kind = "battery" THEN BatteryEnergy(c, power)
    ELSE IF c.kind = "diesel_generator" THEN power * c.rate ELSE power

\* The battery stops at a limit in this tick.
Stopped(c, d) ==
    /\ c.kind = "battery"
    /\ BatterySaturates(c, d.soc + BatteryEnergy(c, Derated(c, d, Ramped(d, c.ramp))))

TickPlant(given, faults, draw) ==
    LET result == Ticked(scenario, tick, plant, given, faults, draw)
        again  == Ticked(wired, tick, twin, {o \in given : o.target \in Indices(wired)},
                         faults, draw)
    IN  /\ tick < MaxTicks
        /\ tick' = tick + 1
        /\ plant' = State(result)
        /\ closing' = result.closing
        /\ twin' = IF resumed = Never THEN State(result) ELSE State(again)
        /\ booked' = [i \in Indices(scenario) |->
                         booked[i] + Energy(scenario.devices[i], result.device[i].told)]
        /\ saturations' = [i \in Indices(scenario) |->
              IF Stopped(scenario.devices[i], result.ready[i])
              THEN saturations[i] + 1 ELSE saturations[i]]
        /\ lastOrders' = given
        /\ UNCHANGED <<scenario, resumed, wired>>

\* The sub-snapshot of a device; its configuration is part of it.
DeviceSnapshot(c, d) == [config |-> c, state |-> [f \in SnapshotFields(c) |-> d[f]]]

\* The one of the grid model: it holds the overlays too.  The violation a tick has
\* found is told in its result and not kept.
GridSnapshot(s, grid) ==
    [config |-> s.grid, forming |-> s.forming, events |-> s.events, profiles |-> s.profiles,
     state |-> [f \in DOMAIN grid \ {"violated"} |-> grid[f]]]

\* GridModelBilanz.from_snapshot
GridRestored(snapshot) ==
    [f \in DOMAIN snapshot.state \cup {"violated"} |->
        IF f = "violated" THEN FALSE ELSE snapshot.state[f]]

\* The devices that are handed over, restored from their sub-snapshots, and the grid
\* model from its own.  Both bring their configuration with them.
RestoredPlant(h) ==
    [device |-> [i \in Indices(h) |-> Restored(scenario.devices[i], plant.device[i])],
     grid |-> GridRestored(GridSnapshot(scenario, plant.grid))]

\* Mutant: only what is handed over is looked at, not what is missing.
DevicesMatchOneSided(h, p) ==
    \/ h.devices = <<>> \/ scenario.devices = <<>>
    \/ \A i \in Indices(h) :
          /\ i \in Indices(scenario)
          /\ DeviceSnapshot(h.devices[i], p.device[i])
                = DeviceSnapshot(scenario.devices[i], plant.device[i])

\* No device at all is handed over, or each one that has a sub-snapshot, as it was,
\* and no other; a snapshot that has none takes whatever it is given.
DevicesMatch(h, p) ==
    \/ h.devices = <<>> \/ scenario.devices = <<>>
    \/ /\ \A i \in Indices(h) :
             /\ i \in Indices(scenario)
             /\ DeviceSnapshot(h.devices[i], p.device[i])
                   = DeviceSnapshot(scenario.devices[i], plant.device[i])
       /\ Indices(scenario) \subseteq Indices(h)

\* m is the plant the grid model was made for.
GridMatches(m, p) == GridSnapshot(m, p.grid) = GridSnapshot(scenario, plant.grid)

\* No overlay is handed over, or those that the grid model of the snapshot holds.
OverlaysMatch(h) ==
    \/ h.events = <<>> /\ h.profiles = <<>>
    \/ h.events = scenario.events /\ h.profiles = scenario.profiles

\* The device that forms the island, if any, is one of the loop's.
FormingIsKnown(h, m) == m.forming \in {0} \cup Indices(h)

\* snapshot() and from_snapshot(), between two ticks.  The loop gets the devices and
\* the overlays of h, in the state p, and the grid model of m; anything else than
\* what the snapshot holds raises.
ResumeWith(h, m, p) ==
    /\ resumed = Never
    /\ DevicesMatch(h, p) /\ GridMatches(m, p) /\ OverlaysMatch(h) /\ FormingIsKnown(h, m)
    /\ resumed' = tick /\ twin' = p
    /\ wired' = [h EXCEPT !.grid = m.grid, !.forming = m.forming]
    /\ UNCHANGED <<scenario, tick, plant, closing, booked, saturations, lastOrders>>

\* The caller restores what it hands over from the sub-snapshots.
Resume ==
    \E h \in {x \in Handed(scenario) : IsPrefix(x.devices, scenario.devices)} :
        ResumeWith(h, scenario, RestoredPlant(h))

\* The caller builds it anew.
ResumeAnew == \E h \in Handed(scenario) : ResumeWith(h, h, BuiltPlant(h))

\* The faults and the draws that make a difference to this plant.
FaultChoices == SUBSET {i \in scenario.faultable : scenario.devices[i].kind \in Faultable}

Draws ==
    {0} \cup {scenario.devices[i].rated : i \in OfKind(scenario, "wind_turbine")}

Next ==
    \/ \E given \in {{}} \cup {{o} : o \in scenario.orders}, faults \in FaultChoices,
          draw \in Draws : TickPlant(given, faults, draw)
    \/ Resume \/ ResumeAnew

Spec == Init /\ [][Next]_vars

-------------------------------------------------------------------------------
(***************************************************************************)
(* Properties                                                              *)
(***************************************************************************)
PlantOK(s, p) ==
    \A i \in Indices(s) :
        LET c == s.devices[i]
            d == p.device[i]
        IN  /\ d.told \in Int /\ d.q \in Int
            /\ c.kind \in Faultable => d.fault \in BOOLEAN
            /\ c.kind = "battery" => d.soc \in Nat
            /\ c.kind = "ev_charger" => d.stored \in Nat /\ d.plugged \in BOOLEAN
            /\ c.kind = "diesel_generator" => d.fuel \in Nat /\ d.running \in BOOLEAN
            /\ c.kind = "smart_meter" => d.attached \in BOOLEAN

\* Every device record is one of its kind; nothing stored is negative.
TypeOK ==
    /\ scenario \in Scenarios /\ tick \in 0..MaxTicks /\ resumed \in {Never} \cup 0..tick
    /\ wired \in {scenario} \cup Handed(scenario)
    /\ PlantOK(scenario, plant) /\ PlantOK(wired, twin)
    /\ {plant.grid.imbalance, plant.grid.kvar, plant.grid.hz, plant.grid.volt} \subseteq Int
    /\ plant.grid.oil \subseteq Int /\ plant.grid.violated \in BOOLEAN
    /\ booked \in [Indices(scenario) -> Int]
    /\ saturations \in [Indices(scenario) -> Nat] /\ lastOrders \subseteq scenario.orders

\* Whatever is ordered, by whomever, and whatever fails: no store leaves its
\* limits and no device reports more than its rating, a battery with a failed
\* cell more than half of it, or a faulty or unplugged one anything.
DevicesWithinLimits ==
    \A i \in Indices(scenario) :
        LET c == scenario.devices[i]
            d == plant.device[i]
        IN  /\ c.kind = "battery" =>
                  /\ d.soc \in c.minSoc..c.maxSoc
                  /\ d.told <= c.maxCharge
                  /\ -d.told <= IF d.fault THEN c.maxDischarge \div 2 ELSE c.maxDischarge
            /\ c.kind = "ev_charger" =>
                  /\ d.stored \in 0..c.capacity
                  /\ d.told \in -c.maxDischarge..c.maxCharge
                  /\ (tick > 0 /\ (d.fault \/ ~d.plugged)) => d.told = 0
            /\ c.kind = "diesel_generator" =>
                  /\ d.told \in 0..c.maxPower
                  /\ d.fault => d.told = 0
            /\ c.kind \in {"load", "pv", "wind_turbine"} => d.told \in 0..c.rated
            /\ c.kind = "grid_connection" => d.told \in -c.maxExport..c.maxImport

\* The stores hold what the reported powers add up to.  A battery that stops at
\* a limit reports no power for the rest of its way there: never more than the
\* energy of one tick each time.  A tank that runs dry may lose the last unit
\* that does not make up a whole kW.
StoresMatchTelemetry ==
    \A i \in Indices(scenario) :
        LET c == scenario.devices[i]
            d == plant.device[i]
        IN  /\ c.kind = "battery" =>
                  Magnitude(d.soc - c.soc0 - booked[i])
                      <= saturations[i] * Max({c.maxCharge * c.gain, c.maxDischarge * c.cost})
            /\ c.kind = "ev_charger" => d.stored = c.stored0 + booked[i]
            /\ c.kind = "diesel_generator" => c.fuel0 - d.fuel - booked[i] \in 0..(c.rate - 1)

\* A meter reports the sum of what its sources report for the same tick, when each
\* of them ticks before it: none stands behind it or ticks in the second pass, as a
\* connection and the device that forms an island do.  Sources it cannot read count nothing.
MetersAddUp ==
    tick > 0 =>
        \A i \in OfKind(scenario, "smart_meter") :
            LET sources == {j \in scenario.devices[i].sources : Readable(scenario.devices[j].kind)} IN
            (\A j \in sources : j < i /\ j \notin Connections(scenario) \cup {scenario.forming})
            => plant.device[i].told = SumOver(scenario, sources, LAMBDA j : plant.device[j].told)

\* What is stored and what is metered is what was reported.
TelemetryAddsUp == StoresMatchTelemetry /\ MetersAddUp

\* The balance closes: when one device has closed it, took its set point as it
\* was and has reached it, nothing is left over.  With a grid connection the
\* reactive power closes too.  Excused is an island that is formed by a load, which is
\* given the set point of a generator, or by a transformer, which is in no bucket.
BalanceCloses ==
    \A i \in DOMAIN closing :
        (/\ LastPass(scenario) = {i}
         /\ scenario.devices[i].kind \notin {"load", "transformer"}
         /\ closing[i].result = "accepted"
         /\ plant.device[i].told = closing[i].value)
        => /\ plant.grid.imbalance = 0
           /\ scenario.forming = 0 => plant.grid.kvar = 0

\* What somebody has set stays set: a connection that an overlay, or else an
\* order, sets in a tick reports that set point, within its limits, and is not
\* used to close the balance, unless it forms an island.
ManualConnectionStays ==
    \A i \in Connections(scenario) \ {scenario.forming} :
        LET c       == scenario.devices[i]
            overlay == Intent(scenario, i, tick - 1)
            set     == IF overlay # {} THEN overlay
                       ELSE {o.value : o \in {x \in lastOrders :
                                                  x.target = i /\ x.type = "set_power_kw"}}
        IN  tick > 0 => \A v \in set :
                plant.device[i].told = LimitTo(-c.maxExport, c.maxImport, v)

\* Overlays and orders leave no trace: in a tick that no overlay covers a load
\* takes its rated power.
LoadRestored ==
    \A i \in OfKind(scenario, "load") \ {scenario.forming} :
        (tick > 0 /\ EventsOn(scenario, i, tick - 1) = {} /\ ProfilesOn(scenario, i) = {})
        => plant.device[i].told = scenario.devices[i].rated

\* Profiles and events act while they last, and are gone without a trace.
OverlaysComeAndGo == ManualConnectionStays /\ LoadRestored

\* The ticks since the snapshot in which an overlay acts that was not handed over.
Unheard ==
    {t \in resumed..(tick - 1) :
        \E i \in Indices(scenario) : Intent(wired, i, t) # Intent(scenario, i, t)}

\* Whatever is handed over, the devices of another plant, only some of them, or all
\* as they were: a loop that accepts it with the snapshot reports the same powers and
\* the same state of the grid in every later tick.  Excused are a loop that was given
\* no devices, one that was given some although its snapshot has none, which nothing
\* refuses, one that was given no overlays once one of them acts, and
\* two devices: the random numbers of wind start anew (here both loops draw the same,
\* so plants with wind are not compared at all), and a meter stays without the sources
\* nothing attaches again.
ResumedPlantAgrees ==
    (/\ resumed # Never /\ wired.devices # <<>> /\ scenario.devices # <<>> /\ Unheard = {}
     /\ OfKind(scenario, "wind_turbine") = {}) =>
        /\ [twin.grid EXCEPT !.violated = FALSE] = [plant.grid EXCEPT !.violated = FALSE]
        /\ Indices(wired) = Indices(scenario)
        /\ tick > resumed =>
              /\ twin.grid = plant.grid
              /\ \A i \in Indices(scenario) \ OfKind(scenario, "smart_meter") :
                    twin.device[i] = plant.device[i]

===============================================================================
