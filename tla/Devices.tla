-------------------------------- MODULE Devices --------------------------------
(***************************************************************************)
(* The device models (hexagon/core/devices): what an order, a fault and a  *)
(* tick do to one device.  A device d is a record, its configuration c     *)
(* another one; both have the fields of the code that influence a power, a *)
(* stored energy or the answer to a later order.                           *)
(*                                                                         *)
(* Powers are integers (kW), energies are counted in kW * tick, so dt is   *)
(* 1; an efficiency is a whole factor: charging with p for a tick adds     *)
(* p * gain, discharging with p takes p * cost.  Voltages are deviations   *)
(* from the nominal one.  `told` is the power the device's last telemetry  *)
(* reports and `q` the reactive power, 0 when it reports none.             *)
(* Temperatures, cell voltages, health, losses, energy counters and the    *)
(* voltage and frequency at a connection are derived from these and fed    *)
(* back into nothing: left out, with the faults that touch only them.      *)
(* An order is [type, value, q]: q is empty, or holds the reactive_value   *)
(* of its payload.                                                         *)
(***************************************************************************)
EXTENDS Integers

LimitTo(lo, hi, v) == IF v < lo THEN lo ELSE IF v > hi THEN hi ELSE v

Magnitude(v) == IF v < 0 THEN -v ELSE v

Answered(d, result) == [device |-> d, result |-> result]

\* The common end of the set point validators: outside the limits the set point
\* is the limit, and the order was "limited".
Ordered(d, lo, hi, v) ==
    Answered([d EXCEPT !.pending = LimitTo(lo, hi, v)],
             IF lo <= v /\ v <= hi THEN "accepted" ELSE "limited")

\* The validator of the devices that have no negative power.
OrderedUpTo(d, rated, v) == IF v < 0 THEN Answered(d, "rejected") ELSE Ordered(d, 0, rated, v)

\* The power a ramp of delta per tick reaches on the way to the set point.
Ramped(d, delta) == LimitTo(d.power - delta, d.power + delta, d.pending)

\* A tick that reports what it does.
Reports(d, power) == [d EXCEPT !.power = power, !.told = power]

-------------------------------------------------------------------------------
(***************************************************************************)
(* Battery: power > 0 charges.                                             *)
(***************************************************************************)
BatteryConfigOK(c) ==
    /\ {c.maxCharge, c.maxDischarge, c.ramp, c.gain, c.cost} \subseteq Nat \ {0}
    /\ {c.minSoc, c.soc0, c.maxSoc, c.reactive} \subseteq Nat
    /\ c.minSoc < c.maxSoc /\ c.minSoc <= c.soc0 /\ c.soc0 <= c.maxSoc

BatteryInit(c) ==
    [power |-> 0, pending |-> 0, soc |-> c.soc0, fault |-> FALSE, told |-> 0, q |-> 0]

\* Mutant: the limits of the two directions are swapped.
BatteryCommandSwapped(c, d, v) ==
    IF (d.soc <= c.minSoc /\ v < 0) \/ (d.soc >= c.maxSoc /\ v > 0)
    THEN Answered(d, "rejected")
    ELSE Ordered(d, -c.maxCharge, c.maxDischarge, v)

\* At a limit of the state of charge, an order to go beyond it is refused.
BatteryCommand(c, d, v) ==
    IF (d.soc <= c.minSoc /\ v < 0) \/ (d.soc >= c.maxSoc /\ v > 0)
    THEN Answered(d, "rejected")
    ELSE Ordered(d, -c.maxDischarge, c.maxCharge, v)

BatteryEnergy(c, power) == IF power > 0 THEN power * c.gain ELSE power * c.cost

\* A cell failure halves what may be discharged, whatever the ramp says.
Derated(c, d, power) ==
    LET most == c.maxDischarge \div 2
    IN  IF d.fault /\ power < -most THEN -most ELSE power

BatterySaturates(c, target) == target < c.minSoc \/ target > c.maxSoc

\* Mutant: the energy is the one of the power before the derating.
BatteryTickDeratedLate(c, d) ==
    LET ramped == Ramped(d, c.ramp)
        power  == Derated(c, d, ramped)
        target == d.soc + BatteryEnergy(c, ramped)
    IN  IF BatterySaturates(c, target)
        THEN [Reports(d, 0) EXCEPT !.soc = LimitTo(c.minSoc, c.maxSoc, target),
                                   !.pending = 0, !.q = 0]
        ELSE [Reports(d, power) EXCEPT !.soc = target, !.q = Magnitude(power) * c.reactive]

\* A battery that would leave its limits stops there: no power, no set point.
BatteryTick(c, d) ==
    LET power  == Derated(c, d, Ramped(d, c.ramp))
        target == d.soc + BatteryEnergy(c, power)
    IN  IF BatterySaturates(c, target)
        THEN [Reports(d, 0) EXCEPT !.soc = LimitTo(c.minSoc, c.maxSoc, target),
                                   !.pending = 0, !.q = 0]
        ELSE [Reports(d, power) EXCEPT !.soc = target, !.q = Magnitude(power) * c.reactive]

-------------------------------------------------------------------------------
(***************************************************************************)
(* EV charger: power > 0 charges the vehicle, which is plugged or not.     *)
(***************************************************************************)
EvConfigOK(c) ==
    /\ {c.maxCharge, c.maxDischarge, c.capacity, c.taperFrom} \subseteq Nat \ {0}
    /\ c.taperFrom < c.capacity /\ c.stored0 \in 0..c.capacity /\ c.plugged0 \in BOOLEAN

EvInit(c) ==
    [power |-> 0, pending |-> 0, stored |-> c.stored0, plugged |-> c.plugged0,
     fault |-> FALSE, told |-> 0, q |-> 0]

EvCommand(c, d, v) ==
    IF ~d.plugged \/ d.fault
    THEN Answered(d, "rejected")
    ELSE Ordered(d, -c.maxDischarge, c.maxCharge, v)

\* Unplugging forgets the set point; plugging in does not bring one.
EvPlug(d, plugged) ==
    Answered([d EXCEPT !.plugged = plugged, !.pending = IF plugged THEN @ ELSE 0], "accepted")

\* Constant up to taperFrom, from there falling linearly to nothing when full.
EvMaxCharge(c, d) ==
    IF d.stored < c.taperFrom
    THEN c.maxCharge
    ELSE (c.maxCharge * (c.capacity - d.stored)) \div (c.capacity - c.taperFrom)

\* What the vehicle has room for, and can give, bounds the power of the tick.
EvTick(c, d) ==
    LET wanted == IF ~d.plugged \/ d.fault
                  THEN 0
                  ELSE LimitTo(-c.maxDischarge, EvMaxCharge(c, d), d.pending)
        power  == LimitTo(-d.stored, c.capacity - d.stored, wanted)
    IN  [Reports(d, power) EXCEPT !.stored = @ + power]

-------------------------------------------------------------------------------
(***************************************************************************)
(* Diesel generator: power >= 0 feeds in.                                  *)
(***************************************************************************)
DieselConfigOK(c) ==
    /\ {c.maxPower, c.minStart, c.rate, c.ramp} \subseteq Nat \ {0}
    /\ {c.minStop, c.fuel0} \subseteq Nat
    /\ c.minStop < c.minStart /\ c.minStart <= c.maxPower

DieselInit(c) ==
    [power |-> 0, pending |-> 0, fuel |-> c.fuel0, running |-> FALSE, fault |-> FALSE,
     told |-> 0, q |-> 0]

\* It starts at minStart, stops below minStop, and needs fuel and no fault.
DieselRuns(c, d) ==
    /\ ~d.fault /\ d.fuel > 0
    /\ d.pending >= (IF d.running THEN c.minStop ELSE c.minStart)

\* In the tick in which the tank runs dry the power is what the rest yields.
DieselTick(c, d) ==
    LET wanted == IF DieselRuns(c, d) THEN LimitTo(0, c.maxPower, Ramped(d, c.ramp)) ELSE 0
        enough == wanted * c.rate <= d.fuel
    IN  [Reports(d, IF enough THEN wanted ELSE d.fuel \div c.rate)
            EXCEPT !.running = DieselRuns(c, d),
                   !.fuel = IF enough THEN @ - wanted * c.rate ELSE 0]

-------------------------------------------------------------------------------
(***************************************************************************)
(* Load, PV, grid connection (power > 0 imports), transformer, wind        *)
(* turbine and smart meter.                                                *)
(***************************************************************************)
RatedInit(c) == [power |-> c.rated, pending |-> c.rated, told |-> 0, q |-> 0]

LoadTick(d) == Reports(d, d.pending)

\* The Q(U) characteristic: beyond the deadband Q counteracts the deviation.
VoltVar(c, volt) ==
    LET excess == Magnitude(volt - c.reference) - c.deadband
        most   == LimitTo(0, c.maxQ, c.droop * excess)
    IN  IF excess <= 0 THEN 0 ELSE IF volt > c.reference THEN -most ELSE most

PvTick(c, d, volt) == [Reports(d, d.pending) EXCEPT !.q = VoltVar(c, volt)]

ConnectionInit == [power |-> 0, pending |-> 0, pendingQ |-> 0, told |-> 0, q |-> 0]

\* The reactive value of a set point is taken as it is, clamped or not.
ConnectionCommand(c, d, o) ==
    LET answer == Ordered(d, -c.maxExport, c.maxImport, o.value)
    IN  IF o.q = {}
        THEN answer
        ELSE [answer EXCEPT !.device.pendingQ = CHOOSE x \in o.q : TRUE]

ConnectionTick(d) == [Reports(d, d.pending) EXCEPT !.q = d.pendingQ]

TransformerInit == [power |-> 0, pending |-> 0, fault |-> FALSE, told |-> 0, q |-> 0]

TransformerTick(c, d) ==
    Reports(d, IF d.fault THEN 0 ELSE LimitTo(-c.rated, c.rated, d.pending))

WindInit == [power |-> 0, told |-> 0, q |-> 0]

\* The power the drawn wind speed yields, from nothing to the rated power.
WindTick(c, d, draw) == Reports(d, LimitTo(0, c.rated, draw))

MeterInit == [attached |-> FALSE, told |-> 0, q |-> 0]

\* The loader attaches the sources; before that a meter reports 0, as missing.
MeterTick(d, total) == [d EXCEPT !.told = IF d.attached THEN total ELSE 0]

-------------------------------------------------------------------------------
(***************************************************************************)
(* All kinds: the DeviceModel protocol.                                    *)
(***************************************************************************)
Kinds == {"battery", "ev_charger", "diesel_generator", "load", "pv", "grid_connection",
          "transformer", "wind_turbine", "smart_meter"}

DeviceConfigOK(c) ==
    /\ c.kind \in Kinds
    /\ c.kind = "battery" => BatteryConfigOK(c)
    /\ c.kind = "ev_charger" => EvConfigOK(c)
    /\ c.kind = "diesel_generator" => DieselConfigOK(c)
    /\ c.kind \in {"load", "pv", "transformer", "wind_turbine"} => c.rated \in Nat \ {0}
    /\ c.kind = "pv" => /\ {c.droop, c.maxQ} \subseteq Nat \ {0}
                        /\ c.deadband \in Nat /\ c.reference \in Int
    /\ c.kind = "grid_connection" => {c.maxImport, c.maxExport} \subseteq Nat \ {0}

\* A device after initialize().
Fresh(c) ==
    CASE c.kind = "battery"          -> BatteryInit(c)
      [] c.kind = "ev_charger"       -> EvInit(c)
      [] c.kind = "diesel_generator" -> DieselInit(c)
      [] c.kind \in {"load", "pv"}   -> RatedInit(c)
      [] c.kind = "grid_connection"  -> ConnectionInit
      [] c.kind = "transformer"      -> TransformerInit
      [] c.kind = "wind_turbine"     -> WindInit
      [] c.kind = "smart_meter"      -> MeterInit

\* apply_command(): the device after the order, and its answer.
Command(c, d, o) ==
    CASE o.type = "set_power_kw" /\ c.kind = "battery" -> BatteryCommand(c, d, o.value)
      [] o.type = "set_power_kw" /\ c.kind = "diesel_generator" ->
            Ordered(d, 0, c.maxPower, o.value)
      [] o.type = "set_power_kw" /\ c.kind \in {"load", "pv"} ->
            OrderedUpTo(d, c.rated, o.value)
      [] o.type = "set_power_kw" /\ c.kind = "grid_connection" -> ConnectionCommand(c, d, o)
      [] o.type = "set_power_kw" /\ c.kind = "transformer" ->
            Ordered(d, -c.rated, c.rated, o.value)
      [] o.type = "set_charge_power" /\ c.kind = "ev_charger" -> EvCommand(c, d, o.value)
      [] o.type = "set_plug_state" /\ c.kind = "ev_charger" -> EvPlug(d, o.value = 1)
      [] OTHER -> Answered(d, "ignored")

\* tick(), with what the tick reads beside the device.
Tick(c, d, volt, draw, total) ==
    CASE c.kind = "battery"          -> BatteryTick(c, d)
      [] c.kind = "ev_charger"       -> EvTick(c, d)
      [] c.kind = "diesel_generator" -> DieselTick(c, d)
      [] c.kind = "load"             -> LoadTick(d)
      [] c.kind = "pv"               -> PvTick(c, d, volt)
      [] c.kind = "grid_connection"  -> ConnectionTick(d)
      [] c.kind = "transformer"      -> TransformerTick(c, d)
      [] c.kind = "wind_turbine"     -> WindTick(c, d, draw)
      [] c.kind = "smart_meter"      -> MeterTick(d, total)

\* The kinds a fault changes the power of.
Faultable == {"battery", "ev_charger", "diesel_generator", "transformer"}

\* inject_fault() and clear_fault() of that fault.
WithFault(d, active) == [d EXCEPT !.fault = active]

\* What the snapshot of each kind writes and from_snapshot() reads; what a device
\* has told, and the sources of a meter, are not among it.
BatteryKeeps == {"power", "pending", "soc", "fault"}

EvKeeps == {"power", "pending", "stored", "plugged", "fault"}

DieselKeeps == {"power", "pending", "fuel", "running", "fault"}

LoadKeeps == {"power", "pending"}

PvKeeps == {"power", "pending"}

ConnectionKeeps == {"power", "pending", "pendingQ", "q"}

TransformerKeeps == {"power", "pending", "fault"}

WindKeeps == {"power"}

MeterKeeps == {}

SnapshotFields(c) ==
    CASE c.kind = "battery"          -> BatteryKeeps
      [] c.kind = "ev_charger"       -> EvKeeps
      [] c.kind = "diesel_generator" -> DieselKeeps
      [] c.kind = "load"             -> LoadKeeps
      [] c.kind = "pv"               -> PvKeeps
      [] c.kind = "grid_connection"  -> ConnectionKeeps
      [] c.kind = "transformer"      -> TransformerKeeps
      [] c.kind = "wind_turbine"     -> WindKeeps
      [] c.kind = "smart_meter"      -> MeterKeeps

Restored(c, d) ==
    [f \in DOMAIN d |-> IF f \in SnapshotFields(c) THEN d[f] ELSE Fresh(c)[f]]
===============================================================================
