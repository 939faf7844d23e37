-------------------------------- MODULE MCPlant --------------------------------
EXTENDS Plant

Battery ==
    [kind |-> "battery", maxCharge |-> 2, maxDischarge |-> 4, ramp |-> 3, gain |-> 1,
     cost |-> 2, minSoc |-> 2, maxSoc |-> 9, soc0 |-> 7, reactive |-> 1]

\* A battery that reaches any set point within a tick.
Quick == [Battery EXCEPT !.ramp = 8, !.maxCharge = 4]

Ev ==
    [kind |-> "ev_charger", maxCharge |-> 4, maxDischarge |-> 2, capacity |-> 8,
     taperFrom |-> 4, stored0 |-> 3, plugged0 |-> TRUE]

Diesel ==
    [kind |-> "diesel_generator", maxPower |-> 6, minStart |-> 3, minStop |-> 1, rate |-> 2,
     ramp |-> 4, fuel0 |-> 23]

Load == [kind |-> "load", rated |-> 3]

Pv ==
    [kind |-> "pv", rated |-> 4, droop |-> 1, maxQ |-> 2, deadband |-> 1, reference |-> 0]

Connection == [kind |-> "grid_connection", maxImport |-> 5, maxExport |-> 2]

Trafo == [kind |-> "transformer", rated |-> 2]

Wind == [kind |-> "wind_turbine", rated |-> 3]

Meter(sources) == [kind |-> "smart_meter", sources |-> sources]

Grid ==
    [hzPerKw |-> 1, maxHz |-> 3, voltPerKw |-> 1, voltPerKvar |-> 1, maxVolt |-> 3,
     limit |-> {}]

\* A transformer that is warm after two ticks of full load, and too hot after three.
Limited ==
    [Grid EXCEPT !.limit = {[rated |-> 2, rise |-> 4, constant |-> 4, ambient |-> 2,
                             hotRise |-> 1, hotLimit |-> 6]}]

On(i, type, values) == {[target |-> i, type |-> type, value |-> v, q |-> {}] : v \in values}

Power(i, values) == On(i, "set_power_kw", values)

\* Two time units per tick: windows may begin and end between ticks.
Event(i, start, duration, kw) ==
    [target |-> i, start |-> start, duration |-> duration, kw |-> kw]

Plain(devices, forming, orders, faultable) ==
    [devices |-> devices, forming |-> forming, events |-> <<>>, profiles |-> <<>>,
     grid |-> Grid, orders |-> orders, faultable |-> faultable]

\* A house: the meter after its sources; an overlay shorter than a tick between
\* two ticks, and two that overlap.
House ==
    [Plain(<<Load, Pv, Battery, Connection, Meter({1, 2, 3})>>, 0,
           Power(1, {1}) \cup Power(3, {-9, 9}) \cup Power(4, {1}), {3})
        EXCEPT !.events = <<Event(1, 1, 1, 0), Event(1, 2, 3, 5), Event(1, 4, 2, 0)>>]

\* The meter ticks before its sources, and one of them is the connection; the
\* connection and a load follow profiles.
Metered ==
    [Plain(<<Meter({2, 4}), Load, Quick, Connection>>, 0,
           Power(2, {0}) \cup Power(3, {-4, 0, 4}), {3})
        EXCEPT !.profiles = <<[target |-> 2, values |-> <<1, 2, 5>>, every |-> 3]>>,
               !.events = <<Event(4, 2, 2, 1)>>]

\* A meter of a transformer, and one of another meter, count only the load.
TwoConnections ==
    Plain(<<Trafo, Load, Connection, Connection, Meter({1, 2}), Meter({2, 5})>>, 0,
          Power(1, {3}) \cup Power(3, {0, 2}) \cup Power(4, {9}), {1})

\* The one transformer limit of the plants that run.
Village ==
    [Plain(<<Load, Pv, Connection>>, 0, Power(2, {0, 4}) \cup Power(3, {5}), {})
        EXCEPT !.grid = Limited]

Farm ==
    Plain(<<Wind, Ev, Diesel, Connection>>, 0,
          On(2, "set_charge_power", {4}) \cup Power(3, {3}) \cup Power(4, {1}), {})

\* No wind, so that a resumed loop has to agree.
Garage ==
    Plain(<<Ev, Diesel, Connection>>, 0,
          On(1, "set_charge_power", {-3, 4}) \cup On(1, "set_plug_state", {0, 1})
            \cup Power(2, {7}), {1})

BatteryIsland ==
    [Plain(<<Load, Pv, Battery, Connection>>, 3, Power(2, {0, 2, 4}) \cup Power(4, {1}), {3})
        EXCEPT !.events = <<Event(1, 4, 4, 0)>>]

DieselIsland ==
    Plain(<<Load, Quick, Diesel, Ev>>, 3,
          Power(2, {-2, 2}) \cup On(4, "set_charge_power", {4}), {2, 3})

EvIsland == Plain(<<Load, Pv, Ev>>, 3, Power(2, {0, 3}), {3})

\* Nothing forbids that a load forms an island: what it takes adds to the deficit.
LoadIsland == Plain(<<Diesel, Load>>, 2, Power(1, {0, 3}), {})

\* A list of devices may be empty.
Empty == Plain(<<>>, 0, {}, {})

MCScenarios ==
    {House, Metered, TwoConnections, Village, Farm, Garage, BatteryIsland, DieselIsland, EvIsland,
     LoadIsland, Empty}

\* What may be handed over: the plant, without its overlays, without its last device,
\* without any, with a first device of another rating, with another grid, or, where it
\* has no device, with one.
MCHanded(s) ==
    {s, [s EXCEPT !.events = <<>>, !.profiles = <<>>],
     [s EXCEPT !.devices = <<>>], [s EXCEPT !.grid.hzPerKw = 2]}
    \cup {[s EXCEPT !.devices = Front(@)] : x \in {i \in {1} : s.forming < Len(s.devices)}}
    \cup {[s EXCEPT !.devices[1].rated = 2] : x \in {i \in DOMAIN s.devices \cap {1} : s.devices[1].kind = "load"}}
    \cup {[s EXCEPT !.devices = <<Load>>] : x \in {i \in {1} : s.devices = <<>>}}
===============================================================================
