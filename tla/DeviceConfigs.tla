----------------------------- MODULE DeviceConfigs -----------------------------
(***************************************************************************)
(* Which parameters a device, the grid model and an overlay are built      *)
(* from: the fields they require, the relations their constructors check,  *)
(* and what a tick of the device divides by.                               *)
(***************************************************************************)
EXTENDS ScenarioDocuments

CONSTANT Alphabet  \* the device ids in use, in alphabetical order

\* The number of a Decimal field.
Num(v, key) == v.m[key].n

\* What a constructor checks: fields that must be positive, that must not be
\* negative, that may reach a limit at most, and pairs of fields in an order.
NoChecks == [positive |-> {}, nonNegative |-> {}, limited |-> <<>>, below |-> {}, notAbove |-> {}]

Passes(v, c) ==
    /\ \A k \in c.positive : Num(v, k) > 0
    /\ \A k \in c.nonNegative : Num(v, k) >= 0
    /\ \A k \in DOMAIN c.limited : Num(v, k) <= c.limited[k]
    /\ \A p \in c.below : Num(v, p[1]) < Num(v, p[2])
    /\ \A p \in c.notAbove : Num(v, p[1]) <= Num(v, p[2])

\* Every required field is there and a Decimal: MissingKeysError, WrongTypeError.
AllDecimal(v, required) == required \subseteq Keys(v) /\ \A k \in required : v.m[k].t = "Decimal"

----------------------------------------------------------------------------
(* The blocks a battery and a PV device may have.                          *)

ThermalFields == {"ambient_temp_c", "thermal_rise_c_at_full_load", "thermal_time_constant_s"}
ThermalConfig(b) ==
    Passes(b, [NoChecks EXCEPT !.positive = {"thermal_rise_c_at_full_load", "thermal_time_constant_s"}])

HealthFields == {"initial_soh_pct", "degradation_pct_per_full_cycle"}
HealthConfig(b) ==
    Passes(b, [NoChecks EXCEPT !.positive = {"initial_soh_pct"}, !.limited = [initial_soh_pct |-> 10000],
                               !.nonNegative = {"degradation_pct_per_full_cycle"}])

DcBusFields == {"nominal_voltage_v", "ocv_soc_slope_v", "internal_resistance_ohm"}
DcBusConfig(b) ==
    /\ Passes(b, [NoChecks EXCEPT !.positive = {"nominal_voltage_v"}, !.nonNegative = {"internal_resistance_ohm"}])
    /\ Num(b, "ocv_soc_slope_v") \in (1 - 2 * Num(b, "nominal_voltage_v"))..(2 * Num(b, "nominal_voltage_v") - 1)

ReactiveFields == {"power_factor"}
ReactiveConfig(b) ==
    Passes(b, [NoChecks EXCEPT !.positive = {"power_factor"}, !.limited = [power_factor |-> 100]])

CellFields == {"nominal_pack_voltage_v", "n_cells", "noise_amplitude_v"}
CellConfig(b) ==
    /\ Passes(b, [NoChecks EXCEPT !.positive = {"nominal_pack_voltage_v"}, !.nonNegative = {"noise_amplitude_v"}])
    /\ Num(b, "n_cells") >= 100

VoltVarFields == {"reference_voltage_v", "deadband_v", "droop_kvar_per_v", "max_kvar"}
VoltVarConfig(b) ==
    Passes(b, [NoChecks EXCEPT !.positive = {"reference_voltage_v", "droop_kvar_per_v", "max_kvar"},
                               !.nonNegative = {"deadband_v"}])

\* An optional block: absent, or a mapping of Decimals that its constructor takes.
DecimalBlock(params, name, fields) == name \in Keys(params) => AllDecimal(params.m[name], fields)
Block(params, name, fields, Config(_)) ==
    DecimalBlock(params, name, fields) /\ (name \in Keys(params) => Config(params.m[name]))

\* The block of the cells: the number of cells is an int.
CellBlock(params) ==
    "cell" \in Keys(params) =>
        LET cell == params.m["cell"]
        IN AllDecimal(cell, CellFields \ {"n_cells"}) /\ Get(cell, "n_cells").t = "int" /\ CellConfig(cell)

\* A battery with both blocks states one nominal voltage.
OneNominalVoltage(params) ==
    {"cell", "dc_bus"} \subseteq Keys(params) =>
        Num(params.m["dc_bus"], "nominal_voltage_v") = Num(params.m["cell"], "nominal_pack_voltage_v")

----------------------------------------------------------------------------
(* The device types.                                                       *)

\* The Decimals a type requires.
BatteryParams ==
    {"capacity_kwh", "initial_soc_pct", "min_soc_pct", "max_soc_pct", "max_charge_kw", "max_discharge_kw",
     "charge_efficiency", "discharge_efficiency", "ramp_kw_per_s"}
LoadParams == {"rated_power_kw"}
PvParams == {"rated_power_kw"}
GridConnectionParams == {"nominal_voltage_v", "max_import_kw", "max_export_kw"}
EvChargerParams ==
    {"max_charge_kw", "max_discharge_kw", "nominal_voltage_v", "battery_capacity_kwh", "cv_phase_start_soc"}
TransformerParams == {"rated_power_kw", "primary_voltage_v", "turns_ratio", "no_load_loss_kw", "load_loss_kw"}
WindTurbineParams ==
    {"rated_power_kw", "cut_in_speed_ms", "rated_speed_ms", "cut_out_speed_ms", "min_wind_speed_ms",
     "max_wind_speed_ms"}
DieselGeneratorParams ==
    {"max_power_kw", "min_start_power_kw", "min_stop_power_kw", "fuel_capacity_l", "initial_fuel_l",
     "fuel_per_kwh_l", "ramp_kw_per_s"}

\* _DEVICE_FACTORIES
Required ==
    [battery |-> BatteryParams, load |-> LoadParams, pv |-> PvParams, grid_connection |-> GridConnectionParams,
     smart_meter |-> {}, ev_charger |-> EvChargerParams, transformer |-> TransformerParams,
     wind_turbine |-> WindTurbineParams, diesel_generator |-> DieselGeneratorParams]
DeviceTypes == DOMAIN Required

LoadConfig(p) == Passes(p, [NoChecks EXCEPT !.positive = {"rated_power_kw"}])

GridConnectionConfig(p) ==
    Passes(p, [NoChecks EXCEPT !.positive = {"nominal_voltage_v", "max_import_kw", "max_export_kw"}])

BatteryConfig(p) ==
    /\ Passes(p, [positive |-> {"capacity_kwh", "max_charge_kw", "max_discharge_kw", "ramp_kw_per_s",
                                "charge_efficiency", "discharge_efficiency"},
                  nonNegative |-> {"min_soc_pct", "max_soc_pct"},
                  limited |-> [min_soc_pct |-> 10000, max_soc_pct |-> 10000,
                               charge_efficiency |-> 100, discharge_efficiency |-> 100],
                  below |-> {<<"min_soc_pct", "max_soc_pct">>},
                  notAbove |-> {<<"min_soc_pct", "initial_soc_pct">>, <<"initial_soc_pct", "max_soc_pct">>}])
    /\ Block(p, "thermal", ThermalFields, ThermalConfig)
    /\ CellBlock(p)
    /\ Block(p, "health", HealthFields, HealthConfig)
    /\ Block(p, "dc_bus", DcBusFields, DcBusConfig)
    /\ Block(p, "reactive", ReactiveFields, ReactiveConfig)
    /\ OneNominalVoltage(p)

PvConfig(p) ==
    /\ Passes(p, [NoChecks EXCEPT !.positive = {"rated_power_kw"}])
    /\ Block(p, "volt_var", VoltVarFields, VoltVarConfig)

EvChargerConfig(p) ==
    /\ Passes(p, [NoChecks EXCEPT !.positive = EvChargerParams, !.limited = [cv_phase_start_soc |-> 99]])
    /\ "initial_soc" \in Keys(p) => p.m["initial_soc"].t = "Decimal" /\ Num(p, "initial_soc") \in 0..100
    /\ "initial_plug_state" \in Keys(p) => p.m["initial_plug_state"] \in {Str("plugged"), Str("unplugged")}

TransformerConfig(p) ==
    Passes(p, [NoChecks EXCEPT !.positive = {"rated_power_kw", "primary_voltage_v", "turns_ratio"},
                               !.nonNegative = {"no_load_loss_kw", "load_loss_kw"}])

WindTurbineConfig(p) ==
    Passes(p, [NoChecks EXCEPT !.positive = {"rated_power_kw"},
                               !.nonNegative = {"cut_in_speed_ms", "min_wind_speed_ms"},
                               !.below = {<<"cut_in_speed_ms", "rated_speed_ms">>,
                                          <<"rated_speed_ms", "cut_out_speed_ms">>},
                               !.notAbove = {<<"min_wind_speed_ms", "max_wind_speed_ms">>}])

DieselGeneratorConfig(p) ==
    Passes(p, [NoChecks EXCEPT !.positive = {"max_power_kw", "min_start_power_kw", "fuel_capacity_l",
                                             "fuel_per_kwh_l", "ramp_kw_per_s"},
                               !.nonNegative = {"min_stop_power_kw", "initial_fuel_l"},
                               !.below = {<<"min_stop_power_kw", "min_start_power_kw">>},
                               !.notAbove = {<<"min_start_power_kw", "max_power_kw">>,
                                             <<"initial_fuel_l", "fuel_capacity_l">>}])

Place(id) == CHOOSE n \in DOMAIN Alphabet : Str(Alphabet[n]) = id

\* The sources of a meter are named once each, in their order, and read for one metric.
SmartMeterConfig(p) ==
    LET ids == Items(Get(p, "aggregate_device_ids")) IN
    /\ IsList(Get(p, "aggregate_device_ids"))
    /\ \A i \in DOMAIN ids : IsStr(ids[i]) /\ ids[i] # Str("")
    /\ \A i, j \in DOMAIN ids : i < j => Place(ids[i]) < Place(ids[j])
    /\ "aggregate_metric_name" \in Keys(p) => p.m["aggregate_metric_name"] = Str("power_kw")

\* initialize() takes the parameters; every refusal is a GridGymError.
Initializes(type, p) ==
    /\ AllDecimal(p, Required[type])
    /\ CASE type = "battery" -> BatteryConfig(p)
         [] type = "pv" -> PvConfig(p)
         [] type = "ev_charger" -> EvChargerConfig(p)
         [] type = "transformer" -> TransformerConfig(p)
         [] type = "wind_turbine" -> WindTurbineConfig(p)
         [] type = "diesel_generator" -> DieselGeneratorConfig(p)
         [] type = "smart_meter" -> SmartMeterConfig(p)
         [] type = "load" -> LoadConfig(p)
         [] type = "grid_connection" -> GridConnectionConfig(p)

----------------------------------------------------------------------------
(* What the ticks of a device divide by.                                   *)

\* The larger of the two powers the heat of a battery is measured by.
FullLoad(p) ==
    IF Num(p, "max_charge_kw") > Num(p, "max_discharge_kw") THEN Num(p, "max_charge_kw") ELSE Num(p, "max_discharge_kw")
BatteryDivisors(p) ==
    LET of(block, k) == IF block \in Keys(p) THEN {Num(p.m[block], k)} ELSE {} IN
    {Num(p, "capacity_kwh"), Num(p, "discharge_efficiency")}
        \union of("thermal", "thermal_time_constant_s") \union of("cell", "n_cells") \union of("reactive", "power_factor")
        \union (IF "thermal" \in Keys(p) THEN {FullLoad(p)} ELSE {})
EvChargerDivisors(p) == {Num(p, "battery_capacity_kwh"), 100 - Num(p, "cv_phase_start_soc")}
TransformerDivisors(p) == {Num(p, "rated_power_kw"), Num(p, "turns_ratio")}
WindTurbineDivisors(p) == {Num(p, "rated_speed_ms") - Num(p, "cut_in_speed_ms")}
DieselGeneratorDivisors(p) == {Num(p, "fuel_per_kwh_l")}

Divisors(type, p) ==
    CASE type = "battery" -> BatteryDivisors(p)
      [] type = "ev_charger" -> EvChargerDivisors(p)
      [] type = "transformer" -> TransformerDivisors(p)
      [] type = "wind_turbine" -> WindTurbineDivisors(p)
      [] type = "diesel_generator" -> DieselGeneratorDivisors(p)
      [] OTHER -> {}

\* The fault types that inject_fault() of a device takes; the other device types have
\* no inject_fault() and are passed over.
FaultsOf ==
    [battery |-> {"cell_failure"}, ev_charger |-> {"connection_loss"}, diesel_generator |-> {"genset_fault"},
     transformer |-> {"winding_fault"}, grid_connection |-> {"voltage_drop", "frequency_drop"}]
=============================================================================
