--------------------------- MODULE MCScenarioIntake ---------------------------
(* Documents for TLC: a good scenario, each of its sections replaced by good  *)
(* and bad ones, and every device type with every parameter good, missing,    *)
(* of another type, zero, negative and out of order.                          *)
EXTENDS ScenarioIntake

MCAlphabet == <<"agent", "battery", "diesel", "ev", "ghost", "grid", "house", "meter", "other", "pv", "trafo", "wind">>

With(v, changes) == Dict(changes @@ v.m)
One(entry) == List(<<entry>>)
Numbers(f) == Dict([k \in DOMAIN f |-> Text(f[k])])

----------------------------------------------------------------------------
Good ==
    [battery |-> Numbers([capacity_kwh |-> 1000, initial_soc_pct |-> 5000, min_soc_pct |-> 1000, max_soc_pct |-> 9000,
                          max_charge_kw |-> 500, max_discharge_kw |-> 400, charge_efficiency |-> 95,
                          discharge_efficiency |-> 95, ramp_kw_per_s |-> 100]),
     load |-> Numbers([rated_power_kw |-> 300]),
     pv |-> Numbers([rated_power_kw |-> 800]),
     grid_connection |-> Numbers([nominal_voltage_v |-> 23000, max_import_kw |-> 2000, max_export_kw |-> 1000]),
     smart_meter |-> Dict([aggregate_device_ids |-> List(<<Str("battery"), Str("house")>>)]),
     ev_charger |-> Numbers([max_charge_kw |-> 1100, max_discharge_kw |-> 500, nominal_voltage_v |-> 40000,
                             battery_capacity_kwh |-> 6000, cv_phase_start_soc |-> 80]),
     transformer |-> Numbers([rated_power_kw |-> 5000, primary_voltage_v |-> 2000000, turns_ratio |-> 5000,
                              no_load_loss_kw |-> 20, load_loss_kw |-> 80]),
     wind_turbine |-> Numbers([rated_power_kw |-> 3000, cut_in_speed_ms |-> 300, rated_speed_ms |-> 1200,
                               cut_out_speed_ms |-> 2500, min_wind_speed_ms |-> 0, max_wind_speed_ms |-> 3000]),
     diesel_generator |-> Numbers([max_power_kw |-> 2000, min_start_power_kw |-> 500, min_stop_power_kw |-> 300,
                                   fuel_capacity_l |-> 10000, initial_fuel_l |-> 5000, fuel_per_kwh_l |-> 30,
                                   ramp_kw_per_s |-> 100])]
IdOf == [battery |-> "battery", load |-> "house", pv |-> "pv", grid_connection |-> "grid", smart_meter |-> "meter",
         ev_charger |-> "ev", transformer |-> "trafo", wind_turbine |-> "wind", diesel_generator |-> "diesel"]

Device(type, params) == Dict([id |-> Str(IdOf[type]), type |-> Str(type), params |-> params])
House == Device("load", Good.load)
Battery == Device("battery", Good.battery)
Connection == Device("grid_connection", Good.grid_connection)
Plant(extra) == List(<<House, Battery, Connection>> \o extra)

Base ==
    Dict([schema_version |-> Str("grid-gym.scenario.v1"),
          metadata |-> Dict([id |-> Str("s"), name |-> Str("n")]),
          simulation |-> Dict([tick_ms |-> Whole(1000), duration_s |-> Whole(60), seed |-> Whole(1)]),
          devices |-> Plant(<<>>)])

----------------------------------------------------------------------------
(* Parameters of the devices.                                                *)

Variants(text) ==
    [int |-> Whole((text.num + 99) \div 100), zero |-> Text(0), minus |-> Text(-100), huge |-> Text(9999900),
     word |-> Str("much"), nan |-> TextOf("NaN"), float |-> Float(text.num)]
\* A device of each type beside the others, one parameter changed.
Place3(type, params) ==
    IF type \in {"load", "battery", "grid_connection"}
    THEN List([i \in 1..3 |-> IF Plant(<<>>).l[i].m["type"] = Str(type) THEN Device(type, params) ELSE Plant(<<>>).l[i]])
    ELSE Plant(<<Device(type, params)>>)
ParamNames ==
    UNION {{<<type, k, v>> : k \in Required[type], v \in {"missing"} \union DOMAIN Variants(Text(0))} : type \in DeviceTypes}
ParamDocument(n) ==
    LET params == Good[n[1]]
        changed == IF n[3] = "missing" THEN Without(params, {n[2]})
                   ELSE With(params, n[2] :> Variants(params.m[n[2]])[n[3]])
    IN With(Base, "devices" :> Place3(n[1], changed))

With1(type, key, value) == Place3(type, With(Good[type], key :> value))
Block1(type, name, f) == With1(type, name, Numbers(f))
DcBus == [nominal_voltage_v |-> 40000, ocv_soc_slope_v |-> 5000, internal_resistance_ohm |-> 5]
Cell == Dict([nominal_pack_voltage_v |-> Text(40000), n_cells |-> Whole(96), noise_amplitude_v |-> Text(0)])
DeviceCases ==
    [good |-> Plant(<<>>), none |-> List(<<>>), twice |-> Plant(<<House>>), mapping |-> House, word |-> One(Str("house")),
     typed |-> One(With(House, "type" :> Whole(1))), keyless |-> One(Without(House, {"params"})),
     unknown |-> One(With(House, "type" :> Str("fridge"))),
     listed |-> One(With(House, "params" :> List(<<>>))),
     thermal |-> Block1("battery", "thermal", [ambient_temp_c |-> 2500, thermal_rise_c_at_full_load |-> 2000,
                                                thermal_time_constant_s |-> 60000]),
     thermal0 |-> Block1("battery", "thermal", [ambient_temp_c |-> 2500, thermal_rise_c_at_full_load |-> 2000,
                                                thermal_time_constant_s |-> 0]),
     health |-> Block1("battery", "health", [initial_soh_pct |-> 10000, degradation_pct_per_full_cycle |-> 1]),
     health0 |-> Block1("battery", "health", [initial_soh_pct |-> 10100, degradation_pct_per_full_cycle |-> 1]),
     dc_bus |-> Block1("battery", "dc_bus", DcBus),
     dc_bus0 |-> Block1("battery", "dc_bus", [DcBus EXCEPT !.ocv_soc_slope_v = -80000]),
     reactive |-> Block1("battery", "reactive", [power_factor |-> 90]),
     reactive0 |-> Block1("battery", "reactive", [power_factor |-> 0]),
     cell |-> With1("battery", "cell", Cell),
     volt_var |-> Block1("pv", "volt_var", [reference_voltage_v |-> 23000, deadband_v |-> 200, droop_kvar_per_v |-> 10,
                                            max_kvar |-> 300]),
     ev_full |-> With1("ev_charger", "cv_phase_start_soc", Text(100)),
     ev_soc |-> With1("ev_charger", "initial_soc", Text(50)), ev_over |-> With1("ev_charger", "initial_soc", Text(150)),
     ev_in |-> With1("ev_charger", "initial_plug_state", Str("plugged")),
     ev_odd |-> With1("ev_charger", "initial_plug_state", Str("half")),
     meter |-> Place3("smart_meter", Good.smart_meter),
     meter_bare |-> Place3("smart_meter", Dict(<<>>)),
     meter_metric |-> With1("smart_meter", "aggregate_metric_name", Str("voltage_v")),
     meter_order |-> With1("smart_meter", "aggregate_device_ids", List(<<Str("house"), Str("battery")>>)),
     meter_twice |-> With1("smart_meter", "aggregate_device_ids", List(<<Str("house"), Str("house")>>)),
     meter_ghost |-> With1("smart_meter", "aggregate_device_ids", One(Str("ghost")))]

----------------------------------------------------------------------------
(* The other sections.                                                       *)

Grid0 ==
    Numbers([nominal_frequency_hz |-> 5000, frequency_sensitivity_hz_per_kw |-> 1, frequency_clamp_min_hz |-> 4500,
             frequency_clamp_max_hz |-> 5500, nominal_voltage_v |-> 23000, voltage_sensitivity_v_per_kw |-> 10,
             voltage_clamp_min_v |-> 20000, voltage_clamp_max_v |-> 26000])
Island(former) == With(Grid0, [is_islanded |-> Bool(TRUE), forming_device_id |-> Str(former)])
Limit == Numbers([max_apparent_power_kva |-> 10000, ambient_temp_c |-> 2000, top_oil_rise_rated_c |-> 5500,
                  hot_spot_rise_rated_c |-> 2300, top_oil_time_constant_s |-> 1000, hot_spot_limit_c |-> 12000])
GridCases ==
    [good |-> Grid0, connected |-> With(Grid0, "is_islanded" :> Bool(FALSE)),
     int |-> With(Grid0, "nominal_voltage_v" :> Whole(230)),
     keyless |-> Without(Grid0, {"voltage_clamp_min_v"}), word |-> With(Grid0, "voltage_clamp_min_v" :> Str("low")),
     nan |-> With(Grid0, "voltage_clamp_min_v" :> TextOf("NaN")),
     endless |-> With(Grid0, "voltage_clamp_max_v" :> TextOf("Infinity")),
     swapped |-> With(Grid0, "voltage_clamp_min_v" :> Text(24000)),
     zero |-> With(Grid0, "frequency_sensitivity_hz_per_kw" :> Text(0)),
     flag |-> With(Grid0, "is_islanded" :> Whole(1)),
     alone |-> With(Grid0, "is_islanded" :> Bool(TRUE)), formed |-> With(Grid0, "forming_device_id" :> Str("battery")),
     battery |-> Island("battery"), house |-> Island("house"), ghost |-> Island("ghost"),
     limit |-> With(Grid0, "transformer_limit" :> Limit), kvar |-> With(Grid0, "voltage_sensitivity_v_per_kvar" :> Text(20))]

Overlay == Dict([start_s |-> Text(0), duration_s |-> Text(1000), target_device_id |-> Str("house"), power_kw |-> Text(200)])
LoadEventCases ==
    [good |-> One(Overlay), int |-> One(With(Overlay, "power_kw" :> Whole(2))),
     grid |-> One(With(Overlay, "target_device_id" :> Str("grid"))),
     battery |-> One(With(Overlay, "target_device_id" :> Str("battery"))),
     ghost |-> One(With(Overlay, "target_device_id" :> Str("ghost"))),
     minus |-> One(With(Overlay, "power_kw" :> Text(-100))), instant |-> One(With(Overlay, "duration_s" :> Text(0))),
     nan |-> One(With(Overlay, "power_kw" :> TextOf("NaN"))), keyless |-> One(Without(Overlay, {"start_s"}))]
Profile == Dict([target_device_id |-> Str("house"), tick_values |-> List(<<Text(100), Text(200)>>), tick_ms |-> Whole(1000)])
LoadProfileCases ==
    [good |-> One(Profile), empty |-> One(With(Profile, "tick_values" :> List(<<>>))),
     int |-> One(With(Profile, "tick_values" :> List(<<Text(100), Whole(2)>>))),
     minus |-> One(With(Profile, "tick_values" :> One(Text(-100)))), still |-> One(With(Profile, "tick_ms" :> Whole(0))),
     battery |-> One(With(Profile, "target_device_id" :> Str("battery")))]

Fault(type, target) ==
    Dict([start_simulation_time |-> Whole(2000), duration_ms |-> Whole(1000), target |-> Str(target), type |-> Str(type),
          payload |-> Dict([metric |-> Str("power_kw"), max_age_ms |-> Whole(2000)]), recovery |-> Str("auto")])
FaultCases ==
    [cell |-> One(Fault("cell_failure", "battery")), wrong |-> One(Fault("voltage_drop", "battery")),
     both |-> List(<<Fault("voltage_drop", "grid"), Fault("cell_failure", "grid")>>),
     load |-> One(Fault("cell_failure", "house")), unknown |-> One(Fault("flood", "battery")),
     ghost |-> One(Fault("cell_failure", "ghost")), nan |-> One(Fault("nan_injection", "house")),
     mute |-> One(With(Fault("nan_injection", "house"), "payload" :> Dict(<<>>))),
     stale |-> One(Fault("stale_data", "house")),
     ageless |-> One(With(Fault("stale_data", "house"), "payload" :> Dict([metric |-> Str("power_kw")]))),
     text |-> One(With(Fault("cell_failure", "battery"), "duration_ms" :> Text(100000)))]

Event == Dict([simulation_time |-> Whole(1000), target |-> Str("battery"), type |-> Str("set_power_kw"),
               payload |-> Dict([value |-> Text(100)])])
EventCases ==
    [good |-> One(Event), recovery |-> One(With(Event, "recovery" :> Whole(1))),
     float |-> One(With(Event, "payload" :> Dict([value |-> Float(100)]))),
     ghost |-> One(With(Event, "target" :> Str("ghost")))]
CommandCases ==
    [good |-> One(Event), none |-> List(<<>>), other |-> One(With(Event, "type" :> Str("set_reactive_power"))),
     listed |-> One(With(Event, "type" :> List(<<>>))),
     word |-> List(<<With(Event, "payload" :> Dict([value |-> Str("much")])), With(Event, "type" :> List(<<>>))>>),
     ghost |-> One(With(Event, "target" :> Str("ghost")))]

Rule(metric, comparator, threshold) ==
    Dict([condition |-> Dict([metric |-> Str(metric), comparator |-> Str(comparator), threshold |-> threshold]),
          action |-> Dict([type |-> Str("set_charge_power"), payload |-> Dict([power_kw |-> Text(100)])])])
AgentOf(target, rule) ==
    Dict([type |-> Str("rule_based"), params |-> Dict([target_device_id |-> target, rules |-> One(rule)])])
Once == Rule("tick", "==", Whole(1))
Agent1 == AgentOf(Str("battery"), Once)
AgentParams(changes) == With(Agent1, "params" :> With(Agent1.m["params"], changes))
Bare == With(Agent1, "params" :> Without(Agent1.m["params"], {"target_device_id"}))
Plugin == With(Agent1, "params" :> Dict([plugin |-> Str("p")]))
AgentCases ==
    [good |-> Dict([agent |-> Agent1]), null |-> Dict([agent |-> AgentOf(None, Once)]),
     never |-> Dict([agent |-> AgentOf(None, Rule("simulation_time", "<", Whole(0)))]),
     bare |-> Dict([agent |-> Bare]), plugin |-> Dict([agent |-> Plugin]),
     two |-> Dict([agent |-> Plugin, other |-> Bare]), other |-> Dict([agent |-> Bare, other |-> Plugin]),
     ghost |-> Dict([agent |-> AgentOf(Str("ghost"), Once)]), odd |-> Dict([agent |-> With(Agent1, "type" :> Str("deep"))]),
     both |-> Dict([agent |-> AgentParams("plugin" :> Str("p"))]),
     idle |-> Dict([agent |-> AgentParams("rules" :> List(<<>>))]),
     like |-> Dict([agent |-> AgentOf(Str("battery"), Rule("tick", "~", Whole(1)))]),
     text |-> Dict([agent |-> AgentOf(Str("battery"), Rule("tick", "==", Text(100)))])]

Replay == Dict([source |-> Str("f"), format |-> Str("csv"), time_mapping |-> Str("index"), validation_status |-> Str("ok")])
ReplayCases == [good |-> Replay, format |-> With(Replay, "format" :> Str("xml")), keyless |-> Without(Replay, {"source"})]
SimulationCases ==
    [stopped |-> With(Base.m["simulation"], "tick_ms" :> Whole(0)), back |-> With(Base.m["simulation"], "tick_ms" :> Whole(-1000)),
     text |-> With(Base.m["simulation"], "seed" :> Text(100)), keyless |-> Without(Base.m["simulation"], {"seed"})]

Cases ==
    [devices |-> DeviceCases, grid_model |-> GridCases, load_events |-> LoadEventCases, load_profiles |-> LoadProfileCases,
     faults |-> FaultCases, events |-> EventCases, commands |-> CommandCases, agents |-> AgentCases, replay |-> ReplayCases,
     simulation |-> SimulationCases]
CaseNames == UNION {{<<section, c>> : c \in DOMAIN Cases[section]} : section \in DOMAIN Cases}
MissingNames == {<<"without", section>> : section \in DOMAIN Base.m}

MCDocuments ==
    [n \in ParamNames \union CaseNames \union MissingNames |->
        CASE n \in ParamNames -> ParamDocument(n)
          [] n \in MissingNames -> Without(Base, {n[2]})
          [] OTHER -> With(Base, n[1] :> Cases[n[1]][n[2]])]
MCLater ==
    {<<"devices", "good">>, <<"load", "rated_power_kw", "int">>, <<"grid_model", "good">>, <<"grid_model", "connected">>,
     <<"grid_model", "battery">>, <<"grid_model", "house">>, <<"commands", "none">>}
=============================================================================
