----------------------------- MODULE ScenarioRules -----------------------------
(***************************************************************************)
(* What the validator asks of a scenario, section by section, and what the *)
(* constructors of the grid model and of the overlays ask of the values it *)
(* lets pass.                                                              *)
(***************************************************************************)
EXTENDS DeviceConfigs

HasKeys(v, required) == IsDict(v) /\ required \subseteq Keys(v)
\* The fields named have the type tag.
Are(v, fields, tag) == \A k \in fields : v.m[k].t = tag
Payload(v) == IsDict(v) /\ CanonicalCompatible(v)
\* A list whose entries are all of the kind, and absent when it may be.
ListOf(v, Entry(_)) == IsList(v) /\ \A i \in DOMAIN v.l : Entry(v.l[i])
Optional(raw, section, Valid(_)) == section \in Keys(raw) => Valid(raw.m[section])

DeviceEntries(raw) == {raw.m["devices"].l[i] : i \in DOMAIN raw.m["devices"].l}
DeviceIds(raw) == {entry.m["id"] : entry \in DeviceEntries(raw)}
\* _assert_str and the lookup of the target among the devices.
KnownTarget(raw, entry, key) == entry.m[key] \in DeviceIds(raw)

ValidDevices(devices) ==
    LET entry(e) == /\ HasKeys(e, {"id", "type", "params"})
                    /\ Are(e, {"id", "type"}, "str")
                    /\ Payload(e.m["params"])
    IN ListOf(devices, entry)
       /\ \A i, j \in DOMAIN devices.l : devices.l[i].m["id"] = devices.l[j].m["id"] => i = j

ValidEvents(raw, events) ==
    LET entry(e) == /\ HasKeys(e, {"simulation_time", "target", "type", "payload"})
                    /\ Are(e, {"simulation_time"}, "int") /\ Are(e, {"target", "type"}, "str")
                    /\ Payload(e.m["payload"])
                    /\ KnownTarget(raw, e, "target")
    IN ListOf(events, entry)

ValidReplay(replay) ==
    /\ HasKeys(replay, {"source", "format", "time_mapping", "validation_status"})
    /\ Are(replay, {"source", "format", "time_mapping", "validation_status"}, "str")
    /\ replay.m["format"] \in {Str("csv"), Str("jsonl")}
    /\ replay.m["time_mapping"] \in {Str("monotonic"), Str("index")}

\* A quality fault names its metric, and stale_data an age above zero.
ValidFaultPayload(type, payload) ==
    /\ type \in {Str("nan_injection"), Str("stale_data")} => IsStr(Get(payload, "metric"))
    /\ type = Str("stale_data") =>
           Get(payload, "max_age_ms").t = "int" /\ payload.m["max_age_ms"].n > 0
ValidFaults(raw, faults) ==
    LET entry(e) == /\ HasKeys(e, {"start_simulation_time", "duration_ms", "target", "type", "payload", "recovery"})
                    /\ Are(e, {"start_simulation_time", "duration_ms"}, "int")
                    /\ Are(e, {"target", "type", "recovery"}, "str")
                    /\ Payload(e.m["payload"]) /\ ValidFaultPayload(e.m["type"], e.m["payload"])
                    /\ KnownTarget(raw, e, "target")
    IN ListOf(faults, entry)

ValidCommands(raw, commands) == ValidEvents(raw, commands)

GridFields == GRID_MODEL_DECIMAL_FIELDS
TransformerLimitFields ==
    {"max_apparent_power_kva", "ambient_temp_c", "top_oil_rise_rated_c", "hot_spot_rise_rated_c",
     "top_oil_time_constant_s", "hot_spot_limit_c"}
ValidGridModel(grid) ==
    /\ IsDict(grid) /\ AllDecimal(grid, GridFields)
    /\ "transformer_limit" \in Keys(grid) =>
           IsDict(grid.m["transformer_limit"]) /\ AllDecimal(grid.m["transformer_limit"], TransformerLimitFields)

ValidLoadEvents(raw, events) ==
    LET entry(e) == /\ HasKeys(e, {"start_s", "duration_s", "target_device_id", "power_kw"})
                    /\ Are(e, {"start_s", "duration_s", "power_kw"}, "Decimal")
                    /\ Are(e, {"target_device_id"}, "str") /\ KnownTarget(raw, e, "target_device_id")
    IN ListOf(events, entry)

ValidLoadProfiles(raw, profiles) ==
    LET decimal(v) == v.t = "Decimal"
        entry(e) == /\ HasKeys(e, {"target_device_id", "tick_values", "tick_ms"})
                    /\ Are(e, {"tick_ms"}, "int") /\ ListOf(e.m["tick_values"], decimal)
                    /\ Are(e, {"target_device_id"}, "str") /\ KnownTarget(raw, e, "target_device_id")
    IN ListOf(profiles, entry)

Comparators == {Str(c) : c \in {"<", "<=", "==", "!=", ">=", ">"}}
RuleMetrics == {Str("tick"), Str("simulation_time")}
ValidCondition(c) ==
    /\ HasKeys(c, {"metric", "comparator", "threshold"})
    /\ c.m["metric"] \in RuleMetrics /\ c.m["comparator"] \in Comparators /\ Are(c, {"threshold"}, "int")
ValidAction(a) == HasKeys(a, {"type", "payload"}) /\ Are(a, {"type"}, "str") /\ IsDict(a.m["payload"])
ValidRules(rules) ==
    LET entry(e) == HasKeys(e, {"condition", "action"}) /\ ValidCondition(e.m["condition"]) /\ ValidAction(e.m["action"])
    IN ListOf(rules, entry) /\ rules.l # <<>>

\* An agent decides by rules or by a plugin.  A target that is absent or null passes.
ValidAgentParams(raw, params) ==
    /\ Payload(params)
    /\ Get(params, "target_device_id") \in DeviceIds(raw) \union {None}
    /\ ("rules" \in Keys(params)) # ("plugin" \in Keys(params))
    /\ Optional(params, "rules", ValidRules)
    /\ "plugin" \in Keys(params) => Are(params, {"plugin"}, "str")
ValidAgents(raw, agents) ==
    /\ IsDict(agents)
    /\ \A id \in Keys(agents) : /\ id # "" /\ HasKeys(agents.m[id], {"type", "params"})
                                /\ Are(agents.m[id], {"type"}, "str")
                                /\ ValidAgentParams(raw, agents.m[id].m["params"])

\* validate_scenario_mapping: every refusal is a ScenarioError or a SnapshotFormatError.
Valid(raw) ==
    LET events(v) == ValidEvents(raw, v)
        faults(v) == ValidFaults(raw, v)
        commands(v) == ValidCommands(raw, v)
        loadEvents(v) == ValidLoadEvents(raw, v)
        loadProfiles(v) == ValidLoadProfiles(raw, v)
        agents(v) == ValidAgents(raw, v)
    IN /\ HasKeys(raw, {"schema_version", "metadata", "simulation", "devices"})
       /\ raw.m["schema_version"] = Str("grid-gym.scenario.v1")
       /\ HasKeys(raw.m["metadata"], {"id", "name"}) /\ Are(raw.m["metadata"], {"id", "name"}, "str")
       /\ HasKeys(raw.m["simulation"], {"tick_ms", "duration_s", "seed"})
       /\ Are(raw.m["simulation"], {"tick_ms", "duration_s", "seed"}, "int")
       /\ ValidDevices(raw.m["devices"])
       /\ Optional(raw, "events", events)
       /\ Optional(raw, "replay", ValidReplay)
       /\ Optional(raw, "faults", faults)
       /\ Optional(raw, "commands", commands)
       /\ Optional(raw, "grid_model", ValidGridModel)
       /\ Optional(raw, "load_events", loadEvents)
       /\ Optional(raw, "load_profiles", loadProfiles)
       /\ Optional(raw, "agents", agents)

----------------------------------------------------------------------------
(* The constructors that run when the scenario is built.  They raise other *)
(* errors than the validator: a comparison with a NaN raises as well.      *)

TransformerLimitConfig(limit) ==
    /\ AllDecimal(limit, TransformerLimitFields)
    /\ Passes(limit, [NoChecks EXCEPT !.positive = {"max_apparent_power_kva", "top_oil_rise_rated_c",
                                                    "hot_spot_rise_rated_c", "top_oil_time_constant_s"},
                                      !.below = {<<"ambient_temp_c", "hot_spot_limit_c">>}])

\* A form device is named exactly when the grid is an island.
IslandPresence(grid) ==
    LET islanded == IF "is_islanded" \in Keys(grid) THEN grid.m["is_islanded"] ELSE Bool(FALSE)
        forming == Get(grid, "forming_device_id")
    IN /\ islanded.t = "bool"
       /\ forming = None \/ (IsStr(forming) /\ forming # Str(""))
       /\ islanded.b <=> forming # None

\* The reactive sensitivity of a posted grid model is a string or an int, never a Decimal.
GridModelConfig(grid) ==
    /\ AllDecimal(grid, GridFields)
    /\ \A k \in GridFields : ~IsNaN(grid.m[k])
    /\ "voltage_sensitivity_v_per_kvar" \in Keys(grid) =>
           AllDecimal(grid, {"voltage_sensitivity_v_per_kvar"}) /\ Num(grid, "voltage_sensitivity_v_per_kvar") > 0
    /\ Passes(grid, [NoChecks EXCEPT !.positive = {"nominal_frequency_hz", "nominal_voltage_v",
                           "frequency_sensitivity_hz_per_kw", "voltage_sensitivity_v_per_kw"},
                       !.below = {<<"frequency_clamp_min_hz", "nominal_frequency_hz">>,
                                  <<"nominal_frequency_hz", "frequency_clamp_max_hz">>,
                                  <<"voltage_clamp_min_v", "nominal_voltage_v">>,
                                  <<"nominal_voltage_v", "voltage_clamp_max_v">>}])
    /\ "transformer_limit" \in Keys(grid) => TransformerLimitConfig(grid.m["transformer_limit"])
    /\ IslandPresence(grid)

LoadEvent(e) ==
    /\ AllDecimal(e, {"start_s", "duration_s", "power_kw"})
    /\ \A k \in {"start_s", "duration_s", "power_kw"} : ~IsNaN(e.m[k])
    /\ e.m["target_device_id"] # Str("")
    /\ Passes(e, [NoChecks EXCEPT !.positive = {"duration_s"}, !.nonNegative = {"start_s", "power_kw"}])

LoadProfile(p) ==
    LET value(v) == v.t = "Decimal" /\ ~IsNaN(v) /\ v.n >= 0 IN
    /\ p.m["target_device_id"] # Str("")
    /\ ListOf(p.m["tick_values"], value) /\ p.m["tick_values"].l # <<>>
    /\ p.m["tick_ms"].t = "int" /\ p.m["tick_ms"].n > 0

\* _build_scenario raises nothing.
Builds(raw) ==
    LET events(v) == ListOf(v, LoadEvent)
        profiles(v) == ListOf(v, LoadProfile)
    IN /\ Optional(raw, "grid_model", GridModelConfig)
       /\ Optional(raw, "load_events", events)
       /\ Optional(raw, "load_profiles", profiles)

----------------------------------------------------------------------------
(* The scenario a document is built into, and what its hash is taken of.   *)

Picked(v, fields) == Dict([k \in fields |-> Get(v, k)])
Each(raw, section, fields) ==
    LET pick(v) == Picked(v, fields)
    IN IF section \in Keys(raw) THEN OnItems(raw.m[section], pick) ELSE List(<<>>)

\* _build_scenario: keys nobody asks for are dropped, absent sections are empty.  The
\* recovery of an event counts only when it is a string.
BuildScenario(raw) ==
    LET event(v) == Dict([Picked(v, {"simulation_time", "target", "type", "payload", "recovery"}).m EXCEPT
                             !["recovery"] = IF IsStr(@) THEN @ ELSE None])
        agent(v) == Picked(v, {"type", "params"})
        limit(v) == IF v = None THEN None ELSE Picked(v, TransformerLimitFields)
        grid(v) == Dict([Picked(v, GridFields \union {"is_islanded", "forming_device_id", "transformer_limit",
                                                       "voltage_sensitivity_v_per_kvar"}).m EXCEPT
                           !["is_islanded"] = IF @ = None THEN Bool(FALSE) ELSE @,
                           !["transformer_limit"] = limit(@),
                           !["voltage_sensitivity_v_per_kvar"] = IF @ = None THEN Dec(20) ELSE @])
    IN Dict([schema_version |-> raw.m["schema_version"],
             metadata |-> Picked(raw.m["metadata"], {"id", "name"}),
             simulation |-> Picked(raw.m["simulation"], {"tick_ms", "duration_s", "seed"}),
             devices |-> Each(raw, "devices", {"id", "type", "params"}),
             events |-> IF "events" \in Keys(raw) THEN OnItems(raw.m["events"], event) ELSE List(<<>>),
             replay |-> IF "replay" \in Keys(raw)
                        THEN Picked(raw.m["replay"], {"source", "format", "time_mapping", "validation_status"})
                        ELSE None,
             faults |-> Each(raw, "faults", {"start_simulation_time", "duration_ms", "target", "type", "payload",
                                             "recovery"}),
             grid_model_config |-> IF "grid_model" \in Keys(raw) THEN grid(raw.m["grid_model"]) ELSE None,
             load_events |-> Each(raw, "load_events", {"start_s", "duration_s", "target_device_id", "power_kw"}),
             load_profiles |-> Each(raw, "load_profiles", {"target_device_id", "tick_values", "tick_ms"}),
             agents |-> IF "agents" \in Keys(raw) THEN OnFields(raw.m["agents"], Keys(raw.m["agents"]), agent)
                        ELSE Dict(<<>>),
             commands |-> Each(raw, "commands", {"simulation_time", "target", "type", "payload"})])

\* Mutant: the device that forms an island never gets into the hash.
HashWithoutFormer(scenario) ==
    LET grid(g) == Without(g, {"forming_device_id"}) IN OnFields(scenario, {"grid_model_config"}, grid)

\* _scenario_hash_payload: what is at its default is left out.
HashPayload(scenario) ==
    LET defaults(g) == (IF g.m["is_islanded"] = Bool(FALSE) THEN {"is_islanded", "forming_device_id"} ELSE {})
                       \union (IF g.m["transformer_limit"] = None THEN {"transformer_limit"} ELSE {})
                       \union (IF g.m["voltage_sensitivity_v_per_kvar"] = Dec(20)
                               THEN {"voltage_sensitivity_v_per_kvar"} ELSE {})
        grid(g) == IF IsDict(g) THEN Without(g, defaults(g)) ELSE g
    IN Without(OnFields(scenario, {"grid_model_config"}, grid),
               IF scenario.m["commands"].l = <<>> THEN {"commands"} ELSE {})
=============================================================================
