---------------------------- MODULE ScenarioIntake ----------------------------
(***************************************************************************)
(* A scenario on its way from a client into a run: POST /scenarios reads,  *)
(* checks, builds, hashes and stores it, POST /runs/{id}/start makes a     *)
(* tick loop of what is stored under the hash of the run, and the loop     *)
(* ticks.                                                                  *)
(***************************************************************************)
EXTENDS ScenarioRules, TLC

CONSTANTS
    Documents,  \* what clients post: a function from names to JSON values
    Later,      \* names of the documents that may be posted after another one
    MaxPosts, MaxStarts, MaxTicks  \* bounds: scenarios posted, runs started, ticks of a run

ASSUME DocumentAssumption == Later \subseteq DOMAIN Documents
ASSUME BoundAssumption == {MaxPosts, MaxStarts, MaxTicks} \subseteq Nat

VARIABLES
    store,   \* InMemoryScenarioStore: hash -> the scenario kept
    answer,  \* what the last request was answered: [to, of, code]
    runs,    \* the runs started: a sequence of [scenario, state, tick]
    first,   \* history: hash -> the scenario first accepted under it
    posts    \* bound

vars == <<store, answer, runs, first, posts>>

Names == DOMAIN Documents

----------------------------------------------------------------------------
(* POST /scenarios                                                         *)

\* SHA-256 of the canonical form, taken as free of collisions: the form itself.
Hash(sc) == CanonicalJson(HashPayload(sc))

\* post_scenarios() around intake_scenario(): what it catches is a 422, the rest a 500.
\* The scenario is built from what the validator let pass, and hashed once it is built.
Verdict(raw) ==
    LET failed == CoercionError(raw)
    IN CASE failed = "TypeError" -> "internal error"
         [] failed = "ScenarioYamlDecimalCoercionError" -> "invalid_scenario"
         [] ~Valid(raw) -> "invalid_scenario"
         [] ~Builds(raw) -> "internal error"
         [] ~Finite(HashPayload(BuildScenario(raw))) -> "invalid_scenario"
         [] OTHER -> "created"

Keep(hash, sc) ==
    /\ store' = (hash :> sc) @@ store
    /\ first' = first @@ (hash :> sc)

PostScenario(d, honest) ==
    /\ posts < MaxPosts
    /\ posts > 0 => d \in Later
    /\ posts' = posts + 1
    /\ \E raw \in {CoerceDecimals(Documents[d])} : \E verdict \in {Verdict(raw)} :
          LET code == IF verdict = "created" /\ ~honest THEN "scenario_hash_mismatch" ELSE verdict IN
          /\ answer' = [to |-> "scenarios", of |-> raw, code |-> code]
          /\ IF code = "created"
             THEN \E sc \in {BuildScenario(raw)} : Keep(Hash(sc), sc)
             ELSE UNCHANGED <<store, first>>
    /\ UNCHANGED runs

----------------------------------------------------------------------------
(* POST /runs/{id}/start                                                   *)

Devices(sc) == sc.m["devices"].l
DeviceIdsOf(sc) == {Devices(sc)[i].m["id"] : i \in DOMAIN Devices(sc)}
DeviceOf(sc, id) == Devices(sc)[CHOOSE i \in DOMAIN Devices(sc) : Devices(sc)[i].m["id"] = id]
Type(sc, id) == DeviceOf(sc, id).m["type"].s

PhysicalFaultTypes ==
    {"cell_failure", "voltage_drop", "frequency_drop", "connection_loss", "winding_fault", "genset_fault"}
QualityFaultTypes == {"nan_injection", "stale_data"}
FaultType(fault) == fault.m["type"].s

\* _compose_fault_port: a ValueError, which the router does not take for a refusal.
FaultPortComposes(sc) ==
    \A i \in DOMAIN sc.m["faults"].l : FaultType(sc.m["faults"].l[i]) \in PhysicalFaultTypes \union QualityFaultTypes

Sources(device) == Items(Get(device.m["params"], "aggregate_device_ids"))
\* build_devices: every type is known, every device takes its parameters, every meter
\* finds its sources.
DevicesBuild(sc) ==
    \A i \in DOMAIN Devices(sc) :
        LET device == Devices(sc)[i] IN
        /\ device.m["type"].s \in DeviceTypes
        /\ Initializes(device.m["type"].s, device.m["params"])
        /\ device.m["type"] = Str("smart_meter") =>
               \A n \in DOMAIN Sources(device) : Sources(device)[n] \in DeviceIdsOf(sc)

\* _build_rule_based_agent reads the target of an agent with rules, which may be absent.
AgentError(agent) ==
    CASE agent.m["type"] # Str("rule_based") -> "ScenarioUnknownAgentTypeError"
      [] "plugin" \in Keys(agent.m["params"]) -> "ScenarioUnknownAgentPluginError"
      [] "target_device_id" \notin Keys(agent.m["params"]) -> "KeyError"
      [] OTHER -> "none"
Agents(sc) == sc.m["agents"].m
\* _build_agents ends with the first agent, in the order of the names, that cannot be built.
AgentsError(sc) ==
    LET bad == {id \in DOMAIN Agents(sc) : AgentError(Agents(sc)[id]) # "none"}
    IN IF bad = {} THEN "none"
       ELSE AgentError(Agents(sc)[CHOOSE id \in bad : \A other \in bad : Place(Str(id)) <= Place(Str(other))])

\* _assert_overlay_targets
OverlayTargets(sc) ==
    \A section \in {"load_events", "load_profiles"} : \A i \in DOMAIN sc.m[section].l :
        Type(sc, sc.m[section].l[i].m["target_device_id"]) \in {"load", "grid_connection"}

Grid(sc) == sc.m["grid_model_config"]
Islanded(sc) == IsDict(Grid(sc)) /\ Grid(sc).m["is_islanded"] = Bool(TRUE)
\* The constructor of the tick loop: its step, and the device that forms the island.
TickLoopBuilds(sc) ==
    /\ sc.m["simulation"].m["tick_ms"].n > 0
    /\ Islanded(sc) => Grid(sc).m["forming_device_id"] \in DeviceIdsOf(sc)

\* build_tick_loop: the devices, the agents, the overlays, the loop.
LoopVerdict(sc) ==
    CASE ~DevicesBuild(sc) -> "scenario_build_failed"
      [] AgentsError(sc) = "KeyError" -> "internal error"
      [] AgentsError(sc) # "none" -> "scenario_build_failed"
      [] ~OverlayTargets(sc) -> "scenario_build_failed"
      [] ~TickLoopBuilds(sc) -> "scenario_build_failed"
      [] OTHER -> "accepted"

\* build_run_driver, as post_run_start() answers it: the faults come first.
StartVerdict(sc) == IF FaultPortComposes(sc) THEN LoopVerdict(sc) ELSE "internal error"

\* A run is made for a hash, whatever is stored under it.
StartRun(hash) ==
    /\ Len(runs) < MaxStarts
    /\ IF hash \notin DOMAIN store
       THEN /\ answer' = [to |-> "start", of |-> None, code |-> "scenario_content_not_found"]
            /\ UNCHANGED runs
       ELSE LET sc == store[hash] IN
            \E code \in {StartVerdict(sc)} :
                /\ answer' = [to |-> "start", of |-> sc, code |-> code]
                /\ runs' = IF code = "accepted"
                           THEN Append(runs, [scenario |-> sc, state |-> "live", tick |-> 0]) ELSE runs
    /\ UNCHANGED <<store, first, posts>>

----------------------------------------------------------------------------
(* Ticks: what of the scenario can make one fail.                          *)

\* Simulated time of a tick, in hundredths of ms as the numbers of documents are.
TimeOf(sc, tick) == (tick + 1) * sc.m["simulation"].m["tick_ms"].n

\* apply_active_faults hands a fault to a device that knows faults but not this one.
FaultRefused(sc, tick) ==
    \E i \in DOMAIN sc.m["faults"].l :
        LET fault == sc.m["faults"].l[i]
            type == Type(sc, fault.m["target"])
            start == fault.m["start_simulation_time"].n
        IN /\ FaultType(fault) \in PhysicalFaultTypes
           /\ start <= TimeOf(sc, tick) /\ TimeOf(sc, tick) < start + fault.m["duration_ms"].n
           /\ type \in DOMAIN FaultsOf /\ FaultType(fault) \notin FaultsOf[type]

Compares(value, comparator, threshold) ==
    CASE comparator = "<" -> value < threshold [] comparator = "<=" -> value <= threshold
      [] comparator = "==" -> value = threshold [] comparator = "!=" -> value # threshold
      [] comparator = ">=" -> value >= threshold [] comparator = ">" -> value > threshold
Matches(sc, tick, rule) ==
    LET condition == rule.m["condition"].m
        value == IF condition["metric"] = Str("tick") THEN 100 * tick ELSE TimeOf(sc, tick)
    IN Compares(value, condition["comparator"].s, condition["threshold"].n)

\* An agent whose rule applies names its target, which may be null.
AgentWithoutTarget(sc, tick) ==
    \E id \in DOMAIN Agents(sc) :
        LET params == Agents(sc)[id].m["params"] IN
        /\ params.m["target_device_id"] = None
        /\ \E i \in DOMAIN params.m["rules"].l : Matches(sc, tick, params.m["rules"].l[i])

\* A meter sums its sources, the constraint of an island needs the device that forms it,
\* the step of the loop and parameters of the devices are divided by.
SourceMissing(sc) ==
    \E i \in DOMAIN Devices(sc) : \E n \in DOMAIN Sources(Devices(sc)[i]) : Sources(Devices(sc)[i])[n] \notin DeviceIdsOf(sc)
FormerMissing(sc) == Islanded(sc) /\ Grid(sc).m["forming_device_id"] \notin DeviceIdsOf(sc)
DividesByZero(sc) ==
    \/ sc.m["simulation"].m["tick_ms"].n = 0
    \/ \E i \in DOMAIN Devices(sc) : 0 \in Divisors(Devices(sc)[i].m["type"].s, Devices(sc)[i].m["params"])

TickRaises(sc, tick) ==
    FaultRefused(sc, tick) \/ AgentWithoutTarget(sc, tick) \/ SourceMissing(sc) \/ FormerMissing(sc) \/ DividesByZero(sc)

Tick(i) ==
    /\ runs[i].state = "live" /\ runs[i].tick < MaxTicks
    /\ runs' = [runs EXCEPT ![i] = IF TickRaises(@.scenario, @.tick)
                                   THEN [@ EXCEPT !.state = "failed"] ELSE [@ EXCEPT !.tick = @ + 1]]
    /\ UNCHANGED <<store, answer, first, posts>>

----------------------------------------------------------------------------

Init ==
    /\ store = <<>> /\ first = <<>>
    /\ answer = [to |-> "nobody", of |-> None, code |-> "none"]
    /\ runs = <<>> /\ posts = 0

Next ==
    \/ \E d \in Names, honest \in BOOLEAN : PostScenario(d, honest)
    \/ \E hash \in DOMAIN store \union {None} : StartRun(hash)
    \/ \E i \in DOMAIN runs : Tick(i)

Spec == Init /\ [][Next]_vars

----------------------------------------------------------------------------
(* Properties                                                              *)

RECURSIVE Decimals(_)
\* The value with every string that reads as a number read as one.
Decimals(v) ==
    CASE IsDict(v) -> Dict([k \in Keys(v) |-> Decimals(v.m[k])])
      [] IsList(v) -> List([i \in DOMAIN v.l |-> Decimals(v.l[i])])
      [] IsStr(v) /\ "s" \notin DOMAIN v -> SafeDecimal(v)
      [] OTHER -> v

LeftAsStrings(v, keys) == \E k \in keys : "str" \in Kinds(Get(v, k))

\* A client writes Decimals as strings (_scenarios_router.py:88).  Which ones are read is
\* up to lists of names in scenario_yaml.py, which nothing holds against what the validator
\* asks of a document and the constructors of a start ask of a device; "Ohne diese
\* Rekursion waeren die Field-Envelope-Bloecke nicht via YAML ladbar", says its line 87 of
\* the last gap that was closed.  A scenario that goes through with its numbers read goes
\* through as the client wrote it, but for four names that no list has: a post fails
\* exactly over the reactive sensitivity and the transformer limit of a grid model, a
\* start exactly over the cells of a battery and the volt_var of a PV.
NumbersArrive ==
    LET read == Decimals(answer.of) IN
    /\ answer.to = "scenarios" /\ Verdict(read) = "created" =>
           (answer.code \in {"invalid_scenario", "internal error"}
                <=> LeftAsStrings(Get(answer.of, "grid_model"), {"voltage_sensitivity_v_per_kvar", "transformer_limit"}))
    /\ answer.to = "start" /\ answer.of # None /\ StartVerdict(read) = "accepted" =>
           (answer.code # "accepted"
                <=> \E i \in DOMAIN Devices(answer.of) :
                        LeftAsStrings(Devices(answer.of)[i].m["params"], {"cell", "volt_var"}))

\* "der Hash determiniert den Content" (ports/driven/scenario_store.py:32): whatever is
\* posted later under a hash, its content is that of the first document in every field,
\* defaults included, up to the type of a number.
ContentIsKept ==
    \A hash \in DOMAIN store : CanonicalJson(store[hash]) = CanonicalJson(first[hash])

\* A run that was accepted finds every device its scenario refers to and never divides by
\* zero: a tick fails only over a fault its target does not know, or over an agent with a
\* null target whose rule applies, both of which pass every check before.
AcceptedRunsLive ==
    \A i \in DOMAIN runs : runs[i].state = "failed" =>
        LET sc == runs[i].scenario IN FaultRefused(sc, runs[i].tick) \/ AgentWithoutTarget(sc, runs[i].tick)

\* What was posted and accepted is what runs.
PostedIsWhatRuns == ContentIsKept /\ AcceptedRunsLive
=============================================================================
