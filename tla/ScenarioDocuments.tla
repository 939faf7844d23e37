--------------------------- MODULE ScenarioDocuments ---------------------------
(***************************************************************************)
(* A scenario as a client posts it: nested JSON values, the conversion of  *)
(* numeric strings to Decimals, the test whether a payload can be written  *)
(* as canonical JSON, and that canonical form, of which the hash is taken. *)
(*                                                                         *)
(* A number is given in hundredths and is written in its shortest form.    *)
(***************************************************************************)
EXTENDS Integers, Sequences

Str(s) == [t |-> "str", s |-> s]
Text(n) == [t |-> "str", num |-> n]            \* a string that reads as the number n
TextOf(special) == [t |-> "str", special |-> special]  \* "NaN" or "Infinity"
Whole(i) == [t |-> "int", n |-> 100 * i]
Float(n) == [t |-> "float", f |-> n]
Bool(b) == [t |-> "bool", b |-> b]
None == [t |-> "NoneType"]
Dict(m) == [t |-> "dict", m |-> m]
List(l) == [t |-> "list", l |-> l]
Dec(n) == [t |-> "Decimal", n |-> n]

\* Larger than any number of a document.
Infinity == 100000000
NotANumber == [t |-> "Decimal", nan |-> TRUE]
\* What a failed conversion leaves: ScenarioYamlDecimalCoercionError, TypeError.
Malformed == [t |-> "malformed"]
Unhashable == [t |-> "unhashable"]

IsDict(v) == v.t = "dict"
IsList(v) == v.t = "list"
IsStr(v) == v.t = "str"
IsNaN(v) == v = NotANumber

Keys(v) == IF IsDict(v) THEN DOMAIN v.m ELSE {}
Items(v) == IF IsList(v) THEN v.l ELSE <<>>
\* raw.get(key): the value, or None.
Get(v, key) == IF key \in Keys(v) THEN v.m[key] ELSE None
Without(v, keys) == Dict([k \in Keys(v) \ keys |-> v.m[k]])

----------------------------------------------------------------------------
(* scenario_yaml.py: where a string is read as a Decimal.                  *)

\* _safe_decimal
SafeDecimal(v) ==
    CASE ~IsStr(v) -> v
      [] "num" \in DOMAIN v -> Dec(v.num)
      [] "special" \in DOMAIN v -> IF v.special = "NaN" THEN NotANumber ELSE Dec(Infinity)
      [] OTHER -> Malformed

\* The fields of a mapping named in keys, each changed by Op; anything else as it is.
OnFields(v, keys, Op(_)) ==
    IF IsDict(v) THEN Dict([k \in Keys(v) |-> IF k \in keys THEN Op(v.m[k]) ELSE v.m[k]]) ELSE v
OnItems(v, Op(_)) ==
    IF IsList(v) THEN List([i \in DOMAIN v.l |-> Op(v.l[i])]) ELSE v

DEVICE_DECIMAL_PARAMS ==
    {"rated_power_kw", "capacity_kwh", "initial_soc_pct", "min_soc_pct", "max_soc_pct", "max_charge_kw",
     "max_discharge_kw", "charge_efficiency", "discharge_efficiency", "ramp_kw_per_s", "nominal_voltage_v",
     "max_import_kw", "max_export_kw", "battery_capacity_kwh", "cv_phase_start_soc", "initial_soc",
     "primary_voltage_v", "turns_ratio", "no_load_loss_kw", "load_loss_kw", "cut_in_speed_ms", "rated_speed_ms",
     "cut_out_speed_ms", "min_wind_speed_ms", "max_wind_speed_ms", "max_power_kw", "min_start_power_kw",
     "min_stop_power_kw", "fuel_capacity_l", "initial_fuel_l", "fuel_per_kwh_l"}
DEVICE_DECIMAL_BLOCKS == {"thermal", "health", "dc_bus", "reactive"}
GRID_MODEL_DECIMAL_FIELDS ==
    {"nominal_frequency_hz", "frequency_sensitivity_hz_per_kw", "frequency_clamp_min_hz", "frequency_clamp_max_hz",
     "nominal_voltage_v", "voltage_sensitivity_v_per_kw", "voltage_clamp_min_v", "voltage_clamp_max_v"}
LOAD_EVENT_DECIMAL_FIELDS == {"start_s", "duration_s", "power_kw"}
PAYLOAD_DECIMAL_KEYS == {"value", "power_kw"}
COMMAND_DECIMAL_VALUE_TYPES == {Str("set_charge_power"), Str("set_power_kw")}

CoerceBlock(block) == OnFields(block, Keys(block), SafeDecimal)
\* Mutant: the blocks are left alone.
CoerceParamsFlat(params) == OnFields(params, DEVICE_DECIMAL_PARAMS, SafeDecimal)
CoerceParams(params) ==
    OnFields(OnFields(params, DEVICE_DECIMAL_PARAMS, SafeDecimal), DEVICE_DECIMAL_BLOCKS, CoerceBlock)
CoerceDevice(entry) == OnFields(entry, {"params"}, CoerceParams)

CoerceLoadEvent(entry) == OnFields(entry, LOAD_EVENT_DECIMAL_FIELDS, SafeDecimal)
CoerceLoadProfile(entry) == LET values(v) == OnItems(v, SafeDecimal) IN OnFields(entry, {"tick_values"}, values)

CoercePayload(payload) == OnFields(payload, PAYLOAD_DECIMAL_KEYS, SafeDecimal)
CoerceRule(rule) == LET action(a) == OnFields(a, {"payload"}, CoercePayload) IN OnFields(rule, {"action"}, action)
CoerceAgentParams(params) == LET rules(v) == OnItems(v, CoerceRule) IN OnFields(params, {"rules"}, rules)
CoerceAgent(entry) == OnFields(entry, {"params"}, CoerceAgentParams)

\* The type is looked up in a frozenset: a list or a mapping cannot be.
CoerceCommand(entry) ==
    CASE ~IsDict(entry) -> entry
      [] Get(entry, "type").t \in {"dict", "list"} -> Unhashable
      [] Get(entry, "type") \in COMMAND_DECIMAL_VALUE_TYPES -> OnFields(entry, {"payload"}, CoercePayload)
      [] OTHER -> entry

\* _coerce_decimals.  Nothing else is converted: not the payload of a fault, of an
\* event, the blocks "cell" and "volt_var", nor the limits of the transformer.
CoerceDecimals(raw) ==
    LET devices(v) == OnItems(v, CoerceDevice)
        grid(v) == OnFields(v, GRID_MODEL_DECIMAL_FIELDS, SafeDecimal)
        events(v) == OnItems(v, CoerceLoadEvent)
        profiles(v) == OnItems(v, CoerceLoadProfile)
        agents(v) == OnFields(v, Keys(v), CoerceAgent)
        commands(v) == OnItems(v, CoerceCommand)
    IN OnFields(OnFields(OnFields(OnFields(OnFields(OnFields(raw,
           {"devices"}, devices), {"grid_model"}, grid), {"load_events"}, events),
           {"load_profiles"}, profiles), {"agents"}, agents), {"commands"}, commands)

----------------------------------------------------------------------------
(* Walks over a value.                                                     *)

Kind(v) == IF v \in {NotANumber, Dec(Infinity)} THEN "nonfinite" ELSE v.t
RECURSIVE Kinds(_)
\* The kinds of the values a value is made of.
Kinds(v) ==
    {Kind(v)} \union UNION {Kinds(v.m[k]) : k \in Keys(v)}
              \union UNION {Kinds(v.l[i]) : i \in DOMAIN Items(v)}

\* Which exception the conversion ends with: the first that it meets.  Only the
\* commands, converted last and in their order, can raise another one.
CoercionError(coerced) ==
    LET commands == Items(Get(coerced, "commands"))
        bad == {i \in DOMAIN commands : Kinds(commands[i]) \intersect {"unhashable", "malformed"} # {}}
    IN CASE "malformed" \in Kinds(Without(coerced, {"commands"})) -> "ScenarioYamlDecimalCoercionError"
         [] bad = {} -> "none"
         [] OTHER -> IF commands[CHOOSE i \in bad : \A j \in bad : i <= j] = Unhashable
                     THEN "TypeError" ELSE "ScenarioYamlDecimalCoercionError"

\* assert_payload_canonical_compatible: JSON can bring no other type but a float.
CanonicalCompatible(payload) == "float" \notin Kinds(payload)

\* _emit_decimal refuses what is not finite.
Finite(v) == "nonfinite" \notin Kinds(v)

RECURSIVE CanonicalJson(_)
\* canonical_json: an int and the Decimal of the same value are written alike.
CanonicalJson(v) ==
    CASE v.t \in {"int", "Decimal"} -> [number |-> v.n]
      [] IsDict(v) -> Dict([k \in Keys(v) |-> CanonicalJson(v.m[k])])
      [] IsList(v) -> List([i \in DOMAIN v.l |-> CanonicalJson(v.l[i])])
      [] OTHER -> v
=============================================================================
