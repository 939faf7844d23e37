------------------------------ MODULE FieldCodecs ------------------------------
(***************************************************************************)
(* What the field adapters make of a value on its way to a device and      *)
(* back, and which configurations they accept.                             *)
(*                                                                         *)
(* One value takes the way of one configured target: the port accepts the  *)
(* profile, encodes what a command carries, and decodes what a device      *)
(* answers; a device may answer anything its protocol can carry.           *)
(***************************************************************************)
EXTENDS Registers, FiniteSetsExt

CONSTANTS
    Jobs,   \* what is sent or answered: [protocol, layout, value or wire]
    Profiles \* the profiles to be validated: [protocol, targets, ...]

None == "none"

\* A value as Python or a client library has it, and the ways a job may go.
Values == {v \in [type : {"bool", "int", "decimal", "float", "str", "container", "nothing"},
                  special : {"no", "nan", "inf", "-inf"}, n : Int] :
              v.type \notin {"decimal", "float"} => v.special = "no"}

Datatypes(protocol) ==
    {"int16", "uint16", "int32", "uint32"} \cup
    IF protocol = "modbus" THEN {"float32"} ELSE {"bool", "string", "float", "double"}

\* A value that is sent has a target to write to; two protocols can only be read.
SentOK(j) ==
    /\ j.protocol \in {"modbus", "opcua", "mqtt", "server"} /\ j.value \in Values
    /\ j.protocol \in {"modbus", "opcua"} => j.layout.datatype \in Datatypes(j.protocol)
    /\ j.protocol = "modbus" => j.layout.order \in {"big_endian", "little_endian"}

AnsweredOK(j) ==
    /\ j.protocol \in {"modbus", "opcua", "dnp3", "iec61850", "mqtt"}
    /\ j.protocol \in {"opcua", "iec61850", "mqtt"} => j.wire \in Values
    /\ j.protocol = "dnp3" => j.wire \in Seq([group : Int, index : Int, value : Values])

JobOK(j) ==
    /\ "wire" \in DOMAIN j => AnsweredOK(j) /\ "value" \notin DOMAIN j
    /\ "value" \in DOMAIN j => SentOK(j)

\* Hosts, ports, names and timeouts are one flag, the first error among them; a server has
\* windows, the others have targets.
EndpointErrors(protocol) ==
    {None, "empty_field"} \cup
    CASE protocol = "modbus" -> {"port", "unit_id", "timeout"}
      [] protocol = "opcua" -> {"timeout"}
      [] protocol = "dnp3" -> {"port", "address", "timeout"}
      [] protocol = "iec61850" -> {"port", "timeout"}
      [] protocol = "mqtt" -> {"port"}
      [] protocol = "server" -> {"port", "unit_id"}

ProfileOK(p) ==
    /\ p.protocol \in {"modbus", "opcua", "dnp3", "iec61850", "mqtt", "server"}
    /\ p.endpoint \in EndpointErrors(p.protocol)
    /\ p.protocol = "server" => {p.reads, p.writes} \subseteq Seq([address : Int, device : STRING])

ASSUME JobAssumption == \A j \in Jobs : JobOK(j)
ASSUME ProfileAssumption == \A p \in Profiles : ProfileOK(p)

VARIABLES
    job,     \* the value and the target it is for
    profile, \* the profile to be validated
    stage,   \* "given", "encoded", "decoded", "rejected", or "validated"
    wire,    \* what travels
    point,   \* what read() makes of it
    verdict  \* the first error of the profile, or None; "open" before it is validated

vars == <<job, profile, stage, wire, point, verdict>>

-------------------------------------------------------------------------------
(***************************************************************************)
(* Profiles.  The hosts, ports and timeouts of a profile are one flag:     *)
(* every adapter refuses an empty name, a port or an address out of range  *)
(* and a timeout that is not positive.                                     *)
(***************************************************************************)
NotGiven == -1
Accesses == {"read", "write"}
ReadCodes == {3, 4}
WriteCodes == {6, 16}

ModbusConfigErrors ==
    {"empty_field", "port", "unit_id", "timeout", "no_targets", "address", "byte_order",
     "function_code", "access", "code_access", "code_datatype"}
OpcuaConfigErrors == {"empty_field", "timeout", "no_targets", "node_id", "namespace", "access"}
Dnp3ConfigErrors ==
    {"empty_field", "port", "timeout", "no_targets", "address", "group_variation", "index", "access"}
Iec61850ConfigErrors ==
    {"empty_field", "port", "timeout", "no_targets", "reference", "fc", "datatype", "access"}
MqttConfigErrors == {"empty_field", "port", "no_targets", "qos", "empty_topic", "duplicate_topic"}

\* Mutant: the code is compared with the access only.
ModbusTargetErrorLoose(t) ==
    CASE t.address \notin 0 .. MaxRegister -> "address"
      [] t.order \notin {"big_endian", "little_endian"} -> "byte_order"
      [] t.access \notin Accesses -> "access"
      [] t.code # NotGiven /\ t.code \notin ReadCodes \cup WriteCodes -> "function_code"
      [] t.code \in (IF t.access = "read" THEN WriteCodes ELSE ReadCodes) -> "code_access"
      [] t.unit # NotGiven /\ t.unit \notin 1 .. 247 -> "unit_id"
      [] OTHER -> None

\* The first error of a target, or None.  Whether the second register of a value is
\* still within the address space is not looked at.
ModbusTargetError(t) ==
    CASE t.address \notin 0 .. MaxRegister -> "address"
      [] t.order \notin {"big_endian", "little_endian"} -> "byte_order"
      [] t.access \notin Accesses -> "access"
      [] t.code # NotGiven /\ t.code \notin ReadCodes \cup WriteCodes -> "function_code"
      [] t.code \in (IF t.access = "read" THEN WriteCodes ELSE ReadCodes) -> "code_access"
      [] t.code = 6 /\ RegisterCount(t.datatype) # 1 -> "code_datatype"
      [] t.unit # NotGiven /\ t.unit \notin 1 .. 247 -> "unit_id"
      [] OTHER -> None

FunctionCode(t) ==
    IF t.code # NotGiven THEN t.code
    ELSE IF t.access = "read" THEN 3
    ELSE IF RegisterCount(t.datatype) = 1 THEN 6 ELSE 16

UnitId(t, parent) == IF t.unit # NotGiven THEN t.unit ELSE parent

Namespaces == 0 .. 65535

\* A node id is its kind, whether it matches the pattern, and its namespace.
OpcuaTargetError(t) ==
    CASE ~t.node.wellFormed -> "node_id"
      [] t.node.namespace \notin Namespaces -> "namespace"
      [] t.node.kind = "i" /\ ~t.node.numeric -> "node_id"
      [] t.access \notin Accesses -> "access"
      [] OTHER -> None

Dnp3TargetError(t) ==
    CASE <<t.group, t.variation>> \notin {<<1, 1>>, <<1, 2>>, <<30, 1>>, <<30, 5>>} -> "group_variation"
      [] t.index < 0 -> "index"
      [] t.access \notin Accesses -> "access"
      [] OTHER -> None

Iec61850TargetError(t) ==
    CASE ~t.reference -> "reference"
      [] t.fc \notin {"MX", "ST", "SP", "CF", "DC"} -> "fc"
      [] t.datatype \notin {"bool", "int32", "float", "string"} -> "datatype"
      [] t.access # "read" -> "access"
      [] OTHER -> None

MqttTargetError(t) ==
    CASE {t.telemetry, t.command} = {None} -> "empty_topic"
      [] ~({t.publish, t.subscribe} \subseteq 0 .. 2) -> "qos"
      [] OTHER -> None

TopicsOf(targets) ==
    {<<d, "telemetry", targets[d].telemetry>> : d \in DOMAIN targets}
        \cup {<<d, "command", targets[d].command>> : d \in DOMAIN targets}

UniqueTopics(targets) ==
    \A x, y \in TopicsOf(targets) : x[3] # None /\ x[3] = y[3] => x = y

\* The host, the port, the names and the timeout come first: `endpoint` is the first
\* error among them, or None.
ProfileErrors(p, TargetError(_)) ==
    LET errors == {TargetError(p.targets[d]) : d \in DOMAIN p.targets} \ {None} IN
    CASE p.endpoint # None -> {p.endpoint}
      [] DOMAIN p.targets = {} -> {"no_targets"}
      [] errors # {} -> errors
      [] OTHER -> {None}

ModbusProfileErrors(p) == ProfileErrors(p, ModbusTargetError)
OpcuaProfileErrors(p) == ProfileErrors(p, OpcuaTargetError)
Dnp3ProfileErrors(p) == ProfileErrors(p, Dnp3TargetError)
Iec61850ProfileErrors(p) == ProfileErrors(p, Iec61850TargetError)
MqttProfileErrors(p) ==
    LET errors == ProfileErrors(p, MqttTargetError)
    IN  IF errors = {None} /\ ~UniqueTopics(p.targets) THEN {"duplicate_topic"} ELSE errors

ServerProfileErrors(p) == {IF p.endpoint # None THEN p.endpoint ELSE ServerConfigError(p)}

\* What may be said of a profile: the first error, whichever target it is of.
Verdicts(p) == CASE p.protocol = "modbus" -> ModbusProfileErrors(p)
                 [] p.protocol = "opcua" -> OpcuaProfileErrors(p)
                 [] p.protocol = "dnp3" -> Dnp3ProfileErrors(p)
                 [] p.protocol = "iec61850" -> Iec61850ProfileErrors(p)
                 [] p.protocol = "mqtt" -> MqttProfileErrors(p)
                 [] p.protocol = "server" -> ServerProfileErrors(p)

\* The topics the port subscribes to, and the device a topic belongs to: of two
\* devices with one topic the last would win.
TelemetryIndex(targets) ==
    LET topics == {targets[d].telemetry : d \in DOMAIN targets} \ {None}
    IN  [t \in topics |-> CHOOSE d \in DOMAIN targets : targets[d].telemetry = t]

Subscriptions(targets) ==
    {<<targets[d].telemetry, targets[d].subscribe>> :
        d \in {e \in DOMAIN targets : targets[e].telemetry # None}}

-------------------------------------------------------------------------------
(***************************************************************************)
(* Encoding a command                                                      *)
(***************************************************************************)
Numbers == {"bool", "int", "decimal", "float"}

OpcuaCodecErrors == {"out_of_range", "non_finite", "payload_type", "decode"}
Dnp3CodecErrors == {"group", "value_type", "not_in_poll"}
Iec61850CodecErrors == {"value_type", "overflow"}
MqttCodecErrors == {"json", "utf8", "shape", "missing_field", "enum"}

\* A Double holds what Python has; an OPC UA Float is cut to 32 bits by the stack.
OpcuaEncode(v, datatype) ==
    CASE datatype \in {"bool", "string"} ->
            IF v.type = (IF datatype = "bool" THEN "bool" ELSE "str") THEN Done(v)
            ELSE Refused("payload_type")
      [] v.type \notin Numbers \ {"bool"} -> Refused("payload_type")
      [] datatype \in {"float", "double"} ->
            IF v.special = "no" THEN Done(Finite("float", v.n)) ELSE Refused("non_finite")
      [] v.special # "no" \/ Trunc(v.n) \notin IntRange(datatype) -> Refused("out_of_range")
      [] OTHER -> Done(Finite("int", 2 * Trunc(v.n)))

\* canonical_json of a command: a decimal is written as a JSON number, a float or what
\* is not finite raises an error of the serializer, not of the codec.
MqttEncode(v) == IF v.type = "float" \/ v.special # "no" THEN Leaks ELSE Done(v)

Encoded(j) ==
    CASE j.protocol = "modbus" -> EncodeValue(j.value, j.layout)
      [] j.protocol = "server" -> Done(EncodeFloat32(j.value))
      [] j.protocol = "opcua" -> OpcuaEncode(j.value, j.layout.datatype)
      [] j.protocol = "mqtt" -> MqttEncode(j.value)

-------------------------------------------------------------------------------
(***************************************************************************)
(* Decoding an answer                                                      *)
(***************************************************************************)
\* None and strange types are refused; the range of an integer is not looked at, and
\* a Float beyond 32 bits raises out of struct.pack.  NaN passes.
OpcuaDecode(v, datatype) ==
    CASE datatype \in {"bool", "string"} ->
            IF v.type = (IF datatype = "bool" THEN "bool" ELSE "str") THEN Done(v)
            ELSE Refused("decode")
      [] datatype \in {"float", "double"} ->
            IF v.type \notin {"int", "float"} THEN Refused("decode")
            ELSE IF datatype = "float" /\ v.special = "no" /\ v.n \notin -FloatMax .. FloatMax
            THEN Leaks ELSE Done([v EXCEPT !.type = "decimal"])
      [] OTHER -> IF v.type = "int" THEN Done(v) ELSE Refused("decode")

\* The variation of a binary input does not matter, that of an analog one does.
Dnp3Decode(v, layout) ==
    CASE layout.group = 1 ->
            IF v.type = "bool" THEN Done([v EXCEPT !.type = "decimal"]) ELSE Refused("value_type")
      [] layout.variation = 1 ->
            IF v.type = "int" THEN Done([v EXCEPT !.type = "decimal"]) ELSE Refused("value_type")
      [] OTHER ->
            IF v.type \in {"int", "float"} THEN Done([v EXCEPT !.type = "decimal"]) ELSE Refused("value_type")

\* The point of a poll is found by its index among the points of its group.
Dnp3Find(poll, layout) ==
    LET hits == {i \in DOMAIN poll : poll[i].group = layout.group /\ poll[i].index = layout.index}
    IN  IF hits = {} THEN Refused("not_in_poll") ELSE Dnp3Decode(poll[Min(hits)].value, layout)

\* Mutant: the text a container is printed as passes for a value.
Iec61850DecodeAny(v, datatype) ==
    CASE datatype = "bool" ->
            IF v.type = "bool" \/ (v.type = "int" /\ v.n \in {0, 2})
            THEN Done([v EXCEPT !.type = "bool"])
            ELSE Refused(IF v.type = "int" THEN "overflow" ELSE "value_type")
      [] datatype = "int32" ->
            IF v.type # "int" THEN Refused("value_type")
            ELSE IF v.n \div 2 \in IntRange("int32") THEN Done(v) ELSE Refused("overflow")
      [] datatype = "float" ->
            IF v.type \notin {"float", "container"} THEN Refused("value_type")
            ELSE IF v.special = "no" THEN Done([v EXCEPT !.type = "decimal"]) ELSE Refused("overflow")
      [] OTHER -> IF v.type \in {"str", "container"} THEN Done(v) ELSE Refused("value_type")

\* A container arrives as the text it is printed as.
Iec61850Decode(v, datatype) ==
    CASE datatype = "bool" ->
            IF v.type = "bool" \/ (v.type = "int" /\ v.n \in {0, 2})
            THEN Done([v EXCEPT !.type = "bool"])
            ELSE Refused(IF v.type = "int" THEN "overflow" ELSE "value_type")
      [] datatype = "int32" ->
            IF v.type # "int" THEN Refused("value_type")
            ELSE IF v.n \div 2 \in IntRange("int32") THEN Done(v) ELSE Refused("overflow")
      [] datatype = "float" ->
            IF v.type # "float" THEN Refused("value_type")
            ELSE IF v.special = "no" THEN Done([v EXCEPT !.type = "decimal"]) ELSE Refused("overflow")
      [] OTHER -> IF v.type \in {"str", "container"} THEN Done(v) ELSE Refused("value_type")

\* JSON numbers with a fraction are read as decimals; NaN and Infinity, which the parser
\* lets pass as floats, are refused like any other type.
MqttDecode(v) ==
    IF v.type \in {"int", "decimal"} THEN Done([v EXCEPT !.type = "decimal"])
    ELSE Refused("missing_field")

\* decode_command leaves the payload as the parser read it.
MqttDecodeCommand(v) == Done(v)

Decoded(j, w) ==
    CASE j.protocol = "modbus" -> DecodeRegisters(w, j.layout)
      [] j.protocol = "server" ->
            IF DecodeFloat32(w[1], w[2]) = {} THEN Refused("non_finite")
            ELSE Done(CHOOSE v \in DecodeFloat32(w[1], w[2]) : TRUE)
      [] j.protocol = "opcua" -> OpcuaDecode(w, j.layout.datatype)
      [] j.protocol = "dnp3" -> Dnp3Find(w, j.layout)
      [] j.protocol = "iec61850" -> Iec61850Decode(w, j.layout.datatype)
      [] j.protocol = "mqtt" -> IF "value" \in DOMAIN j THEN MqttDecodeCommand(w) ELSE MqttDecode(w)

\* _build_telemetry_point: text is a point with value 0 and quality invalid; a MQTT
\* point comes with the quality it was sent with.
PointOf(v) ==
    IF v.type \in {"str", "container"} THEN [quality |-> "invalid", value |-> Finite("decimal", 0)]
    ELSE [quality |-> "valid", value |-> [v EXCEPT !.type = "decimal"]]

-------------------------------------------------------------------------------
NoPoint == [error |-> None]

Init ==
    /\ \/ job \in Jobs /\ profile = [protocol |-> None]
       \/ job = [protocol |-> None] /\ profile \in Profiles
    /\ stage = IF "wire" \in DOMAIN job THEN "encoded" ELSE "given"
    /\ wire = IF "wire" \in DOMAIN job THEN job.wire ELSE <<>>
    /\ point = NoPoint /\ verdict = "open"

Validate ==
    /\ profile.protocol # None /\ stage = "given"
    /\ verdict' \in Verdicts(profile)
    /\ stage' = "validated"
    /\ UNCHANGED <<job, profile, wire, point>>

Encode ==
    /\ job.protocol # None /\ stage = "given"
    /\ LET r == Encoded(job) IN
       /\ wire' = IF r.ok THEN r.out ELSE <<r.error>>
       /\ stage' = IF r.ok THEN "encoded" ELSE "rejected"
    /\ UNCHANGED <<job, profile, point, verdict>>

Decode ==
    /\ stage = "encoded"
    /\ LET r == Decoded(job, wire) IN
       /\ point' = IF r.ok THEN PointOf(r.out) ELSE [error |-> r.error]
       /\ stage' = IF r.ok THEN "decoded" ELSE "rejected"
    /\ UNCHANGED <<job, profile, wire, verdict>>

Next == Validate \/ Encode \/ Decode

Spec == Init /\ [][Next]_vars

-------------------------------------------------------------------------------
(***************************************************************************)
(* Properties                                                              *)
(***************************************************************************)
\* What a command sent is what a read of the same target returns: for an integer
\* target without the fraction, and for nothing that does not fit.
Sent == IF job.protocol \in {"modbus", "opcua"}
           /\ job.layout.datatype \in {"int16", "uint16", "int32", "uint32"}
        THEN 2 * Trunc(job.value.n) ELSE job.value.n

ComesBack ==
    (job.protocol \in {"modbus", "opcua", "mqtt", "server"} /\ "value" \in DOMAIN job
        /\ stage = "decoded" /\ job.value.type \in Numbers)
    => /\ point.value.special = job.value.special
       /\ point.value.n = Sent

\* Words that a server has filled are what the client with the default layout reads,
\* and the other way round: both sides lay a float32 out alike.
SameLayout ==
    job.protocol = "modbus" =>
        LET default == [datatype |-> "float32", order |-> "big_endian", swap |-> FALSE] IN
        (job.layout = default /\ "value" \in DOMAIN job /\ stage \in {"encoded", "decoded"})
        => /\ wire = EncodeFloat32(job.value)
           /\ {v.n : v \in DecodeFloat32(wire[1], wire[2])} = {job.value.n}

\* A value survives the way to the device and back, whichever side wrote it.
ValuesSurvive == ComesBack /\ SameLayout

CodecErrors(protocol) ==
    CASE protocol = "modbus" -> ModbusCodecErrors
      [] protocol = "opcua" -> OpcuaCodecErrors
      [] protocol = "dnp3" -> Dnp3CodecErrors
      [] protocol = "iec61850" -> Iec61850CodecErrors
      [] protocol = "mqtt" -> MqttCodecErrors

\* Whatever a device answers, a read ends in a point or in an error of the codec
\* (which the port turns into a read error), and only text is no value: it never
\* passes for a valid number, and no boolean passes for one.  Excused are an
\* overflow of an OPC UA Float, and NaN, which only IEC 61850 refuses.
AnswersAreJudged ==
    ("wire" \in DOMAIN job /\ stage \in {"decoded", "rejected"}) =>
    LET answer == IF job.protocol = "dnp3"
                  THEN LET hits == {i \in DOMAIN wire : wire[i].index = job.layout.index
                                                        /\ wire[i].group = job.layout.group}
                       IN  IF hits = {} THEN [type |-> None] ELSE wire[Min(hits)].value
                  ELSE IF job.protocol = "modbus" THEN [type |-> "registers"]
                  ELSE wire IN
    /\ stage = "rejected" =>
          \/ point.error \in CodecErrors(job.protocol)
          \/ job.protocol = "opcua" /\ job.layout.datatype = "float"
    /\ stage = "decoded" =>
          /\ (point.quality = "invalid") <=> answer.type \in {"str", "container"}
          /\ answer.type = "bool" =>
                \/ job.protocol = "dnp3" /\ job.layout.group = 1
                \/ job.protocol # "dnp3" /\ job.layout.datatype = "bool"
          /\ job.protocol = "iec61850" /\ point.quality = "valid" => point.value.special = "no"

ConfigErrors(protocol) ==
    CASE protocol = "modbus" -> ModbusConfigErrors
      [] protocol = "opcua" -> OpcuaConfigErrors
      [] protocol = "dnp3" -> Dnp3ConfigErrors
      [] protocol = "iec61850" -> Iec61850ConfigErrors
      [] protocol = "mqtt" -> MqttConfigErrors
      [] protocol = "server" -> ServerConfigErrors

\* What an accepted profile owes its targets, by protocol.
ModbusServed(p) ==
    \A d \in DOMAIN p.targets :
        LET t == p.targets[d] IN
        /\ FunctionCode(t) \in IF t.access = "read" THEN ReadCodes ELSE WriteCodes
        /\ FunctionCode(t) = 6 => RegisterCount(t.datatype) = 1
        /\ UnitId(t, 1) \in 1 .. 247

MqttServed(p) ==
    \A d \in DOMAIN p.targets :
        LET t == p.targets[d] IN
        /\ t.telemetry # None =>
              /\ TelemetryIndex(p.targets)[t.telemetry] = d
              /\ Cardinality({s \in Subscriptions(p.targets) : s[1] = t.telemetry}) = 1
        /\ \A s \in Subscriptions(p.targets) : t.command # s[1]

ServerServed(p) ==
    \A i \in DOMAIN p.writes :
        LET m == p.writes[i]
            end == m.address + 1 IN
        /\ end < HoldingCount(p) /\ end \in 0 .. MaxRegister
        /\ \A r \in ToSet(p.reads) : Window(r) \cap Window(m) = {}
        /\ DecodeInbound(p, m.address, EncodeFloat32(Finite("decimal", 1)))
              = <<[device |-> m.device, value |-> 1]>>

Serves ==
    /\ profile.protocol = "modbus" => ModbusServed(profile)
    /\ profile.protocol = "mqtt" => MqttServed(profile)
    /\ profile.protocol = "server" => ServerServed(profile)

\* A profile that is accepted serves each of its targets: a Modbus target is read
\* with a reading and written with a writing code, and what needs two registers is
\* never written with the code for one; an MQTT topic leads back to its device, is
\* subscribed once, and no command that is published comes back as telemetry; a master
\* that writes a window of the server gives exactly its command, and no measured value
\* is put where a setpoint is.  A profile that is refused is refused with an error of its
\* own adapter.
AcceptedServes ==
    stage = "validated" =>
        /\ verdict \in ConfigErrors(profile.protocol) \cup {None}
        /\ verdict = None => Serves
===============================================================================
