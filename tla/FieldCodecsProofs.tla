--------------------------- MODULE FieldCodecsProofs ---------------------------
(***************************************************************************)
(* FieldCodecs for every base of a byte, every answer a device may give,   *)
(* every value that is sent and every profile: an answer ends in a point   *)
(* or in an error of its codec, a value that is sent comes back, and an    *)
(* accepted profile serves its targets.                                    *)
(***************************************************************************)
EXTENDS FieldCodecs, FiniteSetTheorems, WellFoundedInduction, TLAPS

\* What has been read is what has been answered, and what has been said of a profile is
\* one of its errors.
StageInv ==
    /\ "wire" \in DOMAIN job =>
          /\ job \in Jobs /\ wire = job.wire /\ stage \in {"encoded", "decoded", "rejected"}
          /\ stage = "decoded" => Decoded(job, wire).ok /\ point = PointOf(Decoded(job, wire).out)
          /\ stage = "rejected" => ~Decoded(job, wire).ok /\ point = [error |-> Decoded(job, wire).error]
    /\ profile.protocol # None => profile \in Profiles
    /\ stage = "validated" => profile.protocol # None /\ verdict \in Verdicts(profile)

\* The stages of a value and of a profile follow one another.
LEMMA StageEver == Spec => []StageInv
<1>1. Init => StageInv
  <2> SUFFICES ASSUME Init PROVE StageInv
    OBVIOUS
  <2>1. "wire" \notin DOMAIN [protocol |-> None]
    OBVIOUS
  <2>2. "wire" \in DOMAIN job => job \in Jobs /\ wire = job.wire /\ stage = "encoded"
    BY <2>1 DEF Init
  <2>3. stage \in {"given", "encoded"} /\ (profile.protocol # None => profile \in Profiles)
    BY DEF Init
  <2> QED
    BY <2>2, <2>3 DEF StageInv
<1>2. StageInv /\ [Next]_vars => StageInv'
  <2> SUFFICES ASSUME StageInv, [Next]_vars PROVE StageInv'
    OBVIOUS
  <2>1. CASE Validate
    <3>1. "wire" \notin DOMAIN job /\ UNCHANGED <<job, profile, wire>> /\ stage' = "validated"
          /\ profile.protocol # None
      BY <2>1 DEF Validate, StageInv
    <3>2. verdict' \in Verdicts(profile)
      BY <2>1 DEF Validate
    <3> QED
      BY <3>1, <3>2 DEF StageInv
  <2>2. CASE Encode
    <3>1. "wire" \notin DOMAIN job /\ UNCHANGED <<job, profile, verdict>>
          /\ stage' \in {"encoded", "rejected"}
      BY <2>2 DEF Encode, StageInv
    <3> QED
      BY <3>1 DEF StageInv
  <2>3. CASE Decode
    <3> DEFINE answer == Decoded(job, wire)
    <3>1. /\ UNCHANGED <<job, profile, wire, verdict>>
          /\ point' = IF answer.ok THEN PointOf(answer.out) ELSE [error |-> answer.error]
          /\ stage' = IF answer.ok THEN "decoded" ELSE "rejected"
      BY <2>3 DEF Decode
    <3>2. Decoded(job, wire)' = answer
      BY <3>1
    <3> HIDE DEF answer
    <3> QED
      BY <3>1, <3>2 DEF StageInv
  <2>4. CASE UNCHANGED vars
    BY <2>4 DEF StageInv, vars
  <2> QED
    BY <2>1, <2>2, <2>3, <2>4 DEF Next
<1> QED
  BY <1>1, <1>2, PTL DEF Spec

-------------------------------------------------------------------------------
(***************************************************************************)
(* Answers                                                                 *)
(***************************************************************************)
\* A value that is told as a number, a text that is told as invalid, or an error of its
\* codec.
Number(answer) == answer.ok /\ answer.out.type \notin {"str", "container"}
Text(answer) == answer.ok /\ answer.out.type \in {"str", "container"}
Error(answer, errors) == ~answer.ok /\ answer.error \in errors

\* The point of a number is valid and has its special value, the point of a text is not.
LEMMA PointJudged ==
    ASSUME NEW v
    PROVE  /\ v.type \in {"str", "container"} => PointOf(v).quality = "invalid"
           /\ v.type \notin {"str", "container"} => PointOf(v).quality = "valid"
           /\ v \in Values /\ v.type \notin {"str", "container"} => PointOf(v).value.special = v.special
<1>1. v \in Values => [v EXCEPT !.type = "decimal"].special = v.special
  BY DEF Values
<1> QED
  BY <1>1 DEF PointOf

\* A list of registers becomes a number.
LEMMA ModbusAnswer ==
    ASSUME NEW registers, NEW layout
    PROVE  \/ Number(DecodeRegisters(registers, layout))
           \/ Error(DecodeRegisters(registers, layout), ModbusCodecErrors)
<1> DEFINE pattern == Pattern(RegistersToBytes(WordSwap(registers, layout.swap)), layout.order)
           count == RegisterCount(layout.datatype)
           v == FloatOf("decimal", pattern)
           w == Finite("decimal", 2 * Signed(pattern, layout.datatype))
<1>1. v.type = "decimal" /\ w.type = "decimal"
  BY DEF FloatOf, Finite, Special
<1>2. DecodeRegisters(registers, layout) =
         IF Len(registers) # count THEN Refused("register_count")
         ELSE IF layout.datatype = "float32" THEN Done(v) ELSE Done(w)
  BY DEF DecodeRegisters
<1> HIDE DEF pattern, count, v, w
<1>3. DecodeRegisters(registers, layout) \in {Refused("register_count"), Done(v), Done(w)}
  BY <1>2
<1> QED
  BY <1>1, <1>3 DEF Refused, Done, Number, Error, ModbusCodecErrors

\* Of an OPC UA value only text is told as text, and only a Boolean node takes a boolean.
LEMMA OpcuaAnswer ==
    ASSUME NEW v \in Values, NEW datatype
    PROVE  LET answer == OpcuaDecode(v, datatype) IN
           /\ \/ Number(answer) /\ v.type \notin {"str", "container"}
              \/ Text(answer) /\ v.type \in {"str", "container"}
              \/ Error(answer, OpcuaCodecErrors) \/ (~answer.ok /\ datatype = "float")
           /\ answer.ok /\ v.type = "bool" => datatype = "bool"
<1>1. [v EXCEPT !.type = "decimal"].type = "decimal"
  BY DEF Values
<1> QED
  BY <1>1 DEF OpcuaDecode, Done, Refused, Leaks, Number, Text, Error, OpcuaCodecErrors

\* Of a DNP3 value no text is told, and a boolean only for a binary input.
LEMMA Dnp3Answer ==
    ASSUME NEW v \in Values, NEW layout
    PROVE  LET answer == Dnp3Decode(v, layout) IN
           /\ \/ Number(answer) /\ v.type \notin {"str", "container"}
              \/ Error(answer, Dnp3CodecErrors)
           /\ answer.ok /\ v.type = "bool" => layout.group = 1
<1>1. [v EXCEPT !.type = "decimal"].type = "decimal"
  BY DEF Values
<1> QED
  BY <1>1 DEF Dnp3Decode, Done, Refused, Number, Error, Dnp3CodecErrors

\* Of an IEC 61850 value only text is told as text, and what is told as a number is finite.
LEMMA Iec61850Answer ==
    ASSUME NEW v \in Values, NEW datatype
    PROVE  LET answer == Iec61850Decode(v, datatype) IN
           /\ \/ /\ Number(answer) /\ v.type \notin {"str", "container"}
                 /\ answer.out \in Values /\ answer.out.special = "no"
              \/ Text(answer) /\ v.type \in {"str", "container"}
              \/ Error(answer, Iec61850CodecErrors)
           /\ answer.ok /\ v.type = "bool" => datatype = "bool"
<1>1. \A t \in {"bool", "decimal"} : /\ [v EXCEPT !.type = t].type = t
                                    /\ [v EXCEPT !.type = t].special = v.special
                                    /\ v.special = "no" => [v EXCEPT !.type = t] \in Values
  BY DEF Values
<1>2. v.type \notin {"decimal", "float"} => v.special = "no"
  BY DEF Values
<1> QED
  BY <1>1, <1>2 DEF Iec61850Decode, Done, Refused, Number, Text, Error, Iec61850CodecErrors

\* Of a MQTT value no text is told and no boolean.
LEMMA MqttAnswer ==
    ASSUME NEW v \in Values
    PROVE  LET answer == MqttDecode(v) IN
           \/ Number(answer) /\ v.type \notin {"str", "container", "bool"}
           \/ Error(answer, MqttCodecErrors)
<1>1. [v EXCEPT !.type = "decimal"].type = "decimal"
  BY DEF Values
<1> QED
  BY <1>1 DEF MqttDecode, Done, Refused, Number, Error, MqttCodecErrors

\* A set of natural numbers has a least element.
LEMMA LeastOf ==
    ASSUME NEW T, T \subseteq Nat, T # {}
    PROVE  Min(T) \in T /\ \A k \in T : Min(T) <= k
<1>1. IsWellFoundedOn(OpToRel(<, Nat), Nat)
  BY NatLessThanWellFounded
<1>2. PICK m \in T : \A k \in T : ~(<<k, m>> \in OpToRel(<, Nat))
  BY <1>1, WFMin
<1>3. ASSUME NEW k \in T, k < m PROVE <<k, m>> \in OpToRel(<, Nat)
  BY <1>3 DEF OpToRel
<1>4. ASSUME NEW k \in T PROVE m <= k
  <2>1. ~(k < m)
    BY <1>2, <1>3
  <2> QED
    BY <2>1
<1> QED
  BY <1>4 DEF Min

\* What a device has answered to a read: of a poll the first point that is asked for.
Asked(poll, layout) == {i \in DOMAIN poll : poll[i].index = layout.index /\ poll[i].group = layout.group}
Answer == IF job.protocol = "dnp3"
          THEN IF Asked(wire, job.layout) = {} THEN [type |-> None]
               ELSE wire[Min(Asked(wire, job.layout))].value
          ELSE IF job.protocol = "modbus" THEN [type |-> "registers"] ELSE wire

\* A judgement of an answer: `r` is what the codec makes of it.
Judged(r, answer) ==
    /\ r.ok => (r.out.type \in {"str", "container"} <=> answer.type \in {"str", "container"})
    /\ ~r.ok => \/ r.error \in CodecErrors(job.protocol)
                \/ job.protocol = "opcua" /\ job.layout.datatype = "float"
    /\ r.ok /\ answer.type = "bool" => \/ job.protocol = "dnp3" /\ job.layout.group = 1
                                       \/ job.protocol # "dnp3" /\ job.layout.datatype = "bool"
    /\ r.ok /\ job.protocol = "iec61850" /\ r.out.type \notin {"str", "container"}
          => r.out \in Values /\ r.out.special = "no"

\* The point that is found in a poll is one of its values, or there is none.
LEMMA FindAnswer ==
    ASSUME NEW poll \in Seq([group : Int, index : Int, value : Values]), NEW layout
    PROVE  \/ Asked(poll, layout) = {} /\ Dnp3Find(poll, layout) = Refused("not_in_poll")
           \/ /\ Asked(poll, layout) # {}
              /\ poll[Min(Asked(poll, layout))].value \in Values
              /\ Dnp3Find(poll, layout) = Dnp3Decode(poll[Min(Asked(poll, layout))].value, layout)
<1> DEFINE hits == {i \in DOMAIN poll : poll[i].group = layout.group /\ poll[i].index = layout.index}
<1>1. hits = Asked(poll, layout)
  BY DEF Asked
<1>2. Dnp3Find(poll, layout) = IF hits = {} THEN Refused("not_in_poll")
                               ELSE Dnp3Decode(poll[Min(hits)].value, layout)
  BY DEF Dnp3Find
<1>3. hits \subseteq DOMAIN poll /\ DOMAIN poll \subseteq Nat
      /\ \A i \in DOMAIN poll : poll[i].value \in Values
  <2>1. ASSUME NEW i \in DOMAIN poll PROVE poll[i].value \in Values
    <3> DEFINE Points == [group : Int, index : Int, value : Values]
    <3>1. poll \in Seq(Points)
      OBVIOUS
    <3> HIDE DEF Points
    <3>2. poll[i] \in Points
      BY <3>1
    <3> QED
      BY <3>2 DEF Points
  <2>2. DOMAIN poll \subseteq Nat
    OBVIOUS
  <2> QED
    BY <2>1, <2>2
<1> HIDE DEF hits
<1>4. ASSUME hits # {} PROVE poll[Min(hits)].value \in Values
  <2>1. hits \subseteq Nat
    BY <1>3
  <2>2. Min(hits) \in hits
    BY <1>4, <2>1, LeastOf
  <2> QED
    BY <1>3, <2>2
<1> QED
  BY <1>1, <1>2, <1>4

\* Every answer of every protocol is judged.
LEMMA JobJudged ==
    ASSUME job \in Jobs, "wire" \in DOMAIN job, wire = job.wire
    PROVE  Judged(Decoded(job, wire), Answer)
<1>1. JobOK(job)
  BY JobAssumption
<1>2. CASE job.protocol = "modbus"
  <2>1. Decoded(job, wire) = DecodeRegisters(wire, job.layout) /\ Answer = [type |-> "registers"]
    BY <1>2 DEF Decoded, Answer
  <2> QED
    BY <1>2, <2>1, ModbusAnswer DEF Judged, Number, Error, CodecErrors
<1>3. CASE job.protocol = "opcua"
  <2>1. Decoded(job, wire) = OpcuaDecode(wire, job.layout.datatype) /\ Answer = wire /\ wire \in Values
    BY <1>1, <1>3 DEF Decoded, Answer, JobOK, AnsweredOK
  <2> QED
    BY <1>3, <2>1, OpcuaAnswer DEF Judged, Number, Text, Error, CodecErrors
<1>4. CASE job.protocol = "dnp3"
  <2>1. Decoded(job, wire) = Dnp3Find(wire, job.layout)
        /\ wire \in Seq([group : Int, index : Int, value : Values])
    BY <1>1, <1>4 DEF Decoded, JobOK, AnsweredOK
  <2>2. CASE Asked(wire, job.layout) = {}
    <3>1. Decoded(job, wire) = Refused("not_in_poll")
      BY <2>1, <2>2, FindAnswer
    <3> QED
      BY <1>4, <3>1 DEF Judged, Refused, CodecErrors, Dnp3CodecErrors
  <2>3. CASE Asked(wire, job.layout) # {}
    <3>1. /\ Answer \in Values /\ Decoded(job, wire) = Dnp3Decode(Answer, job.layout)
      BY <1>4, <2>1, <2>3, FindAnswer DEF Answer
    <3> QED
      BY <1>4, <3>1, Dnp3Answer DEF Judged, Number, Error, CodecErrors
  <2> QED
    BY <2>2, <2>3
<1>5. CASE job.protocol = "iec61850"
  <2>1. Decoded(job, wire) = Iec61850Decode(wire, job.layout.datatype) /\ Answer = wire /\ wire \in Values
    BY <1>1, <1>5 DEF Decoded, Answer, JobOK, AnsweredOK
  <2> QED
    BY <1>5, <2>1, Iec61850Answer DEF Judged, Number, Text, Error, CodecErrors
<1>6. CASE job.protocol = "mqtt"
  <2>1. /\ Answer = wire /\ wire \in Values
        /\ Decoded(job, wire) = IF "value" \in DOMAIN job THEN MqttDecodeCommand(wire) ELSE MqttDecode(wire)
    BY <1>1, <1>6 DEF Decoded, Answer, JobOK, AnsweredOK
  <2>2. "value" \notin DOMAIN job
    BY <1>1 DEF JobOK
  <2> QED
    BY <1>6, <2>1, <2>2, MqttAnswer DEF Judged, Number, Error, CodecErrors
<1> QED
  BY <1>1, <1>2, <1>3, <1>4, <1>5, <1>6 DEF JobOK, AnsweredOK

\* Whatever a device answers, a read ends in a point or in an error of the codec, and
\* neither a text nor a boolean passes for a number.
THEOREM AnswersEver == Spec => []AnswersAreJudged
<1>1. StageInv => AnswersAreJudged
  <2> SUFFICES ASSUME StageInv, "wire" \in DOMAIN job, stage \in {"decoded", "rejected"}
               PROVE  AnswersAreJudged
    BY DEF AnswersAreJudged
  <2> DEFINE r == Decoded(job, wire)
  <2>1. Judged(r, Answer)
    BY JobJudged DEF StageInv
  <2>2. /\ stage = "decoded" => r.ok /\ point = PointOf(r.out)
        /\ stage = "rejected" => ~r.ok /\ point.error = r.error
    BY DEF StageInv
  <2> HIDE DEF r
  <2>3. stage = "rejected" => \/ point.error \in CodecErrors(job.protocol)
                              \/ job.protocol = "opcua" /\ job.layout.datatype = "float"
    BY <2>1, <2>2 DEF Judged
  <2>4. ASSUME stage = "decoded"
        PROVE  /\ point.quality = "invalid" <=> Answer.type \in {"str", "container"}
               /\ Answer.type = "bool" => \/ job.protocol = "dnp3" /\ job.layout.group = 1
                                          \/ job.protocol # "dnp3" /\ job.layout.datatype = "bool"
               /\ job.protocol = "iec61850" /\ point.quality = "valid"
                     => point.value.special = "no"
    <3>1. /\ r.out.type \in {"str", "container"} => point.quality = "invalid"
          /\ r.out.type \notin {"str", "container"} => point.quality = "valid"
          /\ r.out \in Values /\ r.out.type \notin {"str", "container"}
                => point.value.special = r.out.special
      BY <2>2, <2>4, PointJudged
    <3> QED
      BY <2>1, <2>2, <2>4, <3>1 DEF Judged
  <2>5. Answer = IF job.protocol = "dnp3"
                 THEN LET hits == {i \in DOMAIN wire : wire[i].index = job.layout.index
                                                       /\ wire[i].group = job.layout.group}
                      IN  IF hits = {} THEN [type |-> None] ELSE wire[Min(hits)].value
                 ELSE IF job.protocol = "modbus" THEN [type |-> "registers"]
                 ELSE wire
    BY DEF Answer, Asked
  <2> HIDE DEF Answer
  <2> QED
    BY <2>3, <2>4, <2>5 DEF AnswersAreJudged
<1> QED
  BY <1>1, StageEver, PTL

-------------------------------------------------------------------------------
(***************************************************************************)
(* Profiles                                                                *)
(***************************************************************************)
\* What may be said of a profile with targets: the error of its endpoint, that it has no
\* targets, the error of one of them, or that nothing is wrong with any.
Told(p, verdicts, errors, good) ==
    \A v \in verdicts :
        \/ v = p.endpoint /\ v # None
        \/ v = "no_targets"
        \/ v \in errors /\ v # None
        \/ v = None /\ p.endpoint = None /\ good

\* A Modbus profile.
LEMMA ModbusTold ==
    ASSUME NEW p
    PROVE  Told(p, ModbusProfileErrors(p), {ModbusTargetError(p.targets[d]) : d \in DOMAIN p.targets},
                \A d \in DOMAIN p.targets : ModbusTargetError(p.targets[d]) = None)
BY DEF ModbusProfileErrors, ProfileErrors, Told

\* An OPC UA profile.
LEMMA OpcuaTold ==
    ASSUME NEW p
    PROVE  Told(p, OpcuaProfileErrors(p), {OpcuaTargetError(p.targets[d]) : d \in DOMAIN p.targets}, TRUE)
BY DEF OpcuaProfileErrors, ProfileErrors, Told

\* A DNP3 profile.
LEMMA Dnp3Told ==
    ASSUME NEW p
    PROVE  Told(p, Dnp3ProfileErrors(p), {Dnp3TargetError(p.targets[d]) : d \in DOMAIN p.targets}, TRUE)
BY DEF Dnp3ProfileErrors, ProfileErrors, Told

\* An IEC 61850 profile.
LEMMA Iec61850Told ==
    ASSUME NEW p
    PROVE  Told(p, Iec61850ProfileErrors(p),
                {Iec61850TargetError(p.targets[d]) : d \in DOMAIN p.targets}, TRUE)
BY DEF Iec61850ProfileErrors, ProfileErrors, Told

\* A MQTT profile, whose topics are compared once nothing else is wrong.
LEMMA MqttTold ==
    ASSUME NEW p
    PROVE  Told(p, MqttProfileErrors(p) \ {"duplicate_topic"},
                {MqttTargetError(p.targets[d]) : d \in DOMAIN p.targets}, UniqueTopics(p.targets))
<1> DEFINE errors == ProfileErrors(p, MqttTargetError)
<1>1. \A v \in errors : \/ v = p.endpoint /\ v # None
                        \/ v = "no_targets"
                        \/ v \in {MqttTargetError(p.targets[d]) : d \in DOMAIN p.targets} /\ v # None
                        \/ v = None /\ p.endpoint = None /\ errors = {None}
  BY DEF ProfileErrors
<1>2. MqttProfileErrors(p) = IF errors = {None} /\ ~UniqueTopics(p.targets)
                             THEN {"duplicate_topic"} ELSE errors
  BY DEF MqttProfileErrors
<1> HIDE DEF errors
<1>3. CASE errors = {None} /\ ~UniqueTopics(p.targets)
  BY <1>2, <1>3 DEF Told
<1>4. CASE ~(errors = {None} /\ ~UniqueTopics(p.targets))
  BY <1>1, <1>2, <1>4 DEF Told
<1> QED
  BY <1>3, <1>4

\* The errors of a target are errors of its adapter.
LEMMA TargetErrors ==
    ASSUME NEW t
    PROVE  /\ ModbusTargetError(t) \in ModbusConfigErrors \cup {None}
           /\ OpcuaTargetError(t) \in OpcuaConfigErrors \cup {None}
           /\ Dnp3TargetError(t) \in Dnp3ConfigErrors \cup {None}
           /\ Iec61850TargetError(t) \in Iec61850ConfigErrors \cup {None}
           /\ MqttTargetError(t) \in MqttConfigErrors \cup {None}
<1>1. ModbusTargetError(t) \in ModbusConfigErrors \cup {None}
  <2>1. ModbusTargetError(t) \in {"address", "byte_order", "access", "function_code", "code_access",
                                  "code_datatype", "unit_id", None}
    BY Zenon DEF ModbusTargetError
  <2> QED
    BY <2>1 DEF ModbusConfigErrors
<1>2. OpcuaTargetError(t) \in OpcuaConfigErrors \cup {None}
  <2>1. OpcuaTargetError(t) \in {"node_id", "namespace", "access", None}
    BY Zenon DEF OpcuaTargetError
  <2> QED
    BY <2>1 DEF OpcuaConfigErrors
<1>3. Dnp3TargetError(t) \in Dnp3ConfigErrors \cup {None}
  <2>1. Dnp3TargetError(t) \in {"group_variation", "index", "access", None}
    BY Zenon DEF Dnp3TargetError
  <2> QED
    BY <2>1 DEF Dnp3ConfigErrors
<1>4. Iec61850TargetError(t) \in Iec61850ConfigErrors \cup {None}
  <2>1. Iec61850TargetError(t) \in {"reference", "fc", "datatype", "access", None}
    BY Zenon DEF Iec61850TargetError
  <2> QED
    BY <2>1 DEF Iec61850ConfigErrors
<1>5. MqttTargetError(t) \in MqttConfigErrors \cup {None}
  <2>1. MqttTargetError(t) \in {"empty_topic", "qos", None}
    BY Zenon DEF MqttTargetError
  <2> QED
    BY <2>1 DEF MqttConfigErrors
<1> QED
  BY <1>1, <1>2, <1>3, <1>4, <1>5

\* The errors of a server configuration.
LEMMA ServerErrors ==
    ASSUME NEW p
    PROVE  ServerConfigError(p) \in ServerConfigErrors \cup {None}
BY Zenon DEF ServerConfigError, ServerConfigErrors, None

\* What is said of a profile is an error of its adapter, or that nothing is wrong.
LEMMA ErrorsOwn ==
    ASSUME NEW p, ProfileOK(p), NEW v \in Verdicts(p)
    PROVE  v \in ConfigErrors(p.protocol) \cup {None}
<1>1. CASE p.protocol = "modbus"
  <2>1. v \in ModbusProfileErrors(p) /\ p.endpoint \in ModbusConfigErrors \cup {None}
    BY <1>1 DEF Verdicts, ProfileOK, EndpointErrors, ModbusConfigErrors
  <2>2. v \in ModbusConfigErrors \cup {None}
    BY <2>1, ModbusTold, TargetErrors DEF Told, ModbusConfigErrors
  <2> QED
    BY <1>1, <2>2 DEF ConfigErrors
<1>2. CASE p.protocol = "opcua"
  <2>1. v \in OpcuaProfileErrors(p) /\ p.endpoint \in OpcuaConfigErrors \cup {None}
    BY <1>2 DEF Verdicts, ProfileOK, EndpointErrors, OpcuaConfigErrors
  <2>2. v \in OpcuaConfigErrors \cup {None}
    BY <2>1, OpcuaTold, TargetErrors DEF Told, OpcuaConfigErrors
  <2> QED
    BY <1>2, <2>2 DEF ConfigErrors
<1>3. CASE p.protocol = "dnp3"
  <2>1. v \in Dnp3ProfileErrors(p) /\ p.endpoint \in Dnp3ConfigErrors \cup {None}
    BY <1>3 DEF Verdicts, ProfileOK, EndpointErrors, Dnp3ConfigErrors
  <2>2. v \in Dnp3ConfigErrors \cup {None}
    BY <2>1, Dnp3Told, TargetErrors DEF Told, Dnp3ConfigErrors
  <2> QED
    BY <1>3, <2>2 DEF ConfigErrors
<1>4. CASE p.protocol = "iec61850"
  <2>1. v \in Iec61850ProfileErrors(p) /\ p.endpoint \in Iec61850ConfigErrors \cup {None}
    BY <1>4 DEF Verdicts, ProfileOK, EndpointErrors, Iec61850ConfigErrors
  <2>2. v \in Iec61850ConfigErrors \cup {None}
    BY <2>1, Iec61850Told, TargetErrors DEF Told, Iec61850ConfigErrors
  <2> QED
    BY <1>4, <2>2 DEF ConfigErrors
<1>5. CASE p.protocol = "mqtt"
  <2>1. v \in MqttProfileErrors(p) /\ p.endpoint \in MqttConfigErrors \cup {None}
    BY <1>5 DEF Verdicts, ProfileOK, EndpointErrors, MqttConfigErrors
  <2>2. v \in MqttConfigErrors \cup {None}
    BY <2>1, MqttTold, TargetErrors DEF Told, MqttConfigErrors
  <2> QED
    BY <1>5, <2>2 DEF ConfigErrors
<1>6. CASE p.protocol = "server"
  <2>1. v \in {p.endpoint, ServerConfigError(p)} /\ p.endpoint \in ServerConfigErrors \cup {None}
    BY <1>6 DEF Verdicts, ProfileOK, EndpointErrors, ServerConfigErrors, ServerProfileErrors
  <2> QED
    BY <1>6, <2>1, ServerErrors DEF ConfigErrors
<1> QED
  BY <1>1, <1>2, <1>3, <1>4, <1>5, <1>6 DEF ProfileOK

\* An accepted Modbus target.
LEMMA ModbusServes ==
    ASSUME NEW t, ModbusTargetError(t) = None
    PROVE  /\ FunctionCode(t) \in IF t.access = "read" THEN ReadCodes ELSE WriteCodes
           /\ FunctionCode(t) = 6 => RegisterCount(t.datatype) = 1
           /\ UnitId(t, 1) \in 1 .. 247
<1>1. /\ t.access \in Accesses
      /\ t.code = NotGiven \/ t.code \in ReadCodes \cup WriteCodes
      /\ t.code \notin (IF t.access = "read" THEN WriteCodes ELSE ReadCodes)
      /\ t.code = 6 => RegisterCount(t.datatype) = 1
      /\ t.unit = NotGiven \/ t.unit \in 1 .. 247
  BY DEF ModbusTargetError, None
<1>2. RegisterCount(t.datatype) \in {1, 2}
  BY DEF RegisterCount
<1>3. UnitId(t, 1) \in 1 .. 247
  <2>1. 1 \in 1 .. 247
    OBVIOUS
  <2> QED
    BY <1>1, <2>1, Zenon DEF UnitId
<1>4. CASE t.code # NotGiven
  <2>1. FunctionCode(t) = t.code
    BY <1>4 DEF FunctionCode
  <2> QED
    BY <1>1, <1>3, <1>4, <2>1 DEF Accesses, ReadCodes, WriteCodes
<1>5. CASE t.code = NotGiven /\ t.access = "read"
  <2>1. FunctionCode(t) = 3
    BY <1>5 DEF FunctionCode
  <2> QED
    BY <1>3, <1>5, <2>1 DEF ReadCodes
<1>6. CASE t.code = NotGiven /\ t.access # "read"
  <2>1. FunctionCode(t) = IF RegisterCount(t.datatype) = 1 THEN 6 ELSE 16
    BY <1>6 DEF FunctionCode
  <2> QED
    BY <1>2, <1>3, <1>6, <2>1 DEF WriteCodes
<1> QED
  BY <1>4, <1>5, <1>6

\* The topics of an accepted MQTT profile.
LEMMA MqttServes ==
    ASSUME NEW targets, UniqueTopics(targets), NEW d \in DOMAIN targets
    PROVE  /\ targets[d].telemetry # None =>
                 /\ TelemetryIndex(targets)[targets[d].telemetry] = d
                 /\ Cardinality({s \in Subscriptions(targets) : s[1] = targets[d].telemetry}) = 1
           /\ \A s \in Subscriptions(targets) : targets[d].command # s[1]
<1>1. \A e \in DOMAIN targets : /\ <<e, "telemetry", targets[e].telemetry>> \in TopicsOf(targets)
                                /\ <<e, "command", targets[e].command>> \in TopicsOf(targets)
  BY DEF TopicsOf
<1>2. ASSUME NEW e \in DOMAIN targets, targets[d].telemetry # None,
             targets[e].telemetry = targets[d].telemetry
      PROVE  e = d
  <2> DEFINE x == <<e, "telemetry", targets[e].telemetry>>
             y == <<d, "telemetry", targets[d].telemetry>>
  <2>1. x \in TopicsOf(targets) /\ y \in TopicsOf(targets) /\ x[3] # None /\ x[3] = y[3]
    BY <1>1, <1>2
  <2>2. x = y
    BY <2>1 DEF UniqueTopics
  <2> QED
    BY <2>2
<1>3. ASSUME NEW e \in DOMAIN targets, targets[e].telemetry # None
      PROVE  targets[d].command # targets[e].telemetry
  <2> DEFINE x == <<e, "telemetry", targets[e].telemetry>>
             y == <<d, "command", targets[d].command>>
  <2>1. SUFFICES ASSUME targets[d].command = targets[e].telemetry PROVE FALSE
    OBVIOUS
  <2>2. x \in TopicsOf(targets) /\ y \in TopicsOf(targets) /\ x[3] # None /\ x[3] = y[3]
    BY <1>1, <1>3, <2>1
  <2>3. x = y
    BY <2>2 DEF UniqueTopics
  <2>4. "telemetry" = "command"
    BY <2>3
  <2> QED
    BY <2>4
<1>4. \A s \in Subscriptions(targets) : targets[d].command # s[1]
  BY <1>3 DEF Subscriptions
<1>5. ASSUME targets[d].telemetry # None
      PROVE  /\ TelemetryIndex(targets)[targets[d].telemetry] = d
             /\ Cardinality({s \in Subscriptions(targets) : s[1] = targets[d].telemetry}) = 1
  <2> DEFINE topic == targets[d].telemetry
             topics == {targets[e].telemetry : e \in DOMAIN targets} \ {None}
  <2>1. topic \in topics
    BY <1>5
  <2>2. TelemetryIndex(targets)[topic] = CHOOSE e \in DOMAIN targets : targets[e].telemetry = topic
    BY <2>1 DEF TelemetryIndex
  <2>3. TelemetryIndex(targets)[topic] = d
    BY <1>2, <1>5, <2>2
  <2>4. {s \in Subscriptions(targets) : s[1] = topic} = {<<topic, targets[d].subscribe>>}
    BY <1>2, <1>5 DEF Subscriptions
  <2> HIDE DEF topic
  <2>5. Cardinality({<<topic, targets[d].subscribe>>}) = 1
    BY FS_Singleton
  <2> QED
    BY <2>3, <2>4, <2>5 DEF topic
<1> QED
  BY <1>4, <1>5

-------------------------------------------------------------------------------
(***************************************************************************)
(* The windows of a server                                                 *)
(***************************************************************************)
\* A server whose windows have been accepted.
Accepted(p) ==
    /\ p.reads \in Seq([address : Int, device : STRING])
    /\ p.writes \in Seq([address : Int, device : STRING])
    /\ ServerConfigError(p) = "none"

\* Small numbers are their own remainder.
LEMMA SmallRest ==
    ASSUME NEW a \in Nat, NEW b \in Nat, a < b
    PROVE  a % b = a /\ a \div b = 0
OBVIOUS

\* A float32 holds a half, and it fits in the second of two words.
LEMMA WordBounds ==
    Word \in Nat /\ Long \in Nat /\ FloatMax \in Int /\ 4 <= Word /\ 4 <= Long /\ 1 <= FloatMax
<1>1. \A a \in Nat : 2 <= a => a * a \in Nat /\ 2 * a <= a * a
  OBVIOUS
<1>2. Word \in Nat /\ 4 <= Word
  BY <1>1, ByteAssumption DEF Word
<1>3. \A a \in Nat : 4 <= a => a * a \in Nat /\ 4 * a <= a * a
  OBVIOUS
<1>4. Long \in Nat /\ 16 <= Long
  BY <1>2, <1>3 DEF Long
<1>5. \A l \in Nat : 16 <= l => l \div 2 - 2 \in Int /\ 1 <= l \div 2 - 2
  OBVIOUS
<1> QED
  BY <1>2, <1>4, <1>5 DEF FloatMax

\* A number that is written is the number that is read.
LEMMA OneSurvives ==
    /\ EncodeFloat32(Finite("decimal", 1)) = <<0, 1>>
    /\ DecodeFloat32(0, 1) = {Finite("decimal", 1)}
<1> DEFINE v == Finite("decimal", 1)
<1>1. 1 % Long = 1 /\ 1 % Word = 1 /\ 1 \div Word = 0 /\ 0 % Word = 0
  BY WordBounds, SmallRest
<1>2. FloatPattern(v) = 1
  BY <1>1 DEF FloatPattern, Finite
<1>3. v.n \in -FloatMax .. FloatMax /\ ~(v.n > FloatMax) /\ v.special = "no"
  BY WordBounds DEF Finite
<1>4. (0 % Word) * Word + (1 % Word) = 1
  BY <1>1, WordBounds
<1>5. FloatOf("decimal", 1) = v
  BY WordBounds DEF FloatOf
<1> HIDE DEF v
<1>6. EncodeFloat32(v) = <<FloatPattern(v) \div Word, FloatPattern(v) % Word>>
  BY <1>3 DEF EncodeFloat32
<1>7. DecodeFloat32(0, 1) = {v}
  BY <1>3, <1>4, <1>5 DEF DecodeFloat32
<1> QED
  BY <1>1, <1>2, <1>6, <1>7 DEF v

\* What has been accepted: addresses with room for a second register, and no register
\* twice.
LEMMA AcceptedWindows ==
    ASSUME NEW p, Accepted(p)
    PROVE  /\ \A m \in ToSet(p.reads) \cup ToSet(p.writes) : m.address \in 0 .. (MaxRegister - 1)
           /\ NoOverlap(p.reads \o p.writes)
<1>1. NoOverlap(p.reads \o p.writes)
  BY Zenon DEF Accepted, ServerConfigError
<1>2. ~(\E m \in ToSet(p.reads) : m.address \notin 0 .. (MaxRegister - 1))
  BY Zenon DEF Accepted, ServerConfigError
<1>3. ~(\E m \in ToSet(p.writes) : m.address \notin 0 .. (MaxRegister - 1))
  BY Zenon DEF Accepted, ServerConfigError
<1> QED
  BY <1>1, <1>2, <1>3

\* `all` has the elements of s, and then those of t.
Joins(all, s, t) ==
    /\ \A k \in DOMAIN s : k \in DOMAIN all /\ all[k] = s[k]
    /\ \A k \in DOMAIN t : Len(s) + k \in DOMAIN all /\ all[Len(s) + k] = t[k]

\* What is put at the end of a sequence comes after what was there.
LEMMA Appended ==
    ASSUME NEW S, NEW s \in Seq(S), NEW t \in Seq(S)
    PROVE  /\ Joins(s \o t, s, t)
           /\ Len(s) \in Nat /\ DOMAIN s = 1..Len(s) /\ Len(t) \in Nat /\ DOMAIN t = 1..Len(t)
<1>1. Len(s) \in Nat /\ Len(t) \in Nat /\ DOMAIN s = 1..Len(s) /\ DOMAIN t = 1..Len(t)
  OBVIOUS
<1>2. /\ s \o t \in Seq(S) /\ Len(s \o t) = Len(s) + Len(t)
      /\ DOMAIN (s \o t) = 1..(Len(s) + Len(t))
  OBVIOUS
<1>3. ASSUME NEW k \in DOMAIN t
      PROVE  Len(s) + k \in DOMAIN (s \o t) /\ (s \o t)[Len(s) + k] = t[k]
  <2>1. Len(s) + k \in 1..(Len(s) + Len(t)) /\ ~(Len(s) + k <= Len(s)) /\ Len(s) + k - Len(s) = k
    BY <1>1
  <2> QED
    BY <1>2, <2>1
<1>4. ASSUME NEW k \in DOMAIN s PROVE k \in DOMAIN (s \o t) /\ (s \o t)[k] = s[k]
  BY <1>1, <1>2
<1> QED
  BY <1>1, <1>3, <1>4 DEF Joins

\* The windows of an accepted server share no register: a window to be written is told by
\* its address, and no measured value is in it.
LEMMA WindowsApart ==
    ASSUME NEW p, Accepted(p), NEW j \in DOMAIN p.writes
    PROVE  /\ \A i \in DOMAIN p.writes : p.writes[i].address = p.writes[j].address => i = j
           /\ \A r \in ToSet(p.reads) : Window(r) \cap Window(p.writes[j]) = {}
<1> DEFINE reads == p.reads
           writes == p.writes
           all == reads \o writes
           n == Len(reads)
<1>1. /\ Joins(all, reads, writes)
      /\ n \in Nat /\ DOMAIN reads = 1..n /\ Len(writes) \in Nat /\ DOMAIN writes = 1..Len(writes)
  <2> DEFINE Maps == [address : Int, device : STRING]
  <2>1. reads \in Seq(Maps) /\ writes \in Seq(Maps)
    BY DEF Accepted
  <2> HIDE DEF Maps, reads, writes
  <2> QED
    BY <2>1, Appended
<1>2. NoOverlap(all)
  BY AcceptedWindows
<1>3. ToSet(reads) = {reads[i] : i \in DOMAIN reads}
  BY DEF ToSet
<1>4. j \in DOMAIN writes
  OBVIOUS
<1> HIDE DEF reads, writes, all, n
<1>5. n + j \in DOMAIN all /\ all[n + j] = writes[j]
  BY <1>1, <1>4 DEF Joins, n
<1>6. ASSUME NEW i \in DOMAIN writes, writes[i].address = writes[j].address PROVE i = j
  <2>1. n + i \in DOMAIN all /\ all[n + i] = writes[i]
    BY <1>1 DEF Joins, n
  <2>2. Window(writes[i]) \cap Window(writes[j]) # {}
    BY <1>6 DEF Window
  <2>3. n + i = n + j
    BY <1>2, <1>5, <2>1, <2>2 DEF NoOverlap
  <2> QED
    BY <1>1, <1>4, <2>3
<1>7. ASSUME NEW i \in DOMAIN reads PROVE Window(reads[i]) \cap Window(writes[j]) = {}
  <2>1. i \in DOMAIN all /\ all[i] = reads[i]
    BY <1>1 DEF Joins
  <2>2. i # n + j
    BY <1>1, <1>4
  <2> QED
    BY <1>2, <1>5, <2>1, <2>2 DEF NoOverlap
<1> QED
  BY <1>3, <1>6, <1>7 DEF reads, writes

\* The room that is made holds the last window.
LEMMA RoomFor ==
    ASSUME NEW p, Accepted(p), NEW m \in ToSet(p.writes)
    PROVE  m.address + 1 < HoldingCount(p) /\ m.address + 1 \in 0 .. MaxRegister
<1> DEFINE maps == ToSet(p.reads) \cup ToSet(p.writes)
           addresses == {w.address : w \in maps}
           rest == {MaxRegister - a : a \in addresses}
<1>1. \A w \in maps : w.address \in 0 .. (MaxRegister - 1)
  BY AcceptedWindows
<1>2. m \in maps
  OBVIOUS
<1>3. HoldingCount(p) = (CHOOSE a \in addresses : \A b \in addresses : b <= a) + 2
  BY DEF HoldingCount
<1> HIDE DEF maps
<1>4. addresses \subseteq 0 .. (MaxRegister - 1) /\ m.address \in addresses
  BY <1>1, <1>2
<1> HIDE DEF addresses
<1>5. rest \subseteq Nat /\ rest # {}
  <2>1. \A n \in Nat : \A a \in 0 .. (n - 1) : n - a \in Nat
    OBVIOUS
  <2>2. \A a \in addresses : MaxRegister - a \in Nat
    BY <1>4, <2>1, RegisterAssumption
  <2> QED
    BY <1>4, <2>2
<1> HIDE DEF rest
<1>6. PICK k \in rest : \A l \in rest : k <= l
  BY <1>5, LeastOf
<1>7. PICK a \in addresses : k = MaxRegister - a
  BY DEF rest
<1>8. ASSUME NEW b \in addresses PROVE b <= a
  <2>1. MaxRegister - a <= MaxRegister - b
    BY <1>6, <1>7 DEF rest
  <2> QED
    BY <1>4, <2>1, RegisterAssumption
<1> DEFINE last == CHOOSE x \in addresses : \A b \in addresses : b <= x
<1>9. last \in addresses /\ \A b \in addresses : b <= last
  BY <1>8
<1>10. HoldingCount(p) = last + 2
  BY <1>3
<1> HIDE DEF last
<1>11. \A n \in Nat : \A i, l \in 0 .. (n - 1) : i <= l => i + 1 < l + 2 /\ i + 1 \in 0 .. n
  OBVIOUS
<1>12. m.address \in 0 .. (MaxRegister - 1) /\ last \in 0 .. (MaxRegister - 1) /\ m.address <= last
  BY <1>4, <1>9
<1> QED
  BY <1>10, <1>11, <1>12, RegisterAssumption

\* A master that writes a window as a whole gives the command of this window, and no other.
LEMMA CommandOf ==
    ASSUME NEW p, Accepted(p), NEW j \in DOMAIN p.writes
    PROVE  DecodeInbound(p, p.writes[j].address, EncodeFloat32(Finite("decimal", 1)))
             = <<[device |-> p.writes[j].device, value |-> 1]>>
<1> DEFINE m == p.writes[j]
           a == m.address
           values == <<0, 1>>
           Got(n) == DecodeFloat32(values[n.address - a + 1], values[n.address - a + 2])
           hit == {n \in ToSet(p.writes) : Covered(n, a, Len(values)) /\ Got(n) # {}}
           Rank(n) == Cardinality({k \in hit : k.address <= n.address})
           Order(n) == [device |-> n.device, value |-> (CHOOSE v \in Got(n) : TRUE).n]
<1>1. DecodeInbound(p, a, values) = [k \in 1..Cardinality(hit) |-> Order(CHOOSE n \in hit : Rank(n) = k)]
  BY DEF DecodeInbound
<1>2. ToSet(p.writes) = {p.writes[i] : i \in DOMAIN p.writes}
  BY DEF ToSet
<1>3. \A n \in ToSet(p.writes) : n.address \in Int
  BY AcceptedWindows
<1>4. m \in ToSet(p.writes) /\ a \in Int
  BY <1>2, <1>3
<1>5. \A n \in ToSet(p.writes) : n.address = a => n = m
  BY <1>2, WindowsApart
<1>6. Got(m) = {Finite("decimal", 1)}
  <2>1. a - a + 1 = 1 /\ a - a + 2 = 2
    BY <1>4
  <2> QED
    BY <2>1, OneSurvives
<1>7. Covered(m, a, Len(values))
  <2>1. Len(values) = 2
    OBVIOUS
  <2>2. a \in a .. (a + 2 - 1) /\ a + 1 \in a .. (a + 2 - 1)
    BY <1>4
  <2> QED
    BY <2>1, <2>2 DEF Covered, Window
<1>8. ASSUME NEW n \in ToSet(p.writes), Covered(n, a, Len(values)) PROVE n = m
  <2>1. Len(values) = 2
    OBVIOUS
  <2>2. n.address \in a .. (a + 2 - 1) /\ n.address + 1 \in a .. (a + 2 - 1)
    BY <1>8, <2>1 DEF Covered, Window
  <2>3. n.address = a
    BY <1>3, <1>4, <2>2
  <2> QED
    BY <1>5, <2>3
<1>9. hit = {m}
  BY <1>4, <1>6, <1>7, <1>8
<1>10. Order(m) = [device |-> m.device, value |-> 1]
  <2>1. \A x : (CHOOSE v \in {x} : TRUE) = x
    OBVIOUS
  <2>2. (CHOOSE v \in Got(m) : TRUE) = Finite("decimal", 1)
    BY <1>6, <2>1, Zenon
  <2>3. Finite("decimal", 1).n = 1
    BY DEF Finite
  <2> QED
    BY <2>2, <2>3, Zenon
<1> HIDE DEF m, values, Got, hit, Order
<1>11. Cardinality(hit) = 1 /\ Rank(m) = 1
  <2>1. a \in Int /\ a = m.address
    BY <1>4 DEF m
  <2>2. {k \in hit : k.address <= m.address} = {m}
    BY <1>9, <2>1
  <2> QED
    BY <1>9, <2>2, FS_Singleton
<1> HIDE DEF Rank
<1>12. [k \in 1..Cardinality(hit) |-> Order(CHOOSE n \in hit : Rank(n) = k)] = <<Order(m)>>
  BY <1>9, <1>11
<1> QED
  BY <1>1, <1>10, <1>12, OneSurvives DEF m, values

-------------------------------------------------------------------------------
\* An accepted server gives its masters what it promises.
LEMMA ServerServes ==
    ASSUME NEW p, Accepted(p)
    PROVE  ServerServed(p)
<1> SUFFICES ASSUME NEW i \in DOMAIN p.writes
             PROVE  LET m == p.writes[i]
                        end == m.address + 1 IN
                    /\ end < HoldingCount(p) /\ end \in 0 .. MaxRegister
                    /\ \A r \in ToSet(p.reads) : Window(r) \cap Window(m) = {}
                    /\ DecodeInbound(p, m.address, EncodeFloat32(Finite("decimal", 1)))
                          = <<[device |-> m.device, value |-> 1]>>
  BY DEF ServerServed
<1>1. p.writes[i] \in ToSet(p.writes)
  BY DEF ToSet
<1> QED
  BY <1>1, RoomFor, WindowsApart, CommandOf

\* A profile of which nothing is wrong serves its targets.
LEMMA NothingWrong ==
    ASSUME NEW p, ProfileOK(p), None \in Verdicts(p)
    PROVE  /\ p.protocol = "modbus" => ModbusServed(p)
           /\ p.protocol = "mqtt" => MqttServed(p)
           /\ p.protocol = "server" => ServerServed(p)
<1>1. ASSUME p.protocol = "modbus" PROVE ModbusServed(p)
  <2>1. None \in ModbusProfileErrors(p)
    BY <1>1 DEF Verdicts
  <2>2. None # "no_targets"
    BY DEF None
  <2>3. \A d \in DOMAIN p.targets : ModbusTargetError(p.targets[d]) = None
    BY <2>1, <2>2, ModbusTold DEF Told
  <2> QED
    BY <2>3, ModbusServes DEF ModbusServed
<1>2. ASSUME p.protocol = "mqtt" PROVE MqttServed(p)
  <2>1. None \in MqttProfileErrors(p)
    BY <1>2 DEF Verdicts
  <2>2. None \notin {"no_targets", "duplicate_topic"}
    BY DEF None
  <2>3. UniqueTopics(p.targets)
    BY <2>1, <2>2, MqttTold DEF Told
  <2> QED
    BY <2>3, MqttServes DEF MqttServed
<1>3. ASSUME p.protocol = "server" PROVE ServerServed(p)
  <2>1. None \in {IF p.endpoint # None THEN p.endpoint ELSE ServerConfigError(p)}
    BY <1>3 DEF Verdicts, ServerProfileErrors
  <2>2. ServerConfigError(p) = "none"
    BY <2>1 DEF None
  <2>3. Accepted(p)
    BY <1>3, <2>2 DEF ProfileOK, Accepted
  <2> QED
    BY <2>3, ServerServes
<1> QED
  BY <1>1, <1>2, <1>3

\* A profile that is accepted serves each of its targets, and one that is refused is refused
\* with an error of its adapter (the configurations of the protocol adapters and of the
\* server).
THEOREM AcceptedEver == Spec => []AcceptedServes
<1>1. StageInv => AcceptedServes
  <2> SUFFICES ASSUME StageInv, stage = "validated"
               PROVE  /\ verdict \in ConfigErrors(profile.protocol) \cup {None}
                      /\ verdict = None => Serves
    BY DEF AcceptedServes
  <2>1. ProfileOK(profile) /\ verdict \in Verdicts(profile)
    BY ProfileAssumption DEF StageInv
  <2>2. verdict \in ConfigErrors(profile.protocol) \cup {None}
    BY <2>1, ErrorsOwn
  <2>3. ASSUME verdict = None PROVE Serves
    <3>1. /\ profile.protocol = "modbus" => ModbusServed(profile)
          /\ profile.protocol = "mqtt" => MqttServed(profile)
          /\ profile.protocol = "server" => ServerServed(profile)
      BY <2>1, <2>3, NothingWrong
    <3> QED
      BY <3>1 DEF Serves
  <2> QED
    BY <2>2, <2>3
<1> QED
  BY <1>1, StageEver, PTL

-------------------------------------------------------------------------------
(***************************************************************************)
(* The bytes of a number.  A quotient and a remainder are a number taken   *)
(* apart; the digits of a number to the base Byte are bytes.               *)
(***************************************************************************)
Digits == 0 .. (Byte - 1)

\* A number that is put together of a quotient and a remainder has these.
LEMMA QuotientOf ==
    ASSUME NEW a \in Nat, 0 < a, NEW q \in Int, NEW u \in 0 .. (a - 1)
    PROVE  (q * a + u) \div a = q /\ (q * a + u) % a = u
OBVIOUS

\* A quotient and a remainder give the number they are of.
LEMMA Quotients ==
    ASSUME NEW a \in Nat, 0 < a, NEW p \in Nat
    PROVE  p \div a \in Nat /\ p % a \in 0 .. (a - 1) /\ p = (p \div a) * a + (p % a)
<1> DEFINE q == p \div a
           u == p - q * a
           r == p % a
<1>1. q \in Int /\ q * a <= p /\ p < q * a + a
  OBVIOUS
<1>2. q \in Nat
  OBVIOUS
<1> HIDE DEF q
<1>3. q * a \in Int
  BY <1>1
<1>4. u \in 0 .. (a - 1) /\ p = q * a + u
  BY <1>1, <1>3
<1> HIDE DEF u
<1>5. p % a = u
  BY <1>1, <1>4, QuotientOf
<1> HIDE DEF r
<1>6. r = u
  BY <1>5 DEF r
<1>7. q \in Nat /\ r \in 0 .. (a - 1) /\ p = q * a + r
  BY <1>2, <1>4, <1>6
<1> QED
  BY <1>7, Zenon DEF q, r

\* A number below a multiple has a quotient below the factor.
LEMMA QuotientBelow ==
    ASSUME NEW a \in Nat, 0 < a, NEW b \in Nat, NEW p \in Nat, p < b * a
    PROVE  p \div a < b
OBVIOUS

\* The remainder of a small negative number.
LEMMA RestBelow ==
    ASSUME NEW a \in Nat, 0 < a, NEW x \in Int, -a <= x, x < 0
    PROVE  x % a = x + a
OBVIOUS

\* What a list of two or of four, and its registers, look like.
LEMMA Lists ==
    /\ \A x, y : Reverse(<<x, y>>) = <<y, x>>
    /\ \A x, y, z, w : Reverse(<<x, y, z, w>>) = <<w, z, y, x>>
    /\ \A x, y : BytesToRegisters(<<x, y>>) = <<x * Byte + y>>
    /\ \A x, y, z, w : BytesToRegisters(<<x, y, z, w>>) = <<x * Byte + y, z * Byte + w>>
    /\ \A x : RegistersToBytes(<<x>>) = <<x \div Byte, x % Byte>>
    /\ \A x, y : RegistersToBytes(<<x, y>>) = <<x \div Byte, x % Byte, y \div Byte, y % Byte>>
<1>1. \A x, y : Reverse(<<x, y>>) = <<y, x>>
  BY DEF Reverse
<1>2. \A x, y, z, w : Reverse(<<x, y, z, w>>) = <<w, z, y, x>>
  BY DEF Reverse
<1>3. \A x, y : BytesToRegisters(<<x, y>>) = <<x * Byte + y>>
  BY DEF BytesToRegisters
<1>4. \A x, y, z, w : BytesToRegisters(<<x, y, z, w>>) = <<x * Byte + y, z * Byte + w>>
  BY DEF BytesToRegisters
<1>5. \A x : RegistersToBytes(<<x>>) = <<x \div Byte, x % Byte>>
  BY DEF RegistersToBytes
<1>6. \A x, y : RegistersToBytes(<<x, y>>) = <<x \div Byte, x % Byte, y \div Byte, y % Byte>>
  BY DEF RegistersToBytes
<1> QED
  BY <1>1, <1>2, <1>3, <1>4, <1>5, <1>6

\* Two bytes make a word, and a word has two bytes.
LEMMA WordOfBytes ==
    /\ \A x, y \in Digits : (x * Byte + y) \div Byte = x /\ (x * Byte + y) % Byte = y
    /\ \A w \in 0 .. (Word - 1) : /\ w \div Byte \in Digits /\ w % Byte \in Digits
                                  /\ w = (w \div Byte) * Byte + (w % Byte)
<1>1. Byte \in Nat /\ 0 < Byte
  BY ByteAssumption
<1>2. ASSUME NEW x \in Digits, NEW y \in Digits
      PROVE  (x * Byte + y) \div Byte = x /\ (x * Byte + y) % Byte = y
  BY <1>1, QuotientOf DEF Digits
<1>3. ASSUME NEW w \in 0 .. (Word - 1)
      PROVE  /\ w \div Byte \in Digits /\ w % Byte \in Digits
             /\ w = (w \div Byte) * Byte + (w % Byte)
  <2>1. w \in Nat /\ w < Byte * Byte
    BY WordBounds DEF Word
  <2>2. /\ w \div Byte \in Nat /\ w % Byte \in 0 .. (Byte - 1)
        /\ w = (w \div Byte) * Byte + (w % Byte)
    BY <1>1, <2>1, Quotients
  <2>3. w \div Byte < Byte
    BY <1>1, <2>1, QuotientBelow
  <2> DEFINE q == w \div Byte
             r == w % Byte
  <2>4. q \in Nat /\ q < Byte /\ r \in 0 .. (Byte - 1) /\ w = q * Byte + r
    BY <2>2, <2>3
  <2> HIDE DEF q, r
  <2>5. q \in Digits /\ r \in Digits /\ w = q * Byte + r
    BY <1>1, <2>4 DEF Digits
  <2> QED
    BY <2>5, Zenon DEF q, r
<1> QED
  BY <1>2, <1>3

\* A number of two registers has two words.
LEMMA WordsOf ==
    ASSUME NEW p \in 0 .. (Long - 1)
    PROVE  /\ p \div Word \in 0 .. (Word - 1) /\ p % Word \in 0 .. (Word - 1)
           /\ p = (p \div Word) * Word + (p % Word)
<1>1. p \in Nat /\ p < Word * Word /\ Word \in Nat /\ 0 < Word
  BY WordBounds DEF Long
<1>2. /\ p \div Word \in Nat /\ p % Word \in 0 .. (Word - 1)
      /\ p = (p \div Word) * Word + (p % Word)
  BY <1>1, Quotients
<1>3. p \div Word < Word
  BY <1>1, QuotientBelow
<1> DEFINE q == p \div Word
           r == p % Word
<1>4. q \in Nat /\ q < Word /\ r \in 0 .. (Word - 1) /\ p = q * Word + r
  BY <1>2, <1>3
<1> HIDE DEF q, r
<1>5. q \in 0 .. (Word - 1) /\ r \in 0 .. (Word - 1) /\ p = q * Word + r
  BY <1>1, <1>4
<1> QED
  BY <1>5, Zenon DEF q, r

\* The bytes of a number, in either order, are its digits and give the number again.
LEMMA BytesBack ==
    ASSUME NEW count \in {1, 2}, NEW p \in 0 .. (Capacity(count) - 1),
           NEW order \in {"big_endian", "little_endian"}
    PROVE  /\ Pattern(Bytes(p, count, order), order) = p
           /\ IF count = 1 THEN \E x, y \in Digits : Bytes(p, count, order) = <<x, y>>
              ELSE \E x, y, z, w \in Digits : Bytes(p, count, order) = <<x, y, z, w>>
<1>1. ASSUME count = 1
      PROVE  \E x, y \in Digits : /\ p = x * Byte + y
                                  /\ Bytes(p, count, order) = IF order = "big_endian" THEN <<x, y>> ELSE <<y, x>>
  <2> DEFINE x == p \div Byte
             y == p % Byte
  <2>1. p \in 0 .. (Word - 1)
    BY <1>1 DEF Capacity
  <2>2. x \in Digits /\ y \in Digits /\ p = x * Byte + y
    BY <2>1, WordOfBytes
  <2>3. Bytes(p, count, order) = IF order = "big_endian" THEN <<x, y>> ELSE Reverse(<<x, y>>)
    BY <1>1 DEF Bytes
  <2> HIDE DEF x, y
  <2> QED
    BY <2>2, <2>3, Lists
<1>2. ASSUME count = 2
      PROVE  \E x, y, z, w \in Digits :
                /\ p = (x * Byte + y) * Word + (z * Byte + w)
                /\ Bytes(p, count, order) = IF order = "big_endian" THEN <<x, y, z, w>> ELSE <<w, z, y, x>>
  <2> DEFINE high == p \div Word
             low == p % Word
             x == high \div Byte
             y == high % Byte
             z == low \div Byte
             w == low % Byte
  <2>1. p \in 0 .. (Long - 1)
    BY <1>2 DEF Capacity
  <2>2. high \in 0 .. (Word - 1) /\ low \in 0 .. (Word - 1) /\ p = high * Word + low
    BY <2>1, WordsOf
  <2>3. Bytes(p, count, order) = IF order = "big_endian" THEN <<x, y, z, w>> ELSE Reverse(<<x, y, z, w>>)
    BY <1>2 DEF Bytes
  <2> HIDE DEF high, low
  <2>4. /\ x \in Digits /\ y \in Digits /\ high = x * Byte + y
        /\ z \in Digits /\ w \in Digits /\ low = z * Byte + w
    BY <2>2, WordOfBytes
  <2> HIDE DEF x, y, z, w
  <2>5. Reverse(<<x, y, z, w>>) = <<w, z, y, x>>
    BY Lists
  <2>6. p = (x * Byte + y) * Word + (z * Byte + w)
    BY <2>2, <2>4
  <2> QED
    BY <2>3, <2>4, <2>5, <2>6
<1>3. \A x, y : /\ Pattern(<<x, y>>, "big_endian") = x * Byte + y
                /\ Pattern(<<y, x>>, "little_endian") = x * Byte + y
  BY Lists DEF Pattern
<1>4. \A x, y, z, w : /\ Pattern(<<x, y, z, w>>, "big_endian") = (x * Byte + y) * Word + (z * Byte + w)
                      /\ Pattern(<<w, z, y, x>>, "little_endian") = (x * Byte + y) * Word + (z * Byte + w)
  BY Lists DEF Pattern
<1>5. CASE count = 1
  BY <1>1, <1>3, <1>5
<1>6. CASE count = 2
  BY <1>2, <1>4, <1>6
<1> QED
  BY <1>5, <1>6

\* Registers keep the bytes they are made of.
LEMMA RegistersBack ==
    /\ \A x, y \in Digits : RegistersToBytes(BytesToRegisters(<<x, y>>)) = <<x, y>>
    /\ \A x, y, z, w \in Digits : RegistersToBytes(BytesToRegisters(<<x, y, z, w>>)) = <<x, y, z, w>>
<1>1. ASSUME NEW x \in Digits, NEW y \in Digits
      PROVE  RegistersToBytes(BytesToRegisters(<<x, y>>)) = <<x, y>>
  <2> DEFINE r == x * Byte + y
  <2>1. r \div Byte = x /\ r % Byte = y
    BY WordOfBytes
  <2>2. BytesToRegisters(<<x, y>>) = <<r>>
    BY Lists
  <2> HIDE DEF r
  <2> QED
    BY <2>1, <2>2, Lists
<1>2. ASSUME NEW x \in Digits, NEW y \in Digits, NEW z \in Digits, NEW w \in Digits
      PROVE  RegistersToBytes(BytesToRegisters(<<x, y, z, w>>)) = <<x, y, z, w>>
  <2> DEFINE r == x * Byte + y
             s == z * Byte + w
  <2>1. r \div Byte = x /\ r % Byte = y /\ s \div Byte = z /\ s % Byte = w
    BY WordOfBytes
  <2>2. BytesToRegisters(<<x, y, z, w>>) = <<r, s>>
    BY Lists
  <2> HIDE DEF r, s
  <2> QED
    BY <2>1, <2>2, Lists
<1> QED
  BY <1>1, <1>2

\* Swapping words twice leaves them, and a single word is never swapped.
LEMMA SwappedBack ==
    ASSUME NEW swap
    PROVE  /\ \A x : WordSwap(<<x>>, swap) = <<x>>
           /\ \A x, y : WordSwap(WordSwap(<<x, y>>, swap), swap) = <<x, y>> /\ Len(WordSwap(<<x, y>>, swap)) = 2
<1>1. \A x : WordSwap(<<x>>, swap) = <<x>>
  BY DEF WordSwap
<1>2. \A x, y : Len(<<x, y>>) = 2
  OBVIOUS
<1>3. ASSUME swap PROVE \A x, y : WordSwap(<<x, y>>, swap) = <<y, x>>
  BY <1>2, <1>3, Lists, Zenon DEF WordSwap
<1>4. ASSUME ~swap PROVE \A x, y : WordSwap(<<x, y>>, swap) = <<x, y>>
  BY <1>4, Zenon DEF WordSwap
<1> QED
  BY <1>1, <1>2, <1>3, <1>4

\* What is packed in a layout is unpacked in it.
LEMMA PackedBack ==
    ASSUME NEW layout, layout.order \in {"big_endian", "little_endian"},
           NEW p \in 0 .. (Capacity(RegisterCount(layout.datatype)) - 1)
    PROVE  /\ Len(Pack(p, layout)) = RegisterCount(layout.datatype)
           /\ Pattern(RegistersToBytes(WordSwap(Pack(p, layout), layout.swap)), layout.order) = p
<1> DEFINE count == RegisterCount(layout.datatype)
           bytes == Bytes(p, count, layout.order)
           registers == BytesToRegisters(bytes)
<1>1. count \in {1, 2}
  BY DEF RegisterCount
<1>2. Pack(p, layout) = WordSwap(registers, layout.swap)
  BY DEF Pack
<1> HIDE DEF count
<1>3. /\ Pattern(bytes, layout.order) = p
      /\ IF count = 1 THEN \E x, y \in Digits : bytes = <<x, y>>
         ELSE \E x, y, z, w \in Digits : bytes = <<x, y, z, w>>
  BY <1>1, BytesBack DEF count
<1> HIDE DEF bytes
<1>4. /\ RegistersToBytes(registers) = bytes
      /\ IF count = 1 THEN \E r : registers = <<r>> ELSE \E r, s : registers = <<r, s>>
  <2>1. CASE count = 1
    <3>1. PICK x, y \in Digits : bytes = <<x, y>>
      BY <1>3, <2>1
    <3>2. RegistersToBytes(BytesToRegisters(<<x, y>>)) = <<x, y>>
          /\ BytesToRegisters(<<x, y>>) = <<x * Byte + y>>
      BY RegistersBack, Lists
    <3> QED
      BY <2>1, <3>1, <3>2
  <2>2. CASE count = 2
    <3>1. PICK x, y, z, w \in Digits : bytes = <<x, y, z, w>>
      BY <1>3, <2>2
    <3>2. RegistersToBytes(BytesToRegisters(<<x, y, z, w>>)) = <<x, y, z, w>>
          /\ BytesToRegisters(<<x, y, z, w>>) = <<x * Byte + y, z * Byte + w>>
      BY RegistersBack, Lists
    <3> QED
      BY <2>2, <3>1, <3>2
  <2> QED
    BY <1>1, <2>1, <2>2
<1> HIDE DEF registers
<1>5. WordSwap(WordSwap(registers, layout.swap), layout.swap) = registers
      /\ Len(WordSwap(registers, layout.swap)) = count
  <2>1. CASE count = 1
    BY <1>4, <2>1, SwappedBack
  <2>2. CASE count = 2
    BY <1>4, <2>2, SwappedBack
  <2> QED
    BY <1>1, <2>1, <2>2
<1> QED
  BY <1>2, <1>3, <1>4, <1>5 DEF count

-------------------------------------------------------------------------------
(***************************************************************************)
(* The numbers of a register                                               *)
(***************************************************************************)
Integral == {"int16", "uint16", "int32", "uint32"}

\* The two's complement of an integer is a pattern, and gives the integer.
LEMMA SignedBack ==
    ASSUME NEW datatype \in Integral, NEW x \in IntRange(datatype)
    PROVE  LET cap == Capacity(RegisterCount(datatype)) IN
           x % cap \in 0 .. (cap - 1) /\ Signed(x % cap, datatype) = x
<1> DEFINE cap == Capacity(RegisterCount(datatype))
           range == IntRange(datatype)
           p == x % cap
<1>1. cap \in Nat /\ 4 <= cap
  BY WordBounds DEF Capacity, RegisterCount
<1>2. range = -(cap \div 2) .. (cap \div 2 - 1) \/ range = 0 .. (cap - 1)
  BY DEF Capacity, RegisterCount, IntRange, Integral
<1>3. Signed(p, datatype) = IF p \in range THEN p ELSE p - cap
  BY DEF Signed
<1>4. x \in range
  OBVIOUS
<1> HIDE DEF cap, range
<1>5. \A c \in Nat : 4 <= c => c \div 2 \in Nat /\ c \div 2 <= c - (c \div 2) /\ c \div 2 < c
  OBVIOUS
<1> DEFINE h == cap \div 2
<1>6. h \in Nat /\ h <= cap - h /\ h < cap
  BY <1>1, <1>5
<1> HIDE DEF h
<1>7. x \in Int /\ -h <= x /\ x < cap /\ (x < 0 => range = -h .. (h - 1))
  BY <1>1, <1>2, <1>4, <1>6 DEF h
<1>8. CASE x >= 0
  <2>1. p = x
    BY <1>1, <1>7, <1>8, SmallRest
  <2> HIDE DEF p
  <2> QED
    BY <1>1, <1>3, <1>4, <1>7, <1>8, <2>1 DEF p, cap
<1>9. CASE x < 0
  <2>1. p = x + cap
    BY <1>1, <1>6, <1>7, <1>9, RestBelow
  <2> HIDE DEF p
  <2>2. p \notin range /\ p \in 0 .. (cap - 1)
    BY <1>1, <1>6, <1>7, <1>9, <2>1
  <2>3. Signed(p, datatype) = x
    BY <1>1, <1>3, <1>7, <2>1, <2>2
  <2> QED
    BY <2>2, <2>3 DEF p, cap
<1> QED
  BY <1>7, <1>8, <1>9

\* Half of the patterns of a float32 are left for negative numbers.
LEMMA FloatBounds ==
    /\ Long \in Nat /\ 16 <= Long /\ FloatMax \in Nat /\ FloatMax < Long \div 2 - 1
    /\ Long \div 2 \in Nat /\ Long \div 2 + 1 < Long - FloatMax /\ Long \div 2 + 1 < Long
<1>1. \A a \in Nat : 4 <= a => a * a \in Nat /\ 16 <= a * a
  OBVIOUS
<1>2. Long \in Nat /\ 16 <= Long
  BY <1>1, WordBounds DEF Long
<1>3. \A l \in Nat : 16 <= l => /\ l \div 2 \in Nat /\ l \div 2 - 2 \in Nat
                                /\ l \div 2 + 1 < l - (l \div 2 - 2) /\ l \div 2 + 1 < l
  OBVIOUS
<1> QED
  BY <1>2, <1>3 DEF FloatMax

\* A number that a float32 holds has a pattern, which gives the number.
LEMMA FloatBack ==
    ASSUME NEW v, v.special = "no", v.n \in -FloatMax .. FloatMax, NEW type
    PROVE  FloatPattern(v) \in 0 .. (Long - 1) /\ FloatOf(type, FloatPattern(v)) = Finite(type, v.n)
<1> DEFINE n == v.n
           p == n % Long
           half == Long \div 2
<1>1. /\ Long \in Nat /\ 0 < Long /\ FloatMax \in Nat /\ half \in Nat
      /\ FloatMax < half - 1 /\ half + 1 < Long - FloatMax /\ half + 1 < Long
  BY FloatBounds
<1>2. FloatPattern(v) = p
  BY DEF FloatPattern
<1>3. FloatOf(type, p) = CASE p <= FloatMax -> Finite(type, p)
                           [] p = FloatMax + 1 -> Special(type, "inf")
                           [] p = half -> Special(type, "nan")
                           [] p = half + 1 -> Special(type, "-inf")
                           [] OTHER -> Finite(type, p - Long)
  BY DEF FloatOf
<1>4. n \in Int /\ -FloatMax <= n /\ n <= FloatMax
  BY <1>1
<1> HIDE DEF half
<1>5. CASE n >= 0
  <2>1. p = n
    BY <1>1, <1>4, <1>5, SmallRest
  <2> HIDE DEF n, p
  <2>2. FloatOf(type, p) = Finite(type, p) /\ p \in 0 .. (Long - 1)
    BY <1>1, <1>3, <1>4, <1>5, <2>1
  <2> QED
    BY <1>2, <2>1, <2>2 DEF n
<1>6. CASE n < 0
  <2>1. p = n + Long
    BY <1>1, <1>4, <1>6, RestBelow
  <2> HIDE DEF n, p
  <2>2. /\ ~(p <= FloatMax) /\ p # FloatMax + 1 /\ p # half /\ p # half + 1
        /\ p - Long = n /\ p \in 0 .. (Long - 1)
    BY <1>1, <1>4, <1>6, <2>1
  <2>3. FloatOf(type, p) = Finite(type, n)
    BY <1>3, <2>2
  <2> QED
    BY <1>2, <2>2, <2>3 DEF n
<1> QED
  BY <1>4, <1>5, <1>6

\* What is not finite has a pattern that is no number.
LEMMA SpecialBack ==
    ASSUME NEW v, v.special \in {"nan", "inf", "-inf"}, NEW type
    PROVE  FloatPattern(v) \in 0 .. (Long - 1) /\ FloatOf(type, FloatPattern(v)).special # "no"
<1> DEFINE p == FloatPattern(v)
           half == Long \div 2
<1>1. /\ Long \in Nat /\ FloatMax \in Nat /\ half \in Nat
      /\ FloatMax < half - 1 /\ half + 1 < Long
  BY FloatBounds
<1>2. p \in {half, FloatMax + 1, half + 1}
  BY DEF FloatPattern
<1>3. FloatOf(type, p) = CASE p <= FloatMax -> Finite(type, p)
                           [] p = FloatMax + 1 -> Special(type, "inf")
                           [] p = half -> Special(type, "nan")
                           [] p = half + 1 -> Special(type, "-inf")
                           [] OTHER -> Finite(type, p - Long)
  BY DEF FloatOf
<1> HIDE DEF p, half
<1>4. ~(p <= FloatMax) /\ p \in 0 .. (Long - 1)
  BY <1>1, <1>2
<1>5. FloatOf(type, p) \in {Special(type, "inf"), Special(type, "nan"), Special(type, "-inf")}
  BY <1>2, <1>3, <1>4
<1> QED
  BY <1>4, <1>5 DEF Special, p

\* The server reads the two words of a pattern.
LEMMA FloatWords ==
    ASSUME NEW p \in 0 .. (Long - 1)
    PROVE  DecodeFloat32(p \div Word, p % Word) =
             LET v == FloatOf("decimal", p) IN IF v.special = "no" THEN {v} ELSE {}
<1> DEFINE high == p \div Word
           low == p % Word
<1>1. high \in 0 .. (Word - 1) /\ low \in 0 .. (Word - 1) /\ p = high * Word + low
  BY WordsOf
<1> HIDE DEF high, low
<1>2. high % Word = high /\ low % Word = low
  BY <1>1, WordBounds, SmallRest
<1>3. (high % Word) * Word + (low % Word) = p
  BY <1>1, <1>2
<1>4. DecodeFloat32(high, low) = LET v == FloatOf("decimal", (high % Word) * Word + (low % Word))
                                 IN  IF v.special = "no" THEN {v} ELSE {}
  BY DEF DecodeFloat32
<1> HIDE DEF high, low
<1>5. DecodeFloat32(high, low) = LET v == FloatOf("decimal", p) IN IF v.special = "no" THEN {v} ELSE {}
  BY <1>3, <1>4
<1> QED
  BY <1>5 DEF high, low

\* What the server reads of what it has encoded: the number, or nothing.
LEMMA ServedBack ==
    ASSUME NEW v \in Values
    PROVE  LET words == EncodeFloat32(v) IN
           DecodeFloat32(words[1], words[2]) # {} =>
               /\ v.special = "no" /\ v.n \in -FloatMax .. FloatMax
               /\ DecodeFloat32(words[1], words[2]) = {Finite("decimal", v.n)}
<1> DEFINE fits == v.special = "no" /\ v.n \in -FloatMax .. FloatMax
           saturated == CASE v.special # "no" \/ v.n \in -FloatMax .. FloatMax -> v
                          [] v.n > FloatMax -> Special(v.type, "inf")
                          [] OTHER -> Special(v.type, "-inf")
           p == FloatPattern(saturated)
           words == EncodeFloat32(v)
<1>1. words = <<p \div Word, p % Word>>
  BY DEF EncodeFloat32
<1>2. v.special \in {"no", "nan", "inf", "-inf"} /\ v.n \in Int
  BY DEF Values
<1>3. ASSUME fits
      PROVE  p \in 0 .. (Long - 1) /\ FloatOf("decimal", p) = Finite("decimal", v.n)
  <2>1. saturated = v
    BY <1>3, FloatBounds
  <2> HIDE DEF saturated
  <2> QED
    BY <1>3, <2>1, FloatBack
<1>4. ASSUME ~fits
      PROVE  p \in 0 .. (Long - 1) /\ FloatOf("decimal", p).special # "no"
  <2>1. saturated.special \in {"nan", "inf", "-inf"}
    BY <1>2, <1>4 DEF Special
  <2> HIDE DEF saturated
  <2> QED
    BY <2>1, SpecialBack
<1> HIDE DEF p, words
<1>5. words[1] = p \div Word /\ words[2] = p % Word
  BY <1>1
<1>6. CASE fits
  <2>1. FloatOf("decimal", p).special = "no"
    BY <1>3, <1>6 DEF Finite
  <2>2. DecodeFloat32(words[1], words[2]) = {Finite("decimal", v.n)}
    BY <1>3, <1>5, <1>6, <2>1, FloatWords
  <2> QED
    BY <1>6, <2>2 DEF words
<1>7. CASE ~fits
  <2>1. DecodeFloat32(words[1], words[2]) = {}
    BY <1>4, <1>5, <1>7, FloatWords
  <2> QED
    BY <2>1 DEF words
<1> QED
  BY <1>6, <1>7

-------------------------------------------------------------------------------
(***************************************************************************)
(* Values that are sent                                                    *)
(***************************************************************************)
\* What is read of a command: a finite number, `n` halves, if it is read at all.
Returned(r, n) ==
    r.ok => r.out \in Values /\ r.out.type \in Numbers /\ r.out.special = "no" /\ r.out.n = n

\* The halves a target that is read gives of a number of `n` halves: an integer has no
\* fraction.
Kept(datatype, n) == IF datatype \in Integral THEN 2 * Trunc(n) ELSE n

\* A number is a value.
LEMMA NumberIsValue ==
    ASSUME NEW type \in Numbers, NEW n \in Int
    PROVE  /\ Finite(type, n) \in Values /\ Finite(type, n).type = type
           /\ Finite(type, n).special = "no" /\ Finite(type, n).n = n
BY DEF Values, Finite, Numbers

\* A number that is cut off is an integer.
LEMMA TruncInt == ASSUME NEW n \in Int PROVE Trunc(n) \in Int
BY DEF Trunc

\* What Modbus registers take, they give back: a float32 the number, an integer the number
\* without its fraction.
LEMMA ModbusBack ==
    ASSUME NEW v \in Values, v.type \in Numbers, NEW layout,
           layout.datatype \in Integral \cup {"float32"},
           layout.order \in {"big_endian", "little_endian"},
           EncodeValue(v, layout).ok
    PROVE  LET words == EncodeValue(v, layout).out IN
           /\ v.special = "no"
           /\ DecodeRegisters(words, layout) = Done(Finite("decimal", Kept(layout.datatype, v.n)))
           /\ layout.datatype = "float32" => /\ v.n \in -FloatMax .. FloatMax
                                             /\ words = Pack(FloatPattern(v), layout)
<1> DEFINE count == RegisterCount(layout.datatype)
           code == EncodeValue(v, layout)
<1>1. v.n \in Int
  BY DEF Values
<1>2. code = IF layout.datatype = "float32" THEN EncodeFloat(v, layout) ELSE EncodeInt(v, layout)
  BY DEF EncodeValue, Numbers
<1>3. ASSUME NEW p \in 0 .. (Capacity(count) - 1), code = Done(Pack(p, layout))
      PROVE  DecodeRegisters(code.out, layout) =
               IF layout.datatype = "float32" THEN Done(FloatOf("decimal", p))
               ELSE Done(Finite("decimal", 2 * Signed(p, layout.datatype)))
  <2> HIDE DEF code
  <2>1. code.out = Pack(p, layout)
    BY <1>3 DEF Done
  <2>2. /\ Len(code.out) = count
        /\ Pattern(RegistersToBytes(WordSwap(code.out, layout.swap)), layout.order) = p
    BY <2>1, PackedBack
  <2> QED
    BY <2>2 DEF DecodeRegisters
<1>4. CASE layout.datatype = "float32"
  <2>1. /\ v.special = "no" /\ v.n \in -FloatMax .. FloatMax
        /\ code = Done(Pack(FloatPattern(v), layout))
    BY <1>2, <1>4 DEF EncodeFloat, Refused, Leaks
  <2>2. Capacity(count) = Long
    BY <1>4 DEF Capacity, RegisterCount
  <2>3. FloatPattern(v) \in 0 .. (Long - 1) /\ FloatOf("decimal", FloatPattern(v)) = Finite("decimal", v.n)
    BY <2>1, FloatBack
  <2>4. DecodeRegisters(code.out, layout) = Done(Finite("decimal", v.n))
    BY <1>3, <1>4, <2>1, <2>2, <2>3
  <2>5. Kept(layout.datatype, v.n) = v.n
    BY <1>4 DEF Kept, Integral
  <2> QED
    BY <2>1, <2>4, <2>5 DEF Done
<1>5. CASE layout.datatype \in Integral
  <2> DEFINE x == Trunc(v.n)
             p == x % Capacity(count)
  <2>1. layout.datatype # "float32"
    BY <1>5 DEF Integral
  <2>2. v.special = "no" /\ x \in IntRange(layout.datatype) /\ code = Done(Pack(p, layout))
    BY <1>2, <2>1 DEF EncodeInt, Refused, Leaks
  <2>3. p \in 0 .. (Capacity(count) - 1) /\ Signed(p, layout.datatype) = x
    BY <1>5, <2>2, SignedBack
  <2> HIDE DEF p
  <2>4. DecodeRegisters(code.out, layout) = Done(Finite("decimal", 2 * x))
    BY <1>3, <2>1, <2>2, <2>3
  <2>5. Kept(layout.datatype, v.n) = 2 * x
    BY <1>5 DEF Kept
  <2> QED
    BY <2>1, <2>2, <2>4, <2>5
<1> QED
  BY <1>4, <1>5

\* An OPC UA node gives back what it takes.
LEMMA OpcuaBack ==
    ASSUME NEW v \in Values, v.type \in Numbers, NEW datatype \in Datatypes("opcua"),
           OpcuaEncode(v, datatype).ok
    PROVE  v.special = "no"
           /\ Returned(OpcuaDecode(OpcuaEncode(v, datatype).out, datatype), Kept(datatype, v.n))
<1> DEFINE code == OpcuaEncode(v, datatype)
           x == Trunc(v.n)
<1>1. v.n \in Int /\ (v.type = "bool" => v.special = "no")
  BY DEF Values
<1>2. 2 * x \in Int
  BY <1>1, TruncInt
<1> DEFINE fits == x \in IntRange(datatype)
           asIt == Done(v)
           asFloat == Done(Finite("float", v.n))
           asInt == Done(Finite("int", 2 * x))
           own == v.type = (IF datatype = "bool" THEN "bool" ELSE "str")
<1>3. code = CASE datatype \in {"bool", "string"} -> IF own THEN asIt ELSE Refused("payload_type")
               [] v.type \notin Numbers \ {"bool"} -> Refused("payload_type")
               [] datatype \in {"float", "double"} ->
                     IF v.special = "no" THEN asFloat ELSE Refused("non_finite")
               [] v.special # "no" \/ ~fits -> Refused("out_of_range")
               [] OTHER -> asInt
  BY DEF OpcuaEncode
<1>4. code.ok
  OBVIOUS
<1>5. \A e : ~Refused(e).ok
  BY DEF Refused
<1> HIDE DEF code, x, fits, asIt, asFloat, asInt, own
<1>6. \/ datatype \in {"bool", "string"} /\ own /\ code = asIt
      \/ datatype \in {"float", "double"} /\ v.special = "no" /\ code = asFloat
      \/ datatype \notin {"bool", "string", "float", "double"} /\ v.special = "no" /\ code = asInt
  BY <1>3, <1>4, <1>5
<1> USE DEF asIt, asFloat, asInt, own
<1>7. CASE datatype \in {"bool", "string"} /\ v.type = (IF datatype = "bool" THEN "bool" ELSE "str")
           /\ code = Done(v)
  <2>1. datatype = "bool" /\ v.type = "bool"
    BY <1>7 DEF Numbers
  <2>2. OpcuaDecode(v, datatype) = Done(v)
    BY <2>1 DEF OpcuaDecode
  <2>3. Kept(datatype, v.n) = v.n
    BY <2>1 DEF Kept, Integral
  <2> QED
    BY <1>1, <1>7, <2>1, <2>2, <2>3 DEF Returned, Done, code
<1>8. CASE datatype \in {"float", "double"} /\ v.special = "no" /\ code = Done(Finite("float", v.n))
  <2> DEFINE w == Finite("float", v.n)
  <2>1. w \in Values /\ w.type = "float" /\ w.special = "no" /\ w.n = v.n
    BY <1>1, NumberIsValue DEF Numbers
  <2>2. [w EXCEPT !.type = "decimal"] = Finite("decimal", v.n)
    BY DEF Finite
  <2> HIDE DEF w
  <2>3. OpcuaDecode(w, datatype) \in {Leaks, Done([w EXCEPT !.type = "decimal"])}
    BY <1>8, <2>1 DEF OpcuaDecode
  <2>4. Kept(datatype, v.n) = v.n
    BY <1>8 DEF Kept, Integral
  <2>5. code.out = w
    BY <1>8 DEF Done, w
  <2>6. Returned(Done(Finite("decimal", v.n)), v.n) /\ Returned(Leaks, v.n)
    BY <1>1, NumberIsValue DEF Returned, Done, Leaks, Refused, Numbers
  <2> QED
    BY <1>8, <2>2, <2>3, <2>4, <2>5, <2>6 DEF code
<1>9. CASE datatype \notin {"bool", "string", "float", "double"} /\ v.special = "no"
           /\ code = Done(Finite("int", 2 * x))
  <2> DEFINE w == Finite("int", 2 * x)
  <2>1. w \in Values /\ w.type = "int" /\ w.special = "no" /\ w.n = 2 * x
    BY <1>2, NumberIsValue DEF Numbers
  <2> HIDE DEF w
  <2>2. OpcuaDecode(w, datatype) = Done(w)
    BY <1>9, <2>1 DEF OpcuaDecode
  <2>3. datatype \in Integral
    BY <1>9 DEF Datatypes, Integral
  <2>4. code.out = w /\ Kept(datatype, v.n) = 2 * x
    BY <1>9, <2>3 DEF Done, w, x, Kept
  <2>5. Returned(Done(w), 2 * x)
    BY <2>1 DEF Returned, Done, Numbers
  <2> QED
    BY <1>9, <2>2, <2>4, <2>5 DEF code
<1> QED
  BY <1>6, <1>7, <1>8, <1>9

\* The point of a number is its number.
LEMMA PointOfNumber ==
    ASSUME NEW v \in Values, v.type \in Numbers
    PROVE  PointOf(v).value.special = v.special /\ PointOf(v).value.n = v.n
<1>1. [v EXCEPT !.type = "decimal"].special = v.special /\ [v EXCEPT !.type = "decimal"].n = v.n
  BY DEF Values
<1>2. v.type \notin {"str", "container"}
  BY DEF Numbers
<1> QED
  BY <1>1, <1>2 DEF PointOf

\* In the default layout the registers are the words of the pattern, as the server lays
\* them out.
DefaultLayout == [datatype |-> "float32", order |-> "big_endian", swap |-> FALSE]

\* The registers of the default layout.
LEMMA DefaultWords ==
    ASSUME NEW p \in 0 .. (Long - 1)
    PROVE  Pack(p, DefaultLayout) = <<p \div Word, p % Word>>
<1> DEFINE high == p \div Word
           low == p % Word
<1>1. high \in 0 .. (Word - 1) /\ low \in 0 .. (Word - 1)
  BY WordsOf
<1>2. Bytes(p, 2, "big_endian") = <<high \div Byte, high % Byte, low \div Byte, low % Byte>>
  BY DEF Bytes
<1> HIDE DEF high, low
<1>3. /\ (high \div Byte) * Byte + (high % Byte) = high
      /\ (low \div Byte) * Byte + (low % Byte) = low
  BY <1>1, WordOfBytes
<1>4. BytesToRegisters(Bytes(p, 2, "big_endian")) = <<high, low>>
  BY <1>2, <1>3, Lists
<1>5. Pack(p, DefaultLayout) = WordSwap(BytesToRegisters(Bytes(p, 2, "big_endian")), FALSE)
  BY DEF Pack, DefaultLayout, RegisterCount
<1>6. Pack(p, DefaultLayout) = <<high, low>>
  BY <1>4, <1>5 DEF WordSwap
<1> QED
  BY <1>6 DEF high, low

\* What the client encodes in the default layout the server encodes alike, and reads.
LEMMA LaidOutAlike ==
    ASSUME NEW v \in Values, v.special = "no", v.n \in -FloatMax .. FloatMax
    PROVE  LET words == Pack(FloatPattern(v), DefaultLayout) IN
           /\ words = EncodeFloat32(v)
           /\ {x.n : x \in DecodeFloat32(words[1], words[2])} = {v.n}
<1> DEFINE p == FloatPattern(v)
           words == Pack(p, DefaultLayout)
<1>1. p \in 0 .. (Long - 1) /\ FloatOf("decimal", p) = Finite("decimal", v.n)
  BY FloatBack
<1>2. EncodeFloat32(v) = <<p \div Word, p % Word>>
  <2> DEFINE saturated == CASE v.special # "no" \/ v.n \in -FloatMax .. FloatMax -> v
                            [] v.n > FloatMax -> Special(v.type, "inf")
                            [] OTHER -> Special(v.type, "-inf")
  <2>1. saturated = v
    BY FloatBounds
  <2>2. EncodeFloat32(v) = <<FloatPattern(saturated) \div Word, FloatPattern(saturated) % Word>>
    BY DEF EncodeFloat32
  <2> HIDE DEF saturated
  <2> QED
    BY <2>1, <2>2
<1> HIDE DEF p
<1>3. words = <<p \div Word, p % Word>>
  BY <1>1, DefaultWords
<1> HIDE DEF words
<1>4. words[1] = p \div Word /\ words[2] = p % Word
  BY <1>3
<1>5. DecodeFloat32(words[1], words[2]) = {Finite("decimal", v.n)}
  <2>1. DecodeFloat32(p \div Word, p % Word) = LET x == FloatOf("decimal", p)
                                               IN  IF x.special = "no" THEN {x} ELSE {}
    BY <1>1, FloatWords
  <2>2. FloatOf("decimal", p).special = "no"
    BY <1>1 DEF Finite
  <2> QED
    BY <1>1, <1>4, <2>1, <2>2
<1>6. Finite("decimal", v.n).n = v.n
  BY DEF Finite
<1>7. {x.n : x \in DecodeFloat32(words[1], words[2])} = {v.n}
  BY <1>5, <1>6
<1> QED
  BY <1>2, <1>3, <1>7 DEF words, p

\* A value that is sent is encoded and decoded once, and nothing else happens to it.
SentInv ==
    "value" \in DOMAIN job =>
        /\ job \in Jobs /\ profile.protocol = None
        /\ stage \in {"given", "encoded", "decoded", "rejected"}
        /\ stage \in {"encoded", "decoded"} => Encoded(job).ok /\ wire = Encoded(job).out
        /\ stage = "decoded" => Decoded(job, wire).ok /\ point = PointOf(Decoded(job, wire).out)

\* The way of a value that is sent.
LEMMA SentEver == Spec => []SentInv
<1>1. Init => SentInv
  <2> SUFFICES ASSUME Init, "value" \in DOMAIN job PROVE SentInv
    BY DEF SentInv
  <2>1. "value" \notin DOMAIN [protocol |-> None]
    OBVIOUS
  <2>2. job \in Jobs /\ profile = [protocol |-> None]
    BY <2>1 DEF Init
  <2>3. "wire" \notin DOMAIN job
    BY <2>2, JobAssumption DEF JobOK
  <2>4. stage = "given"
    BY <2>3 DEF Init
  <2> QED
    BY <2>2, <2>4 DEF SentInv
<1>2. SentInv /\ [Next]_vars => SentInv'
  <2> SUFFICES ASSUME SentInv, [Next]_vars, "value" \in DOMAIN job' PROVE SentInv'
    BY DEF SentInv
  <2>1. job' = job /\ profile' = profile
    BY DEF Next, Validate, Encode, Decode, vars
  <2>2. /\ job \in Jobs /\ profile.protocol = None
        /\ stage \in {"given", "encoded", "decoded", "rejected"}
        /\ stage \in {"encoded", "decoded"} => Encoded(job).ok /\ wire = Encoded(job).out
        /\ stage = "decoded" => Decoded(job, wire).ok /\ point = PointOf(Decoded(job, wire).out)
    BY <2>1 DEF SentInv
  <2>3. CASE Validate
    BY <2>2, <2>3 DEF Validate
  <2>4. CASE Encode
    <3> DEFINE code == Encoded(job)
    <3>1. /\ wire' = IF code.ok THEN code.out ELSE <<code.error>>
          /\ stage' = IF code.ok THEN "encoded" ELSE "rejected"
      BY <2>4 DEF Encode
    <3>2. Encoded(job)' = code
      BY <2>1
    <3> HIDE DEF code
    <3> QED
      BY <2>1, <2>2, <3>1, <3>2 DEF SentInv
  <2>5. CASE Decode
    <3> DEFINE code == Encoded(job)
               answer == Decoded(job, wire)
    <3>1. /\ wire' = wire /\ stage = "encoded"
          /\ point' = IF answer.ok THEN PointOf(answer.out) ELSE [error |-> answer.error]
          /\ stage' = IF answer.ok THEN "decoded" ELSE "rejected"
      BY <2>5 DEF Decode
    <3>2. Encoded(job)' = code /\ Decoded(job, wire)' = answer
      BY <2>1, <3>1
    <3>3. code.ok /\ wire = code.out
      BY <2>2, <3>1
    <3> HIDE DEF code, answer
    <3> QED
      BY <2>1, <2>2, <3>1, <3>2, <3>3 DEF SentInv
  <2>6. CASE UNCHANGED vars
    BY <2>6 DEF SentInv, vars
  <2> QED
    BY <2>3, <2>4, <2>5, <2>6 DEF Next
<1> QED
  BY <1>1, <1>2, PTL DEF Spec

\* What any protocol reads of what it has sent.
LEMMA SentReturned ==
    ASSUME job \in Jobs, "value" \in DOMAIN job, job.value.type \in Numbers, Encoded(job).ok
    PROVE  Returned(Decoded(job, Encoded(job).out), Sent)
           /\ (Decoded(job, Encoded(job).out).ok => job.value.special = "no")
<1> DEFINE v == job.value
           layout == job.layout
<1>1. SentOK(job)
  BY JobAssumption DEF JobOK
<1>2. v \in Values /\ v.n \in Int
  BY <1>1 DEF SentOK, Values
<1>3. CASE job.protocol = "modbus"
  <2>1. layout.datatype \in Integral \cup {"float32"} /\ layout.order \in {"big_endian", "little_endian"}
    BY <1>1, <1>3 DEF SentOK, Datatypes, Integral
  <2>2. Encoded(job) = EncodeValue(v, layout)
    BY <1>3 DEF Encoded
  <2>3. \A w : Decoded(job, w) = DecodeRegisters(w, layout)
    BY <1>3 DEF Decoded
  <2>4. Sent = Kept(layout.datatype, v.n)
    BY <1>3 DEF Sent, Kept, Integral
  <2>5. Kept(layout.datatype, v.n) \in Int
    BY <1>2, TruncInt DEF Kept
  <2> HIDE DEF v, layout
  <2>6. v.special = "no" /\ Decoded(job, Encoded(job).out) = Done(Finite("decimal", Sent))
    BY <1>2, <2>1, <2>2, <2>3, <2>4, ModbusBack DEF v
  <2>7. Returned(Done(Finite("decimal", Sent)), Sent)
    BY <2>4, <2>5, NumberIsValue DEF Returned, Done, Numbers
  <2> QED
    BY <2>6, <2>7 DEF v
<1>4. CASE job.protocol = "opcua"
  <2>1. layout.datatype \in Datatypes("opcua")
    BY <1>1, <1>4 DEF SentOK
  <2>2. Encoded(job) = OpcuaEncode(v, layout.datatype)
    BY <1>4 DEF Encoded
  <2>3. \A w : Decoded(job, w) = OpcuaDecode(w, layout.datatype)
    BY <1>4 DEF Decoded
  <2>4. Sent = Kept(layout.datatype, v.n)
    BY <1>4 DEF Sent, Kept, Integral
  <2> HIDE DEF v, layout
  <2> QED
    BY <1>2, <2>1, <2>2, <2>3, <2>4, OpcuaBack DEF v
<1>5. CASE job.protocol = "mqtt"
  <2>1. Encoded(job) = MqttEncode(v)
    BY <1>5 DEF Encoded
  <2>2. \A w : Decoded(job, w) = Done(w)
    BY <1>5 DEF Decoded, MqttDecodeCommand
  <2>3. Sent = v.n
    BY <1>5 DEF Sent
  <2> HIDE DEF v
  <2>4. v.special = "no" /\ Encoded(job).out = v
    BY <2>1 DEF MqttEncode, Leaks, Refused, Done
  <2> QED
    BY <1>2, <2>2, <2>3, <2>4 DEF Returned, Done, v
<1>6. CASE job.protocol = "server"
  <2> DEFINE words == EncodeFloat32(v)
             read == DecodeFloat32(words[1], words[2])
  <2>1. Encoded(job).out = words
    BY <1>6 DEF Encoded, Done
  <2>2. \A w : Decoded(job, w) = IF DecodeFloat32(w[1], w[2]) = {} THEN Refused("non_finite")
                                 ELSE Done(CHOOSE x \in DecodeFloat32(w[1], w[2]) : TRUE)
    BY <1>6 DEF Decoded
  <2>3. Decoded(job, words) = IF read = {} THEN Refused("non_finite") ELSE Done(CHOOSE x \in read : TRUE)
    BY <2>2
  <2>4. Sent = v.n
    BY <1>6 DEF Sent
  <2>5. read # {} => v.special = "no" /\ read = {Finite("decimal", v.n)}
    BY <1>2, ServedBack
  <2> HIDE DEF v, words, read
  <2>6. CASE read = {}
    BY <2>1, <2>3, <2>6 DEF Returned, Refused
  <2>7. CASE read # {}
    <3>1. (CHOOSE x \in read : TRUE) = Finite("decimal", v.n)
      BY <2>5, <2>7
    <3>2. Returned(Done(Finite("decimal", v.n)), v.n)
      BY <1>2, NumberIsValue DEF Returned, Done, Numbers
    <3> QED
      BY <2>1, <2>3, <2>4, <2>5, <2>7, <3>1, <3>2 DEF v
  <2> QED
    BY <2>6, <2>7
<1> QED
  BY <1>1, <1>3, <1>4, <1>5, <1>6 DEF SentOK

\* What a command sends is what a read of the same target gives: for an integer target
\* without the fraction, and for nothing that does not fit; and the client and the server
\* lay a float32 out alike.
THEOREM ValuesEver == Spec => []ValuesSurvive
<1>1. SentInv => ComesBack
  <2> SUFFICES ASSUME SentInv, "value" \in DOMAIN job, stage = "decoded", job.value.type \in Numbers
               PROVE  point.value.special = job.value.special /\ point.value.n = Sent
    BY DEF ComesBack
  <2> DEFINE code == Encoded(job)
             answer == Decoded(job, code.out)
  <2>1. job \in Jobs /\ code.ok /\ answer.ok /\ point = PointOf(answer.out)
    BY DEF SentInv
  <2>2. Returned(answer, Sent) /\ job.value.special = "no"
    BY <2>1, SentReturned
  <2> HIDE DEF answer
  <2>3. answer.out \in Values /\ answer.out.type \in Numbers
        /\ answer.out.special = "no" /\ answer.out.n = Sent
    BY <2>1, <2>2 DEF Returned
  <2> QED
    BY <2>1, <2>2, <2>3, PointOfNumber
<1>2. SentInv => SameLayout
  <2> SUFFICES ASSUME SentInv, job.protocol = "modbus", job.layout = DefaultLayout,
                      "value" \in DOMAIN job, stage \in {"encoded", "decoded"}
               PROVE  /\ wire = EncodeFloat32(job.value)
                      /\ {v.n : v \in DecodeFloat32(wire[1], wire[2])} = {job.value.n}
    BY DEF SameLayout, DefaultLayout
  <2> DEFINE v == job.value
  <2>1. job \in Jobs /\ Encoded(job).ok /\ wire = Encoded(job).out
    BY DEF SentInv
  <2>2. Encoded(job) = EncodeValue(v, DefaultLayout)
    BY DEF Encoded
  <2>3. v \in Values
    BY <2>1, JobAssumption DEF JobOK, SentOK
  <2> HIDE DEF v
  <2>4. v.type \in Numbers
    BY <2>1, <2>2 DEF EncodeValue, Refused, Numbers
  <2>5. DefaultLayout.datatype = "float32" /\ DefaultLayout.order = "big_endian"
    BY DEF DefaultLayout
  <2>6. v.special = "no" /\ v.n \in -FloatMax .. FloatMax /\ wire = Pack(FloatPattern(v), DefaultLayout)
    BY <2>1, <2>2, <2>3, <2>4, <2>5, ModbusBack
  <2>7. wire = EncodeFloat32(v) /\ {x.n : x \in DecodeFloat32(wire[1], wire[2])} = {v.n}
    BY <2>3, <2>6, LaidOutAlike
  <2> QED
    BY <2>7 DEF v
<1> QED
  BY <1>1, <1>2, SentEver, PTL DEF ValuesSurvive
===============================================================================
