------------------------------ MODULE FieldPorts ------------------------------
(***************************************************************************)
(* The protocol ports of a run: TickLoop.start_protocol_ports and          *)
(* stop_protocol_ports over the five adapters (Modbus, OPC UA, DNP3,       *)
(* IEC 61850, MQTT), reads and writes through them, and the two wrappers   *)
(* a caller may put around a port (spans, communication failures).         *)
(*                                                                         *)
(* The loop starts and stops one port after the other; between two of      *)
(* these steps an MQTT message arrives in the network thread, and an OPC   *)
(* UA write that has timed out for its caller is sent by the event loop,   *)
(* or takes effect at the server, which no step of the client recalls.     *)
(* What a device or a network answers is a choice of the environment; what *)
(* the codecs make of a value is in module FieldCodecs.                    *)
(***************************************************************************)
EXTENDS Integers, Sequences, SequencesExt

CONSTANTS
    Setups,      \* the ports to run: sequences of [kind, targets -> accesses]
    Stranger,    \* a target no port has
    MaxCalls,    \* bound: calls of start_protocol_ports and stop_protocol_ports
    MaxMessages, \* bound: MQTT messages
    MaxWrites    \* bound: OPC UA writes

VARIABLES
    ports,     \* TickLoop._protocol_ports
    started,   \* TickLoop._started_protocol_port_indices
    call,      \* the call in progress: what it does, and to which ports still
    outcome,   \* how the last call ended
    client,    \* the ports that hold a client (_client and _started)
    link,      \* the ports whose device answers over that client
    loop,      \* OpcuaLoopThread._loop: "on" while the adapter holds a loop, else "off"
    writes,    \* every OPC UA write: its port, where it is, whether write() returned
    server,    \* the OPC UA writes that took effect, by number, in order
    queue,     \* MqttDeviceProtocolPort._queues
    arrived,   \* history: the points decoded for each MQTT target
    taken,     \* history: the points read of each MQTT target
    messages,  \* history: how many messages have arrived
    calls,     \* history: how many calls were made
    excused    \* history: ports the loop may have lost track of

session == <<client, link, loop>>
opcua   == <<writes, server>>
mqtt    == <<queue, arrived, taken, messages>>
calling == <<ports, started, call, outcome, calls, excused>>
vars    == <<calling, session, opcua, mqtt>>

Kinds == {"modbus", "opcua", "dnp3", "iec61850", "mqtt"}

ASSUME SetupAssumption ==
    \A s \in Setups :
        /\ Len(s) \in Nat /\ DOMAIN s = 1..Len(s)
        /\ \A p \in DOMAIN s :
              /\ s[p].kind \in Kinds
              /\ Stranger \notin DOMAIN s[p].targets
              /\ \A t \in DOMAIN s[p].targets :
                    s[p].targets[t] \in (SUBSET {"read", "write"}) \ {{}}
ASSUME PortBounds == {MaxCalls, MaxMessages, MaxWrites} \subseteq Nat

Targets(p) == DOMAIN ports[p].targets

\* The targets of MQTT ports: a topic has one device, so names are unique.
MqttTargets(s) ==
    UNION {DOMAIN s[p].targets : p \in {q \in DOMAIN s : s[q].kind = "mqtt"}}

-------------------------------------------------------------------------------
(***************************************************************************)
(* Errors, each as the set of its base classes                             *)
(***************************************************************************)
Untyped == {}
StartError == {"port", "start"}
StopError  == {"port", "stop"}
ReadError  == {"port", "read"}
WriteError == {"port", "write"}
UnknownTarget == {"port", "target"}

ModbusErrors ==
    [connect |-> StartError, disconnect |-> StopError, unknown |-> UnknownTarget,
     read_not_started |-> ReadError, write_not_started |-> WriteError,
     read_failed |-> ReadError, write_failed |-> WriteError, missing_payload |-> WriteError,
     read_access |-> ReadError, write_access |-> WriteError, leak |-> Untyped]

\* OpcuaLoopThreadStartTimeoutError is a RuntimeError only.
OpcuaErrors ==
    [connect |-> StartError, disconnect |-> StopError, unknown |-> UnknownTarget,
     read_not_started |-> ReadError, write_not_started |-> WriteError,
     read_failed |-> ReadError, write_failed |-> WriteError, missing_payload |-> WriteError,
     read_access |-> ReadError, write_access |-> WriteError,
     loop_start |-> Untyped, leak |-> Untyped]

Dnp3Errors ==
    [connect |-> StartError, disconnect |-> StopError, unknown |-> UnknownTarget,
     read_not_started |-> ReadError, write_not_started |-> WriteError,
     read_failed |-> ReadError, write_not_implemented |-> WriteError,
     read_access |-> ReadError, write_access |-> WriteError, leak |-> Untyped]

Iec61850Errors ==
    [connect |-> StartError, disconnect |-> StopError, unknown |-> UnknownTarget,
     read_not_started |-> ReadError, write_not_started |-> WriteError,
     read_failed |-> ReadError, write_not_implemented |-> WriteError,
     read_access |-> ReadError, write_access |-> WriteError]

MqttErrors ==
    [connect |-> StartError, disconnect |-> StopError, unknown |-> UnknownTarget,
     write_not_started |-> WriteError, no_command_topic |-> WriteError,
     publish_failed |-> WriteError, leak |-> Untyped]

Errors ==
    [modbus |-> ModbusErrors, opcua |-> OpcuaErrors, dnp3 |-> Dnp3Errors,
     iec61850 |-> Iec61850Errors, mqtt |-> MqttErrors]

Error(p, name) == Errors[ports[p].kind][name]

-------------------------------------------------------------------------------
(***************************************************************************)
(* Start and stop of one port.  A result says which of client and link it  *)
(* leaves behind, what becomes of the event loop, and the error.           *)
(***************************************************************************)
Fine(up, thread) == [ok |-> TRUE, error |-> Untyped, client |-> up, link |-> up, loop |-> thread]

Failed(error, up, connected, thread) ==
    [ok |-> FALSE, error |-> error, client |-> up, link |-> connected, loop |-> thread]

ModbusStart(p) == {Fine(TRUE, "off"), Failed(ModbusErrors.connect, FALSE, FALSE, "off")}

Dnp3Start(p) == {Fine(TRUE, "off"), Failed(Dnp3Errors.connect, FALSE, FALSE, "off")}

MqttStart(p) == {Fine(TRUE, "off"), Failed(MqttErrors.connect, FALSE, FALSE, "off")}

\* What connect() returns is ignored: the port may believe in a link it has not.
Iec61850Start(p) ==
    {Fine(TRUE, "off"), Failed(Iec61850Errors.connect, FALSE, FALSE, "off"),
     [Fine(TRUE, "off") EXCEPT !.link = FALSE]}

\* OpcuaLoopThread.stop: the thread ends, unless it does not join in time; then it
\* lives on, and the adapter has no loop either way.
LoopStopped == {"off", "hung"}

\* The thread of the loop that does not come up in time raises past the adapter.
OpcuaStart(p) ==
    {Fine(TRUE, "on"), Failed(OpcuaErrors.loop_start, FALSE, FALSE, "off")}
      \cup {Failed(OpcuaErrors.connect, FALSE, FALSE, thread) : thread \in LoopStopped}

StartResults(p) ==
    IF p \in client THEN {[Fine(TRUE, loop[p]) EXCEPT !.link = p \in link]}
    ELSE CASE ports[p].kind = "modbus" -> ModbusStart(p)
           [] ports[p].kind = "opcua" -> OpcuaStart(p)
           [] ports[p].kind = "dnp3" -> Dnp3Start(p)
           [] ports[p].kind = "iec61850" -> Iec61850Start(p)
           [] OTHER -> MqttStart(p)

\* Client and flag are forgotten before the library closes the connection.
ModbusStop(p) == {Fine(FALSE, "off"), Failed(ModbusErrors.disconnect, FALSE, FALSE, "off")}

Dnp3Stop(p) == {Fine(FALSE, "off"), Failed(Dnp3Errors.disconnect, FALSE, FALSE, "off")}

MqttStop(p) == {Fine(FALSE, "off"), Failed(MqttErrors.disconnect, FALSE, FALSE, "off")}

\* They are kept when disconnect() fails, so that stop() can be called again.
Iec61850Stop(p) ==
    {Fine(FALSE, "off"), Failed(Iec61850Errors.disconnect, TRUE, p \in link, "off")}

\* Mutant: a failed disconnect leaves the event loop running.
OpcuaStopHalf(p) ==
    {Fine(FALSE, thread) : thread \in LoopStopped}
      \cup {Failed(OpcuaErrors.disconnect, FALSE, FALSE, "on")}

\* The event loop is stopped whether or not disconnect() fails.
OpcuaStop(p) ==
    {Fine(FALSE, thread) : thread \in LoopStopped}
      \cup {Failed(OpcuaErrors.disconnect, FALSE, FALSE, thread) : thread \in LoopStopped}

StopResults(p) ==
    IF p \notin client THEN {[Fine(FALSE, loop[p]) EXCEPT !.link = p \in link]}
    ELSE CASE ports[p].kind = "modbus" -> ModbusStop(p)
           [] ports[p].kind = "opcua" -> OpcuaStop(p)
           [] ports[p].kind = "dnp3" -> Dnp3Stop(p)
           [] ports[p].kind = "iec61850" -> Iec61850Stop(p)
           [] OTHER -> MqttStop(p)

With(set, p, member) == IF member THEN set \cup {p} ELSE set \ {p}

\* The coroutines still in the loop are cancelled with it, or left to a thread that
\* did not join; what has been sent is out of reach, and so is what older threads hold.
Abandoned(w, p, thread) ==
    IF thread = "on" \/ w.port # p \/ w.at # "loop" THEN w
    ELSE [w EXCEPT !.at = IF thread = "hung" THEN "left" ELSE "gone"]

Become(p, r) ==
    /\ client' = With(client, p, r.client)
    /\ link' = With(link, p, r.link)
    /\ loop' = [loop EXCEPT ![p] = IF r.loop = "on" THEN "on" ELSE "off"]
    /\ writes' = [n \in DOMAIN writes |-> Abandoned(writes[n], p, r.loop)]

-------------------------------------------------------------------------------
(***************************************************************************)
(* TickLoop.start_protocol_ports and stop_protocol_ports                   *)
(***************************************************************************)
Idle == [op |-> "none", todo |-> <<>>]

Init ==
    /\ ports \in Setups
    /\ started = <<>> /\ call = Idle /\ outcome = "none" /\ calls = 0 /\ excused = {}
    /\ client = {} /\ link = {} /\ loop = [p \in DOMAIN ports |-> "off"]
    /\ writes = <<>> /\ server = <<>>
    /\ queue = [t \in MqttTargets(ports) |-> <<>>]
    /\ arrived = queue /\ taken = queue /\ messages = 0

Begin(op, todo) ==
    /\ call = Idle /\ calls < MaxCalls /\ calls' = calls + 1
    /\ call' = [op |-> op, todo |-> todo]
    /\ UNCHANGED <<ports, started, outcome, excused, session, opcua, mqtt>>

\* `todo` lists the ports this call has started.
StartPorts == Begin("start", <<>>)

StopPorts == Begin("stop", started)

End(how) == call' = Idle /\ outcome' = how

StartNext ==
    LET p == Len(call.todo) + 1 IN
    /\ call.op = "start" /\ p <= Len(ports)
    /\ \E r \in StartResults(p) :
          /\ Become(p, r)
          /\ CASE r.ok ->
                    /\ call' = [call EXCEPT !.todo = Append(@, p)]
                    /\ UNCHANGED <<started, outcome, excused>>
               [] "port" \in r.error ->
                    /\ call' = [call EXCEPT !.op = "clean"]
                    /\ UNCHANGED <<started, outcome, excused>>
               [] OTHER ->
                    /\ End("start_leaked")
                    /\ excused' = excused \cup {q \in 1..Len(call.todo) : q \in client}
                    /\ UNCHANGED started
    /\ UNCHANGED <<ports, calls, server, mqtt>>

StartDone ==
    /\ call.op = "start" /\ Len(call.todo) = Len(ports)
    /\ started' = call.todo /\ End("started")
    /\ excused' = {}
    /\ UNCHANGED <<ports, calls, session, opcua, mqtt>>

\* Mutant: the clean-up begins with the port that failed and ends there.
CleanNextOnce ==
    LET p == Last(call.todo) IN
    /\ call.op = "clean" /\ call.todo # <<>>
    /\ \E r \in StopResults(p) :
          /\ Become(p, r)
          /\ call' = [call EXCEPT !.todo = <<>>]
          /\ excused' = With(excused, p, ~r.ok)
    /\ UNCHANGED <<ports, started, outcome, calls, server, mqtt>>

\* Whatever stop() raises, the ports before are stopped too.
CleanNext ==
    LET p == Last(call.todo) IN
    /\ call.op = "clean" /\ call.todo # <<>>
    /\ \E r \in StopResults(p) :
          /\ Become(p, r)
          /\ call' = [call EXCEPT !.todo = Front(@)]
          /\ excused' = With(excused, p, ~r.ok)
    /\ UNCHANGED <<ports, started, outcome, calls, server, mqtt>>

CleanDone ==
    /\ call.op = "clean" /\ call.todo = <<>>
    /\ started' = <<>> /\ End("start_failed")
    /\ UNCHANGED <<ports, calls, excused, session, opcua, mqtt>>

\* The first stop() that raises ends the call; `started` stays as it was.
StopNext ==
    LET p == Last(call.todo) IN
    /\ call.op = "stop" /\ call.todo # <<>>
    /\ \E r \in StopResults(p) :
          /\ Become(p, r)
          /\ IF r.ok THEN call' = [call EXCEPT !.todo = Front(@)] /\ UNCHANGED outcome
             ELSE End("stop_failed")
    /\ UNCHANGED <<ports, started, excused, calls, server, mqtt>>

StopDone ==
    /\ call.op = "stop" /\ call.todo = <<>>
    /\ started' = <<>> /\ End("stopped")
    /\ UNCHANGED <<ports, calls, excused, session, opcua, mqtt>>

-------------------------------------------------------------------------------
(***************************************************************************)
(* The environment and the threads of the adapters                         *)
(***************************************************************************)
\* The connection of a started port breaks; nothing in the adapter notices.
LinkLost(p) ==
    /\ p \in link /\ link' = link \ {p}
    /\ UNCHANGED <<calling, client, loop, opcua, mqtt>>

\* Mutant: points are put in front.
DispatchFront(q, point) == <<point>> \o q

\* _dispatch_message: into the queue of the target the topic belongs to.
Dispatch(q, point) == Append(q, point)

\* on_message in the network thread, between loop_start() and loop_stop(); what
\* the codec rejects is swallowed with the message.
Arrive(p, t, decodable) ==
    /\ ports[p].kind = "mqtt" /\ p \in link
    /\ "read" \in ports[p].targets[t]
    /\ messages < MaxMessages /\ messages' = messages + 1
    /\ queue' = IF decodable THEN [queue EXCEPT ![t] = Dispatch(@, messages')] ELSE queue
    /\ arrived' = IF decodable THEN [arrived EXCEPT ![t] = Append(@, messages')] ELSE arrived
    /\ UNCHANGED <<calling, session, opcua, taken>>

\* The event loop comes to the request of a timed-out write after all; so does a
\* thread that did not join, whatever the adapter has started since.
Send(n) ==
    /\ writes[n].at \in {"loop", "left"}
    /\ writes' = [writes EXCEPT ![n].at = "wire"]
    /\ UNCHANGED <<calling, session, server, mqtt>>

\* A request that has been sent takes effect, whatever has become of its sender.
TakesEffect(n) ==
    /\ writes[n].at = "wire"
    /\ writes' = [writes EXCEPT ![n].at = "server"]
    /\ server' = Append(server, n)
    /\ UNCHANGED <<calling, session, mqtt>>

\* A loop thread nobody waits for any more ends, and the coroutines left to it.
HungLoopEnds(n) ==
    /\ writes[n].at = "left"
    /\ writes' = [writes EXCEPT ![n].at = "gone"]
    /\ UNCHANGED <<calling, session, server, mqtt>>

-------------------------------------------------------------------------------
(***************************************************************************)
(* Reads                                                                   *)
(***************************************************************************)
Point(value) == [got |-> "point", value |-> value]
Nothing == [got |-> "nothing"]
Missing == [got |-> "missing"]
Raise(error) == [got |-> "error", error |-> error]

\* What a device may answer: a value, text, a value the codec rejects, a value that
\* makes the codec itself overflow, a refusal, or nothing for this target.
Answers(p) ==
    IF p \in link THEN {"value", "text", "bad", "overflow", "refused", "absent"} ELSE {"refused"}

\* What every adapter checks before it asks the device.
ReadRefusal(p, t) ==
    IF t \notin Targets(p) THEN {Error(p, "unknown")}
    ELSE IF "read" \notin ports[p].targets[t] THEN {Error(p, "read_access")}
    ELSE IF p \notin client THEN {Error(p, "read_not_started")} ELSE {}

ModbusRead(answer) ==
    IF answer = "value" THEN Point("fresh") ELSE Raise(ModbusErrors.read_failed)

\* Text becomes a point with quality invalid.
OpcuaRead(answer) ==
    CASE answer = "value" -> Point("fresh")
      [] answer = "text" -> Point("invalid")
      [] answer = "overflow" -> Raise(OpcuaErrors.leak)
      [] OTHER -> Raise(OpcuaErrors.read_failed)

Dnp3Read(answer) ==
    CASE answer = "value" -> Point("fresh")
      [] answer = "overflow" -> Raise(Dnp3Errors.leak)
      [] OTHER -> Raise(Dnp3Errors.read_failed)

Iec61850Read(answer) ==
    CASE answer = "value" -> Point("fresh")
      [] answer = "text" -> Point("invalid")
      [] OTHER -> Raise(Iec61850Errors.read_failed)

\* MQTT knows neither access nor client: a target is read from its queue.
MqttRead(p, t) ==
    IF t \notin Targets(p) THEN Raise(MqttErrors.unknown)
    ELSE IF queue[t] = <<>> THEN Nothing ELSE Point(Head(queue[t]))

AdapterRead(p, t, answer) ==
    IF ports[p].kind = "mqtt" THEN MqttRead(p, t)
    ELSE IF ReadRefusal(p, t) # {} THEN Raise(CHOOSE e \in ReadRefusal(p, t) : TRUE)
    ELSE CASE ports[p].kind = "modbus" -> ModbusRead(answer)
           [] ports[p].kind = "opcua" -> OpcuaRead(answer)
           [] ports[p].kind = "dnp3" -> Dnp3Read(answer)
           [] OTHER -> Iec61850Read(answer)

\* Where the trace port or the alarm callback fails; `known` failures are those
\* of BEST_EFFORT_CALLBACK_EXCEPTIONS.
SideFailures ==
    {[at |-> "none", known |-> TRUE]}
      \cup [at : {"start_span", "error_event", "latency_event", "end_span", "alarm"},
            known : BOOLEAN]

IsReadError(r) == r.got = "error" /\ "read" \in r.error

\* Mutant: one try block for the event and the end of the span.
TracedTogether(r, f) ==
    CASE f.at = "start_span" -> [result |-> IF f.known THEN r ELSE Raise(Untyped), open |-> 0]
      [] f.at = "error_event" /\ IsReadError(r) ->
            [result |-> IF f.known THEN r ELSE Raise(Untyped), open |-> 0]
      [] f.at = "latency_event" ->
            [result |-> IF f.known THEN r ELSE Raise(Untyped), open |-> 1]
      [] f.at = "end_span" ->
            [result |-> IF f.known THEN r ELSE Raise(Untyped), open |-> 0]
      [] OTHER -> [result |-> r, open |-> 0]

\* OtelSpanWrappedDeviceProtocolPort.read: the result, and the spans left open.
Traced(r, f) ==
    LET spoiled == IF f.known THEN r ELSE Raise(Untyped) IN
    CASE f.at \in {"start_span", "end_span"} -> [result |-> spoiled, open |-> 0]
      [] f.at = "error_event" /\ IsReadError(r) -> [result |-> spoiled, open |-> 0]
      [] f.at = "latency_event" ->
            [result |-> spoiled, open |-> IF f.known THEN 0 ELSE 1]
      [] OTHER -> [result |-> r, open |-> 0]

\* CommFailureGuardedDeviceProtocolPort.read: the result, and the alarms sent.
Guarded(r, f) ==
    IF ~IsReadError(r) THEN [result |-> r, alarms |-> 0]
    ELSE IF f.at # "alarm" THEN [result |-> Missing, alarms |-> 1]
    ELSE [result |-> IF f.known THEN Missing ELSE Raise(Untyped), alarms |-> 0]

\* A read through the spans and then the guard: what the caller gets, the alarms it
\* sends, and the spans it leaves open.
Served(p, t, answer, f) ==
    LET traced  == Traced(AdapterRead(p, t, answer), f)
        guarded == Guarded(traced.result, f)
    IN  [result |-> guarded.result, alarms |-> guarded.alarms, open |-> traced.open]

Reachable == call = Idle /\ outcome # "none"

\* A read between the calls of the loop: only MQTT has something to take away,
\* and the wrapper calls it unless the span could not be opened.
Read(p, t, f) ==
    LET raw == MqttRead(p, t) IN
    /\ Reachable
    /\ ports[p].kind = "mqtt" /\ (f.at = "start_span" => f.known) /\ raw.got = "point"
    /\ queue' = [queue EXCEPT ![t] = Tail(@)]
    /\ taken' = [taken EXCEPT ![t] = Append(@, raw.value)]
    /\ UNCHANGED <<calling, session, opcua, arrived, messages>>

-------------------------------------------------------------------------------
(***************************************************************************)
(* Writes; neither wrapper changes their result                            *)
(***************************************************************************)
\* What a command carries: a value its target takes, the same as a float, none, one of
\* another type (text, say), a finite number too large for the target, a number that is
\* not finite, or what is no JSON value at all; and what becomes of it on the way.
Payloads == {"value", "float", "none", "mistyped", "huge", "not_finite", "strange"}
Deliveries == {"done", "refused", "timeout"}

WriteRefusal(p, t) ==
    IF t \notin Targets(p) THEN {Error(p, "unknown")}
    ELSE IF "write" \notin ports[p].targets[t]
    THEN {IF ports[p].kind = "mqtt" THEN Error(p, "no_command_topic") ELSE Error(p, "write_access")}
    ELSE IF p \notin client THEN {Error(p, "write_not_started")} ELSE {}

\* int(Decimal("NaN")) and an oversized float32 raise past the codec's own errors, an
\* oversized integer does not.
ModbusWrite(payload, delivery) ==
    CASE payload = "none" -> {ModbusErrors.missing_payload}
      [] payload \in {"mistyped", "strange"} -> {ModbusErrors.write_failed}
      [] payload \in {"huge", "not_finite"} -> {ModbusErrors.leak, ModbusErrors.write_failed}
      [] OTHER -> IF delivery = "done" THEN {} ELSE {ModbusErrors.write_failed}

\* The codec lets an oversized Float pass to the client library, which packs it in the
\* event loop; a value that is None is not a missing one.
OpcuaWrite(payload, delivery) ==
    CASE payload = "none" -> {OpcuaErrors.missing_payload, OpcuaErrors.write_failed}
      [] payload \in {"mistyped", "not_finite", "strange"} -> {OpcuaErrors.write_failed}
      [] payload = "huge" -> {OpcuaErrors.leak, OpcuaErrors.write_failed}
      [] OTHER -> IF delivery = "done" THEN {} ELSE {OpcuaErrors.write_failed}

\* The command is serialised outside any try: what canonical_json refuses leaves the
\* adapter as an error of the serializer.
MqttWrite(payload, delivery) ==
    IF payload \in {"float", "not_finite", "strange"} THEN {MqttErrors.leak}
    ELSE IF delivery = "done" THEN {} ELSE {MqttErrors.publish_failed}

\* The errors a write may end in, {} when it succeeds; DNP3 and IEC 61850 do not write.
AdapterWrite(p, t, payload, delivery) ==
    IF WriteRefusal(p, t) # {} THEN WriteRefusal(p, t)
    ELSE CASE ports[p].kind = "modbus" -> ModbusWrite(payload, delivery)
           [] ports[p].kind = "opcua" -> OpcuaWrite(payload, delivery)
           [] ports[p].kind = "mqtt" -> MqttWrite(payload, delivery)
           [] OTHER -> {Error(p, "write_not_implemented")}

\* Where an OPC UA write is when write() is over.  "timeout" is also a connection that
\* breaks before the answer: then the request is on the wire, and nothing recalls it.
Whereabouts(delivery) ==
    CASE delivery = "done" -> {"server"}
      [] delivery = "refused" -> {"refused"}
      [] OTHER -> {"loop", "wire"}

\* The coroutine of an OPC UA write outlives the timeout of its caller; of the
\* other adapters nothing is left when the call returns.
Write(p, t, payload, delivery) ==
    /\ Reachable
    /\ ports[p].kind = "opcua" /\ AdapterWrite(p, t, payload, "done") = {}
    /\ delivery = "done" => p \in link
    /\ Len(writes) < MaxWrites
    /\ \E where \in Whereabouts(delivery) :
          writes' = Append(writes, [port |-> p, at |-> where,
                                    confirmed |-> AdapterWrite(p, t, payload, delivery) = {}])
    /\ server' = IF delivery = "done" THEN Append(server, Len(writes')) ELSE server
    /\ UNCHANGED <<calling, session, mqtt>>

-------------------------------------------------------------------------------
Next ==
    \/ StartPorts \/ StartNext \/ StartDone \/ CleanNext \/ CleanDone
    \/ StopPorts \/ StopNext \/ StopDone
    \/ \E p \in DOMAIN ports :
          \/ LinkLost(p)
          \/ \E t \in Targets(p), decodable \in BOOLEAN : Arrive(p, t, decodable)
          \/ \E t \in Targets(p) \cup {Stranger}, f \in SideFailures : Read(p, t, f)
          \/ \E t \in Targets(p) \cup {Stranger}, payload \in Payloads,
                delivery \in Deliveries : Write(p, t, payload, delivery)
    \/ \E n \in DOMAIN writes : Send(n) \/ TakesEffect(n) \/ HungLoopEnds(n)

Spec == Init /\ [][Next]_vars

-------------------------------------------------------------------------------
(***************************************************************************)
(* Properties                                                              *)
(***************************************************************************)
\* Whenever no call is running, every port that still holds a client is one the
\* loop will stop with the next stop_protocol_ports(): a failed start has undone
\* what it had started.  Excused are a port whose stop() has failed in the
\* clean-up, and those a start had brought up when an error that is no port error
\* ended it (an OPC UA loop thread that did not come up).
SessionsAreKnown ==
    call = Idle => client \subseteq {started[i] : i \in DOMAIN started} \cup excused

\* No MQTT point is lost, doubled or overtaken between the network thread and
\* read(), also across a stop and a new start of the port.
ReadsFollowArrival ==
    \A t \in DOMAIN queue : taken[t] \o queue[t] = arrived[t]

\* Whenever a read can come, a guarded read of a target of the port never raises and
\* never makes a value up: without a link it is a missing point with one alarm,
\* whatever the trace port does with its spans, and no span stays open.  Excused is
\* what is not in BEST_EFFORT_CALLBACK_EXCEPTIONS, and a value that overflows the
\* codec.
LossIsReported ==
    Reachable =>
    \A p \in DOMAIN ports : ports[p].kind # "mqtt" =>
        \A t \in Targets(p), answer \in Answers(p) \ {"overflow"}, f \in SideFailures :
            f.known =>
            LET s == Served(p, t, answer, f) IN
            /\ s.open = 0
            /\ s.result.got \in {"point", "missing"}
            /\ s.result.got = "point" => p \in client /\ answer \in {"value", "text"}
            /\ s.result.got = "missing" => s.alarms = IF f.at = "alarm" THEN 0 ELSE 1

\* What an adapter cannot pack, and reports with an error that is no port error: a
\* number Modbus has no register for, one the OPC UA library finds too large for a
\* Float, and for MQTT what is no value of Command.payload.
Unpackable ==
    [modbus |-> {"huge", "not_finite"}, opcua |-> {"huge"},
     mqtt |-> {"float", "not_finite", "strange"}, dnp3 |-> {}, iec61850 |-> {}]

\* The errors of the adapters are told apart by their base classes: a command to a
\* target ends, whatever comes of it, in nothing or in a write error, so that the
\* caller of a write who catches DeviceProtocolPortWriteError is not surprised by the
\* state the port is in.  Excused is, for each adapter, what it cannot pack.
RefusalsAreWriteErrors ==
    Reachable =>
    \A p \in DOMAIN ports : \A t \in Targets(p), delivery \in Deliveries :
        \A payload \in Payloads \ Unpackable[ports[p].kind] :
            \A e \in AdapterWrite(p, t, payload, delivery) : "write" \in e

\* What goes wrong in a read or a write reaches its caller as what it is.
FailuresAreTold == LossIsReported /\ RefusalsAreWriteErrors

Confirmed == {n \in DOMAIN writes : writes[n].confirmed}

\* Every OPC UA write is accounted for.  One that write() has confirmed has taken
\* effect, none takes effect twice, and the confirmed ones did so in the order of the
\* calls, whatever late ones came in between.  And start() and stop() end the sending:
\* a write that waits in the event loop belongs to a port that holds a client.  What is
\* already on the wire when stop() comes, or left to a thread that did not join, may
\* still take effect, even after the port has been started again.  An OPC UA port holds
\* a running loop exactly while it holds a client.
WritesAreAccountedFor ==
    /\ IsInjective(server)
    /\ Confirmed \subseteq ToSet(server)
    /\ \A i, j \in DOMAIN server :
          i < j /\ {server[i], server[j]} \subseteq Confirmed => server[i] < server[j]
    /\ \A n \in DOMAIN writes : writes[n].at = "loop" => writes[n].port \in client
    /\ \A p \in DOMAIN ports :
          ports[p].kind = "opcua" => (loop[p] = "on" <=> p \in client)
===============================================================================
