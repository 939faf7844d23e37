---------------------------- MODULE FieldPortsProofs ----------------------------
(***************************************************************************)
(* FieldPorts for every list of ports, every number of calls, messages and *)
(* writes: what is started is known to the loop, MQTT points arrive in     *)
(* order, failures are told, and every OPC UA write is accounted for.      *)
(***************************************************************************)
EXTENDS FieldPorts, SequenceTheorems, TLAPS

N == Len(ports)

\* The ports are one of the setups; a call works on the first ports of it.
CallInv ==
    /\ ports \in Setups
    /\ started \in Seq(Nat) /\ Len(started) \in {0, N}
    /\ \A i \in DOMAIN started : started[i] = i
    /\ call \in [op : {"none", "start", "clean", "stop"}, todo : Seq(Nat)]
    /\ Len(call.todo) <= N
    /\ \A i \in DOMAIN call.todo : call.todo[i] = i
    /\ call.op = "none" => call = Idle
    /\ call.op = "stop" => Len(call.todo) <= Len(started)

\* The last port that the call, or a later stop, still has to do with.
Reach ==
    CASE call.op = "none" -> Len(started)
      [] call.op = "start" -> IF Len(call.todo) > Len(started) THEN Len(call.todo) ELSE Len(started)
      [] OTHER -> Len(call.todo)

\* Ports are started upwards and stopped downwards: what is not excused has all the ports
\* before it started, and is within reach.
SessionInv ==
    /\ client \subseteq 1..N
    /\ \A q \in client \ excused : q <= Reach /\ \A m \in 1..N : m < q => m \in client
    /\ call.op \in {"start", "clean"} => 1..Len(call.todo) \subseteq client

\* A loop runs only for a port with a client, and an OPC UA port with a client has one.
LoopInv ==
    /\ loop \in [1..N -> {"off", "on"}]
    /\ \A p \in 1..N :
          /\ loop[p] = "on" => p \in client
          /\ p \in client /\ ports[p].kind = "opcua" => loop[p] = "on"

\* What was read and what waits is what arrived.
QueueInv ==
    /\ messages \in Nat
    /\ queue \in [MqttTargets(ports) -> Seq(Nat)]
    /\ taken \in [MqttTargets(ports) -> Seq(Nat)]
    /\ arrived \in [MqttTargets(ports) -> Seq(Nat)]
    /\ ReadsFollowArrival

Places == {"loop", "left", "wire", "server", "refused", "gone"}

\* A write is in one place; the numbers on the server are those of the writes there, once
\* each, and what waits in a loop belongs to a port with a client.
WriteInv ==
    /\ writes \in Seq([port : 1..N, at : Places, confirmed : BOOLEAN])
    /\ server \in Seq(Nat) /\ IsInjective(server)
    /\ ToSet(server) = {n \in DOMAIN writes : writes[n].at = "server"}
    /\ Confirmed \subseteq ToSet(server)
    /\ \A i, j \in DOMAIN server :
          i < j /\ {server[i], server[j]} \subseteq Confirmed => server[i] < server[j]
    /\ \A n \in DOMAIN writes : writes[n].at = "loop" => writes[n].port \in client

-------------------------------------------------------------------------------
\* The list of ports is one, and every port is of a known kind.
LEMMA PortsTyped ==
    ASSUME ports \in Setups
    PROVE  /\ N \in Nat /\ DOMAIN ports = 1..N
           /\ \A p \in 1..N : ports[p].kind \in Kinds
BY SetupAssumption DEF N

\* The last port of a call, and the ones before it.
LEMMA LastPort ==
    ASSUME CallInv, call.todo # <<>>
    PROVE  /\ Len(call.todo) \in 1..N /\ Last(call.todo) = Len(call.todo)
           /\ Front(call.todo) \in Seq(Nat)
           /\ Len(Front(call.todo)) = Len(call.todo) - 1
           /\ \A i \in DOMAIN Front(call.todo) : Front(call.todo)[i] = i
<1>1. call.todo \in Seq(Nat) /\ Len(call.todo) <= N /\ N \in Nat
  BY PortsTyped DEF CallInv
<1>2. Len(call.todo) \in 1..N
  BY <1>1
<1>3. Last(call.todo) = Len(call.todo)
  BY <1>1, <1>2 DEF Last, CallInv
<1>4. /\ Front(call.todo) \in Seq(Nat)
      /\ Len(Front(call.todo)) = Len(call.todo) - 1
      /\ \A i \in 1..(Len(call.todo) - 1) : Front(call.todo)[i] = call.todo[i]
  BY <1>1, <1>2 DEF Front
<1>5. \A i \in 1..(Len(call.todo) - 1) : call.todo[i] = i
  BY <1>1, <1>2 DEF CallInv
<1>6. DOMAIN Front(call.todo) = 1..(Len(call.todo) - 1)
  BY <1>2, <1>4
<1> QED
  BY <1>2, <1>3, <1>4, <1>5, <1>6

\* One more port of a call.
LEMMA NextPort ==
    ASSUME CallInv, Len(call.todo) < N
    PROVE  LET longer == Append(call.todo, Len(call.todo) + 1) IN
           /\ longer \in Seq(Nat) /\ Len(longer) = Len(call.todo) + 1
           /\ \A i \in DOMAIN longer : longer[i] = i
<1> DEFINE n == Len(call.todo)
           longer == Append(call.todo, n + 1)
<1>1. call.todo \in Seq(Nat) /\ n \in Nat /\ n + 1 \in Nat
  BY DEF CallInv
<1>2. longer \in Seq(Nat) /\ Len(longer) = n + 1 /\ DOMAIN longer = 1..(n + 1)
  BY <1>1
<1>3. \A i \in 1..(n + 1) : longer[i] = IF i <= n THEN call.todo[i] ELSE n + 1
  BY <1>1
<1>4. \A i \in DOMAIN longer : longer[i] = i
  BY <1>1, <1>2, <1>3 DEF CallInv
<1> QED
  BY <1>2, <1>4

\* The lists of a call stay lists of the first ports.
LEMMA CallStep ==
    ASSUME CallInv, [Next]_vars
    PROVE  CallInv'
<1>1. ports' = ports
  BY DEF Next, StartPorts, StopPorts, Begin, StartNext, StartDone, CleanNext, CleanDone, StopNext,
         StopDone, LinkLost, Send, TakesEffect, HungLoopEnds, Arrive, Read, Write, calling, vars
<1>2. N \in Nat /\ N' = N
  BY <1>1, PortsTyped DEF CallInv, N
<1>3. <<>> \in Seq(Nat) /\ Len(<<>>) = 0
  OBVIOUS
<1>4. Idle \in [op : {"none", "start", "clean", "stop"}, todo : Seq(Nat)] /\ Idle.op = "none"
      /\ Idle.todo = <<>>
  BY DEF Idle
<1>5. ASSUME call' = Idle, started' \in {started, <<>>} PROVE CallInv'
  BY <1>1, <1>2, <1>3, <1>4, <1>5 DEF CallInv
<1>6. CASE StartPorts
  BY <1>1, <1>2, <1>3, <1>6 DEF StartPorts, Begin, CallInv
<1>7. CASE StopPorts
  BY <1>1, <1>2, <1>7 DEF StopPorts, Begin, CallInv
<1>8. CASE StartNext
  <2>1. Len(call.todo) \in Nat /\ call.op = "start" /\ Len(call.todo) < N /\ started' = started
    BY <1>2, <1>8 DEF StartNext, CallInv, N
  <2>2. CASE call' = Idle
    BY <1>5, <2>1, <2>2
  <2>3. CASE call' = [call EXCEPT !.todo = Append(@, Len(call.todo) + 1)]
    <3>1. call'.op = "start" /\ call'.todo = Append(call.todo, Len(call.todo) + 1)
      BY <2>1, <2>3 DEF CallInv
    <3>2. call' \in [op : {"none", "start", "clean", "stop"}, todo : Seq(Nat)]
      BY <2>1, <2>3, NextPort DEF CallInv
    <3>3. Len(call'.todo) <= N /\ \A i \in DOMAIN call'.todo : call'.todo[i] = i
      BY <1>2, <2>1, <3>1, NextPort
    <3> QED
      BY <1>1, <1>2, <2>1, <3>1, <3>2, <3>3 DEF CallInv
  <2>4. CASE call' = [call EXCEPT !.op = "clean"]
    <3>1. call'.op = "clean" /\ call'.todo = call.todo
          /\ call' \in [op : {"none", "start", "clean", "stop"}, todo : Seq(Nat)]
      BY <2>4 DEF CallInv
    <3> QED
      BY <1>1, <1>2, <2>1, <3>1 DEF CallInv
  <2> QED
    BY <1>8, <2>2, <2>3, <2>4 DEF StartNext, End
<1>9. CASE StartDone
  <2>1. started' = call.todo /\ call' = Idle /\ Len(call.todo) = N
    BY <1>9 DEF StartDone, End, N
  <2> QED
    BY <1>1, <1>2, <1>3, <1>4, <2>1 DEF CallInv
<1>10. CASE CleanNext \/ StopNext
  <2>1. call.todo # <<>> /\ started' = started /\ call.op \in {"clean", "stop"}
    BY <1>10 DEF CleanNext, StopNext
  <2>2. CASE call' = Idle
    BY <1>5, <2>1, <2>2
  <2>3. CASE call' = [call EXCEPT !.todo = Front(@)]
    <3>1. call'.op = call.op /\ call'.todo = Front(call.todo)
          /\ call' \in [op : {"none", "start", "clean", "stop"}, todo : Seq(Nat)]
      BY <2>1, <2>3, LastPort DEF CallInv
    <3>2. Len(call.todo) \in Nat /\ Len(started) \in Nat
      BY DEF CallInv
    <3> QED
      BY <1>1, <1>2, <2>1, <3>1, <3>2, LastPort DEF CallInv
  <2> QED
    BY <1>10, <2>2, <2>3 DEF CleanNext, StopNext, End
<1>11. CASE CleanDone \/ StopDone
  BY <1>5, <1>11 DEF CleanDone, StopDone, End
<1>12. CASE UNCHANGED calling
  BY <1>1, <1>2, <1>12 DEF calling, CallInv
<1> QED
  BY <1>6, <1>7, <1>8, <1>9, <1>10, <1>11, <1>12
  DEF Next, LinkLost, Send, TakesEffect, HungLoopEnds, Arrive, Read, Write, vars

\* Initially no call is in progress.
LEMMA CallInit == Init => CallInv
<1> SUFFICES ASSUME Init PROVE CallInv
  OBVIOUS
<1>1. N \in Nat
  BY PortsTyped DEF Init
<1> QED
  BY <1>1 DEF Init, CallInv, Idle

-------------------------------------------------------------------------------
\* What start() of a port leaves behind: a client when it succeeds; when it fails there
\* was none and there is none.
LEMMA StartResult ==
    ASSUME NEW p, NEW r \in StartResults(p)
    PROVE  /\ r.ok => r.client /\ "port" \notin r.error
           /\ ~r.ok => p \notin client /\ ~r.client /\ r.loop \in {"off", "hung"}
           /\ p \in client => r.loop = loop[p]
           /\ p \notin client => r.loop \in {"off", "on", "hung"}
           /\ p \notin client /\ r.ok /\ ports[p].kind = "opcua" => r.loop = "on"
<1>1. CASE p \in client
  <2>1. r = [Fine(TRUE, loop[p]) EXCEPT !.link = p \in link]
    BY <1>1 DEF StartResults
  <2>2. r.ok /\ r.client /\ r.loop = loop[p] /\ r.error = {}
    BY <2>1 DEF Fine, Untyped
  <2> QED
    BY <1>1, <2>2
<1>2. CASE p \notin client
  <2>1. ASSUME \E e : \E thread \in {"off", "hung"} : r = Failed(e, FALSE, FALSE, thread)
        PROVE  ~r.ok /\ ~r.client /\ r.loop \in {"off", "hung"}
    BY <2>1 DEF Failed
  <2>2. CASE ports[p].kind = "opcua"
    <3>1. \/ r = Fine(TRUE, "on")
          \/ \E e : \E thread \in {"off", "hung"} : r = Failed(e, FALSE, FALSE, thread)
      BY <1>2, <2>2 DEF StartResults, OpcuaStart, OpcuaErrors, LoopStopped
    <3>2. r = Fine(TRUE, "on") => r.ok /\ r.client /\ r.loop = "on" /\ r.error = {}
      BY DEF Fine, Untyped
    <3> QED
      BY <1>2, <2>1, <3>1, <3>2
  <2>3. CASE ports[p].kind # "opcua"
    <3>1. \/ r = Fine(TRUE, "off") \/ r = [Fine(TRUE, "off") EXCEPT !.link = FALSE]
          \/ \E e : \E thread \in {"off", "hung"} : r = Failed(e, FALSE, FALSE, thread)
      BY <1>2, <2>3 DEF StartResults, ModbusStart, Dnp3Start, Iec61850Start, MqttStart
    <3>2. r = Fine(TRUE, "off") \/ r = [Fine(TRUE, "off") EXCEPT !.link = FALSE]
             => r.ok /\ r.client /\ r.loop = "off" /\ r.error = {}
      BY DEF Fine, Untyped
    <3> QED
      BY <1>2, <2>1, <2>3, <3>1, <3>2
  <2> QED
    BY <2>2, <2>3
<1> QED
  BY <1>1, <1>2

\* What stop() leaves behind: nothing when it succeeds; only IEC 61850 keeps its client
\* when it fails.
LEMMA StopResult ==
    ASSUME NEW p, NEW r \in StopResults(p)
    PROVE  /\ r.ok => ~r.client
           /\ r.client => p \in client /\ ports[p].kind # "opcua"
           /\ p \notin client => r.ok /\ r.loop = loop[p]
           /\ p \in client => r.loop \in {"off", "hung"}
<1>1. CASE p \notin client
  <2>1. r = [Fine(FALSE, loop[p]) EXCEPT !.link = p \in link]
    BY <1>1 DEF StopResults
  <2>2. r.ok /\ ~r.client /\ r.loop = loop[p]
    BY <2>1 DEF Fine
  <2> QED
    BY <1>1, <2>2
<1>2. CASE p \in client
  <2>1. \/ \E thread \in {"off", "hung"} : r = Fine(FALSE, thread)
        \/ \E e : \E thread \in {"off", "hung"} : r = Failed(e, FALSE, FALSE, thread)
        \/ ports[p].kind # "opcua" /\ \E e, x : r = Failed(e, TRUE, x, "off")
    <3>1. CASE ports[p].kind = "opcua"
      BY <1>2, <3>1 DEF StopResults, OpcuaStop, LoopStopped
    <3>2. CASE ports[p].kind # "opcua"
      BY <1>2, <3>2 DEF StopResults, ModbusStop, Dnp3Stop, Iec61850Stop, MqttStop
    <3> QED
      BY <3>1, <3>2
  <2>2. (\E thread \in {"off", "hung"} : r = Fine(FALSE, thread))
          => r.ok /\ ~r.client /\ r.loop \in {"off", "hung"}
    BY DEF Fine
  <2>3. (\E e : \E thread \in {"off", "hung"} : r = Failed(e, FALSE, FALSE, thread))
          => ~r.ok /\ ~r.client /\ r.loop \in {"off", "hung"}
    BY DEF Failed
  <2>4. (\E e, x : r = Failed(e, TRUE, x, "off")) => ~r.ok /\ r.client /\ r.loop = "off"
    BY DEF Failed
  <2> QED
    BY <1>2, <2>1, <2>2, <2>3, <2>4
<1> QED
  BY <1>1, <1>2

-------------------------------------------------------------------------------
\* A start() or stop() adds or takes away the client of its own port.
LEMMA ClientOf ==
    ASSUME NEW p, NEW r, Become(p, r)
    PROVE  /\ r.client => client' = client \cup {p}
           /\ ~r.client => client' = client \ {p}
BY DEF Become, With

\* Starting the next port keeps the order of the sessions.
LEMMA SessionStart ==
    ASSUME SessionInv, CallInv, ports' = ports, StartNext
    PROVE  SessionInv'
<1> DEFINE k == Len(call.todo)
           p == k + 1
<1>1. /\ N \in Nat /\ N' = N /\ k \in Nat /\ p \in 1..N /\ call.op = "start"
      /\ started' = started /\ Len(started) \in Nat
  BY PortsTyped DEF StartNext, CallInv, N
<1>2. PICK r \in StartResults(p) :
        /\ Become(p, r)
        /\ CASE r.ok ->
                  /\ call' = [call EXCEPT !.todo = Append(@, p)]
                  /\ UNCHANGED <<started, outcome, excused>>
             [] "port" \in r.error ->
                  /\ call' = [call EXCEPT !.op = "clean"]
                  /\ UNCHANGED <<started, outcome, excused>>
             [] OTHER ->
                  /\ End("start_leaked")
                  /\ excused' = excused \cup {q \in 1..Len(call.todo) : q \in client}
                  /\ UNCHANGED started
  BY DEF StartNext
<1>3. \A q \in client \ excused : q \in 1..N /\ q <= Reach /\ \A m \in 1..N : m < q => m \in client
  BY DEF SessionInv
<1>4. 1..k \subseteq client
  BY <1>1 DEF SessionInv
<1>5. CASE r.ok
  <2>1. client' = client \cup {p} /\ excused' = excused
    BY <1>2, <1>5, StartResult, ClientOf
  <2>2. call'.op = "start" /\ Len(call'.todo) = p
    <3>1. call' = [call EXCEPT !.todo = Append(@, p)]
      BY <1>2, <1>5, StartResult
    <3>2. call'.op = call.op /\ call'.todo = Append(call.todo, p)
      BY <3>1 DEF CallInv
    <3> QED
      BY <1>1, <3>2, NextPort
  <2>3. Reach' = (IF p > Len(started) THEN p ELSE Len(started))
        /\ Reach = (IF k > Len(started) THEN k ELSE Len(started))
    BY <1>1, <2>2 DEF Reach
  <2>4. client' \subseteq 1..N
    BY <1>1, <2>1 DEF SessionInv
  <2>5. 1..p \subseteq client'
    BY <1>1, <1>4, <2>1
  <2>6. \A q \in client' \ excused' : q <= Reach' /\ \A m \in 1..N : m < q => m \in client'
    BY <1>1, <1>3, <1>4, <2>1, <2>3
  <2>7. 1..Len(call'.todo) \subseteq client'
    BY <2>2, <2>5
  <2> QED
    BY <1>1, <2>4, <2>6, <2>7 DEF SessionInv
<1>6. CASE ~r.ok
  <2>1. client' = client /\ p \notin client
    <3>1. p \notin client /\ ~r.client
      BY <1>6, StartResult
    <3>2. client' = client \ {p}
      BY <1>2, <3>1, ClientOf
    <3> QED
      BY <3>1, <3>2
  <2>2. \A q \in client \ excused : q <= k
    BY <1>1, <1>3, <2>1
  <2>3. CASE call' = [call EXCEPT !.op = "clean"] /\ excused' = excused
    <3>1. call'.op = "clean" /\ call'.todo = call.todo /\ Reach' = k
      BY <2>3 DEF CallInv, Reach
    <3> QED
      BY <1>1, <1>3, <1>4, <2>1, <2>2, <2>3, <3>1 DEF SessionInv
  <2>4. CASE call' = Idle /\ excused' = excused \cup {q \in 1..k : q \in client}
    <3>1. client' \ excused' = {}
      BY <1>1, <1>3, <2>1, <2>2, <2>4
    <3>2. call'.op = "none"
      BY <2>4 DEF Idle
    <3> QED
      BY <1>1, <2>1, <3>1, <3>2 DEF SessionInv
  <2> QED
    BY <1>2, <1>6, <2>3, <2>4 DEF End
<1> QED
  BY <1>5, <1>6

\* Stopping the last port of the clean-up or of a stop keeps it, whatever stop() says.
LEMMA SessionStop ==
    ASSUME SessionInv, CallInv, ports' = ports, CleanNext \/ StopNext
    PROVE  SessionInv'
<1> DEFINE k == Len(call.todo)
<1>1. /\ N \in Nat /\ N' = N /\ k \in 1..N /\ Last(call.todo) = k
      /\ call.op \in {"clean", "stop"}
      /\ Len(Front(call.todo)) = k - 1
      /\ started' = started /\ Reach = k
  BY PortsTyped, LastPort DEF CleanNext, StopNext, CallInv, N, Reach
<1>2. \A q \in client \ excused : q \in 1..N /\ q <= k /\ \A m \in 1..N : m < q => m \in client
  BY <1>1 DEF SessionInv
<1>3. PICK r \in StopResults(k) : Become(k, r) /\
        \/ /\ call' = [call EXCEPT !.todo = Front(@)]
           /\ CleanNext /\ excused' = With(excused, k, ~r.ok)
        \/ StopNext /\ r.ok /\ call' = [call EXCEPT !.todo = Front(@)] /\ excused' = excused
        \/ StopNext /\ ~r.ok /\ call' = Idle /\ excused' = excused
  BY <1>1 DEF CleanNext, StopNext, End
<1>4. /\ r.ok => client' = client \ {k}
      /\ client' \in {client, client \ {k}}
  <2>1. r.client => k \in client
    BY StopResult
  <2>2. r.ok => ~r.client
    BY StopResult
  <2>3. CASE r.client
    BY <1>3, <2>1, <2>2, <2>3, ClientOf
  <2>4. CASE ~r.client
    BY <1>3, <2>4, ClientOf
  <2> QED
    BY <2>3, <2>4
<1>5. client' \subseteq 1..N
  BY <1>4 DEF SessionInv
<1>6. CASE call' = [call EXCEPT !.todo = Front(@)]
  <2>1. call'.op = call.op /\ Len(call'.todo) = k - 1 /\ Reach' = k - 1
    BY <1>1, <1>6 DEF CallInv, Reach
  <2>2. client' \ excused' \subseteq (client \ excused) \ {k}
    <3>1. CASE r.ok
      <4>1. excused' \in {excused, excused \ {k}} /\ client' = client \ {k}
        BY <1>3, <1>4, <3>1 DEF With
      <4> QED
        BY <4>1
    <3>2. CASE ~r.ok /\ excused' = excused \cup {k}
      BY <1>4, <3>2
    <3>3. call' # Idle
      BY <1>1, <1>6 DEF CallInv, Idle
    <3> QED
      BY <1>3, <3>1, <3>2, <3>3 DEF With
  <2>3. \A q \in client' \ excused' : q <= k - 1 /\ \A m \in 1..N : m < q => m \in client'
    BY <1>1, <1>2, <1>4, <2>2
  <2>4. call.op = "clean" => 1..(k - 1) \subseteq client'
    BY <1>1, <1>4 DEF SessionInv
  <2> QED
    BY <1>1, <1>5, <2>1, <2>3, <2>4 DEF SessionInv
<1>7. CASE StopNext /\ ~r.ok /\ call' = Idle /\ excused' = excused
  <2>1. call'.op = "none" /\ Reach' = Len(started)
    BY <1>1, <1>7 DEF Idle, Reach
  <2>2. k <= Len(started) /\ Len(started) \in Nat
    BY <1>7 DEF StopNext, CallInv
  <2>3. \A q \in client' \ excused : q <= Len(started) /\ \A m \in 1..N : m < q => m \in client'
    BY <1>1, <1>2, <1>4, <2>2
  <2> QED
    BY <1>1, <1>5, <1>7, <2>1, <2>3 DEF SessionInv
<1> QED
  BY <1>3, <1>6, <1>7

\* Every step keeps it.
LEMMA SessionStep ==
    ASSUME SessionInv, CallInv, [Next]_vars
    PROVE  SessionInv'
<1>1. ports' = ports
  BY DEF Next, StartPorts, StopPorts, Begin, StartNext, StartDone, CleanNext, CleanDone, StopNext,
         StopDone, LinkLost, Send, TakesEffect, HungLoopEnds, Arrive, Read, Write, calling, vars
<1>2. N \in Nat /\ N' = N /\ Len(started) \in {0, N} /\ Len(call.todo) \in 0..N
  BY <1>1, PortsTyped DEF CallInv, N
<1>3. CASE StartPorts
  <2>1. /\ call'.op = "start" /\ Len(call'.todo) = 0 /\ UNCHANGED <<started, client, excused>>
        /\ call.op = "none"
    BY <1>3 DEF StartPorts, Begin, Idle, session
  <2>2. Reach = Len(started) /\ Reach' = Len(started)
    BY <1>2, <2>1 DEF Reach
  <2> QED
    BY <1>2, <2>1, <2>2 DEF SessionInv
<1>4. CASE StopPorts
  <2>1. /\ call'.op = "stop" /\ call'.todo = started /\ UNCHANGED <<started, client, excused>>
        /\ call.op = "none"
    BY <1>4 DEF StopPorts, Begin, Idle, session
  <2>2. Reach = Len(started) /\ Reach' = Len(started)
    BY <1>2, <2>1 DEF Reach
  <2> QED
    BY <1>2, <2>1, <2>2 DEF SessionInv
<1>5. CASE StartDone
  <2>1. /\ call.op = "start" /\ started' = call.todo /\ Len(call.todo) = N /\ call'.op = "none"
        /\ client' = client
    BY <1>5 DEF StartDone, End, N, Idle, session
  <2>2. Reach' = N /\ 1..N \subseteq client
    BY <2>1 DEF Reach, SessionInv
  <2> QED
    BY <1>2, <2>1, <2>2 DEF SessionInv
<1>6. CASE CleanDone \/ StopDone
  <2>1. /\ call.op \in {"clean", "stop"} /\ started' = <<>> /\ Len(call.todo) = 0
        /\ call'.op = "none" /\ client' = client /\ excused' = excused
    BY <1>6 DEF CleanDone, StopDone, End, Idle, session
  <2>2. Reach = 0 /\ Reach' = 0
    BY <2>1 DEF Reach
  <2> QED
    BY <1>2, <2>1, <2>2 DEF SessionInv
<1>7. CASE UNCHANGED <<started, call, client, excused>>
  BY <1>2, <1>7 DEF SessionInv, Reach
<1> QED
  BY <1>1, <1>3, <1>4, <1>5, <1>6, <1>7, SessionStart, SessionStop
  DEF Next, LinkLost, Send, TakesEffect, HungLoopEnds, Arrive, Read, Write, calling, session, vars

\* Nothing is started at first.
LEMMA SessionInit == Init => SessionInv
BY DEF Init, SessionInv, Idle

\* Whenever no call runs, the next stop will stop what holds a client.
THEOREM SessionsEver == Spec => []SessionsAreKnown
<1>1. SessionInv /\ CallInv => SessionsAreKnown
  <2> SUFFICES ASSUME SessionInv, CallInv, call = Idle, NEW q \in client \ excused
               PROVE  q \in {started[i] : i \in DOMAIN started}
    BY DEF SessionsAreKnown
  <2>1. q \in 1..N /\ q <= Len(started) /\ N \in Nat
    BY PortsTyped DEF SessionInv, Reach, Idle, CallInv
  <2>2. q \in DOMAIN started /\ started[q] = q
    BY <2>1 DEF CallInv
  <2> QED
    BY <2>2
<1> QED
  BY <1>1, CallInit, CallStep, SessionInit, SessionStep, PTL DEF Spec

-------------------------------------------------------------------------------
\* A point goes to the end of the queue, and the first one leaves it.
LEMMA QueueMoves ==
    ASSUME NEW q \in Seq(Nat), NEW have \in Seq(Nat), NEW m \in Nat
    PROVE  /\ Append(q, m) \in Seq(Nat)
           /\ have \o Append(q, m) = Append(have \o q, m)
           /\ q # <<>> => /\ Head(q) \in Nat /\ Tail(q) \in Seq(Nat)
                          /\ Append(have, Head(q)) \o Tail(q) = have \o q
<1>1. Append(q, m) \in Seq(Nat) /\ have \o Append(q, m) = Append(have \o q, m)
  OBVIOUS
<1>2. ASSUME q # <<>>
      PROVE  /\ Head(q) \in Nat /\ Tail(q) \in Seq(Nat)
             /\ Append(have, Head(q)) \o Tail(q) = have \o q
  <2>1. Head(q) \in Nat /\ Tail(q) \in Seq(Nat) /\ <<Head(q)>> \in Seq(Nat)
    BY <1>2, HeadTailProperties
  <2>2. q = <<Head(q)>> \o Tail(q)
    BY <1>2, <2>1, HeadTailProperties
  <2>3. Append(have, Head(q)) = have \o <<Head(q)>>
    BY <2>1, AppendIsConcat
  <2>4. (have \o <<Head(q)>>) \o Tail(q) = have \o (<<Head(q)>> \o Tail(q))
    BY <2>1, ConcatAssociative
  <2> QED
    BY <2>1, <2>2, <2>3, <2>4
<1> QED
  BY <1>1, <1>2

\* A target that an MQTT port reads is one of those with a queue.
LEMMA MqttTarget ==
    ASSUME NEW p \in DOMAIN ports, ports[p].kind = "mqtt", NEW t \in Targets(p)
    PROVE  t \in MqttTargets(ports)
BY DEF MqttTargets, Targets

\* Every step keeps what was read and what waits in the order of arrival.
LEMMA QueueStep ==
    ASSUME QueueInv, CallInv, [Next]_vars
    PROVE  QueueInv'
<1>1. ports' = ports
  BY DEF Next, StartPorts, StopPorts, Begin, StartNext, StartDone, CleanNext, CleanDone, StopNext,
         StopDone, LinkLost, Send, TakesEffect, HungLoopEnds, Arrive, Read, Write, calling, vars
<1>2. MqttTargets(ports)' = MqttTargets(ports)
  BY <1>1
<1> DEFINE T == MqttTargets(ports)
<1>3. CASE UNCHANGED mqtt
  BY <1>2, <1>3 DEF mqtt, QueueInv, ReadsFollowArrival
<1>4. ASSUME NEW p \in DOMAIN ports, NEW t \in Targets(p), NEW decodable \in BOOLEAN,
             Arrive(p, t, decodable)
      PROVE  QueueInv'
  <2>1. t \in T /\ taken' = taken /\ messages' = messages + 1 /\ messages' \in Nat
    BY <1>4, MqttTarget DEF Arrive, QueueInv
  <2>2. CASE queue' = queue /\ arrived' = arrived
    BY <1>2, <2>1, <2>2 DEF QueueInv, ReadsFollowArrival
  <2>3. CASE /\ queue' = [queue EXCEPT ![t] = Append(@, messages')]
             /\ arrived' = [arrived EXCEPT ![t] = Append(@, messages')]
    <3>1. /\ queue[t] \in Seq(Nat) /\ taken[t] \in Seq(Nat) /\ arrived[t] \in Seq(Nat)
          /\ arrived[t] = taken[t] \o queue[t]
      BY <2>1 DEF QueueInv, ReadsFollowArrival
    <3>2. /\ Append(queue[t], messages') \in Seq(Nat)
          /\ Append(arrived[t], messages') \in Seq(Nat)
          /\ taken[t] \o Append(queue[t], messages') = Append(arrived[t], messages')
      <4>1. Append(arrived[t], messages') \in Seq(Nat)
        BY <2>1, <3>1
      <4>2. /\ Append(queue[t], messages') \in Seq(Nat)
            /\ taken[t] \o Append(queue[t], messages') = Append(taken[t] \o queue[t], messages')
        BY <2>1, <3>1, QueueMoves
      <4> QED
        BY <3>1, <4>1, <4>2
    <3>3. queue' \in [T -> Seq(Nat)] /\ arrived' \in [T -> Seq(Nat)]
      BY <2>1, <2>3, <3>2 DEF QueueInv
    <3>4. ASSUME NEW u \in T PROVE taken'[u] \o queue'[u] = arrived'[u]
      <4>1. CASE u = t
        BY <2>1, <2>3, <3>2, <4>1 DEF QueueInv
      <4>2. CASE u # t
        BY <2>1, <2>3, <4>2 DEF QueueInv, ReadsFollowArrival
      <4> QED
        BY <4>1, <4>2
    <3> QED
      BY <1>2, <2>1, <3>3, <3>4 DEF QueueInv, ReadsFollowArrival
  <2> QED
    BY <1>4, <2>2, <2>3 DEF Arrive, Dispatch
<1>5. ASSUME NEW p \in DOMAIN ports, NEW t \in Targets(p) \cup {Stranger}, NEW f \in SideFailures,
             Read(p, t, f)
      PROVE  QueueInv'
  <2>1. t \in Targets(p) /\ queue[t] # <<>> /\ MqttRead(p, t).value = Head(queue[t])
    BY <1>5 DEF Read, MqttRead, Raise, Nothing, Point
  <2>2. t \in T /\ arrived' = arrived /\ messages' = messages
    BY <1>5, <2>1, MqttTarget DEF Read
  <2>3. /\ queue' = [queue EXCEPT ![t] = Tail(@)]
        /\ taken' = [taken EXCEPT ![t] = Append(@, Head(queue[t]))]
    BY <1>5, <2>1 DEF Read
  <2>4. queue[t] \in Seq(Nat) /\ taken[t] \in Seq(Nat) /\ arrived[t] = taken[t] \o queue[t]
    BY <2>2 DEF QueueInv, ReadsFollowArrival
  <2>5. /\ Tail(queue[t]) \in Seq(Nat) /\ Append(taken[t], Head(queue[t])) \in Seq(Nat)
        /\ Append(taken[t], Head(queue[t])) \o Tail(queue[t]) = arrived[t]
    BY <2>1, <2>4, QueueMoves
  <2>6. queue' \in [T -> Seq(Nat)] /\ taken' \in [T -> Seq(Nat)]
    BY <2>2, <2>3, <2>5 DEF QueueInv
  <2>7. ASSUME NEW u \in T PROVE taken'[u] \o queue'[u] = arrived'[u]
    <3>1. CASE u = t
      BY <2>2, <2>3, <2>5, <3>1 DEF QueueInv
    <3>2. CASE u # t
      BY <2>2, <2>3, <3>2 DEF QueueInv, ReadsFollowArrival
    <3> QED
      BY <3>1, <3>2
  <2> QED
    BY <1>2, <2>2, <2>6, <2>7 DEF QueueInv, ReadsFollowArrival
<1> QED
  BY <1>3, <1>4, <1>5
  DEF Next, StartPorts, StopPorts, Begin, StartNext, StartDone, CleanNext, CleanDone, StopNext,
      StopDone, LinkLost, Send, TakesEffect, HungLoopEnds, Write, vars

\* Nothing has arrived at first.
LEMMA QueueInit == Init => QueueInv
<1> SUFFICES ASSUME Init PROVE QueueInv
  OBVIOUS
<1>1. <<>> \in Seq(Nat) /\ <<>> \o <<>> = <<>>
  OBVIOUS
<1> QED
  BY <1>1 DEF Init, QueueInv, ReadsFollowArrival

\* No MQTT point is lost, doubled or overtaken.
THEOREM ReadsEver == Spec => []ReadsFollowArrival
<1>1. QueueInv => ReadsFollowArrival
  BY DEF QueueInv
<1> QED
  BY <1>1, CallInit, CallStep, QueueInit, QueueStep, PTL DEF Spec

-------------------------------------------------------------------------------
\* A start() or stop() keeps loops and clients in step.
LEMMA LoopMove ==
    ASSUME LoopInv, ports' = ports, NEW p \in 1..N, NEW r, Become(p, r),
           r \in StartResults(p) \/ r \in StopResults(p)
    PROVE  LoopInv' /\ (r.loop = "on" => r.client)
<1>1. N' = N
  BY DEF N
<1>2. /\ loop' = [loop EXCEPT ![p] = IF r.loop = "on" THEN "on" ELSE "off"]
      /\ \A q \in 1..N : q # p => (q \in client' <=> q \in client)
      /\ p \in client' <=> r.client
  BY DEF Become, With
<1>3. r.loop = "on" => r.client
  BY StartResult, StopResult DEF LoopInv
<1>4. r.client /\ ports[p].kind = "opcua" => r.loop = "on"
  BY StartResult, StopResult DEF LoopInv
<1> QED
  BY <1>1, <1>2, <1>3, <1>4 DEF LoopInv

\* A function on the numbers of a sequence is one of the same length.
LEMMA SameLength ==
    ASSUME NEW S, NEW s \in Seq(S), NEW f, DOMAIN f = DOMAIN s, f = [n \in DOMAIN s |-> f[n]],
           \A n \in DOMAIN s : f[n] \in S
    PROVE  f \in Seq(S)
<1>1. Len(s) \in Nat /\ DOMAIN s = 1..Len(s)
  OBVIOUS
<1>2. f \in [1..Len(s) -> S]
  BY <1>1
<1> QED
  BY <1>1, <1>2, SeqDef

\* What is known of one write.
LEMMA WriteTyped ==
    ASSUME WriteInv, NEW m \in DOMAIN writes
    PROVE  /\ writes[m] \in [port : 1..N, at : Places, confirmed : BOOLEAN]
           /\ writes[m].at = "loop" => writes[m].port \in client
<1>1. m \in 1..Len(writes) /\ writes \in Seq([port : 1..N, at : Places, confirmed : BOOLEAN])
  BY DEF WriteInv
<1>2. writes[m] \in [port : 1..N, at : Places, confirmed : BOOLEAN]
  BY <1>1, ElementOfSeq
<1>3. writes[m].at = "loop" => writes[m].port \in client
  BY DEF WriteInv
<1> QED
  BY <1>2, <1>3

\* Writes that change place short of the server stay accounted for.
LEMMA WritesMoved ==
    ASSUME WriteInv, ports' = ports, server' = server,
           DOMAIN writes' = DOMAIN writes, writes' = [n \in DOMAIN writes |-> writes'[n]],
           \A n \in DOMAIN writes :
              /\ writes'[n] \in [port : 1..N, at : Places, confirmed : BOOLEAN]
              /\ writes'[n].confirmed = writes[n].confirmed
              /\ writes'[n].at = "server" <=> writes[n].at = "server"
              /\ writes'[n].at = "loop" => writes'[n].port \in client'
    PROVE  WriteInv'
<1>1. N' = N
  BY DEF N
<1>2. writes' \in Seq([port : 1..N, at : Places, confirmed : BOOLEAN])
  BY SameLength DEF WriteInv
<1>3. Confirmed' = Confirmed
  BY DEF Confirmed
<1>4. {n \in DOMAIN writes' : writes'[n].at = "server"} = {n \in DOMAIN writes : writes[n].at = "server"}
  OBVIOUS
<1> QED
  BY <1>1, <1>2, <1>3, <1>4 DEF WriteInv

\* The writes of a port whose client goes are taken out of its loop.
LEMMA WritesAbandoned ==
    ASSUME WriteInv, ports' = ports, server' = server, NEW p \in 1..N, NEW r, Become(p, r),
           r.loop = "on" => r.client
    PROVE  WriteInv'
<1>1. /\ writes' = [n \in DOMAIN writes |-> Abandoned(writes[n], p, r.loop)]
      /\ \A q : q # p => (q \in client' <=> q \in client)
      /\ r.client => p \in client'
  BY DEF Become, With
<1>2. DOMAIN writes' = DOMAIN writes /\ writes' = [n \in DOMAIN writes |-> writes'[n]]
      /\ \A n \in DOMAIN writes : writes'[n] = Abandoned(writes[n], p, r.loop)
  BY <1>1
<1>3. ASSUME NEW n \in DOMAIN writes
      PROVE  /\ writes'[n] \in [port : 1..N, at : Places, confirmed : BOOLEAN]
             /\ writes'[n].confirmed = writes[n].confirmed
             /\ writes'[n].at = "server" <=> writes[n].at = "server"
             /\ writes'[n].at = "loop" => writes'[n].port \in client'
  <2>1. /\ writes[n] \in [port : 1..N, at : Places, confirmed : BOOLEAN]
        /\ writes[n].at = "loop" => writes[n].port \in client
    BY WriteTyped
  <2>2. CASE r.loop = "on" \/ writes[n].port # p \/ writes[n].at # "loop"
    <3>1. writes'[n] = writes[n]
      BY <1>2, <2>2 DEF Abandoned
    <3> QED
      BY <1>1, <2>1, <2>2, <3>1
  <2>3. CASE ~(r.loop = "on" \/ writes[n].port # p \/ writes[n].at # "loop")
    <3>1. \E place \in {"left", "gone"} : writes'[n] = [writes[n] EXCEPT !.at = place]
      BY <1>2, <2>3 DEF Abandoned
    <3> QED
      BY <2>1, <2>3, <3>1 DEF Places
  <2> QED
    BY <2>2, <2>3
<1> HIDE DEF Places
<1> QED
  BY <1>2, <1>3, WritesMoved

\* Which step moves which port.
LEMMA PortStep ==
    ASSUME CallInv, StartNext \/ CleanNext \/ StopNext
    PROVE  \E p \in 1..N : \E r : /\ r \in StartResults(p) \/ r \in StopResults(p)
                                 /\ Become(p, r) /\ server' = server
<1>1. N \in Nat /\ Len(call.todo) \in Nat
  BY PortsTyped DEF CallInv
<1>2. CASE StartNext
  <2>1. Len(call.todo) + 1 \in 1..N
    BY <1>1, <1>2 DEF StartNext, N
  <2> QED
    BY <1>2, <2>1 DEF StartNext
<1>3. CASE CleanNext \/ StopNext
  <2>1. Last(call.todo) \in 1..N
    BY <1>3, LastPort DEF CleanNext, StopNext
  <2> QED
    BY <1>3, <2>1 DEF CleanNext, StopNext
<1> QED
  BY <1>2, <1>3

\* The members of a longer sequence.
LEMMA ToSetAppend ==
    ASSUME NEW s \in Seq(Nat), NEW e \in Nat
    PROVE  Append(s, e) \in Seq(Nat) /\ ToSet(Append(s, e)) = ToSet(s) \cup {e}
<1>1. Append(s, e) \in Seq(Nat) /\ DOMAIN Append(s, e) = 1..(Len(s) + 1) /\ DOMAIN s = 1..Len(s)
      /\ Len(s) \in Nat
  OBVIOUS
<1>2. Append(s, e)[Len(s) + 1] = e /\ \A i \in 1..Len(s) : Append(s, e)[i] = s[i]
  OBVIOUS
<1>3. 1..(Len(s) + 1) = (1..Len(s)) \cup {Len(s) + 1}
  BY <1>1
<1>4. ToSet(Append(s, e)) = {Append(s, e)[i] : i \in (1..Len(s)) \cup {Len(s) + 1}}
  BY <1>1, <1>3 DEF ToSet
<1>5. ToSet(s) = {s[i] : i \in 1..Len(s)}
  BY <1>1 DEF ToSet
<1> QED
  BY <1>1, <1>2, <1>4, <1>5

\* A write that comes to the server keeps every write in one place.
LEMMA WriteArrives ==
    ASSUME WriteInv, NEW w \in Nat, w \notin ToSet(server), server' = Append(server, w)
    PROVE  /\ server' \in Seq(Nat) /\ IsInjective(server')
           /\ ToSet(server') = ToSet(server) \cup {w}
           /\ DOMAIN server' = 1..(Len(server) + 1)
           /\ \A i \in DOMAIN server' :
                 \/ i \in DOMAIN server /\ server'[i] = server[i]
                 \/ i = Len(server) + 1 /\ server'[i] = w
           /\ \A i \in DOMAIN server : i <= Len(server) /\ i \in Int
<1>1. server \in Seq(Nat) /\ Len(server) \in Nat
  BY DEF WriteInv
<1>2. server' \in Seq(Nat) /\ DOMAIN server' = 1..(Len(server) + 1) /\ DOMAIN server = 1..Len(server)
  BY <1>1
<1>3. \A i \in DOMAIN server' :
                 \/ i \in DOMAIN server /\ server'[i] = server[i]
                 \/ i = Len(server) + 1 /\ server'[i] = w
  BY <1>1, <1>2
<1>4. server'[Len(server) + 1] = w /\ \A i \in DOMAIN server : server'[i] = server[i] /\ i \in DOMAIN server'
  BY <1>1, <1>2
<1>5. ToSet(server') = ToSet(server) \cup {w}
  BY <1>2, <1>3, <1>4 DEF ToSet
<1>6. \A i \in DOMAIN server : server[i] # w
  BY DEF ToSet
<1>7. IsInjective(server')
  <2>1. \A a, b \in DOMAIN server : server[a] = server[b] => a = b
    BY DEF WriteInv, IsInjective
  <2> QED
    BY <1>3, <1>6, <2>1 DEF IsInjective
<1> QED
  BY <1>1, <1>2, <1>3, <1>5, <1>7

\* A write that is on its way comes to the server.
LEMMA WriteTakesEffect ==
    ASSUME WriteInv, ports' = ports, client' = client, NEW n \in DOMAIN writes, TakesEffect(n)
    PROVE  WriteInv'
<1>1. /\ writes' = [writes EXCEPT ![n].at = "server"] /\ server' = Append(server, n)
      /\ writes[n].at = "wire" /\ n \in Nat /\ n \notin ToSet(server)
  BY DEF TakesEffect, WriteInv
<1>2. /\ DOMAIN writes' = DOMAIN writes /\ writes' = [m \in DOMAIN writes |-> writes'[m]]
      /\ \A m \in DOMAIN writes : m # n => writes'[m] = writes[m]
      /\ writes'[n] = [writes[n] EXCEPT !.at = "server"]
  BY <1>1
<1>3. \A m \in DOMAIN writes : writes[m] \in [port : 1..N, at : Places, confirmed : BOOLEAN]
  BY WriteTyped
<1>4. \A m \in DOMAIN writes :
        /\ writes'[m] \in [port : 1..N, at : Places, confirmed : BOOLEAN]
        /\ writes'[m].confirmed = writes[m].confirmed
        /\ writes'[m].at = "server" <=> writes[m].at = "server" \/ m = n
        /\ writes'[m].at = "loop" => writes[m].at = "loop" /\ writes'[m].port = writes[m].port
  BY <1>1, <1>2, <1>3 DEF Places
<1>5. writes' \in Seq([port : 1..N, at : Places, confirmed : BOOLEAN]) /\ N' = N
  <2> HIDE DEF Places
  <2> QED
    BY <1>2, <1>4, SameLength DEF WriteInv, N
<1>6. Confirmed' = Confirmed /\ n \notin Confirmed
  <2>1. Confirmed' = Confirmed
    BY <1>2, <1>4 DEF Confirmed
  <2> QED
    BY <1>1, <2>1 DEF WriteInv
<1>7. /\ server' \in Seq(Nat) /\ IsInjective(server') /\ ToSet(server') = ToSet(server) \cup {n}
      /\ \A i \in DOMAIN server' :
            \/ i \in DOMAIN server /\ server'[i] = server[i]
            \/ i = Len(server) + 1 /\ server'[i] = n
  BY <1>1, WriteArrives
<1>8. ToSet(server') = {m \in DOMAIN writes' : writes'[m].at = "server"}
  BY <1>2, <1>4, <1>7 DEF WriteInv
<1>9. \A i, j \in DOMAIN server' :
         i < j /\ {server'[i], server'[j]} \subseteq Confirmed => server'[i] < server'[j]
  BY <1>6, <1>7 DEF WriteInv
<1>10. \A m \in DOMAIN writes' : writes'[m].at = "loop" => writes'[m].port \in client'
  BY <1>2, <1>4 DEF WriteInv
<1> QED
  BY <1>5, <1>6, <1>7, <1>8, <1>9, <1>10 DEF WriteInv

\* A new write has the next number, and is confirmed only when it is on the server.
LEMMA WriteSent ==
    ASSUME WriteInv, CallInv, ports' = ports, client' = client, NEW p \in 1..N,
           NEW t \in Targets(p) \cup {Stranger}, NEW payload \in Payloads,
           NEW delivery \in Deliveries, Write(p, t, payload, delivery)
    PROVE  WriteInv'
<1> DEFINE n == Len(writes) + 1
           W == [port : 1..N, at : Places, confirmed : BOOLEAN]
<1>1. WriteRefusal(p, t) = {} /\ p \in client
  BY DEF Write, AdapterWrite, WriteRefusal
<1>2. AdapterWrite(p, t, payload, delivery) = {} <=> delivery = "done"
  BY <1>1 DEF Write, AdapterWrite, OpcuaWrite
<1>3. PICK where \in Whereabouts(delivery) :
        writes' = Append(writes, [port |-> p, at |-> where, confirmed |-> delivery = "done"])
  BY <1>2 DEF Write
<1>4. /\ where \in Places /\ (where = "server" <=> delivery = "done")
  BY <1>3 DEF Whereabouts, Places, Deliveries
<1>5. /\ writes \in Seq(W) /\ Len(writes) \in Nat /\ n \in Nat /\ DOMAIN writes = 1..Len(writes)
      /\ [port |-> p, at |-> where, confirmed |-> delivery = "done"] \in W
  BY <1>4 DEF WriteInv
<1>6. /\ writes' \in Seq(W) /\ Len(writes') = n /\ DOMAIN writes' = 1..n
      /\ \A m \in 1..Len(writes) : writes'[m] = writes[m]
      /\ writes'[n] = [port |-> p, at |-> where, confirmed |-> delivery = "done"]
  <2> HIDE DEF W
  <2> QED
    BY <1>3, <1>5
<1>7. /\ N' = N
      /\ \A m \in DOMAIN writes' : m \in DOMAIN writes \/ m = n
      /\ DOMAIN writes \subseteq DOMAIN writes' /\ n \in DOMAIN writes' /\ n \notin DOMAIN writes
  BY <1>5, <1>6 DEF N
<1>8. \A m \in DOMAIN writes' : writes'[m].at = "loop" => writes'[m].port \in client'
  <2>1. writes'[n].port = p
    BY <1>6
  <2>2. \A m \in DOMAIN writes : writes'[m] = writes[m] /\ (writes[m].at = "loop" => writes[m].port \in client)
    BY <1>5, <1>6, WriteTyped
  <2> HIDE DEF n, W
  <2> QED
    BY <1>1, <1>7, <2>1, <2>2
<1>9. \A i \in DOMAIN server : server[i] \in DOMAIN writes
  <2>1. \A i \in DOMAIN server : server[i] \in ToSet(server)
    BY DEF ToSet
  <2> QED
    BY <2>1 DEF WriteInv
<1>10. CASE delivery = "done"
  <2>1. server' = Append(server, n) /\ n \notin ToSet(server)
    BY <1>6, <1>7, <1>10 DEF Write, WriteInv
  <2>2. /\ server' \in Seq(Nat) /\ IsInjective(server') /\ ToSet(server') = ToSet(server) \cup {n}
        /\ DOMAIN server' = 1..(Len(server) + 1)
        /\ \A i \in DOMAIN server' :
              \/ i \in DOMAIN server /\ server'[i] = server[i]
              \/ i = Len(server) + 1 /\ server'[i] = n
        /\ \A i \in DOMAIN server : i <= Len(server) /\ i \in Int
    BY <1>5, <2>1, WriteArrives
  <2>3. Confirmed' = Confirmed \cup {n}
    BY <1>5, <1>6, <1>7, <1>10 DEF Confirmed
  <2>4. ToSet(server') = {m \in DOMAIN writes' : writes'[m].at = "server"}
    BY <1>4, <1>5, <1>6, <1>7, <1>10, <2>2 DEF WriteInv
  <2>5. ASSUME NEW i \in DOMAIN server', NEW j \in DOMAIN server', i < j,
               {server'[i], server'[j]} \subseteq Confirmed'
        PROVE  server'[i] < server'[j]
    <3>1. Len(server) \in Nat /\ i \in DOMAIN server /\ server'[i] = server[i]
      BY <2>2, <2>5 DEF WriteInv
    <3>2. server[i] < n /\ server[i] \in 1..Len(writes)
      BY <1>5, <1>9, <3>1
    <3>3. CASE j = Len(server) + 1 /\ server'[j] = n
      BY <3>1, <3>2, <3>3
    <3>4. CASE j \in DOMAIN server /\ server'[j] = server[j]
      <4>1. server[i] # n /\ server[j] # n
        BY <1>5, <1>7, <1>9, <3>1, <3>4
      <4>2. {server[i], server[j]} \subseteq Confirmed
        BY <2>3, <2>5, <3>1, <3>4, <4>1
      <4> QED
        BY <2>5, <3>1, <3>4, <4>2 DEF WriteInv
    <3> QED
      BY <2>2, <3>3, <3>4
  <2>6. Confirmed' \subseteq ToSet(server')
    BY <2>2, <2>3 DEF WriteInv
  <2> QED
    BY <1>6, <1>7, <1>8, <2>2, <2>4, <2>5, <2>6 DEF WriteInv
<1>11. CASE delivery # "done"
  <2>1. server' = server
    BY <1>11 DEF Write
  <2>2. Confirmed' = Confirmed
    BY <1>5, <1>6, <1>7, <1>11 DEF Confirmed
  <2>3. ToSet(server') = {m \in DOMAIN writes' : writes'[m].at = "server"}
    <3>1. ToSet(server') = {m \in DOMAIN writes : writes[m].at = "server"}
      BY <2>1 DEF WriteInv
    <3>2. writes'[n].at # "server"
      BY <1>4, <1>6, <1>11
    <3>3. \A m \in DOMAIN writes : writes'[m] = writes[m]
      BY <1>5, <1>6
    <3> HIDE DEF n, W
    <3> QED
      BY <1>7, <3>1, <3>2, <3>3
  <2> QED
    BY <1>6, <1>7, <1>8, <2>1, <2>2, <2>3 DEF WriteInv
<1> QED
  BY <1>10, <1>11

\* Every step keeps the event loops and the writes in step.
LEMMA WriteStep ==
    ASSUME LoopInv, WriteInv, CallInv, [Next]_vars
    PROVE  LoopInv' /\ WriteInv'
<1>1. ports' = ports
  BY DEF Next, StartPorts, StopPorts, Begin, StartNext, StartDone, CleanNext, CleanDone, StopNext,
         StopDone, LinkLost, Send, TakesEffect, HungLoopEnds, Arrive, Read, Write, calling, vars
<1>2. N \in Nat /\ N' = N /\ DOMAIN ports = 1..N
  BY <1>1, PortsTyped DEF CallInv, N
<1>3. UNCHANGED <<client, loop>> => LoopInv'
  BY <1>1, <1>2 DEF LoopInv
<1>4. CASE UNCHANGED <<client, loop, opcua>>
  BY <1>1, <1>2, <1>3, <1>4 DEF opcua, WriteInv, Confirmed
<1>5. CASE StartNext \/ CleanNext \/ StopNext
  <2>1. PICK p \in 1..N : \E r : /\ r \in StartResults(p) \/ r \in StopResults(p)
                                /\ Become(p, r) /\ server' = server
    BY <1>5, PortStep
  <2>2. PICK r : /\ r \in StartResults(p) \/ r \in StopResults(p)
                 /\ Become(p, r) /\ server' = server
    BY <2>1
  <2>3. LoopInv' /\ (r.loop = "on" => r.client)
    BY <1>1, <2>2, LoopMove
  <2> QED
    BY <1>1, <2>2, <2>3, WritesAbandoned
<1>6. ASSUME NEW n \in DOMAIN writes, Send(n) \/ HungLoopEnds(n) PROVE LoopInv' /\ WriteInv'
  <2>1. PICK place \in {"wire", "gone"} : writes' = [writes EXCEPT ![n].at = place]
    BY <1>6 DEF Send, HungLoopEnds
  <2>2. UNCHANGED <<client, loop, server>> /\ writes[n].at \in {"loop", "left"}
    BY <1>6 DEF Send, HungLoopEnds, session
  <2>3. /\ DOMAIN writes' = DOMAIN writes /\ writes' = [m \in DOMAIN writes |-> writes'[m]]
        /\ \A m \in DOMAIN writes : m # n => writes'[m] = writes[m]
        /\ writes'[n] = [writes[n] EXCEPT !.at = place]
    BY <2>1
  <2>4. \A m \in DOMAIN writes :
          /\ writes'[m] \in [port : 1..N, at : Places, confirmed : BOOLEAN]
          /\ writes'[m].confirmed = writes[m].confirmed
          /\ writes'[m].at = "server" <=> writes[m].at = "server"
          /\ writes'[m].at = "loop" => writes'[m].port \in client'
    <3>1. place \in Places /\ place \notin {"loop", "server"}
      BY DEF Places
    <3>2. writes[n] \in [port : 1..N, at : Places, confirmed : BOOLEAN]
      BY WriteTyped
    <3> HIDE DEF Places
    <3>3. /\ writes'[n] \in [port : 1..N, at : Places, confirmed : BOOLEAN]
          /\ writes'[n].at = place /\ writes'[n].confirmed = writes[n].confirmed
      BY <2>3, <3>1, <3>2
    <3> SUFFICES ASSUME NEW m \in DOMAIN writes
                 PROVE  /\ writes'[m] \in [port : 1..N, at : Places, confirmed : BOOLEAN]
                        /\ writes'[m].confirmed = writes[m].confirmed
                        /\ writes'[m].at = "server" <=> writes[m].at = "server"
                        /\ writes'[m].at = "loop" => writes'[m].port \in client'
      OBVIOUS
    <3>4. CASE m = n
      BY <2>2, <3>1, <3>3, <3>4
    <3>5. CASE m # n
      <4>1. writes'[m] = writes[m] /\ client' = client
        BY <2>2, <2>3, <3>5
      <4>2. /\ writes[m] \in [port : 1..N, at : Places, confirmed : BOOLEAN]
            /\ writes[m].at = "loop" => writes[m].port \in client
        BY WriteTyped
      <4> QED
        BY <4>1, <4>2
    <3> QED
      BY <3>4, <3>5
  <2> QED
    BY <1>1, <1>3, <2>2, <2>3, <2>4, WritesMoved
<1>7. ASSUME NEW n \in DOMAIN writes, TakesEffect(n) PROVE LoopInv' /\ WriteInv'
  BY <1>1, <1>3, <1>7, WriteTakesEffect DEF TakesEffect, session
<1>8. ASSUME NEW p \in 1..N, NEW t \in Targets(p) \cup {Stranger}, NEW payload \in Payloads,
             NEW delivery \in Deliveries, Write(p, t, payload, delivery)
      PROVE  LoopInv' /\ WriteInv'
  <2>1. UNCHANGED <<client, loop>>
    BY <1>8 DEF Write, session
  <2> QED
    BY <1>1, <1>3, <1>8, <2>1, WriteSent
<1> QED
  BY <1>2, <1>4, <1>5, <1>6, <1>7, <1>8
  DEF Next, StartPorts, StopPorts, Begin, StartDone, CleanDone, StopDone, LinkLost, Arrive, Read,
      session, vars

\* No event loop runs and nothing is written at first.
LEMMA WriteInit == Init => LoopInv /\ WriteInv
<1> SUFFICES ASSUME Init PROVE LoopInv /\ WriteInv
  OBVIOUS
<1>1. DOMAIN ports = 1..N
  BY PortsTyped DEF Init
<1>2. LoopInv
  BY <1>1 DEF Init, LoopInv
<1>3. WriteInv
  BY <1>1 DEF Init, WriteInv, Confirmed, ToSet, IsInjective
<1> QED
  BY <1>2, <1>3

\* Every OPC UA write is accounted for: confirmed ones have taken effect once and in
\* order, and what waits in a loop belongs to a port that holds a client.
THEOREM WritesEver == Spec => []WritesAreAccountedFor
<1>1. LoopInv /\ WriteInv /\ CallInv => WritesAreAccountedFor
  BY PortsTyped DEF LoopInv, WriteInv, CallInv, WritesAreAccountedFor
<1> QED
  BY <1>1, CallInit, CallStep, WriteInit, WriteStep, PTL DEF Spec

-------------------------------------------------------------------------------
\* What is refused before the device is asked is refused as a read error.
LEMMA ReadRefused ==
    ASSUME NEW p \in DOMAIN ports, ports[p].kind \in Kinds \ {"mqtt"}, NEW t \in Targets(p)
    PROVE  \/ ReadRefusal(p, t) = {} /\ p \in client
           \/ ReadRefusal(p, t) = {ReadError}
<1>1. Error(p, "read_access") = ReadError /\ Error(p, "read_not_started") = ReadError
  BY DEF Error, Errors, Kinds, ModbusErrors, OpcuaErrors, Dnp3Errors, Iec61850Errors
<1> QED
  BY <1>1 DEF ReadRefusal

\* An adapter answers with the device's value, or with a read error.
LEMMA ReadAnswered ==
    ASSUME NEW p \in DOMAIN ports, ports[p].kind \in Kinds \ {"mqtt"}, NEW t \in Targets(p),
           NEW answer, answer # "overflow"
    PROVE  \/ AdapterRead(p, t, answer) = Raise(ReadError)
           \/ /\ p \in client /\ answer \in {"value", "text"}
              /\ AdapterRead(p, t, answer) \in {Point("fresh"), Point("invalid")}
<1>1. CASE ReadRefusal(p, t) = {ReadError}
  BY <1>1 DEF AdapterRead
<1>2. CASE ReadRefusal(p, t) = {} /\ p \in client
  <2>1. \/ AdapterRead(p, t, answer) = ModbusRead(answer)
        \/ AdapterRead(p, t, answer) = OpcuaRead(answer)
        \/ AdapterRead(p, t, answer) = Dnp3Read(answer)
        \/ AdapterRead(p, t, answer) = Iec61850Read(answer)
    BY <1>2 DEF AdapterRead, Kinds
  <2>2. /\ ModbusErrors.read_failed = ReadError /\ OpcuaErrors.read_failed = ReadError
        /\ Dnp3Errors.read_failed = ReadError /\ Iec61850Errors.read_failed = ReadError
    BY DEF ModbusErrors, OpcuaErrors, Dnp3Errors, Iec61850Errors
  <2> QED
    BY <1>2, <2>1, <2>2 DEF ModbusRead, OpcuaRead, Dnp3Read, Iec61850Read
<1> QED
  BY <1>1, <1>2, ReadRefused

\* A failure of the trace port that is caught changes nothing.
LEMMA TraceKept ==
    ASSUME NEW r, NEW f \in SideFailures, f.known
    PROVE  Traced(r, f).result = r /\ Traced(r, f).open = 0
  BY DEF Traced

\* Points pass the guard; of a read error it makes a missing point.
LEMMA GuardKept ==
    ASSUME NEW f \in SideFailures, f.known
    PROVE  /\ Guarded(Raise(ReadError), f).result = Missing
           /\ Guarded(Raise(ReadError), f).alarms = IF f.at = "alarm" THEN 0 ELSE 1
           /\ \A v : Guarded(Point(v), f) = [result |-> Point(v), alarms |-> 0]
<1>1. IsReadError(Raise(ReadError)) /\ \A v : ~IsReadError(Point(v))
  BY DEF IsReadError, Raise, ReadError, Point
<1> QED
  BY <1>1 DEF Guarded

\* A lost link is told to the reader, in whatever state the ports are.
LEMMA LossTold == CallInv => LossIsReported
<1> SUFFICES ASSUME CallInv, NEW p \in DOMAIN ports, ports[p].kind # "mqtt", NEW t \in Targets(p),
                    NEW answer \in Answers(p) \ {"overflow"}, NEW f \in SideFailures, f.known
             PROVE  LET s == Served(p, t, answer, f) IN
                    /\ s.open = 0
                    /\ s.result.got \in {"point", "missing"}
                    /\ s.result.got = "point" => p \in client /\ answer \in {"value", "text"}
                    /\ s.result.got = "missing" => s.alarms = IF f.at = "alarm" THEN 0 ELSE 1
  BY DEF LossIsReported
<1> DEFINE r == AdapterRead(p, t, answer)
<1>1. ports[p].kind \in Kinds \ {"mqtt"}
  BY PortsTyped DEF CallInv
<1>2. /\ Served(p, t, answer, f).open = 0
      /\ Served(p, t, answer, f).result = Guarded(r, f).result
      /\ Served(p, t, answer, f).alarms = Guarded(r, f).alarms
  <2>1. Traced(r, f).result = r /\ Traced(r, f).open = 0
    BY TraceKept
  <2> HIDE DEF r
  <2>2. Served(p, t, answer, f) = [result |-> Guarded(Traced(r, f).result, f).result,
                                   alarms |-> Guarded(Traced(r, f).result, f).alarms,
                                   open |-> Traced(r, f).open]
    BY DEF Served, r
  <2> QED
    BY <2>1, <2>2
<1>3. CASE r = Raise(ReadError)
  BY <1>2, <1>3, GuardKept DEF Missing
<1>4. CASE p \in client /\ answer \in {"value", "text"} /\ r \in {Point("fresh"), Point("invalid")}
  <2>1. PICK v \in {"fresh", "invalid"} : r = Point(v)
    BY <1>4
  <2>2. Guarded(Point(v), f) = [result |-> Point(v), alarms |-> 0]
    BY GuardKept
  <2> HIDE DEF r
  <2>3. Served(p, t, answer, f).result = Point(v)
    BY <1>2, <2>1, <2>2
  <2>4. Served(p, t, answer, f).result.got = "point"
    BY <2>3 DEF Point
  <2> QED
    BY <1>2, <1>4, <2>4
<1> QED
  BY <1>1, <1>3, <1>4, ReadAnswered

\* What an adapter makes of a command to one of its targets: nothing, or a write error.
LEMMA WriteAnswered ==
    ASSUME NEW p \in DOMAIN ports, ports[p].kind \in Kinds, NEW t \in Targets(p),
           NEW delivery \in Deliveries, NEW payload \in Payloads \ Unpackable[ports[p].kind]
    PROVE  AdapterWrite(p, t, payload, delivery) \subseteq {WriteError}
<1>1. WriteRefusal(p, t) \subseteq {WriteError}
  BY DEF WriteRefusal, Error, Errors, Kinds, ModbusErrors, OpcuaErrors, Dnp3Errors, Iec61850Errors,
         MqttErrors
<1>2. CASE ports[p].kind = "modbus"
  BY <1>1, <1>2 DEF AdapterWrite, ModbusWrite, Payloads, Unpackable, ModbusErrors
<1>3. CASE ports[p].kind = "opcua"
  BY <1>1, <1>3 DEF AdapterWrite, OpcuaWrite, Payloads, Unpackable, OpcuaErrors
<1>4. CASE ports[p].kind = "mqtt"
  BY <1>1, <1>4 DEF AdapterWrite, MqttWrite, Payloads, Unpackable, MqttErrors
<1>5. CASE ports[p].kind \in {"dnp3", "iec61850"}
  <2>1. Error(p, "write_not_implemented") = WriteError
    BY <1>5 DEF Error, Errors, Dnp3Errors, Iec61850Errors
  <2> QED
    BY <1>1, <1>5, <2>1 DEF AdapterWrite
<1> QED
  BY <1>2, <1>3, <1>4, <1>5 DEF Kinds

\* What goes wrong in a read or a write reaches its caller as what it is, in every state
\* the calls of the loop and the network can bring the ports to.
THEOREM FailuresEver == Spec => []FailuresAreTold
<1>1. CallInv => RefusalsAreWriteErrors
  BY PortsTyped, WriteAnswered DEF CallInv, RefusalsAreWriteErrors, WriteError
<1>2. CallInv => FailuresAreTold
  BY <1>1, LossTold DEF FailuresAreTold
<1> QED
  BY <1>2, CallInit, CallStep, PTL DEF Spec
===============================================================================
