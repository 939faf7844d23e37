------------------------------ MODULE FieldServer ------------------------------
(***************************************************************************)
(* The Modbus server of a run: its thread is started and stopped by the    *)
(* caller, refreshes the registers from the current values of the ticks,   *)
(* and turns what a master writes into inbound commands.                   *)
(*                                                                         *)
(* A value of tick t is t halves, so that the words of a window tell the   *)
(* tick they are of.  Other processes may hold the port; what pymodbus     *)
(* does within an await is left open.                                      *)
(***************************************************************************)
EXTENDS Registers

CONSTANTS
    Config,      \* [reads, writes] as ModbusServerConfig accepts it
    MaxTick,     \* bound: ticks
    MaxStarts,   \* bound: calls of start() that make a server thread
    Reports,     \* what a tick may tell: functions from devices to qualities
    Requests,    \* what masters write: [address, words]
    MaxWrites,   \* bound: requests of masters
    MaxFaults    \* bound: failing pushes, foreign owners of the port, hangs

ASSUME ConfigAssumption ==
    /\ {Config.reads, Config.writes} \subseteq Seq([address : Int, device : STRING])
    /\ ServerConfigError(Config) = "none"
ASSUME RequestAssumption ==
    \A request \in Requests :
        /\ request.address \in 0..MaxRegister
        /\ Len(request.words) \in Nat /\ DOMAIN request.words = 1..Len(request.words)
        /\ \A o \in DOMAIN request.words : request.words[o] \in 0..(Word - 1)
ASSUME BoundAssumption == MaxTick \in 1..(Word - 1) /\ {MaxStarts, MaxWrites, MaxFaults} \subseteq Nat

VARIABLES
    caller,   \* what the caller of the adapter does
    running,  \* ModbusDeviceServerAdapter._running: a server, or Nobody
    servers,  \* the server threads started so far
    owner,    \* who listens on the port: a server, Nobody, or Foreign
    latest,   \* CurrentValueProjection._latest
    tick,     \* ticks done
    commands, \* what InboundCommandBuffer has been given, in its order
    whole,    \* write windows whose registers were last written as a whole
    asked,    \* commands that masters have written so far
    writes, faults \* requests and faults so far

serverVars == <<caller, running, servers, owner>>
fieldVars == <<latest, tick>>
masterVars == <<commands, whole, asked, writes>>
vars == <<serverVars, fieldVars, masterVars, faults>>

Nobody == 0
Foreign == -1
ReadWindows == DOMAIN Config.reads
WriteWindows == DOMAIN Config.writes
Devices == {Config.reads[i].device : i \in ReadWindows}

\* SimData of _build_device: all registers and inputs zero.
EmptyStore == [read |-> [i \in ReadWindows |-> <<0, 0>>],
               discrete |-> [i \in ReadWindows |-> FALSE],
               write |-> [i \in WriteWindows |-> <<0, 0>>]]

\* A new server, and what there was to tell of each window when it was started.
NewServer == [had |-> [i \in ReadWindows |-> WindowWords(latest, Config.reads[i])[2]],
              pc |-> "building", known |-> FALSE, ready |-> FALSE, failed |-> FALSE,
              shut |-> FALSE, late |-> FALSE, hung |-> FALSE,
              frame |-> <<>>, next |-> 1, store |-> EmptyStore]

Newest == Len(servers)

Init ==
    /\ caller = "idle" /\ running = Nobody /\ servers = <<>> /\ owner = Nobody
    /\ latest = <<>> /\ tick = 0 /\ commands = <<>>
    /\ whole = {} /\ asked = 0 /\ writes = 0 /\ faults = 0

Fault == faults < MaxFaults /\ faults' = faults + 1

-------------------------------------------------------------------------------
(***************************************************************************)
(* The caller                                                              *)
(***************************************************************************)
\* start(): the port is tried; whoever holds it, an own late server included, makes
\* start() fail.  Called again while running it does nothing.
Start ==
    /\ caller = "idle" /\ running = Nobody /\ owner = Nobody /\ Newest < MaxStarts
    /\ servers' = Append(servers, NewServer)
    /\ caller' = "waiting"
    /\ UNCHANGED <<running, owner, fieldVars, masterVars, faults>>

\* Within five seconds the thread is ready, and has bound.
Started ==
    /\ caller = "waiting" /\ servers[Newest].ready /\ ~servers[Newest].failed
    /\ caller' = "idle" /\ running' = Newest
    /\ UNCHANGED <<servers, owner, fieldVars, masterVars, faults>>

\* The startup error of the thread is raised once the thread has ended.
StartFailed ==
    /\ caller = "waiting" /\ servers[Newest].failed /\ servers[Newest].pc = "ended"
    /\ caller' = "idle"
    /\ UNCHANGED <<running, servers, owner, fieldVars, masterVars, faults>>

\* The thread is not ready in time: it is told to stop, and the start fails.
StartTimesOut ==
    /\ caller = "waiting" /\ ~servers[Newest].ready /\ Fault
    /\ servers' = [servers EXCEPT ![Newest].late = TRUE]
    /\ caller' = "stopping_late"
    /\ UNCHANGED <<running, owner, fieldVars, masterVars>>

\* stop() of the adapter: it forgets the server first.
Stop ==
    /\ caller = "idle" /\ running # Nobody
    /\ running' = Nobody /\ caller' = "stopping"
    /\ UNCHANGED <<servers, owner, fieldVars, masterVars, faults>>

\* stop() of the server asks a server that it has come to know of to shut down; one that
\* is still being built is not told anything.
Shutdown ==
    /\ caller \in {"stopping", "stopping_late"}
    /\ servers' = [servers EXCEPT ![Newest].shut = @ \/ servers[Newest].known]
    /\ caller' = "joining"
    /\ UNCHANGED <<running, owner, fieldVars, masterVars, faults>>

\* A shutdown that takes too long ends with the loop being stopped.
Hang ==
    /\ caller = "joining" /\ servers[Newest].shut /\ servers[Newest].pc # "ended" /\ Fault
    /\ servers' = [servers EXCEPT ![Newest].hung = TRUE]
    /\ caller' = "joining"
    /\ UNCHANGED <<running, owner, fieldVars, masterVars>>

\* The thread is joined for five seconds: it may go on, if it was never told to stop or
\* hangs.
Joined ==
    /\ caller = "joining"
    /\ servers[Newest].pc = "ended" \/ ~servers[Newest].shut \/ servers[Newest].hung
    /\ caller' = "idle"
    /\ UNCHANGED <<running, servers, owner, fieldVars, masterVars, faults>>

-------------------------------------------------------------------------------
(***************************************************************************)
(* The server thread                                                       *)
(***************************************************************************)
Become(s, pc) == servers' = [servers EXCEPT ![s].pc = pc]

\* The thread ends, and what it held is gone.
Over(s, failed) ==
    servers' = [servers EXCEPT ![s] = [@ EXCEPT !.pc = "ended", !.ready = TRUE, !.failed = failed,
                                                !.frame = <<>>, !.next = 1, !.store = EmptyStore]]

Build(s) ==
    /\ servers[s].pc = "building"
    /\ servers' = [servers EXCEPT ![s] = [@ EXCEPT !.known = TRUE, !.pc = "binding"]]
    /\ UNCHANGED <<caller, running, owner, fieldVars, masterVars, faults>>

\* Mutant: the caller is woken before the first push.
BindReady(s) ==
    /\ servers[s].pc = "binding" /\ owner = Nobody
    /\ owner' = s
    /\ servers' = [servers EXCEPT ![s] = [@ EXCEPT !.pc = "pushing", !.next = 1, !.ready = TRUE,
                                                   !.frame = RefreshFrame(Config, latest)]]
    /\ whole' = {}
    /\ UNCHANGED <<caller, running, fieldVars, commands, asked, writes, faults>>

\* Bind and listen, then take the first frame.
Bind(s) ==
    /\ servers[s].pc = "binding" /\ owner = Nobody
    /\ owner' = s
    /\ servers' = [servers EXCEPT ![s] = [@ EXCEPT !.pc = "pushing", !.next = 1,
                                                   !.frame = RefreshFrame(Config, latest)]]
    /\ whole' = {}
    /\ UNCHANGED <<caller, running, fieldVars, commands, asked, writes, faults>>

\* The error is recorded first, then the caller is woken; the thread ends.
BindFails(s) ==
    /\ servers[s].pc = "binding" /\ owner # Nobody
    /\ Over(s, TRUE)
    /\ UNCHANGED <<caller, running, owner, fieldVars, masterVars, faults>>

\* One window of the frame, then the next.
PushWindow(s) ==
    LET i == servers[s].next IN
    /\ servers[s].pc = "pushing" /\ i <= Len(Config.reads)
    /\ servers' = [servers EXCEPT ![s] = [@ EXCEPT !.store.read[i] = servers[s].frame.windows[i].words,
                                                   !.next = i + 1]]
    /\ UNCHANGED <<caller, running, owner, fieldVars, masterVars, faults>>

\* The quality flags come last; the first push makes the server ready.
PushDiscrete(s) ==
    /\ servers[s].pc = "pushing" /\ servers[s].next > Len(Config.reads)
    /\ servers' = [servers EXCEPT ![s] = [@ EXCEPT !.store.discrete = servers[s].frame.discrete,
                                                   !.pc = "serving", !.ready = TRUE]]
    /\ UNCHANGED <<caller, running, owner, fieldVars, masterVars, faults>>

\* A push may fail half way: the first one ends the thread, a later one is logged.
PushFails(s) ==
    /\ servers[s].pc = "pushing" /\ Fault
    /\ IF servers[s].ready
       THEN Become(s, "serving") /\ owner' = owner
       ELSE /\ Over(s, TRUE)
            /\ owner' \in {owner, Nobody}
    /\ UNCHANGED <<caller, running, fieldVars, masterVars>>

\* Mutant: the refresh goes on with the frame of the first push.
RefreshStale(s) ==
    /\ servers[s].pc = "serving" /\ ~servers[s].shut
    /\ servers' = [servers EXCEPT ![s] = [@ EXCEPT !.pc = "pushing", !.next = 1]]
    /\ UNCHANGED <<caller, running, owner, fieldVars, masterVars, faults>>

\* Every 50 ms one snapshot of the projection is taken and pushed.
Refresh(s) ==
    /\ servers[s].pc = "serving" /\ ~servers[s].shut
    /\ servers' = [servers EXCEPT ![s] = [@ EXCEPT !.pc = "pushing", !.next = 1,
                                                   !.frame = RefreshFrame(Config, latest)]]
    /\ UNCHANGED <<caller, running, owner, fieldVars, masterVars, faults>>

\* Once shut down a server closes its port and its thread ends.  One that was shut down
\* before it had bound ends as soon as it is ready; its port, and the one of a stopped
\* loop, may stay open.
End(s) ==
    /\ servers[s].shut \/ servers[s].hung
    /\ servers[s].pc \in {"pushing", "serving"}
    /\ ~servers[s].ready => servers[s].hung
    /\ owner' \in IF servers[s].hung \/ servers[s].late THEN {owner, Nobody} ELSE {Nobody}
    /\ Over(s, servers[s].failed)
    /\ UNCHANGED <<caller, running, fieldVars, masterVars, faults>>

-------------------------------------------------------------------------------
(***************************************************************************)
(* Ticks, masters, other processes                                         *)
(***************************************************************************)
\* Mutant: a device that is silent in a tick loses its current value.
ProjectOnly(told) ==
    /\ tick < MaxTick
    /\ tick' = tick + 1
    /\ latest' = IF told = <<>> THEN latest
                 ELSE [d \in DOMAIN told |-> [value |-> Finite("decimal", tick'), quality |-> told[d]]]
    /\ UNCHANGED <<serverVars, masterVars, faults>>

\* update_from_tick: `told` is the quality of the points a tick has emitted; what no
\* point tells of keeps its value.
Project(told) ==
    /\ tick < MaxTick
    /\ tick' = tick + 1
    /\ latest' = [d \in DOMAIN told \cup DOMAIN latest |->
                     IF d \in DOMAIN told
                     THEN [value |-> Finite("decimal", tick'), quality |-> told[d]] ELSE latest[d]]
    /\ UNCHANGED <<serverVars, masterVars, faults>>

Listening == owner \in DOMAIN servers /\ servers[owner].pc \in {"pushing", "serving"}

\* The registers of a window after a request.
Overwritten(words, m, request) ==
    LET Word2(o) == LET at == m.address - request.address + o + 1
                    IN  IF at \in DOMAIN request.words THEN request.words[at] ELSE words[o + 1]
    IN  <<Word2(0), Word2(1)>>

Touched(m, request) ==
    Window(m) \cap request.address .. (request.address + Len(request.words) - 1) # {}

\* A write of holding registers (FC 6, 16, 23): every window it covers as a whole is a
\* command, taken when it arrives.
MasterWrite(request) ==
    LET covered == {i \in WriteWindows : Covered(Config.writes[i], request.address, Len(request.words))}
        touched == {i \in WriteWindows : Touched(Config.writes[i], request)}
        Store(kind, windows) == [i \in DOMAIN windows |->
                                   Overwritten(servers[owner].store[kind][i], windows[i], request)] IN
    /\ Listening /\ writes < MaxWrites
    /\ servers' = [servers EXCEPT ![owner].store =
                       [@ EXCEPT !.write = Store("write", Config.writes),
                                 !.read = Store("read", Config.reads)]]
    /\ commands' = commands \o DecodeInbound(Config, request.address, request.words)
    /\ whole' = (whole \ touched) \cup covered
    /\ asked' = asked + Cardinality({i \in covered :
                          LET words == servers'[owner].store.write[i]
                          IN  DecodeFloat32(words[1], words[2]) # {}})
    /\ writes' = writes + 1
    /\ UNCHANGED <<caller, running, owner, fieldVars, faults>>

ForeignBinds ==
    /\ owner = Nobody /\ Fault /\ owner' = Foreign
    /\ UNCHANGED <<caller, running, servers, fieldVars, masterVars>>

ForeignLeaves ==
    /\ owner = Foreign /\ owner' = Nobody
    /\ UNCHANGED <<caller, running, servers, fieldVars, masterVars, faults>>

Thread(s) ==
    Build(s) \/ Bind(s) \/ BindFails(s) \/ PushWindow(s) \/ PushDiscrete(s) \/ Refresh(s) \/ End(s)

Caller == Started \/ StartFailed \/ Shutdown \/ Joined

Tick == \E told \in Reports : Project(told)

Next ==
    \/ Start \/ StartTimesOut \/ Stop \/ Hang \/ Caller
    \/ \E s \in DOMAIN servers : Thread(s) \/ PushFails(s)
    \/ Tick
    \/ \E request \in Requests : MasterWrite(request)
    \/ ForeignBinds \/ ForeignLeaves

\* The event loop of a server runs as long as its thread, and the waits of the caller
\* end; nobody has to start or stop a server, and nothing need go wrong.
Fairness ==
    /\ WF_vars(Caller)
    /\ \A s \in 1..MaxStarts : WF_vars(s \in DOMAIN servers /\ Thread(s))

Spec == Init /\ [][Next]_vars /\ Fairness

-------------------------------------------------------------------------------
(***************************************************************************)
(* Properties                                                              *)
(***************************************************************************)
TypeOK ==
    /\ caller \in {"idle", "waiting", "stopping", "stopping_late", "joining"}
    /\ running \in {Nobody} \cup DOMAIN servers /\ owner \in {Foreign, Nobody} \cup DOMAIN servers
    /\ whole \subseteq WriteWindows /\ DOMAIN latest \subseteq Devices

\* What a poll sees of a window; and the windows no master writes into itself.
Polled(i) == servers[owner].store.read[i][2]
Untouched == {i \in ReadWindows : \A request \in Requests : ~Touched(Config.reads[i], request)}

\* The port is served by the server the adapter holds, and only by it: start() returns
\* when its server listens and has been filled once (no window is empty, or older than what
\* the projection had when start() was called, unless a master has put its own words
\* there), and nobody is left on the port by start() and stop(), except a server that was
\* late, was stopped by force, or failed after it had bound.
ServedWhileOwned ==
    /\ running # Nobody =>
          /\ owner = running
          /\ servers[running].pc \in {"pushing", "serving"}
          /\ \A i \in Untouched : Polled(i) >= servers[running].had[i]
    /\ caller = "idle" /\ running = Nobody /\ owner \in DOMAIN servers =>
          servers[owner].late \/ servers[owner].hung \/ servers[owner].failed

\* What a poll sees of a device never gets older, although silent devices, failing pushes
\* and refreshes come in between; from one server to the next it is ServedWhileOwned that
\* says so.
PollsGoForward ==
    [][\A i \in Untouched :
          Listening /\ servers[owner].ready /\ Listening' /\ servers'[owner'].ready
              => Polled(i)' >= Polled(i)]_vars

\* Every setpoint a master has written as a whole becomes exactly one command, and the
\* registers of a setpoint show the last command for it until they are written again: no
\* refresh puts them back.  Two windows may be for one setpoint, which are then excused:
\* the last command is the one of either of them.
OnlyWindow(i) == \A j \in WriteWindows : Config.writes[j].device = Config.writes[i].device => j = i
LastOrder(k, d) ==
    commands[k].device = d /\ \A l \in DOMAIN commands : l > k => commands[l].device # d
SetpointsArrive ==
    /\ Len(commands) = asked
    /\ Listening =>
          \A i \in whole : OnlyWindow(i) =>
              LET words == servers[owner].store.write[i] IN
              \A v \in DecodeFloat32(words[1], words[2]) :
                  \E k \in DOMAIN commands :
                      LastOrder(k, Config.writes[i].device) /\ commands[k].value = v.n

\* The registers of a running server catch up with the projection, and start() and
\* stop() come to an end.
Behind(i) ==
    /\ running # Nobody /\ Config.reads[i].device \in DOMAIN latest
    /\ servers[running].store.read[i] # WindowWords(latest, Config.reads[i])
ServerLives ==
    /\ \A i \in ReadWindows : []<>(~Behind(i))
    /\ []<>(caller = "idle")
===============================================================================
