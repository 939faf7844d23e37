--------------------------- MODULE FieldServerProofs ---------------------------
(***************************************************************************)
(* FieldServer for every register map, every number of servers, ticks and  *)
(* requests: the port is served by the server the adapter holds and by no  *)
(* other, and what a poll sees of a window never gets older.               *)
(***************************************************************************)
EXTENDS FieldServer, FiniteSetTheorems, TLAPS

Words == Nat \X Nat
Up == {"pushing", "serving"}

\* The word of a window that tells the tick: what there is to tell of it now.
Low(i) == WindowWords(latest, Config.reads[i])[2]

Frames == [windows : [ReadWindows -> [address : Int, words : Words]],
           discrete : [ReadWindows -> BOOLEAN]]

Stores == [read : [ReadWindows -> Words], discrete : [ReadWindows -> BOOLEAN],
           write : [WriteWindows -> Words]]

Servers == [had : [ReadWindows -> Nat],
            pc : {"building", "binding", "pushing", "serving", "ended"},
            known : BOOLEAN, ready : BOOLEAN, failed : BOOLEAN, shut : BOOLEAN,
            late : BOOLEAN, hung : BOOLEAN,
            frame : Frames \cup {<<>>}, next : Nat \ {0}, store : Stores]

TypeInv ==
    /\ caller \in {"idle", "waiting", "stopping", "stopping_late", "joining"}
    /\ tick \in Nat /\ tick <= MaxTick
    /\ \A d \in DOMAIN latest : \E n \in 1..tick : latest[d].value = Finite("decimal", n)
    /\ servers \in Seq(Servers)
    /\ \A s \in DOMAIN servers : servers[s].pc = "pushing" => servers[s].frame \in Frames
    /\ owner \in {Foreign, Nobody} \cup DOMAIN servers

\* A server is to answer for: nobody has told it to end, and nothing has gone wrong.
Sound(v) == ~v.late /\ ~v.hung /\ ~v.failed

\* Who is up holds the port; who has been ready stays up until told otherwise; who has
\* ended soundly has left the port.
PortInv(s) ==
    /\ servers[s].pc \in Up => owner = s
    /\ servers[s].ready /\ ~servers[s].failed /\ ~servers[s].shut /\ ~servers[s].hung
          => servers[s].pc \in Up
    /\ servers[s].pc # "building" => servers[s].known
    /\ owner = s /\ Sound(servers[s]) => servers[s].pc \in Up
    /\ Sound(servers[s]) /\ servers[s].pc # "ended"
          => s = Newest /\ (caller # "idle" \/ running = s)

\* What the caller is in the middle of, and with which server.
CallerInv ==
    /\ running # Nobody =>
          /\ caller = "idle" /\ running = Newest /\ Newest > 0
          /\ servers[Newest].ready /\ Sound(servers[Newest]) /\ ~servers[Newest].shut
    /\ caller # "idle" => running = Nobody /\ Newest > 0
    /\ caller = "waiting" => ~servers[Newest].shut /\ ~servers[Newest].hung /\ ~servers[Newest].late
    /\ caller = "stopping" => servers[Newest].pc # "building"
    /\ caller = "stopping_late" => servers[Newest].late
    /\ caller = "joining" => servers[Newest].late \/ servers[Newest].shut

OwnedInv == CallerInv /\ \A s \in DOMAIN servers : PortInv(s)

\* The words of a window grow from what there was at the start, over the store and the
\* frame that is being pushed, to what there is now.
Grows(s, i) ==
    /\ servers[s].had[i] <= Low(i)
    /\ servers[s].pc = "pushing" =>
          /\ servers[s].had[i] <= servers[s].frame.windows[i].words[2]
          /\ servers[s].frame.windows[i].words[2] <= Low(i)
    /\ i \in Untouched =>
          /\ servers[s].store.read[i][2] <= Low(i)
          /\ servers[s].pc = "pushing" =>
                servers[s].store.read[i][2] <= servers[s].frame.windows[i].words[2]
          /\ servers[s].pc = "pushing" /\ i < servers[s].next
                => servers[s].had[i] <= servers[s].store.read[i][2]
          /\ servers[s].ready /\ servers[s].pc # "ended"
                => servers[s].had[i] <= servers[s].store.read[i][2]

FilledInv == \A s \in DOMAIN servers : \A i \in ReadWindows : Grows(s, i)

-------------------------------------------------------------------------------
\* Small numbers are their own remainder.
LEMMA SmallRest ==
    ASSUME NEW a \in Nat, NEW b \in Nat, a < b
    PROVE  a % b = a /\ a \div b = 0
OBVIOUS

\* A word holds every tick, and a float32 every word.
LEMMA WordBounds ==
    /\ Word \in Nat /\ Long \in Nat /\ FloatMax \in Int
    /\ 4 <= Word /\ Word < Long /\ Word <= FloatMax
<1>1. \A a \in Nat : 2 <= a => a * a \in Nat /\ 2 * a <= a * a
  OBVIOUS
<1>2. Word \in Nat /\ 4 <= Word
  BY <1>1, ByteAssumption DEF Word
<1>3. \A a \in Nat : 4 <= a => a * a \in Nat /\ 4 * a <= a * a
  OBVIOUS
<1>4. Long \in Nat /\ 4 * Word <= Long
  BY <1>2, <1>3 DEF Long
<1>5. \A l, w \in Nat : 4 <= w /\ 4 * w <= l => l \div 2 - 2 \in Int /\ w <= l \div 2 - 2
  OBVIOUS
<1>6. FloatMax \in Int /\ Word <= FloatMax
  BY <1>2, <1>4, <1>5 DEF FloatMax
<1>7. \A l, w \in Nat : 4 <= w /\ 4 * w <= l => w < l
  OBVIOUS
<1> QED
  BY <1>2, <1>4, <1>6, <1>7

\* The words of a tick.
LEMMA TickWords ==
    ASSUME NEW n \in 1..MaxTick
    PROVE  EncodeFloat32(Finite("decimal", n)) = <<0, n>>
<1>1. n \in Nat /\ n < Word /\ n < Long /\ n \in -FloatMax .. FloatMax
  BY WordBounds, BoundAssumption
<1>2. n % Long = n /\ n % Word = n /\ n \div Word = 0
  BY <1>1, WordBounds, SmallRest
<1>3. FloatPattern(Finite("decimal", n)) = n
  BY <1>2 DEF FloatPattern, Finite
<1> DEFINE v == Finite("decimal", n)
<1>4. v.n \in -FloatMax .. FloatMax /\ ~(v.n > FloatMax)
  BY <1>1, WordBounds DEF Finite
<1> HIDE DEF v
<1>5. EncodeFloat32(v) = <<FloatPattern(v) \div Word, FloatPattern(v) % Word>>
  BY <1>4 DEF EncodeFloat32
<1> QED
  BY <1>2, <1>3, <1>5 DEF v

\* The register map is a pair of lists of windows with addresses.
LEMMA MapTyped ==
    /\ ReadWindows = 1..Len(Config.reads) /\ Len(Config.reads) \in Nat
    /\ \A i \in ReadWindows : Config.reads[i].address \in Int
    /\ \A i \in WriteWindows : Config.writes[i].address \in Int
<1>1. /\ ReadWindows = 1..Len(Config.reads) /\ Len(Config.reads) \in Nat
  BY ConfigAssumption DEF ReadWindows
<1>2. \A m \in ToSet(Config.reads) \cup ToSet(Config.writes) : m.address \in 0..(MaxRegister - 1)
  BY ConfigAssumption DEF ServerConfigError
<1>3. /\ \A i \in ReadWindows : Config.reads[i] \in ToSet(Config.reads)
      /\ \A i \in WriteWindows : Config.writes[i] \in ToSet(Config.writes)
  BY DEF ToSet, ReadWindows, WriteWindows
<1>4. 0..(MaxRegister - 1) \subseteq Int
  BY RegisterAssumption
<1> QED
  BY <1>1, <1>2, <1>3, <1>4

\* What there is to tell of a window is the number of a tick, or zero.
LEMMA LowTyped ==
    ASSUME TypeInv, NEW i \in ReadWindows
    PROVE  /\ WindowWords(latest, Config.reads[i]) \in Words
           /\ Low(i) \in Nat /\ Low(i) <= tick
<1> DEFINE d == Config.reads[i].device
<1>1. CASE d \in DOMAIN latest
  <2>1. PICK n \in 1..tick : latest[d].value = Finite("decimal", n)
    BY <1>1 DEF TypeInv
  <2>2. n \in 1..MaxTick /\ n \in Nat /\ n <= tick
    BY BoundAssumption DEF TypeInv
  <2>3. WindowWords(latest, Config.reads[i]) = <<0, n>>
    BY <1>1, <2>1, <2>2, TickWords DEF WindowWords
  <2> QED
    BY <2>2, <2>3 DEF Low, Words
<1>2. CASE d \notin DOMAIN latest
  <2>1. WindowWords(latest, Config.reads[i]) = <<0, 0>>
    BY <1>2 DEF WindowWords
  <2> QED
    BY <2>1 DEF Low, Words, TypeInv
<1> QED
  BY <1>1, <1>2

\* A frame tells of every window what there is to tell.
LEMMA FrameTyped ==
    ASSUME TypeInv
    PROVE  /\ RefreshFrame(Config, latest) \in Frames
           /\ \A i \in ReadWindows : RefreshFrame(Config, latest).windows[i].words[2] = Low(i)
<1>1. \A i \in ReadWindows : WindowWords(latest, Config.reads[i]) \in Words
                            /\ DiscreteOf(latest, Config.reads[i]) \in BOOLEAN
  BY LowTyped DEF DiscreteOf
<1> QED
  BY <1>1, MapTyped DEF RefreshFrame, Frames, Low, ReadWindows

\* A new server is one.
LEMMA NewTyped == TypeInv => NewServer \in Servers
  BY LowTyped DEF NewServer, Servers, EmptyStore, Stores, Words, Low

-------------------------------------------------------------------------------
\* A step that makes one server another leaves the others alone.
LEMMA OneServer ==
    ASSUME TypeInv, NEW s \in DOMAIN servers, NEW v \in Servers,
           servers' = [servers EXCEPT ![s] = v]
    PROVE  /\ servers' \in Seq(Servers) /\ DOMAIN servers' = DOMAIN servers
           /\ Len(servers') = Len(servers) /\ servers'[s] = v
           /\ \A r \in DOMAIN servers : r # s => servers'[r] = servers[r]
BY DEF TypeInv

\* What a thread makes of its server is a server, and it alone is changed.
LEMMA ThreadMoves ==
    ASSUME TypeInv, NEW s \in DOMAIN servers, Thread(s) \/ PushFails(s)
    PROVE  /\ \E v \in Servers : servers' = [servers EXCEPT ![s] = v]
           /\ owner' \in {owner, Nobody, s} /\ UNCHANGED <<caller, running, fieldVars>>
<1>1. servers[s] \in Servers
  BY DEF TypeInv
<1> DEFINE lost == [servers[s] EXCEPT !.pc = "ended", !.ready = TRUE, !.failed = TRUE,
                                     !.frame = <<>>, !.next = 1, !.store = EmptyStore]
           kept == [servers[s] EXCEPT !.pc = "ended", !.ready = TRUE, !.failed = servers[s].failed,
                                     !.frame = <<>>, !.next = 1, !.store = EmptyStore]
<1>2. EmptyStore \in Stores
  BY DEF EmptyStore, Stores, Words
<1>3. lost \in Servers /\ kept \in Servers
  <2> DEFINE first == [servers[s] EXCEPT !.next = 1]
             left == [first EXCEPT !.frame = <<>>, !.store = EmptyStore]
  <2>1. first \in Servers
    BY <1>1 DEF Servers
  <2> HIDE DEF first
  <2>2. left \in Servers
    BY <1>2, <2>1 DEF Servers
  <2> HIDE DEF left
  <2>3. /\ [left EXCEPT !.pc = "ended", !.ready = TRUE, !.failed = TRUE] \in Servers
        /\ [left EXCEPT !.pc = "ended", !.ready = TRUE] \in Servers
    BY <2>2 DEF Servers
  <2>4. /\ lost = [left EXCEPT !.pc = "ended", !.ready = TRUE, !.failed = TRUE]
        /\ kept = [left EXCEPT !.pc = "ended", !.ready = TRUE]
    BY <1>1 DEF Servers, left, first
  <2> QED
    BY <2>3, <2>4
<1> SUFFICES \E v \in Servers :
                /\ servers' = [servers EXCEPT ![s] = v]
                /\ owner' \in {owner, Nobody, s} /\ UNCHANGED <<caller, running, fieldVars>>
  OBVIOUS
<1>4. CASE Build(s)
  <2>1. [servers[s] EXCEPT !.known = TRUE, !.pc = "binding"] \in Servers
    BY <1>1 DEF Servers
  <2> QED
    BY <1>4, <2>1 DEF Build
<1>5. CASE BindFails(s)
  <2>1. servers' = [servers EXCEPT ![s] = lost] /\ owner' = owner
        /\ UNCHANGED <<caller, running, fieldVars>>
    BY <1>5 DEF BindFails, Over
  <2> HIDE DEF lost
  <2> QED
    BY <1>3, <2>1
<1>6. CASE End(s)
  <2>1. servers' = [servers EXCEPT ![s] = kept]
    BY <1>6 DEF End, Over
  <2>2. owner' \in {owner, Nobody} /\ UNCHANGED <<caller, running, fieldVars>>
    BY <1>6 DEF End
  <2> HIDE DEF kept
  <2> QED
    BY <1>3, <2>1, <2>2
<1>7. CASE Bind(s) \/ Refresh(s)
  <2> DEFINE first == [servers[s] EXCEPT !.next = 1]
             v == [servers[s] EXCEPT !.pc = "pushing", !.next = 1, !.frame = RefreshFrame(Config, latest)]
  <2>1. v \in Servers
    <3>1. first \in Servers
      BY <1>1 DEF Servers
    <3>2. v = [first EXCEPT !.pc = "pushing", !.frame = RefreshFrame(Config, latest)]
      BY <1>1 DEF Servers
    <3> HIDE DEF first, v
    <3>3. [first EXCEPT !.pc = "pushing", !.frame = RefreshFrame(Config, latest)] \in Servers
      BY <3>1, FrameTyped DEF Servers
    <3> QED
      BY <3>2, <3>3
  <2>2. /\ servers' = [servers EXCEPT ![s] =
                          [@ EXCEPT !.pc = "pushing", !.next = 1, !.frame = RefreshFrame(Config, latest)]]
        /\ owner' \in {owner, s} /\ UNCHANGED <<caller, running, fieldVars>>
    BY <1>7 DEF Bind, Refresh
  <2> QED
    BY <2>1, <2>2
<1>8. CASE PushWindow(s)
  <2> DEFINE i == servers[s].next
             w == servers[s].frame.windows[i].words
             v == [servers[s] EXCEPT !.store.read[i] = w, !.next = i + 1]
  <2>1. i \in ReadWindows /\ i + 1 \in Nat \ {0}
    BY <1>1, <1>8, MapTyped DEF PushWindow, Servers
  <2>2. w \in Words
    BY <1>8, <2>1 DEF TypeInv, PushWindow, Frames
  <2>3. [servers[s].store EXCEPT !.read[i] = w] \in Stores
    BY <1>1, <2>1, <2>2 DEF Servers, Stores
  <2>4. v \in Servers
    BY <1>1, <2>1, <2>3 DEF Servers
  <2> QED
    BY <1>8, <2>4 DEF PushWindow
<1>9. CASE PushDiscrete(s)
  <2> DEFINE v == [servers[s] EXCEPT !.store.discrete = servers[s].frame.discrete,
                                     !.pc = "serving", !.ready = TRUE]
  <2>1. servers[s].frame.discrete \in [ReadWindows -> BOOLEAN]
    BY <1>9 DEF TypeInv, PushDiscrete, Frames
  <2>2. [servers[s].store EXCEPT !.discrete = servers[s].frame.discrete] \in Stores
    BY <1>1, <2>1 DEF Servers, Stores
  <2>3. v \in Servers
    BY <1>1, <2>2 DEF Servers
  <2> QED
    BY <1>9, <2>3 DEF PushDiscrete
<1>10. CASE PushFails(s)
  <2>1. CASE servers[s].ready
    BY <1>1, <1>10, <2>1 DEF PushFails, Fault, Become, Servers
  <2>2. CASE ~servers[s].ready
    <3>1. servers' = [servers EXCEPT ![s] = lost] /\ owner' \in {owner, Nobody}
          /\ UNCHANGED <<caller, running, fieldVars>>
      BY <1>10, <2>2 DEF PushFails, Over
    <3> HIDE DEF lost
    <3> QED
      BY <1>3, <3>1
  <2> QED
    BY <2>1, <2>2
<1> QED
  BY <1>4, <1>5, <1>6, <1>7, <1>8, <1>9, <1>10 DEF Thread

\* What a request makes of a window is two words; of one it does not touch, the same.
LEMMA OverwrittenTyped ==
    ASSUME NEW words \in Words, NEW m, m.address \in Int, NEW request \in Requests
    PROVE  /\ Overwritten(words, m, request) \in Words
           /\ ~Touched(m, request) => Overwritten(words, m, request)[2] = words[2]
<1> DEFINE at(o) == m.address - request.address + o + 1
           w(o) == IF at(o) \in DOMAIN request.words THEN request.words[at(o)] ELSE words[o + 1]
<1>1. /\ request.address \in Int /\ Len(request.words) \in Nat
      /\ DOMAIN request.words = 1..Len(request.words)
      /\ \A o \in DOMAIN request.words : request.words[o] \in Nat
  BY RequestAssumption, RegisterAssumption, WordBounds
<1>2. Overwritten(words, m, request) = <<w(0), w(1)>>
  BY DEF Overwritten
<1>3. words[1] \in Nat /\ words[2] \in Nat
  BY DEF Words
<1>4. w(0) \in Nat /\ w(1) \in Nat
  BY <1>1, <1>3
<1>5. ASSUME ~Touched(m, request) PROVE w(1) = words[2]
  <2>1. m.address + 1 \notin request.address .. (request.address + Len(request.words) - 1)
    BY <1>5 DEF Touched, Window
  <2>2. at(1) \notin 1..Len(request.words)
    BY <1>1, <2>1
  <2> QED
    BY <1>1, <2>2
<1> QED
  BY <1>2, <1>4, <1>5 DEF Words

\* A request changes the store of the server that listens, and no window it does not touch.
LEMMA MasterMoves ==
    ASSUME TypeInv, NEW request \in Requests, MasterWrite(request)
    PROVE  /\ owner \in DOMAIN servers /\ servers[owner].pc \in Up
           /\ \E st \in Stores :
                 /\ servers' = [servers EXCEPT ![owner].store = st]
                 /\ \A i \in Untouched : st.read[i][2] = servers[owner].store.read[i][2]
           /\ UNCHANGED <<caller, running, owner, fieldVars>>
<1> DEFINE old == servers[owner].store
           Store(kind, windows) == [i \in DOMAIN windows |-> Overwritten(old[kind][i], windows[i], request)]
           st == [old EXCEPT !.write = Store("write", Config.writes), !.read = Store("read", Config.reads)]
<1>1. owner \in DOMAIN servers /\ servers[owner].pc \in Up /\ UNCHANGED <<caller, running, owner, fieldVars>>
  <2>1. Listening /\ UNCHANGED <<caller, running, owner, fieldVars>>
    BY DEF MasterWrite
  <2> QED
    BY <2>1 DEF Listening, Up
<1>2. servers' = [servers EXCEPT ![owner].store = st]
  BY DEF MasterWrite
<1>3. old \in Stores
  <2>1. servers \in Seq(Servers) /\ owner \in DOMAIN servers
    BY <1>1 DEF TypeInv
  <2>2. servers[owner] \in Servers
    BY <2>1
  <2> QED
    BY <2>2 DEF Servers
<1>4. \A i \in ReadWindows : old.read[i] \in Words /\ Config.reads[i].address \in Int
  BY <1>3, MapTyped DEF Stores
<1>5. \A i \in WriteWindows : old.write[i] \in Words /\ Config.writes[i].address \in Int
  BY <1>3, MapTyped DEF Stores
<1>6. Store("read", Config.reads) \in [ReadWindows -> Words]
  BY <1>4, OverwrittenTyped DEF ReadWindows
<1>7. Store("write", Config.writes) \in [WriteWindows -> Words]
  BY <1>5, OverwrittenTyped DEF WriteWindows
<1>8. \A i \in Untouched : Store("read", Config.reads)[i][2] = old.read[i][2]
  BY <1>4, OverwrittenTyped DEF Untouched, ReadWindows
<1> HIDE DEF old, Store
<1>9. st \in Stores /\ st.read = Store("read", Config.reads)
  BY <1>3, <1>6, <1>7 DEF Stores
<1> HIDE DEF st
<1> QED
  BY <1>1, <1>2, <1>8, <1>9 DEF old

\* What the caller does to its server is told in three flags.
LEMMA CallerMoves ==
    ASSUME TypeInv, Newest \in DOMAIN servers, StartTimesOut \/ Shutdown \/ Hang
    PROVE  /\ \E v \in Servers : servers' = [servers EXCEPT ![Newest] = v]
           /\ servers'[Newest].pc = servers[Newest].pc
           /\ servers'[Newest].known = servers[Newest].known
           /\ servers'[Newest].ready = servers[Newest].ready
           /\ servers'[Newest].failed = servers[Newest].failed
           /\ servers'[Newest].had = servers[Newest].had
           /\ servers'[Newest].frame = servers[Newest].frame
           /\ servers'[Newest].next = servers[Newest].next
           /\ servers'[Newest].store = servers[Newest].store
           /\ UNCHANGED <<running, owner, fieldVars>>
<1> DEFINE v0 == servers[Newest]
<1>1. v0 \in Servers
  BY DEF TypeInv
<1>2. CASE StartTimesOut
  <2> DEFINE v == [v0 EXCEPT !.late = TRUE]
  <2>1. servers' = [servers EXCEPT ![Newest] = v] /\ UNCHANGED <<running, owner, fieldVars>>
    BY <1>2 DEF StartTimesOut
  <2>2. v \in Servers
    BY <1>1 DEF Servers
  <2>3. servers'[Newest] = v
    BY <2>1
  <2> HIDE DEF v0
  <2>4. /\ v.pc = v0.pc /\ v.known = v0.known /\ v.ready = v0.ready /\ v.failed = v0.failed
        /\ v.had = v0.had /\ v.frame = v0.frame /\ v.next = v0.next /\ v.store = v0.store
    BY <1>1 DEF Servers
  <2> HIDE DEF v
  <2> QED
    BY <2>1, <2>2, <2>3, <2>4 DEF v0
<1>3. CASE Shutdown
  <2> DEFINE v == [v0 EXCEPT !.shut = @ \/ v0.known]
  <2>1. servers' = [servers EXCEPT ![Newest] = v] /\ UNCHANGED <<running, owner, fieldVars>>
    BY <1>3 DEF Shutdown
  <2> HIDE DEF v0
  <2>2. v \in Servers
    BY <1>1 DEF Servers
  <2>3. servers'[Newest] = v
    BY <2>1
  <2>4. /\ v.pc = v0.pc /\ v.known = v0.known /\ v.ready = v0.ready /\ v.failed = v0.failed
        /\ v.had = v0.had /\ v.frame = v0.frame /\ v.next = v0.next /\ v.store = v0.store
    BY <1>1 DEF Servers
  <2> HIDE DEF v
  <2> QED
    BY <2>1, <2>2, <2>3, <2>4 DEF v0
<1>4. CASE Hang
  <2> DEFINE v == [v0 EXCEPT !.hung = TRUE]
  <2>1. servers' = [servers EXCEPT ![Newest] = v] /\ UNCHANGED <<running, owner, fieldVars>>
    BY <1>4 DEF Hang
  <2>2. v \in Servers
    BY <1>1 DEF Servers
  <2>3. servers'[Newest] = v
    BY <2>1
  <2> HIDE DEF v0
  <2>4. /\ v.pc = v0.pc /\ v.known = v0.known /\ v.ready = v0.ready /\ v.failed = v0.failed
        /\ v.had = v0.had /\ v.frame = v0.frame /\ v.next = v0.next /\ v.store = v0.store
    BY <1>1 DEF Servers
  <2> HIDE DEF v
  <2> QED
    BY <2>1, <2>2, <2>3, <2>4 DEF v0
<1> QED
  BY <1>2, <1>3, <1>4

\* The life of a server thread, as far as the port is concerned: it is built, binds, is up,
\* and is lost with an error or ends as it was told.
LifeStep(s) ==
    LET v == servers[s]
        w == servers'[s] IN
    \/ /\ v.pc = "building" /\ w.pc = "binding" /\ w.known /\ owner' = owner
       /\ w.ready = v.ready /\ w.failed = v.failed
    \/ /\ v.pc = "binding" /\ w.pc = "pushing" /\ w.known = v.known
       /\ owner = Nobody /\ owner' = s
       /\ w.ready = v.ready /\ w.failed = v.failed
    \/ /\ v.pc \in Up /\ w.pc \in Up /\ w.known = v.known /\ owner' = owner
       /\ v.ready => w.ready
       /\ w.failed = v.failed
    \/ /\ w.pc = "ended" /\ w.known = v.known
       /\ w.failed
       /\ \/ v.pc = "binding" /\ owner' = owner
          \/ v.pc = "pushing" /\ ~v.ready /\ owner' \in {owner, Nobody}
    \/ /\ v.pc \in Up /\ w.pc = "ended" /\ w.known = v.known
       /\ w.failed = v.failed
       /\ v.shut \/ v.hung
       /\ owner' = Nobody \/ (owner' = owner /\ (v.hung \/ v.late))

\* A step of the thread of server s is one of LifeStep, and leaves what the caller has
\* asked of it as it was.
LEMMA ThreadLives ==
    ASSUME TypeInv, NEW s \in DOMAIN servers, Thread(s) \/ PushFails(s)
    PROVE  /\ LifeStep(s)
           /\ servers'[s].had = servers[s].had /\ servers'[s].shut = servers[s].shut
           /\ servers'[s].late = servers[s].late /\ servers'[s].hung = servers[s].hung
<1> DEFINE v == servers[s]
           w == servers'[s]
           same == w.had = v.had /\ w.shut = v.shut /\ w.late = v.late /\ w.hung = v.hung
<1> SUFFICES LifeStep(s) /\ same
  OBVIOUS
<1>1. v \in Servers
  BY DEF TypeInv
<1>2. CASE Build(s)
  <2>1. w = [v EXCEPT !.known = TRUE, !.pc = "binding"] /\ v.pc = "building" /\ owner' = owner
    BY <1>2 DEF Build, TypeInv
  <2> HIDE DEF v, w
  <2> QED
    BY <1>1, <2>1 DEF Servers, LifeStep, v, w
<1>3. CASE Bind(s)
  <2>1. w = [v EXCEPT !.pc = "pushing", !.next = 1, !.frame = RefreshFrame(Config, latest)]
        /\ v.pc = "binding" /\ owner = Nobody /\ owner' = s
    BY <1>3 DEF Bind, TypeInv
  <2> HIDE DEF v, w
  <2> QED
    BY <1>1, <2>1 DEF Servers, LifeStep, v, w
<1>4. CASE Refresh(s)
  <2>1. w = [v EXCEPT !.pc = "pushing", !.next = 1, !.frame = RefreshFrame(Config, latest)]
        /\ v.pc = "serving" /\ owner' = owner
    BY <1>4 DEF Refresh, TypeInv
  <2> HIDE DEF v, w
  <2> QED
    BY <1>1, <2>1 DEF Servers, LifeStep, Up, v, w
<1>5. CASE PushWindow(s)
  <2>1. w = [v EXCEPT !.store.read[v.next] = v.frame.windows[v.next].words, !.next = v.next + 1]
        /\ v.pc = "pushing" /\ owner' = owner
    BY <1>5 DEF PushWindow, TypeInv
  <2> HIDE DEF v, w
  <2> QED
    BY <1>1, <2>1 DEF Servers, LifeStep, Up, v, w
<1>6. CASE PushDiscrete(s)
  <2>1. w = [v EXCEPT !.store.discrete = v.frame.discrete, !.pc = "serving", !.ready = TRUE]
        /\ v.pc = "pushing" /\ owner' = owner
    BY <1>6 DEF PushDiscrete, TypeInv
  <2> HIDE DEF v, w
  <2> QED
    BY <1>1, <2>1 DEF Servers, LifeStep, Up, v, w
<1>7. CASE BindFails(s)
  <2>1. w = [v EXCEPT !.pc = "ended", !.ready = TRUE, !.failed = TRUE,
                      !.frame = <<>>, !.next = 1, !.store = EmptyStore]
        /\ v.pc = "binding" /\ owner' = owner
    BY <1>7 DEF BindFails, Over, TypeInv
  <2> HIDE DEF v, w
  <2> QED
    BY <1>1, <2>1 DEF Servers, LifeStep, v, w
<1>8. CASE End(s)
  <2>1. w = [v EXCEPT !.pc = "ended", !.ready = TRUE, !.failed = v.failed,
                      !.frame = <<>>, !.next = 1, !.store = EmptyStore]
    BY <1>8 DEF End, Over, TypeInv
  <2>2. v.pc \in Up /\ (v.shut \/ v.hung)
    BY <1>8 DEF End, Up
  <2>3. owner' = Nobody \/ (owner' = owner /\ (v.hung \/ v.late))
    BY <1>8 DEF End
  <2> HIDE DEF v, w
  <2>4. w.pc = "ended" /\ w.known = v.known /\ w.failed = v.failed /\ same
    BY <1>1, <2>1 DEF Servers
  <2> HIDE DEF same
  <2> QED
    BY <2>2, <2>3, <2>4 DEF LifeStep, v, w
<1>9. CASE PushFails(s)
  <2>1. CASE servers[s].ready
    <3>1. w = [v EXCEPT !.pc = "serving"] /\ v.pc = "pushing" /\ owner' = owner
      BY <1>9, <2>1 DEF PushFails, Become, TypeInv
    <3> HIDE DEF v, w
    <3> QED
      BY <1>1, <3>1 DEF Servers, LifeStep, Up, v, w
  <2>2. CASE ~servers[s].ready
    <3>1. w = [v EXCEPT !.pc = "ended", !.ready = TRUE, !.failed = TRUE,
                        !.frame = <<>>, !.next = 1, !.store = EmptyStore]
          /\ v.pc = "pushing" /\ ~v.ready /\ owner' \in {owner, Nobody}
      BY <1>9, <2>2 DEF PushFails, Over, TypeInv
    <3> HIDE DEF v, w
    <3> QED
      BY <1>1, <3>1 DEF Servers, LifeStep, v, w
  <2> QED
    BY <2>1, <2>2
<1> QED
  BY <1>2, <1>3, <1>4, <1>5, <1>6, <1>7, <1>8, <1>9 DEF Thread

\* Types are kept.
LEMMA TypeStep == TypeInv /\ CallerInv /\ [Next]_vars => TypeInv'
<1> SUFFICES ASSUME TypeInv, CallerInv, [Next]_vars PROVE TypeInv'
  OBVIOUS
<1> USE DEF TypeInv
<1>0. Len(servers) \in Nat /\ DOMAIN servers = 1..Len(servers)
  OBVIOUS
<1>1. CASE Start
  <2>1. servers' = Append(servers, NewServer) /\ NewServer \in Servers /\ NewServer.pc = "building"
    BY <1>1, NewTyped DEF Start, NewServer
  <2>2. servers' \in Seq(Servers) /\ DOMAIN servers \subseteq DOMAIN servers'
        /\ \A s \in DOMAIN servers' : servers'[s] = NewServer \/ (s \in DOMAIN servers /\ servers'[s] = servers[s])
    BY <1>0, <2>1
  <2>3. UNCHANGED <<owner, latest, tick>> /\ caller' = "waiting"
    BY <1>1 DEF Start, fieldVars
  <2> QED
    BY <2>1, <2>2, <2>3
<1>2. CASE StartTimesOut \/ Shutdown \/ Hang
  <2>1. Newest \in DOMAIN servers
    BY <1>0, <1>2 DEF CallerInv, Newest, StartTimesOut, Shutdown, Hang
  <2>2. PICK v \in Servers : servers' = [servers EXCEPT ![Newest] = v]
    BY <1>2, <2>1, CallerMoves
  <2>3. v.pc = servers[Newest].pc /\ v.frame = servers[Newest].frame
    BY <1>2, <2>1, <2>2, CallerMoves
  <2>4. servers' \in Seq(Servers) /\ DOMAIN servers' = DOMAIN servers
        /\ \A s \in DOMAIN servers : s # Newest => servers'[s] = servers[s]
    BY <2>1, <2>2
  <2>5. UNCHANGED <<owner, latest, tick>> /\ caller' \in {"stopping_late", "joining"}
    BY <1>2 DEF StartTimesOut, Shutdown, Hang, fieldVars
  <2> QED
    BY <2>1, <2>2, <2>3, <2>4, <2>5
<1>3. ASSUME NEW s \in DOMAIN servers, Thread(s) \/ PushFails(s) PROVE TypeInv'
  <2>1. PICK v \in Servers : servers' = [servers EXCEPT ![s] = v]
    BY <1>3, ThreadMoves
  <2>2. servers' \in Seq(Servers) /\ DOMAIN servers' = DOMAIN servers /\ servers'[s] = v
        /\ \A r \in DOMAIN servers : r # s => servers'[r] = servers[r]
    BY <2>1, OneServer
  <2>3. owner' \in {owner, Nobody, s} /\ UNCHANGED <<caller, latest, tick>>
    BY <1>3, ThreadMoves DEF fieldVars
  <2>4. v.pc = "pushing" => v.frame \in Frames
    <3>1. servers[s] \in Servers
      OBVIOUS
    <3>2. CASE Bind(s) \/ Refresh(s)
      BY <2>2, <3>1, <3>2, FrameTyped DEF Bind, Refresh, Servers
    <3>3. CASE PushWindow(s)
      BY <2>2, <3>1, <3>3 DEF PushWindow, Servers
    <3>4. CASE Build(s)
      BY <2>2, <3>1, <3>4 DEF Build, Servers
    <3>5. CASE PushDiscrete(s)
      <4>1. v = [servers[s] EXCEPT !.store.discrete = servers[s].frame.discrete,
                                   !.pc = "serving", !.ready = TRUE]
        BY <2>2, <3>5 DEF PushDiscrete
      <4> QED
        BY <3>1, <4>1 DEF Servers
    <3>6. CASE BindFails(s) \/ End(s)
      <4>1. \E failed : v = [servers[s] EXCEPT !.pc = "ended", !.ready = TRUE, !.failed = failed,
                                              !.frame = <<>>, !.next = 1, !.store = EmptyStore]
        BY <2>2, <3>6 DEF BindFails, End, Over
      <4> QED
        BY <3>1, <4>1 DEF Servers
    <3>7. CASE PushFails(s)
      <4>1. CASE servers[s].ready
        BY <2>2, <3>1, <3>7, <4>1 DEF PushFails, Become, Servers
      <4>2. CASE ~servers[s].ready
        <5>1. v = [servers[s] EXCEPT !.pc = "ended", !.ready = TRUE, !.failed = TRUE,
                                     !.frame = <<>>, !.next = 1, !.store = EmptyStore]
          BY <2>2, <3>7, <4>2 DEF PushFails, Over
        <5> QED
          BY <3>1, <5>1 DEF Servers
      <4> QED
        BY <4>1, <4>2
    <3> QED
      BY <1>3, <3>2, <3>3, <3>4, <3>5, <3>6, <3>7 DEF Thread
  <2> QED
    BY <2>2, <2>3, <2>4
<1>4. ASSUME NEW request \in Requests, MasterWrite(request) PROVE TypeInv'
  <2>1. PICK st \in Stores : servers' = [servers EXCEPT ![owner].store = st]
    BY <1>4, MasterMoves
  <2>2. owner \in DOMAIN servers /\ UNCHANGED <<caller, running, owner, latest, tick>>
    BY <1>4, MasterMoves DEF fieldVars
  <2>3. servers[owner] \in Servers
    BY <2>2
  <2>4. [servers[owner] EXCEPT !.store = st] \in Servers
    BY <2>3 DEF Servers
  <2>5. /\ servers' \in Seq(Servers) /\ DOMAIN servers' = DOMAIN servers
        /\ \A s \in DOMAIN servers : s # owner => servers'[s] = servers[s]
        /\ servers'[owner] = [servers[owner] EXCEPT !.store = st]
    BY <2>1, <2>2, <2>4
  <2>6. servers'[owner].pc = servers[owner].pc /\ servers'[owner].frame = servers[owner].frame
    BY <2>3, <2>5 DEF Servers
  <2> QED
    BY <2>2, <2>5, <2>6
<1>5. CASE Tick
  <2>1. PICK told \in Reports : Project(told)
    BY <1>5 DEF Tick
  <2>2. tick' = tick + 1 /\ tick' \in Nat /\ tick' <= MaxTick
        /\ latest' = [d \in DOMAIN told \cup DOMAIN latest |->
                         IF d \in DOMAIN told
                         THEN [value |-> Finite("decimal", tick'), quality |-> told[d]] ELSE latest[d]]
        /\ UNCHANGED <<caller, servers, owner>>
    BY <2>1, BoundAssumption DEF Project, serverVars
  <2>3. \A d \in DOMAIN latest' : \E n \in 1..tick' : latest'[d].value = Finite("decimal", n)
    <3> SUFFICES ASSUME NEW d \in DOMAIN latest'
                 PROVE  \E n \in 1..tick' : latest'[d].value = Finite("decimal", n)
      OBVIOUS
    <3>1. CASE d \in DOMAIN told
      <4>1. latest'[d].value = Finite("decimal", tick')
        BY <2>2, <3>1
      <4> QED
        BY <2>2, <4>1
    <3>2. CASE d \notin DOMAIN told
      <4>1. d \in DOMAIN latest /\ latest'[d] = latest[d]
        BY <2>2, <3>2
      <4>2. 1..tick \subseteq 1..tick'
        BY <2>2
      <4> QED
        BY <4>1, <4>2
    <3> QED
      BY <3>1, <3>2
  <2> QED
    BY <2>2, <2>3
<1>6. CASE Started \/ StartFailed \/ Joined \/ Stop \/ ForeignBinds \/ ForeignLeaves \/ UNCHANGED vars
  BY <1>6 DEF Started, StartFailed, Joined, Stop, ForeignBinds, ForeignLeaves, vars, serverVars, fieldVars
<1> QED
  BY <1>1, <1>2, <1>3, <1>4, <1>5, <1>6 DEF Next, Caller

\* A thread's step keeps what is known of the port.
LEMMA OwnedThread ==
    ASSUME TypeInv, OwnedInv, NEW s \in DOMAIN servers, Thread(s) \/ PushFails(s)
    PROVE  OwnedInv'
<1>1. /\ LifeStep(s) /\ servers'[s].shut = servers[s].shut
      /\ servers'[s].late = servers[s].late /\ servers'[s].hung = servers[s].hung
  BY ThreadLives
<1>2. /\ DOMAIN servers' = DOMAIN servers /\ Newest' = Newest
      /\ \A r \in DOMAIN servers : r # s => servers'[r] = servers[r]
  BY ThreadMoves, OneServer DEF Newest
<1>3. UNCHANGED <<caller, running>>
  BY ThreadMoves
<1>4. \A r \in DOMAIN servers : r # Nobody /\ PortInv(r)
  BY DEF TypeInv, OwnedInv, Nobody
<1>5. PortInv(s)'
  BY <1>1, <1>2, <1>3, <1>4 DEF PortInv, LifeStep, Sound, Up
<1>6. ASSUME NEW r \in DOMAIN servers, r # s PROVE PortInv(r)'
  <2>1. (owner = r) = (owner' = r)
    BY <1>1, <1>4, <1>6 DEF PortInv, LifeStep, Up
  <2> QED
    BY <1>2, <1>3, <1>4, <1>6, <2>1 DEF PortInv, Sound
<1>7. CallerInv'
  <2>1. CASE s # Newest
    <3>1. Newest \in DOMAIN servers /\ Newest # s => servers'[Newest] = servers[Newest]
      BY <1>2
    <3>2. Newest > 0 => Newest \in DOMAIN servers
      BY DEF TypeInv, Newest
    <3> QED
      BY <1>2, <1>3, <2>1, <3>1, <3>2 DEF OwnedInv, CallerInv, Sound
  <2>2. CASE s = Newest
    BY <1>1, <1>2, <1>3, <1>4, <2>2 DEF OwnedInv, CallerInv, Sound, LifeStep, PortInv, Up
  <2> QED
    BY <2>1, <2>2
<1> QED
  BY <1>2, <1>5, <1>6, <1>7 DEF OwnedInv

\* Every step keeps what is known of the port.
LEMMA OwnedStep == TypeInv /\ OwnedInv /\ [Next]_vars => OwnedInv'
<1> SUFFICES ASSUME TypeInv, OwnedInv, [Next]_vars PROVE OwnedInv'
  OBVIOUS
<1>0. /\ Newest \in Nat /\ DOMAIN servers = 1..Newest
      /\ \A r \in DOMAIN servers : PortInv(r)
      /\ Newest > 0 => Newest \in DOMAIN servers
  BY DEF TypeInv, OwnedInv, Newest
<1>1. CASE Start
  <2>1. servers' = Append(servers, NewServer) /\ caller' = "waiting" /\ caller = "idle"
        /\ running = Nobody /\ UNCHANGED <<running, owner>> /\ owner = Nobody
    BY <1>1 DEF Start
  <2>2. /\ Newest' = Newest + 1 /\ DOMAIN servers' = 1..(Newest + 1)
        /\ servers'[Newest + 1] = NewServer
        /\ \A r \in DOMAIN servers : servers'[r] = servers[r]
    BY <1>0, <2>1 DEF Newest, TypeInv
  <2>3. \A r \in DOMAIN servers : PortInv(r)'
    BY <1>0, <2>1, <2>2 DEF PortInv, Sound, Nobody
  <2>4. /\ NewServer.pc = "building" /\ ~NewServer.ready
        /\ ~NewServer.shut /\ ~NewServer.hung /\ ~NewServer.late
    BY DEF NewServer
  <2>5. PICK m \in Nat : m = Newest + 1
    BY <1>0
  <2>6. owner' # m /\ m = Newest' /\ m > 0
    BY <1>0, <2>1, <2>2, <2>5 DEF Nobody
  <2>7. PortInv(m)'
    BY <2>1, <2>2, <2>4, <2>5, <2>6 DEF PortInv, Up
  <2>8. CallerInv'
    BY <2>1, <2>2, <2>4, <2>5, <2>6 DEF CallerInv
  <2>9. \A r \in DOMAIN servers' : r \in DOMAIN servers \/ r = m
    BY <1>0, <2>2, <2>5
  <2> QED
    BY <2>3, <2>7, <2>8, <2>9 DEF OwnedInv
<1>2. CASE StartTimesOut \/ Shutdown \/ Hang
  <2>1. running = Nobody /\ Newest \in DOMAIN servers
    BY <1>0, <1>2 DEF OwnedInv, CallerInv, StartTimesOut, Shutdown, Hang
  <2>2. /\ DOMAIN servers' = DOMAIN servers /\ Newest' = Newest
        /\ \A r \in DOMAIN servers : r # Newest => servers'[r] = servers[r]
    BY <1>2, <2>1, CallerMoves, OneServer DEF Newest
  <2>3. /\ servers'[Newest].pc = servers[Newest].pc
        /\ servers'[Newest].known = servers[Newest].known
        /\ servers'[Newest].ready = servers[Newest].ready
        /\ servers'[Newest].failed = servers[Newest].failed
        /\ UNCHANGED <<running, owner>>
    BY <1>2, <2>1, CallerMoves
  <2>4. servers[Newest] \in Servers /\ PortInv(Newest)
    BY <1>0, <2>1 DEF TypeInv
  <2>5. \A r \in DOMAIN servers : r # Newest => PortInv(r)'
    <3>1. ASSUME NEW r \in DOMAIN servers, r # Newest
          PROVE  /\ servers'[r] = servers[r] /\ owner' = owner /\ running = Nobody /\ r # Nobody
                 /\ Newest' = Newest /\ running' = running /\ PortInv(r)
      BY <1>0, <2>1, <2>2, <2>3, <3>1 DEF Nobody
    <3> QED
      BY <3>1 DEF PortInv, Sound
  <2>6. CASE StartTimesOut
    <3>1. /\ servers'[Newest].late /\ caller' = "stopping_late"
          /\ servers'[Newest].shut = servers[Newest].shut
          /\ servers'[Newest].hung = servers[Newest].hung
      BY <2>1, <2>4, <2>6 DEF StartTimesOut, Servers, TypeInv
    <3>2. PortInv(Newest)'
      BY <2>1, <2>2, <2>3, <2>4, <3>1 DEF PortInv, Sound
    <3>3. CallerInv'
      BY <1>0, <2>1, <2>2, <2>3, <3>1 DEF CallerInv
    <3> QED
      BY <2>2, <2>5, <3>2, <3>3 DEF OwnedInv
  <2>7. CASE Shutdown
    <3>1. /\ servers'[Newest].late = servers[Newest].late /\ caller' = "joining" /\ caller # "idle"
          /\ servers'[Newest].hung = servers[Newest].hung
          /\ servers'[Newest].shut <=> servers[Newest].shut \/ servers[Newest].known
      BY <2>1, <2>4, <2>7 DEF Shutdown, Servers, TypeInv
    <3>2. servers'[Newest].late \/ servers'[Newest].shut
      BY <2>4, <2>7, <3>1 DEF Shutdown, OwnedInv, CallerInv, PortInv
    <3>3. PortInv(Newest)'
      BY <2>1, <2>2, <2>3, <2>4, <3>1 DEF PortInv, Sound
    <3>4. CallerInv'
      BY <1>0, <2>1, <2>2, <2>3, <3>1, <3>2 DEF CallerInv
    <3> QED
      BY <2>2, <2>5, <3>3, <3>4 DEF OwnedInv
  <2>8. CASE Hang
    <3>1. /\ servers'[Newest].late = servers[Newest].late /\ caller' = "joining"
          /\ servers'[Newest].hung /\ servers[Newest].shut /\ servers'[Newest].shut
      BY <2>1, <2>4, <2>8 DEF Hang, Servers, TypeInv
    <3>2. PortInv(Newest)'
      BY <2>1, <2>2, <2>3, <2>4, <3>1 DEF PortInv, Sound
    <3>3. CallerInv'
      BY <1>0, <2>1, <2>2, <2>3, <3>1 DEF CallerInv
    <3> QED
      BY <2>2, <2>5, <3>2, <3>3 DEF OwnedInv
  <2> QED
    BY <1>2, <2>6, <2>7, <2>8
<1>3. ASSUME NEW s \in DOMAIN servers, Thread(s) \/ PushFails(s) PROVE OwnedInv'
  BY <1>3, OwnedThread
<1>4. ASSUME NEW request \in Requests, MasterWrite(request) PROVE OwnedInv'
  <2>1. PICK st \in Stores : servers' = [servers EXCEPT ![owner].store = st]
    BY <1>4, MasterMoves
  <2>2. owner \in DOMAIN servers /\ UNCHANGED <<caller, running, owner>>
    BY <1>4, MasterMoves
  <2>3. servers[owner] \in Servers
    BY <2>2 DEF TypeInv
  <2>4. /\ DOMAIN servers' = DOMAIN servers /\ Newest' = Newest
        /\ \A r \in DOMAIN servers : r # owner => servers'[r] = servers[r]
        /\ servers'[owner] = [servers[owner] EXCEPT !.store = st]
    BY <2>1, <2>2 DEF Newest, TypeInv
  <2>5. \A r \in DOMAIN servers :
           /\ servers'[r].pc = servers[r].pc /\ servers'[r].ready = servers[r].ready
           /\ servers'[r].failed = servers[r].failed /\ servers'[r].known = servers[r].known
           /\ servers'[r].shut = servers[r].shut /\ servers'[r].late = servers[r].late
           /\ servers'[r].hung = servers[r].hung
    BY <2>3, <2>4 DEF Servers
  <2>6. \A r \in DOMAIN servers : PortInv(r)'
    BY <1>0, <2>2, <2>4, <2>5 DEF PortInv, Sound
  <2>7. CallerInv'
    BY <1>0, <2>2, <2>4, <2>5 DEF OwnedInv, CallerInv, Sound
  <2> QED
    BY <2>4, <2>6, <2>7 DEF OwnedInv
<1>5. CASE Started \/ StartFailed \/ Joined \/ Stop
  <2>1. UNCHANGED <<servers, owner>> /\ Newest' = Newest
    BY <1>5 DEF Started, StartFailed, Joined, Stop, Newest
  <2>2. CASE Started
    <3>1. Newest > 0 /\ running' = Newest /\ caller' = "idle"
          /\ servers[Newest].ready /\ Sound(servers[Newest]) /\ ~servers[Newest].shut
      BY <2>2 DEF Started, OwnedInv, CallerInv, Sound
    <3>2. \A r \in DOMAIN servers : PortInv(r)'
      BY <1>0, <2>1, <2>2, <3>1 DEF Started, OwnedInv, CallerInv, PortInv, Sound
    <3> QED
      BY <2>1, <3>1, <3>2 DEF OwnedInv, CallerInv, Sound
  <2>3. CASE StartFailed
    <3>1. running' = Nobody /\ caller' = "idle" /\ servers[Newest].failed
      BY <2>3 DEF StartFailed, OwnedInv, CallerInv
    <3>2. \A r \in DOMAIN servers : PortInv(r)'
      BY <1>0, <2>1, <2>3, <3>1 DEF StartFailed, OwnedInv, CallerInv, PortInv, Sound
    <3> QED
      BY <2>1, <3>1, <3>2 DEF OwnedInv, CallerInv
  <2>4. CASE Joined
    <3>1. running' = Nobody /\ caller' = "idle"
          /\ (servers[Newest].pc = "ended" \/ servers[Newest].late \/ servers[Newest].hung)
      BY <2>4 DEF Joined, OwnedInv, CallerInv
    <3>2. \A r \in DOMAIN servers : PortInv(r)'
      BY <1>0, <2>1, <2>4, <3>1 DEF Joined, OwnedInv, CallerInv, PortInv, Sound
    <3> QED
      BY <2>1, <3>1, <3>2 DEF OwnedInv, CallerInv
  <2>5. CASE Stop
    <3>1. running' = Nobody /\ caller' = "stopping" /\ running = Newest /\ Newest > 0
          /\ servers[Newest].pc \in Up
      BY <1>0, <2>5 DEF Stop, OwnedInv, CallerInv, PortInv, Sound
    <3>2. \A r \in DOMAIN servers : PortInv(r)'
      BY <1>0, <2>1, <3>1 DEF PortInv, Sound
    <3> QED
      BY <2>1, <3>1, <3>2 DEF OwnedInv, CallerInv, Up
  <2> QED
    BY <1>5, <2>2, <2>3, <2>4, <2>5
<1>6. CASE Tick \/ UNCHANGED vars
  <2>1. UNCHANGED serverVars /\ Newest' = Newest
    BY <1>6 DEF Tick, Project, vars, serverVars, Newest
  <2> QED
    BY <2>1 DEF serverVars, OwnedInv, CallerInv, PortInv, Sound
<1>7. CASE ForeignBinds \/ ForeignLeaves
  <2>1. /\ UNCHANGED <<caller, running, servers>> /\ Newest' = Newest
        /\ {owner, owner'} \subseteq {Foreign, Nobody}
    BY <1>7 DEF ForeignBinds, ForeignLeaves, Newest
  <2>2. \A r \in DOMAIN servers : r \notin {Foreign, Nobody}
    BY <1>0 DEF Foreign, Nobody
  <2>3. \A r \in DOMAIN servers : PortInv(r)'
    BY <1>0, <2>1, <2>2 DEF PortInv, Sound
  <2> QED
    BY <2>1, <2>3 DEF OwnedInv, CallerInv
<1> QED
  BY <1>1, <1>2, <1>3, <1>4, <1>5, <1>6, <1>7 DEF Next, Caller

\* At first there is no server.
LEMMA OwnedInit == Init => TypeInv /\ OwnedInv
<1> SUFFICES ASSUME Init PROVE TypeInv /\ OwnedInv
  OBVIOUS
<1>1. servers \in Seq(Servers) /\ Len(servers) = 0 /\ DOMAIN servers = {} /\ DOMAIN latest = {}
  BY DEF Init
<1>2. TypeInv
  BY <1>1, BoundAssumption DEF Init, TypeInv
<1>3. OwnedInv
  BY <1>1 DEF Init, OwnedInv, CallerInv
<1> QED
  BY <1>2, <1>3

-------------------------------------------------------------------------------
\* What there is to tell of a window never gets older.
LEMMA LowGrows ==
    ASSUME TypeInv, [Next]_vars, NEW i \in ReadWindows
    PROVE  /\ Low(i) \in Nat /\ Low(i)' \in Nat /\ Low(i) <= Low(i)'
           /\ UNCHANGED latest => Low(i)' = Low(i)
<1>1. Low(i) \in Nat /\ Low(i) <= tick
  BY LowTyped
<1>2. UNCHANGED latest => Low(i)' = Low(i)
  BY DEF Low, WindowWords
<1>3. ASSUME NEW told \in Reports, Project(told) PROVE Low(i)' \in Nat /\ Low(i) <= Low(i)'
  <2> DEFINE d == Config.reads[i].device
  <2>1. /\ tick' = tick + 1 /\ tick' \in 1..MaxTick
        /\ latest' = [e \in DOMAIN told \cup DOMAIN latest |->
                         IF e \in DOMAIN told
                         THEN [value |-> Finite("decimal", tick'), quality |-> told[e]] ELSE latest[e]]
    BY <1>3, BoundAssumption DEF Project, TypeInv
  <2>2. CASE d \in DOMAIN told
    <3>1. d \in DOMAIN latest' /\ latest'[d].value = Finite("decimal", tick')
      BY <2>1, <2>2
    <3>2. Low(i)' = tick'
      BY <2>1, <3>1, TickWords DEF Low, WindowWords
    <3> QED
      BY <1>1, <2>1, <3>2 DEF TypeInv
  <2>3. CASE d \notin DOMAIN told
    <3>1. (d \in DOMAIN latest' <=> d \in DOMAIN latest)
          /\ (d \in DOMAIN latest => latest'[d] = latest[d])
      BY <2>1, <2>3
    <3>2. Low(i)' = Low(i)
      BY <3>1 DEF Low, WindowWords
    <3> QED
      BY <1>1, <3>2
  <2> QED
    BY <2>2, <2>3
<1>4. CASE UNCHANGED latest
  BY <1>1, <1>2, <1>4
<1>5. UNCHANGED latest \/ \E told \in Reports : Project(told)
  <2>1. ASSUME NEW s \in DOMAIN servers, Thread(s) \/ PushFails(s) PROVE UNCHANGED latest
    BY <2>1, ThreadMoves DEF fieldVars
  <2> QED
    BY <2>1 DEF Next, Start, StartTimesOut, Stop, Hang, Caller, Started, StartFailed, Shutdown, Joined,
                Tick, MasterWrite, ForeignBinds, ForeignLeaves, vars, fieldVars
<1> QED
  BY <1>1, <1>2, <1>3, <1>4, <1>5

\* What a thread makes of a window of its server.
LEMMA GrowsThread ==
    ASSUME TypeInv, [Next]_vars, NEW s \in DOMAIN servers, Thread(s) \/ PushFails(s),
           NEW i \in ReadWindows, Grows(s, i)
    PROVE  Grows(s, i)'
<1> DEFINE v == servers[s]
           w == servers'[s]
<1>1. v \in Servers
  BY DEF TypeInv
<1>2. Low(i) \in Nat /\ Low(i)' = Low(i)
  BY LowGrows, ThreadMoves DEF fieldVars
<1>3. v.had[i] \in Nat /\ v.store.read[i] \in Words /\ v.store.read[i][2] \in Nat
  BY <1>1 DEF Servers, Stores, Words
<1>4. CASE Build(s)
  <2>1. w = [v EXCEPT !.known = TRUE, !.pc = "binding"]
    BY <1>4 DEF Build, TypeInv
  <2>2. w.pc = "binding" /\ w.had = v.had /\ w.store = v.store /\ w.ready = v.ready /\ v.pc = "building"
    BY <1>1, <1>4, <2>1 DEF Servers, Build
  <2> QED
    BY <1>2, <2>2 DEF Grows
<1>5. CASE Bind(s) \/ Refresh(s)
  <2>1. w = [v EXCEPT !.pc = "pushing", !.next = 1, !.frame = RefreshFrame(Config, latest)]
    BY <1>5 DEF Bind, Refresh, TypeInv
  <2>2. v.pc \in {"binding", "serving"}
    BY <1>5 DEF Bind, Refresh
  <2>3. /\ w.pc = "pushing" /\ w.next = 1 /\ w.had = v.had /\ w.store = v.store /\ w.ready = v.ready
        /\ w.frame = RefreshFrame(Config, latest)
    BY <1>1, <2>1 DEF Servers
  <2>4. w.frame.windows[i].words[2] = Low(i)
    BY <2>3, FrameTyped
  <2>5. ~(i < w.next)
    BY <2>3, MapTyped
  <2> QED
    BY <1>2, <1>3, <2>2, <2>3, <2>4, <2>5 DEF Grows
<1>6. CASE PushWindow(s)
  <2> DEFINE n == v.next
             new == v.frame.windows[n].words
  <2>1. /\ w = [v EXCEPT !.store.read[n] = new, !.next = n + 1]
        /\ v.pc = "pushing" /\ n \in ReadWindows /\ i \in Nat /\ n \in Nat
    BY <1>1, <1>6, MapTyped DEF PushWindow, TypeInv, Servers
  <2>2. /\ w.pc = "pushing" /\ w.had = v.had /\ w.ready = v.ready /\ w.frame = v.frame /\ w.next = n + 1
        /\ w.store.read[i] = IF i = n THEN v.frame.windows[i].words ELSE v.store.read[i]
    BY <1>1, <2>1 DEF Servers, Stores
  <2>3. v.frame.windows[i].words[2] \in Nat
    BY <2>1 DEF TypeInv, Frames, Words
  <2>4. CASE i = n
    BY <1>2, <1>3, <2>1, <2>2, <2>3, <2>4 DEF Grows
  <2>5. CASE i # n
    <3>1. i < n + 1 => i < n
      BY <2>1, <2>5
    <3> QED
      BY <1>2, <1>3, <2>1, <2>2, <2>3, <2>5, <3>1 DEF Grows
  <2> QED
    BY <2>4, <2>5
<1>7. CASE PushDiscrete(s)
  <2>1. w = [v EXCEPT !.store.discrete = v.frame.discrete, !.pc = "serving", !.ready = TRUE]
        /\ v.pc = "pushing" /\ i < v.next
    BY <1>1, <1>7, MapTyped DEF PushDiscrete, TypeInv, Servers
  <2>2. w.pc = "serving" /\ w.had = v.had /\ w.store.read = v.store.read
    BY <1>1, <2>1 DEF Servers, Stores
  <2> QED
    BY <1>2, <2>1, <2>2 DEF Grows
<1>8. CASE BindFails(s) \/ End(s) \/ (PushFails(s) /\ ~v.ready)
  <2>1. \E failed : w = [v EXCEPT !.pc = "ended", !.ready = TRUE, !.failed = failed,
                                  !.frame = <<>>, !.next = 1, !.store = EmptyStore]
    BY <1>8 DEF BindFails, End, PushFails, Over, TypeInv
  <2>2. w.pc = "ended" /\ w.had = v.had /\ w.store = EmptyStore
    BY <1>1, <2>1 DEF Servers
  <2>3. w.store.read[i][2] = 0
    BY <2>2 DEF EmptyStore
  <2> QED
    BY <1>2, <2>2, <2>3 DEF Grows
<1>9. CASE PushFails(s) /\ v.ready
  <2>1. w = [v EXCEPT !.pc = "serving"] /\ v.pc = "pushing"
    BY <1>9 DEF PushFails, Become, TypeInv
  <2>2. w.pc = "serving" /\ w.had = v.had /\ w.store = v.store
    BY <1>1, <2>1 DEF Servers
  <2> QED
    BY <1>2, <1>9, <2>1, <2>2 DEF Grows
<1> QED
  BY <1>4, <1>5, <1>6, <1>7, <1>8, <1>9 DEF Thread

\* The words of a server are numbers.
LEMMA TypedWords ==
    ASSUME TypeInv, NEW s \in DOMAIN servers, NEW i \in ReadWindows
    PROVE  /\ servers[s].had[i] \in Nat /\ servers[s].store.read[i][2] \in Nat
           /\ servers[s].pc = "pushing" => servers[s].frame.windows[i].words[2] \in Nat
<1>1. servers[s] \in Servers /\ (servers[s].pc = "pushing" => servers[s].frame \in Frames)
  BY DEF TypeInv
<1>2. servers[s].had[i] \in Nat /\ servers[s].store.read[i] \in Words
  BY <1>1 DEF Servers, Stores
<1>3. servers[s].pc = "pushing" => servers[s].frame.windows[i].words \in Words
  BY <1>1 DEF Frames
<1> QED
  BY <1>2, <1>3 DEF Words

\* Every step keeps every window of every server growing.
LEMMA FilledStep == TypeInv /\ CallerInv /\ FilledInv /\ [Next]_vars => FilledInv'
<1> SUFFICES ASSUME TypeInv, CallerInv, FilledInv, [Next]_vars PROVE FilledInv'
  OBVIOUS
<1>1. /\ Newest \in Nat /\ DOMAIN servers = 1..Newest
      /\ \A s \in DOMAIN servers : servers[s] \in Servers
  BY DEF TypeInv, Newest
<1>2. \A i \in ReadWindows : Low(i) \in Nat /\ Low(i)' \in Nat /\ Low(i) <= Low(i)'
                            /\ (UNCHANGED latest => Low(i)' = Low(i))
  BY LowGrows
<1>3. \A s \in DOMAIN servers : \A i \in ReadWindows :
         /\ servers[s].had[i] \in Nat /\ servers[s].store.read[i][2] \in Nat
         /\ servers[s].pc = "pushing" => servers[s].frame.windows[i].words[2] \in Nat
  BY TypedWords
\* A server whose windows, frame and place are not changed goes on growing.
<1>4. ASSUME NEW s \in DOMAIN servers, NEW i \in ReadWindows,
             servers'[s].pc = servers[s].pc, servers'[s].ready = servers[s].ready,
             servers'[s].had = servers[s].had, servers'[s].frame = servers[s].frame,
             servers'[s].next = servers[s].next,
             i \in Untouched => servers'[s].store.read[i][2] = servers[s].store.read[i][2]
      PROVE  Grows(s, i)'
  <2>1. Grows(s, i)
    BY DEF FilledInv
  <2> QED
    BY <1>2, <1>3, <1>4, <2>1 DEF Grows
<1>5. ASSUME NEW s \in DOMAIN servers, NEW i \in ReadWindows, servers'[s] = servers[s]
      PROVE  Grows(s, i)'
  BY <1>4, <1>5
<1>6. CASE Start
  <2>1. /\ servers' = Append(servers, NewServer) /\ UNCHANGED latest
    BY <1>6 DEF Start, fieldVars
  <2>2. PICK m \in Nat : m = Newest + 1
    BY <1>1
  <2>3. /\ \A s \in DOMAIN servers' : s \in DOMAIN servers \/ s = m
        /\ servers'[m] = NewServer
        /\ \A s \in DOMAIN servers : servers'[s] = servers[s]
    BY <1>1, <2>1, <2>2 DEF Newest, TypeInv
  <2>4. ASSUME NEW i \in ReadWindows PROVE Grows(m, i)'
    <3>1. NewServer.had[i] = Low(i) /\ NewServer.pc = "building" /\ ~NewServer.ready
          /\ NewServer.store.read[i][2] = 0
      BY DEF NewServer, EmptyStore, Low
    <3> QED
      BY <1>2, <2>1, <2>3, <3>1 DEF Grows
  <2> QED
    BY <1>5, <2>3, <2>4 DEF FilledInv
<1>7. CASE StartTimesOut \/ Shutdown \/ Hang
  <2>1. Newest \in DOMAIN servers
    BY <1>1, <1>7 DEF CallerInv, StartTimesOut, Shutdown, Hang
  <2>2. /\ DOMAIN servers' = DOMAIN servers
        /\ \A r \in DOMAIN servers : r # Newest => servers'[r] = servers[r]
    BY <1>7, <2>1, CallerMoves, OneServer
  <2>3. /\ servers'[Newest].pc = servers[Newest].pc
        /\ servers'[Newest].ready = servers[Newest].ready
        /\ servers'[Newest].had = servers[Newest].had
        /\ servers'[Newest].frame = servers[Newest].frame
        /\ servers'[Newest].next = servers[Newest].next
        /\ servers'[Newest].store = servers[Newest].store
    BY <1>7, <2>1, CallerMoves
  <2>4. ASSUME NEW s \in DOMAIN servers, NEW i \in ReadWindows PROVE Grows(s, i)'
    <3>1. CASE s = Newest
      BY <1>4, <2>3, <3>1
    <3>2. CASE s # Newest
      BY <1>5, <2>2, <3>2
    <3> QED
      BY <3>1, <3>2
  <2> QED
    BY <2>2, <2>4 DEF FilledInv
<1>8. ASSUME NEW s \in DOMAIN servers, Thread(s) \/ PushFails(s) PROVE FilledInv'
  <2>1. /\ DOMAIN servers' = DOMAIN servers
        /\ \A r \in DOMAIN servers : r # s => servers'[r] = servers[r]
    BY <1>8, ThreadMoves, OneServer
  <2>2. \A i \in ReadWindows : Grows(s, i)'
    BY <1>8, GrowsThread DEF FilledInv
  <2>3. \A r \in DOMAIN servers : \A i \in ReadWindows : r # s => Grows(r, i)'
    BY <1>5, <2>1
  <2> QED
    BY <2>1, <2>2, <2>3 DEF FilledInv
<1>9. ASSUME NEW request \in Requests, MasterWrite(request) PROVE FilledInv'
  <2>1. PICK st \in Stores : /\ servers' = [servers EXCEPT ![owner].store = st]
                             /\ \A i \in Untouched : st.read[i][2] = servers[owner].store.read[i][2]
    BY <1>9, MasterMoves
  <2>2. owner \in DOMAIN servers
    BY <1>9, MasterMoves
  <2>3. /\ DOMAIN servers' = DOMAIN servers
        /\ \A r \in DOMAIN servers : r # owner => servers'[r] = servers[r]
        /\ servers'[owner] = [servers[owner] EXCEPT !.store = st]
    BY <1>1, <2>1, <2>2
  <2>4. /\ servers'[owner].pc = servers[owner].pc /\ servers'[owner].ready = servers[owner].ready
        /\ servers'[owner].had = servers[owner].had /\ servers'[owner].frame = servers[owner].frame
        /\ servers'[owner].next = servers[owner].next /\ servers'[owner].store = st
    BY <1>1, <2>2, <2>3 DEF Servers
  <2>5. ASSUME NEW s \in DOMAIN servers, NEW i \in ReadWindows PROVE Grows(s, i)'
    <3>1. CASE s = owner
      BY <1>4, <2>1, <2>4, <3>1
    <3>2. CASE s # owner
      BY <1>5, <2>3, <3>2
    <3> QED
      BY <3>1, <3>2
  <2> QED
    BY <2>3, <2>5 DEF FilledInv
<1>10. CASE UNCHANGED servers
  BY <1>5, <1>10 DEF FilledInv
<1> QED
  BY <1>6, <1>7, <1>8, <1>9, <1>10
  DEF Next, Caller, Started, StartFailed, Joined, Stop, Tick, Project, ForeignBinds, ForeignLeaves,
      vars, serverVars

\* The port is served by the server the adapter holds, filled with what was known when it
\* was started, and by no other server that is sound.
THEOREM ServedEver == Spec => []ServedWhileOwned
<1>1. Init => FilledInv
  BY OwnedInit DEF Init, FilledInv, TypeInv
<1>2. TypeInv /\ OwnedInv /\ FilledInv => ServedWhileOwned
  <2> SUFFICES ASSUME TypeInv, OwnedInv, FilledInv PROVE ServedWhileOwned
    OBVIOUS
  <2>1. Newest \in Nat /\ (Newest > 0 => Newest \in DOMAIN servers)
    BY DEF TypeInv, Newest
  <2>2. ASSUME running # Nobody
        PROVE  /\ owner = running /\ servers[running].pc \in {"pushing", "serving"}
               /\ \A i \in Untouched : Polled(i) >= servers[running].had[i]
    <3>1. /\ running = Newest /\ running \in DOMAIN servers /\ servers[running].ready
          /\ Sound(servers[running]) /\ ~servers[running].shut
      BY <2>1, <2>2 DEF OwnedInv, CallerInv
    <3>2. owner = running /\ servers[running].pc \in Up
      BY <3>1 DEF OwnedInv, PortInv, Sound
    <3>3. ASSUME NEW i \in Untouched PROVE Polled(i) >= servers[running].had[i]
      <4>1. i \in ReadWindows /\ Grows(running, i)
        BY <3>1 DEF FilledInv, Untouched
      <4>2. servers[running].had[i] <= servers[running].store.read[i][2]
        BY <3>1, <3>2, <4>1 DEF Grows, Up
      <4>3. servers[running].had[i] \in Nat /\ servers[running].store.read[i][2] \in Nat
        BY <3>1, <4>1, TypedWords
      <4> QED
        BY <3>2, <4>2, <4>3 DEF Polled
    <3> QED
      BY <3>2, <3>3 DEF Up
  <2>3. ASSUME caller = "idle", running = Nobody, owner \in DOMAIN servers
        PROVE  servers[owner].late \/ servers[owner].hung \/ servers[owner].failed
    <3>1. PortInv(owner) /\ owner # Nobody
      BY <2>3 DEF OwnedInv, TypeInv, Nobody
    <3> QED
      BY <2>3, <3>1 DEF PortInv, Sound, Up
  <2> QED
    BY <2>2, <2>3 DEF ServedWhileOwned
<1>3. OwnedInv => CallerInv
  BY DEF OwnedInv
<1> QED
  BY <1>1, <1>2, <1>3, OwnedInit, TypeStep, OwnedStep, FilledStep, PTL DEF Spec

\* What a poll sees of a window that masters leave alone never gets older.
THEOREM PollsEver == Spec => PollsGoForward
<1> DEFINE Forward == \A i \in Untouched :
                         Listening /\ servers[owner].ready /\ Listening' /\ servers'[owner'].ready
                             => Polled(i)' >= Polled(i)
<1>1. TypeInv /\ OwnedInv /\ FilledInv /\ [Next]_vars => [Forward]_vars
  <2> SUFFICES ASSUME TypeInv, OwnedInv, FilledInv, [Next]_vars,
                      NEW i \in Untouched, Listening, Listening'
               PROVE  Polled(i)' >= Polled(i)
    OBVIOUS
  <2>1. i \in ReadWindows /\ owner \in DOMAIN servers /\ owner \notin {Nobody, Foreign}
    BY DEF Untouched, Listening, TypeInv, Nobody, Foreign
  <2>2. Polled(i) \in Nat /\ Grows(owner, i) /\ servers[owner] \in Servers
    BY <2>1, TypedWords DEF Polled, FilledInv, TypeInv
  <2>3. UNCHANGED <<owner, servers>> => Polled(i)' = Polled(i)
    BY DEF Polled
  <2>4. CASE Start
    <3>1. owner = Nobody
      BY <2>4 DEF Start
    <3> QED
      BY <2>1, <3>1
  <2>5. CASE StartTimesOut \/ Shutdown \/ Hang
    <3>1. Newest \in DOMAIN servers
      BY <2>5 DEF OwnedInv, CallerInv, TypeInv, Newest, StartTimesOut, Shutdown, Hang
    <3>2. /\ UNCHANGED owner /\ servers'[Newest].store = servers[Newest].store
          /\ \A r \in DOMAIN servers : r # Newest => servers'[r] = servers[r]
      BY <2>5, <3>1, CallerMoves, OneServer
    <3> QED
      BY <2>1, <2>2, <3>2 DEF Polled
  <2>6. ASSUME NEW s \in DOMAIN servers, Thread(s) \/ PushFails(s) PROVE Polled(i)' >= Polled(i)
    <3>1. LifeStep(s) /\ PortInv(s) /\ PortInv(owner)
      BY <2>1, <2>6, ThreadLives DEF OwnedInv
    <3>2. \A r \in DOMAIN servers : r # s => servers'[r] = servers[r]
      BY <2>6, ThreadMoves, OneServer
    <3>3. CASE s # owner
      <4>1. owner' = owner
        BY <2>1, <2>2, <3>1, <3>3 DEF LifeStep, PortInv, Up
      <4> QED
        BY <2>1, <2>2, <3>2, <3>3, <4>1 DEF Polled
    <3>4. CASE s = owner
      <4>1. servers[s].pc \in Up /\ owner' = s /\ servers'[s].pc \in Up
        <5>1. owner' \in {owner, Nobody}
          BY <2>6, <3>4, ThreadMoves
        <5>2. owner' = owner
          BY <2>1, <5>1 DEF Listening, TypeInv, Nobody
        <5> QED
          BY <3>4, <5>2 DEF Listening, Up
      <4>2. CASE servers'[s].store.read[i] = servers[s].store.read[i]
        BY <2>2, <3>4, <4>1, <4>2 DEF Polled
      <4>3. CASE PushWindow(s)
        <5> DEFINE n == servers[s].next
                   new == servers[s].frame.windows[n].words
        <5>1. /\ servers'[s] = [servers[s] EXCEPT !.store.read[n] = new, !.next = n + 1]
              /\ servers[s].pc = "pushing"
          BY <4>3 DEF PushWindow, TypeInv
        <5>2. servers'[s].store.read[i]
                = IF i = n THEN servers[s].frame.windows[i].words ELSE servers[s].store.read[i]
          BY <2>1, <2>2, <3>4, <5>1 DEF Servers, Stores
        <5>3. servers[s].store.read[i][2] <= servers[s].frame.windows[i].words[2]
              /\ servers[s].frame.windows[i].words[2] \in Nat
          BY <2>1, <2>2, <3>4, <5>1, TypedWords DEF Grows
        <5> QED
          BY <2>2, <3>4, <4>1, <5>2, <5>3 DEF Polled
      <4>4. ASSUME ~PushWindow(s) PROVE servers'[s].store.read[i] = servers[s].store.read[i]
        <5>1. CASE Refresh(s)
          BY <2>2, <3>4, <5>1 DEF Refresh, TypeInv, Servers
        <5>2. CASE PushDiscrete(s)
          BY <2>2, <3>4, <5>2 DEF PushDiscrete, TypeInv, Servers, Stores
        <5>3. CASE PushFails(s)
          <6>1. servers[s].ready
            <7>1. CASE ~servers[s].ready
              <8>1. servers'[s] = [servers[s] EXCEPT !.pc = "ended", !.ready = TRUE, !.failed = TRUE,
                                                     !.frame = <<>>, !.next = 1, !.store = EmptyStore]
                BY <5>3, <7>1 DEF PushFails, Over, TypeInv
              <8> QED
                BY <2>2, <3>4, <4>1, <8>1 DEF Servers, Up
            <7> QED
              BY <7>1
          <6> QED
            BY <2>2, <3>4, <5>3, <6>1 DEF PushFails, Become, TypeInv, Servers
        <5>4. CASE Build(s) \/ Bind(s) \/ BindFails(s)
          BY <4>1, <5>4 DEF Build, Bind, BindFails, Up
        <5>5. CASE End(s)
          <6>1. servers'[s].pc = "ended"
            BY <2>2, <3>4, <5>5 DEF End, Over, TypeInv, Servers
          <6> QED
            BY <4>1, <6>1 DEF Up
        <5> QED
          BY <2>6, <4>4, <5>1, <5>2, <5>3, <5>4, <5>5 DEF Thread
      <4> QED
        BY <4>2, <4>3, <4>4
    <3> QED
      BY <3>3, <3>4
  <2>7. ASSUME NEW request \in Requests, MasterWrite(request) PROVE Polled(i)' >= Polled(i)
    <3>1. PICK st \in Stores : /\ servers' = [servers EXCEPT ![owner].store = st]
                               /\ st.read[i][2] = servers[owner].store.read[i][2]
      BY <2>7, MasterMoves
    <3>2. owner' = owner /\ servers'[owner].store = st
      BY <2>1, <2>2, <2>7, <3>1, MasterMoves DEF TypeInv, Servers
    <3> QED
      BY <2>2, <3>1, <3>2 DEF Polled
  <2>8. CASE ForeignBinds \/ ForeignLeaves
    <3>1. owner \in {Foreign, Nobody}
      BY <2>8 DEF ForeignBinds, ForeignLeaves
    <3> QED
      BY <2>1, <3>1
  <2>9. CASE UNCHANGED <<owner, servers>>
    BY <2>2, <2>3, <2>9
  <2> QED
    BY <2>4, <2>5, <2>6, <2>7, <2>8, <2>9
    DEF Next, Caller, Started, StartFailed, Joined, Stop, Tick, Project, vars, serverVars
<1>2. Init => FilledInv
  BY OwnedInit DEF Init, FilledInv, TypeInv
<1>3. OwnedInv => CallerInv
  BY DEF OwnedInv
<1> QED
  BY <1>1, <1>2, <1>3, OwnedInit, TypeStep, OwnedStep, FilledStep, PTL DEF Spec, PollsGoForward
-------------------------------------------------------------------------------
\* The values a request gives a window, the command that becomes of it, and the windows it
\* covers as a whole and with a number; the number of a window among them is its place.
Given(m, request) == DecodeFloat32(request.words[m.address - request.address + 1],
                                   request.words[m.address - request.address + 2])
OrderOf(m, request) == [device |-> m.device, value |-> (CHOOSE v \in Given(m, request) : TRUE).n]
Hits(request) == {m \in ToSet(Config.writes) :
                     Covered(m, request.address, Len(request.words)) /\ Given(m, request) # {}}
Place(m, hits) == Cardinality({n \in hits : n.address <= m.address})

Orders == {OrderOf(m, request) : m \in ToSet(Config.writes), request \in Requests}
Arrived(request) == DecodeInbound(Config, request.address, request.words)

\* Windows with addresses of their own are numbered in the order of their addresses.
LEMMA Placed ==
    ASSUME NEW hits, IsFiniteSet(hits), \A m \in hits : m.address \in Int,
           \A m, n \in hits : m.address = n.address => m = n
    PROVE  [m \in hits |-> Place(m, hits)] \in Bijection(hits, 1..Cardinality(hits))
<1> DEFINE upto(m) == {n \in hits : n.address <= m.address}
           place == [m \in hits |-> Place(m, hits)]
           size == Cardinality(hits)
<1>1. size \in Nat /\ IsFiniteSet(1..size) /\ Cardinality(1..size) = size
  <2>1. size \in Nat
    BY FS_CardinalityType
  <2> HIDE DEF size
  <2> QED
    BY <2>1, FS_Interval
<1>2. ASSUME NEW m \in hits PROVE /\ IsFiniteSet(upto(m)) /\ Cardinality(upto(m)) \in 1..size
  <2>1. upto(m) \in SUBSET hits /\ m \in upto(m)
    OBVIOUS
  <2>2. IsFiniteSet(upto(m)) /\ Cardinality(upto(m)) <= size
    BY <2>1, FS_Subset
  <2>3. Cardinality(upto(m)) \in Nat /\ Cardinality(upto(m)) # 0
    BY <2>1, <2>2, FS_CardinalityType, FS_EmptySet
  <2> QED
    BY <1>1, <2>2, <2>3
<1>3. ASSUME NEW m \in hits, NEW n \in hits, m.address < n.address
      PROVE  Place(m, hits) # Place(n, hits)
  <2>1. upto(m) \in SUBSET upto(n) /\ n \in upto(n) /\ n \notin upto(m)
    BY <1>3
  <2>2. upto(m) # upto(n)
    BY <2>1
  <2>3. Cardinality(upto(m)) # Cardinality(upto(n))
    BY <1>2, <2>1, <2>2, FS_Subset
  <2> QED
    BY <2>3 DEF Place
<1>4. place \in Injection(hits, 1..size)
  <2>1. place \in [hits -> 1..size]
    BY <1>2 DEF Place
  <2>2. ASSUME NEW m \in hits, NEW n \in hits, place[m] = place[n] PROVE m = n
    <3>1. ~(m.address < n.address) /\ ~(n.address < m.address)
      BY <1>3, <2>2
    <3> QED
      BY <3>1
  <2> QED
    BY <2>1, <2>2 DEF Injection, IsInjective
<1> HIDE DEF place, size
<1>5. Cardinality(hits) = Cardinality(1..size)
  BY <1>1 DEF size
<1>6. place \in Surjection(hits, 1..size)
  BY <1>1, <1>4, <1>5, FS_Injection
<1> QED
  BY <1>4, <1>6 DEF Bijection, place, size

\* `all` has the elements of s, and then those of t.
Joins(all, s, t) ==
    /\ \A k \in DOMAIN s : k \in DOMAIN all /\ all[k] = s[k]
    /\ \A k \in DOMAIN t : Len(s) + k \in DOMAIN all /\ all[Len(s) + k] = t[k]
    /\ \A k \in DOMAIN all : k \in DOMAIN s \/ \E j \in DOMAIN t : k = Len(s) + j

\* What is put at the end of a sequence comes after what was there.
LEMMA Appended ==
    ASSUME NEW S, NEW s \in Seq(S), NEW t \in Seq(S)
    PROVE  s \o t \in Seq(S) /\ Len(s \o t) = Len(s) + Len(t) /\ Joins(s \o t, s, t)
<1>1. Len(s) \in Nat /\ Len(t) \in Nat /\ DOMAIN s = 1..Len(s) /\ DOMAIN t = 1..Len(t)
  OBVIOUS
<1>2. /\ s \o t \in Seq(S) /\ Len(s \o t) = Len(s) + Len(t)
      /\ DOMAIN (s \o t) = 1..(Len(s) + Len(t))
  OBVIOUS
<1>3. ASSUME NEW k \in DOMAIN t
      PROVE  Len(s) + k \in DOMAIN (s \o t) /\ (s \o t)[Len(s) + k] = t[k]
  <2>1. Len(s) + k \in 1..(Len(s) + Len(t)) /\ ~(Len(s) + k <= Len(s)) /\ Len(s) + k - Len(s) = k
    BY <1>1
  <2> QED
    BY <1>2, <2>1
<1>4. ASSUME NEW k \in DOMAIN s PROVE k \in DOMAIN (s \o t) /\ (s \o t)[k] = s[k]
  BY <1>1, <1>2
<1>5. ASSUME NEW k \in DOMAIN (s \o t), k \notin DOMAIN s
      PROVE  \E j \in DOMAIN t : k = Len(s) + j
  <2>1. k - Len(s) \in 1..Len(t) /\ k = Len(s) + (k - Len(s))
    BY <1>1, <1>2, <1>5
  <2> QED
    BY <1>1, <2>1
<1> QED
  BY <1>2, <1>3, <1>4, <1>5 DEF Joins

\* The windows of an accepted configuration share no register.
LEMMA NothingShared == NoOverlap(Config.reads \o Config.writes)
BY ConfigAssumption, Zenon DEF ServerConfigError

\* The windows to be written are of a finite number, with addresses and registers of their
\* own.
LEMMA WindowsApart ==
    /\ WriteWindows = 1..Len(Config.writes) /\ Len(Config.writes) \in Nat
    /\ IsFiniteSet(ToSet(Config.writes))
    /\ ToSet(Config.writes) = {Config.writes[i] : i \in WriteWindows}
    /\ \A m \in ToSet(Config.writes) : m.address \in Int
    /\ \A i, j \in WriteWindows : Config.writes[i].address = Config.writes[j].address => i = j
    /\ \A m, n \in ToSet(Config.writes) : m.address = n.address => m = n
<1> DEFINE windows == Config.writes
           reads == Config.reads
<1>1. WriteWindows = 1..Len(windows) /\ Len(windows) \in Nat /\ Len(reads) \in Nat
      /\ reads \in Seq([address : Int, device : STRING])
      /\ windows \in Seq([address : Int, device : STRING])
  BY ConfigAssumption DEF WriteWindows
<1>2. ToSet(windows) = {windows[i] : i \in WriteWindows}
  BY DEF ToSet, WriteWindows
<1>4. ASSUME NEW i \in WriteWindows, NEW j \in WriteWindows, windows[i].address = windows[j].address
      PROVE  i = j
  <2> DEFINE all == reads \o windows
             a == Len(reads) + i
             b == Len(reads) + j
  <2> HIDE DEF reads, windows
  <2>1. a \in DOMAIN all /\ b \in DOMAIN all /\ all[a] = windows[i] /\ all[b] = windows[j]
    <3>1. i \in DOMAIN windows /\ j \in DOMAIN windows
      BY DEF WriteWindows, windows
    <3>2. \A k \in DOMAIN windows : /\ Len(reads) + k \in DOMAIN (reads \o windows)
                                   /\ (reads \o windows)[Len(reads) + k] = windows[k]
      BY <1>1, Appended DEF Joins
    <3> QED
      BY <3>1, <3>2
  <2>2. Window(windows[i]) = Window(windows[j]) /\ windows[i].address \in Window(windows[i])
    BY <1>4 DEF Window
  <2> HIDE DEF all, a, b
  <2>3. ~(a # b)
    BY NothingShared, <2>1, <2>2 DEF all, NoOverlap, reads, windows
  <2> QED
    BY <1>1, <2>3 DEF a, b
<1>5. IsFiniteSet(ToSet(windows))
  <2> DEFINE f == [i \in 1..Len(windows) |-> windows[i]]
  <2>1. f \in [1..Len(windows) -> ToSet(windows)]
    BY <1>1, <1>2
  <2>3. \A m \in ToSet(windows) : \E i \in 1..Len(windows) : f[i] = m
    BY <1>1, <1>2
  <2>2. IsFiniteSet(1..Len(windows))
    BY <1>1, FS_Interval
  <2> HIDE DEF f
  <2>4. f \in Surjection(1..Len(windows), ToSet(windows))
    BY <2>1, <2>3 DEF Surjection
  <2> QED
    BY <2>2, <2>4, FS_Surjection
<1> QED
  BY <1>1, <1>2, <1>4, <1>5, MapTyped

\* A request becomes one command for each window it covers as a whole and with a number,
\* and these commands can be told from the windows they are of.
LEMMA ArrivedTyped ==
    ASSUME NEW request \in Requests
    PROVE  /\ IsFiniteSet(Hits(request)) /\ Cardinality(Hits(request)) \in Nat
           /\ Arrived(request) \in Seq(Orders)
           /\ Len(Arrived(request)) = Cardinality(Hits(request))
           /\ \E place \in Bijection(Hits(request), 1..Len(Arrived(request))) :
                 \A m \in Hits(request) : Arrived(request)[place[m]] = OrderOf(m, request)
<1> DEFINE hits == Hits(request)
           size == Cardinality(hits)
           place == [m \in hits |-> Place(m, hits)]
           At(k) == CHOOSE m \in hits : Place(m, hits) = k
<1>1. hits \in SUBSET ToSet(Config.writes)
  BY DEF Hits
<1>2. IsFiniteSet(hits) /\ size \in Nat
  BY <1>1, WindowsApart, FS_Subset, FS_CardinalityType
<1>3. place \in Bijection(hits, 1..size)
  BY <1>1, <1>2, WindowsApart, Placed
<1>5. Arrived(request) = [k \in 1..size |-> OrderOf(At(k), request)]
  BY DEF Arrived, DecodeInbound, Hits, Given, Place, OrderOf
<1>6. \A m \in hits : place[m] \in 1..size /\ At(place[m]) = m
  <2>1. ASSUME NEW m \in hits PROVE place[m] \in 1..size /\ At(place[m]) = m
    <3>1. place[m] \in 1..size /\ place[m] = Place(m, hits)
      BY <1>3 DEF Bijection, Injection
    <3>2. ASSUME NEW n \in hits, Place(n, hits) = place[m] PROVE n = m
      BY <1>3, <3>1, <3>2 DEF Bijection, Injection, IsInjective
    <3> QED
      BY <3>1, <3>2
  <2> QED
    BY <2>1
<1>7. \A k \in 1..size : At(k) \in hits
  BY <1>3 DEF Bijection, Surjection
<1>8. \A m \in hits : OrderOf(m, request) \in Orders
  BY <1>1 DEF Orders
<1> HIDE DEF hits, size, place, At
<1>9. \A k \in 1..size : OrderOf(At(k), request) \in Orders
  BY <1>7, <1>8
<1>10. Arrived(request) \in Seq(Orders) /\ Len(Arrived(request)) = size
  BY <1>2, <1>5, <1>9
<1>11. \A m \in hits : Arrived(request)[place[m]] = OrderOf(m, request)
  BY <1>5, <1>6
<1> QED
  BY <1>2, <1>3, <1>10, <1>11 DEF hits, size

\* What the registers of a window say, and that the last command for a setpoint says it.
Shown(i) == DecodeFloat32(servers[owner].store.write[i][1], servers[owner].store.write[i][2])
IsTold(i) == \A v \in Shown(i) :
                \E k \in DOMAIN commands :
                    LastOrder(k, Config.writes[i].device) /\ commands[k].value = v.n

SettledInv ==
    /\ commands \in Seq(Orders) /\ Len(commands) = asked /\ whole \subseteq WriteWindows
    /\ Listening => \A i \in whole : OnlyWindow(i) => IsTold(i)

\* A request puts its values in the windows it covers, and leaves alone those it does not
\* touch.
LEMMA RequestStores ==
    ASSUME TypeInv, NEW request \in Requests, MasterWrite(request), NEW i \in WriteWindows
    PROVE  /\ Covered(Config.writes[i], request.address, Len(request.words))
                 => Shown(i)' = Given(Config.writes[i], request) /\ Touched(Config.writes[i], request)
           /\ ~Touched(Config.writes[i], request) => Shown(i)' = Shown(i)
<1> DEFINE m == Config.writes[i]
           old == servers[owner].store.write[i]
           at == m.address - request.address
           w(o) == IF at + o + 1 \in DOMAIN request.words THEN request.words[at + o + 1] ELSE old[o + 1]
<1>1. /\ m.address \in Int /\ request.address \in Int /\ Len(request.words) \in Nat /\ at \in Int
      /\ DOMAIN request.words = 1..Len(request.words)
  BY MapTyped, RequestAssumption, RegisterAssumption
<1>2. servers[owner] \in Servers /\ owner \in DOMAIN servers /\ owner' = owner
  BY MasterMoves DEF TypeInv
<1>3. servers'[owner].store.write[i] = Overwritten(old, m, request)
  <2> DEFINE whose == servers[owner]
             Store(kind, windows) == [n \in DOMAIN windows |->
                                         Overwritten(whose.store[kind][n], windows[n], request)]
             st == [whose.store EXCEPT !.write = Store("write", Config.writes),
                                       !.read = Store("read", Config.reads)]
  <2>1. servers' = [servers EXCEPT ![owner].store = st]
    BY DEF MasterWrite
  <2>2. Store("write", Config.writes)[i] = Overwritten(old, m, request)
    BY DEF WriteWindows
  <2> HIDE DEF Store
  <2>3. whose.store \in Stores
    BY <1>2 DEF Servers
  <2>4. st.write = Store("write", Config.writes)
    BY <2>3 DEF Stores
  <2> HIDE DEF st
  <2>5. servers'[owner].store = st
    BY <1>2, <2>1 DEF Servers, TypeInv
  <2> QED
    BY <2>2, <2>4, <2>5
<1>4. Overwritten(old, m, request) = <<w(0), w(1)>>
  <2>1. \A o \in {0, 1} : m.address - request.address + o + 1 = at + o + 1
    OBVIOUS
  <2> QED
    BY <2>1 DEF Overwritten
<1>5. Shown(i) = DecodeFloat32(old[1], old[2])
  BY DEF Shown
<1>6. Shown(i)' = DecodeFloat32(w(0), w(1))
  <2>1. Shown(i)' = DecodeFloat32(servers'[owner].store.write[i][1], servers'[owner].store.write[i][2])
    BY <1>2 DEF Shown
  <2> HIDE DEF w, old
  <2> QED
    BY <2>1, <1>3, <1>4
<1>7. ASSUME Covered(m, request.address, Len(request.words))
      PROVE  Shown(i)' = Given(m, request) /\ Touched(m, request)
  <2>0. {m.address, m.address + 1} \subseteq request.address .. (request.address + Len(request.words) - 1)
    BY <1>7 DEF Covered, Window
  <2>1. at + 1 \in 1..Len(request.words) /\ at + 2 \in 1..Len(request.words)
    <3>1. \A a, b \in Int, n \in Nat : {a, a + 1} \subseteq b..(b + n - 1)
             => a - b + 1 \in 1..n /\ a - b + 2 \in 1..n
      OBVIOUS
    <3> HIDE DEF m
    <3> QED
      BY <1>1, <2>0, <3>1
  <2>2. w(0) = request.words[at + 1] /\ w(1) = request.words[at + 2]
    <3>1. at + 0 + 1 = at + 1 /\ at + 1 + 1 = at + 2
      BY <1>1
    <3> HIDE DEF at
    <3> QED
      BY <1>1, <2>1, <3>1
  <2>3. Touched(m, request)
    BY <1>1, <1>7 DEF Covered, Window, Touched
  <2> HIDE DEF w
  <2> QED
    BY <1>6, <2>2, <2>3 DEF Given
<1>8. ASSUME ~Touched(m, request) PROVE Shown(i)' = Shown(i)
  <2>0. /\ m.address \notin request.address .. (request.address + Len(request.words) - 1)
        /\ m.address + 1 \notin request.address .. (request.address + Len(request.words) - 1)
    BY <1>8 DEF Touched, Window
  <2>1. at + 1 \notin 1..Len(request.words) /\ at + 2 \notin 1..Len(request.words)
    <3>1. \A a, b \in Int, n \in Nat : a \notin b..(b + n - 1) /\ a + 1 \notin b..(b + n - 1)
             => a - b + 1 \notin 1..n /\ a - b + 2 \notin 1..n
      OBVIOUS
    <3> HIDE DEF m
    <3> QED
      BY <1>1, <2>0, <3>1
  <2>2. w(0) = old[1] /\ w(1) = old[2]
    <3>1. at + 0 + 1 = at + 1 /\ at + 1 + 1 = at + 2
      BY <1>1
    <3> HIDE DEF at, old
    <3> QED
      BY <1>1, <2>1, <3>1
  <2> HIDE DEF w, old
  <2> QED
    BY <1>5, <1>6, <2>2
<1> QED
  BY <1>7, <1>8

\* A request is asked for as many commands as arrive of it.
LEMMA AsManyArrive ==
    ASSUME TypeInv, SettledInv, NEW request \in Requests, MasterWrite(request)
    PROVE  /\ commands' = commands \o Arrived(request) /\ commands' \in Seq(Orders)
           /\ Len(commands') = asked'
<1> DEFINE m(i) == Config.writes[i]
           covered == {i \in WriteWindows : Covered(m(i), request.address, Len(request.words))}
           full == {i \in covered : Given(m(i), request) # {}}
           hits == Hits(request)
           f == [i \in full |-> m(i)]
<1>1. /\ commands' = commands \o Arrived(request)
      /\ asked' = asked + Cardinality({i \in covered :
                              LET words == servers'[owner].store.write[i]
                              IN  DecodeFloat32(words[1], words[2]) # {}})
      /\ owner' = owner
  BY DEF MasterWrite, Arrived
<1>2. \A i \in covered : DecodeFloat32(servers'[owner].store.write[i][1],
                                       servers'[owner].store.write[i][2]) = Given(m(i), request)
  <2>1. \A i \in covered : Shown(i)' = Given(m(i), request)
    BY RequestStores
  <2> QED
    BY <1>1, <2>1 DEF Shown
<1>3. asked' = asked + Cardinality(full)
  <2>1. {i \in covered : DecodeFloat32(servers'[owner].store.write[i][1],
                                       servers'[owner].store.write[i][2]) # {}} = full
    BY <1>2
  <2> QED
    BY <1>1, <2>1
<1>4. hits = {m(i) : i \in full}
  <2>1. \A n \in hits : \E i \in full : n = m(i)
    <3>1. ASSUME NEW n \in hits PROVE \E i \in full : n = m(i)
      <4>1. PICK i \in WriteWindows : n = m(i)
        BY WindowsApart DEF Hits
      <4>2. i \in full
        BY <4>1 DEF Hits
      <4> QED
        BY <4>1, <4>2
    <3> QED
      BY <3>1
  <2>2. \A i \in full : m(i) \in hits
    BY WindowsApart DEF Hits
  <2> HIDE DEF hits, full, m
  <2> QED
    BY <2>1, <2>2
<1>5. \A i, j \in full : m(i) = m(j) => i = j
  BY WindowsApart
<1> HIDE DEF full, hits, covered
<1>6. f \in Injection(full, hits)
  BY <1>4, <1>5 DEF Injection, IsInjective
<1>7. f \in Surjection(full, hits)
  BY <1>4 DEF Surjection
<1>8. IsFiniteSet(hits) /\ Cardinality(hits) = Len(Arrived(request)) /\ Arrived(request) \in Seq(Orders)
  BY ArrivedTyped DEF hits
<1> HIDE DEF f
<1>9. IsFiniteSet(full)
  BY <1>6, <1>8, FS_Injection
<1>10. Cardinality(hits) = Cardinality(full)
  BY <1>6, <1>7, <1>9, FS_Surjection
<1>11. commands' \in Seq(Orders) /\ Len(commands') = Len(commands) + Len(Arrived(request))
  BY <1>1, <1>8, Appended DEF SettledInv
<1> QED
  BY <1>1, <1>3, <1>8, <1>10, <1>11 DEF SettledInv

\* What a window gives is at most one value.
LEMMA OneGiven ==
    ASSUME NEW high, NEW low, NEW v \in DecodeFloat32(high, low)
    PROVE  (CHOOSE x \in DecodeFloat32(high, low) : TRUE) = v
<1> DEFINE only == FloatOf("decimal", (high % Word) * Word + (low % Word))
<1>1. DecodeFloat32(high, low) = IF only.special = "no" THEN {only} ELSE {}
  BY DEF DecodeFloat32
<1> HIDE DEF only
<1>2. DecodeFloat32(high, low) = {v}
  BY <1>1
<1> QED
  BY <1>2

\* After a request the last command for a setpoint says what its only window shows.
LEMMA RequestTold ==
    ASSUME TypeInv, SettledInv, NEW request \in Requests, MasterWrite(request),
           NEW i \in whole', OnlyWindow(i)
    PROVE  i \in WriteWindows /\ IsTold(i)'
<1> DEFINE m == Config.writes[i]
           d == m.device
           hits == Hits(request)
           new == Arrived(request)
<1>1. /\ i \in WriteWindows /\ Listening
      /\ \/ Covered(m, request.address, Len(request.words))
         \/ i \in whole /\ ~Touched(m, request)
  BY DEF MasterWrite, SettledInv
<1>2. /\ commands \in Seq(Orders) /\ new \in Seq(Orders) /\ commands' = commands \o new
      /\ Len(commands) \in Nat /\ DOMAIN commands = 1..Len(commands)
      /\ DOMAIN new = 1..Len(new) /\ Len(new) \in Nat
  BY AsManyArrive, ArrivedTyped DEF SettledInv
<1>3. PICK place \in Bijection(hits, 1..Len(new)) : \A n \in hits : new[place[n]] = OrderOf(n, request)
  BY ArrivedTyped
<1>4. /\ place \in [hits -> 1..Len(new)]
      /\ \A j \in 1..Len(new) : \E n \in hits : place[n] = j
  BY <1>3 DEF Bijection, Injection, Surjection
<1>5. ASSUME NEW j \in DOMAIN new, new[j].device = d PROVE m \in hits /\ place[m] = j
  <2>1. PICK n \in hits : place[n] = j
    BY <1>2, <1>4
  <2>2. n.device = d
    <3>1. new[j] = OrderOf(n, request)
      BY <1>3, <2>1
    <3> HIDE DEF new
    <3> QED
      BY <1>5, <3>1 DEF OrderOf
  <2>3. PICK e \in WriteWindows : n = Config.writes[e]
    BY WindowsApart DEF Hits
  <2>4. e = i
    BY <2>2, <2>3 DEF OnlyWindow
  <2> QED
    BY <2>1, <2>3, <2>4
<1>6. SUFFICES ASSUME NEW v \in Shown(i)'
               PROVE  \E k \in DOMAIN commands' :
                         /\ commands'[k].device = d /\ commands'[k].value = v.n
                         /\ \A l \in DOMAIN commands' : l > k => commands'[l].device # d
  BY <1>1 DEF IsTold, LastOrder
<1>7. /\ \A k \in DOMAIN commands : k \in DOMAIN commands' /\ commands'[k] = commands[k]
      /\ \A k \in DOMAIN new : /\ Len(commands) + k \in DOMAIN commands'
                               /\ commands'[Len(commands) + k] = new[k]
      /\ \A k \in DOMAIN commands' : k \in DOMAIN commands \/ \E j \in DOMAIN new : k = Len(commands) + j
  <2> HIDE DEF new
  <2>1. Joins(commands', commands, new)
    BY <1>2, Appended
  <2> QED
    BY <2>1 DEF Joins
<1>8. CASE Covered(m, request.address, Len(request.words))
  <2>1. v \in Given(m, request)
    BY <1>1, <1>6, <1>8, RequestStores
  <2>2. m \in hits
    BY <1>1, <1>8, <2>1, WindowsApart DEF Hits
  <2>3. OrderOf(m, request).value = v.n /\ OrderOf(m, request).device = d
    <3>1. (CHOOSE x \in Given(m, request) : TRUE) = v
      BY <2>1, OneGiven DEF Given
    <3> QED
      BY <3>1 DEF OrderOf
  <2> DEFINE k == Len(commands) + place[m]
  <2>4. place[m] \in DOMAIN new /\ place[m] \in Nat
    BY <1>2, <1>4, <2>2
  <2>5. k \in DOMAIN commands' /\ commands'[k].device = d /\ commands'[k].value = v.n
    BY <1>3, <1>7, <2>2, <2>3, <2>4
  <2>6. ASSUME NEW l \in DOMAIN commands', l > k PROVE commands'[l].device # d
    <3>1. l \notin DOMAIN commands
      BY <1>2, <2>4, <2>6
    <3>2. PICK j \in DOMAIN new : l = Len(commands) + j
      BY <1>7, <3>1
    <3>3. j # place[m] /\ commands'[l] = new[j]
      BY <1>2, <1>7, <2>4, <2>6, <3>2
    <3> QED
      BY <1>5, <3>3
  <2> QED
    BY <2>5, <2>6
<1>9. CASE i \in whole /\ ~Touched(m, request)
  <2>1. v \in Shown(i) /\ IsTold(i)
    BY <1>1, <1>6, <1>9, RequestStores DEF SettledInv
  <2>2. PICK k \in DOMAIN commands : LastOrder(k, d) /\ commands[k].value = v.n
    BY <2>1 DEF IsTold
  <2>3. m \notin hits
    BY <1>1, <1>9, RequestStores DEF Hits
  <2>4. k \in DOMAIN commands' /\ commands'[k].device = d /\ commands'[k].value = v.n
    BY <1>7, <2>2 DEF LastOrder
  <2>5. ASSUME NEW l \in DOMAIN commands', l > k PROVE commands'[l].device # d
    <3>1. CASE l \in DOMAIN commands
      BY <1>7, <2>2, <2>5, <3>1 DEF LastOrder
    <3>2. ASSUME NEW j \in DOMAIN new, l = Len(commands) + j PROVE commands'[l].device # d
      BY <1>5, <1>7, <2>3, <3>2
    <3> QED
      BY <1>7, <3>1, <3>2
  <2> QED
    BY <2>4, <2>5
<1> QED
  BY <1>1, <1>8, <1>9

\* What is no request and no binding leaves the windows to be written as they are.
LEMMA StoreKept ==
    ASSUME TypeInv, OwnedInv, [Next]_vars, Listening', ~\E s \in DOMAIN servers : Bind(s),
           ~\E request \in Requests : MasterWrite(request)
    PROVE  Listening /\ owner' = owner /\ servers'[owner].store.write = servers[owner].store.write
<1> DEFINE Kept == Listening /\ owner' = owner
                      /\ servers'[owner].store.write = servers[owner].store.write
<1>1. owner' \in DOMAIN servers' /\ servers'[owner'].pc \in Up /\ owner' \notin {Nobody, Foreign}
  <2>1. TypeInv'
    BY TypeStep DEF OwnedInv
  <2> QED
    BY <2>1 DEF Listening, Up, TypeInv, Nobody, Foreign
<1>2. CASE UNCHANGED <<owner, servers>>
  BY <1>2 DEF Listening
<1>3. CASE Start
  <2>1. owner' = Nobody
    BY <1>3 DEF Start
  <2> QED
    BY <1>1, <2>1
<1>4. CASE StartTimesOut \/ Shutdown \/ Hang
  <2>1. Newest \in DOMAIN servers
    BY <1>4 DEF OwnedInv, CallerInv, TypeInv, Newest, StartTimesOut, Shutdown, Hang
  <2>2. /\ UNCHANGED owner /\ servers'[Newest].store = servers[Newest].store
        /\ servers'[Newest].pc = servers[Newest].pc /\ DOMAIN servers' = DOMAIN servers
        /\ \A r \in DOMAIN servers : r # Newest => servers'[r] = servers[r]
    BY <1>4, <2>1, CallerMoves, OneServer
  <2>3. owner \in DOMAIN servers
    BY <1>1, <2>2
  <2> QED
    BY <1>1, <2>2, <2>3 DEF Listening, Up
<1>5. ASSUME NEW s \in DOMAIN servers, Thread(s) \/ PushFails(s) PROVE Kept
  <2>1. /\ DOMAIN servers' = DOMAIN servers /\ owner' \in {owner, Nobody, s}
        /\ \A r \in DOMAIN servers : r # s => servers'[r] = servers[r]
    BY <1>5, ThreadMoves, OneServer
  <2>2. servers[s] \in Servers /\ owner' \in {owner, s}
    BY <1>1, <2>1 DEF TypeInv
  <2>3. CASE owner' # s
    BY <1>1, <2>1, <2>2, <2>3 DEF Listening, Up
  <2>4. CASE owner' = s
    <3>1. servers'[s].pc # "ended" /\ servers'[s].pc \in Up
      BY <1>1, <2>4 DEF Up
    <3>2. CASE Build(s)
      <4>1. servers'[s].pc = "binding"
        BY <2>2, <3>2 DEF Build, TypeInv, Servers
      <4> QED
        BY <3>1, <4>1 DEF Up
    <3>3. CASE BindFails(s) \/ End(s)
      <4>1. PICK failed : servers' = [servers EXCEPT ![s] =
                              [@ EXCEPT !.pc = "ended", !.ready = TRUE, !.failed = failed,
                                        !.frame = <<>>, !.next = 1, !.store = EmptyStore]]
        <5>1. Over(s, TRUE) \/ Over(s, servers[s].failed)
          BY <3>3 DEF BindFails, End
        <5>2. CASE Over(s, TRUE)
          BY <5>2 DEF Over
        <5>3. CASE Over(s, servers[s].failed)
          BY <5>3 DEF Over
        <5> QED
          BY <5>1, <5>2, <5>3
      <4>2. servers'[s].pc = "ended"
        BY <2>2, <4>1 DEF TypeInv, Servers
      <4> QED
        BY <3>1, <4>2
    <3>4. CASE PushWindow(s)
      <4>1. /\ owner' = owner /\ servers[s].pc = "pushing"
            /\ servers'[s].store.write = servers[s].store.write
        BY <2>2, <3>4 DEF PushWindow, TypeInv, Servers, Stores
      <4> QED
        BY <2>4, <4>1 DEF Listening
    <3>5. CASE PushDiscrete(s)
      <4>1. /\ owner' = owner /\ servers[s].pc = "pushing"
            /\ servers'[s].store.write = servers[s].store.write
        BY <2>2, <3>5 DEF PushDiscrete, TypeInv, Servers, Stores
      <4> QED
        BY <2>4, <4>1 DEF Listening
    <3>6. CASE Refresh(s)
      <4>1. owner' = owner /\ servers[s].pc = "serving" /\ servers'[s].store = servers[s].store
        BY <2>2, <3>6 DEF Refresh, TypeInv, Servers
      <4> QED
        BY <2>4, <4>1 DEF Listening
    <3>7. CASE PushFails(s)
      <4>1. CASE ~servers[s].ready
        <5>1. servers' = [servers EXCEPT ![s] =
                             [@ EXCEPT !.pc = "ended", !.ready = TRUE, !.failed = TRUE,
                                       !.frame = <<>>, !.next = 1, !.store = EmptyStore]]
          BY <3>7, <4>1 DEF PushFails, Over
        <5>2. servers'[s].pc = "ended"
          BY <2>2, <5>1 DEF TypeInv, Servers
        <5> QED
          BY <3>1, <5>2
      <4>2. CASE servers[s].ready
        <5>1. owner' = owner /\ servers[s].pc = "pushing" /\ servers'[s].store = servers[s].store
          BY <2>2, <3>7, <4>2 DEF PushFails, Become, TypeInv, Servers
        <5> QED
          BY <2>4, <5>1 DEF Listening
      <4> QED
        BY <4>1, <4>2
    <3> QED
      BY <1>5, <3>2, <3>3, <3>4, <3>5, <3>6, <3>7 DEF Thread
  <2> QED
    BY <2>3, <2>4
<1>6. CASE ForeignBinds \/ ForeignLeaves
  <2>1. owner' \in {Nobody, Foreign}
    BY <1>6 DEF ForeignBinds, ForeignLeaves
  <2> QED
    BY <1>1, <2>1
<1> QED
  BY <1>2, <1>3, <1>4, <1>5, <1>6
  DEF Next, Caller, Started, StartFailed, Joined, Stop, Tick, Project, vars, serverVars

\* Every step keeps the commands in step with what masters have written.
LEMMA SettledStep == TypeInv /\ OwnedInv /\ SettledInv /\ [Next]_vars => SettledInv'
<1> SUFFICES ASSUME TypeInv, OwnedInv, SettledInv, [Next]_vars PROVE SettledInv'
  OBVIOUS
<1>1. ASSUME NEW request \in Requests, MasterWrite(request) PROVE SettledInv'
  <2>1. commands' \in Seq(Orders) /\ Len(commands') = asked'
    BY <1>1, AsManyArrive
  <2>2. whole' \subseteq WriteWindows
    BY <1>1 DEF MasterWrite, SettledInv
  <2>3. \A i \in whole' : OnlyWindow(i) => IsTold(i)'
    BY <1>1, RequestTold
  <2>4. \A i : OnlyWindow(i)' <=> OnlyWindow(i)
    BY DEF OnlyWindow, WriteWindows
  <2> QED
    BY <2>1, <2>2, <2>3, <2>4 DEF SettledInv
<1>2. ASSUME NEW s \in DOMAIN servers, Bind(s) PROVE SettledInv'
  BY <1>2 DEF Bind, SettledInv
<1>3. ASSUME ~\E s \in DOMAIN servers : Bind(s), ~\E request \in Requests : MasterWrite(request)
      PROVE  SettledInv'
  <2>1. UNCHANGED <<commands, whole, asked>>
    <3>1. ASSUME NEW s \in DOMAIN servers, Thread(s) \/ PushFails(s)
          PROVE  UNCHANGED <<commands, whole, asked>>
      <4>1. Build(s) \/ BindFails(s) \/ PushWindow(s) \/ PushDiscrete(s) \/ Refresh(s) \/ End(s)
              \/ PushFails(s)
        BY <1>3, <3>1 DEF Thread
      <4> QED
        BY <4>1 DEF Build, BindFails, PushWindow, PushDiscrete, Refresh, End, PushFails, masterVars
    <3>2. CASE Start \/ StartTimesOut \/ Stop \/ Hang \/ Caller \/ Tick \/ ForeignBinds \/ ForeignLeaves
      BY <3>2 DEF Start, StartTimesOut, Stop, Hang, Caller, Started, StartFailed, Shutdown, Joined,
                  Tick, Project, ForeignBinds, ForeignLeaves, masterVars
    <3>3. CASE UNCHANGED vars
      BY <3>3 DEF vars, masterVars
    <3> QED
      BY <1>3, <3>1, <3>2, <3>3 DEF Next
  <2>2. ASSUME Listening', NEW i \in whole', OnlyWindow(i)' PROVE IsTold(i)'
    <3>1. /\ Listening /\ owner' = owner
          /\ servers'[owner].store.write = servers[owner].store.write
      BY <1>3, <2>2, StoreKept
    <3>2. Shown(i)' = Shown(i)
      BY <3>1 DEF Shown
    <3>3. IsTold(i)
      BY <2>1, <2>2, <3>1 DEF SettledInv, OnlyWindow, WriteWindows
    <3> QED
      BY <2>1, <3>2, <3>3 DEF IsTold, LastOrder
  <2> QED
    BY <2>1, <2>2 DEF SettledInv
<1> QED
  BY <1>1, <1>2, <1>3

\* Every setpoint that has been written as a whole has become one command, and what the
\* registers of a setpoint with one window show is the last command for it.
THEOREM SetpointsEver == Spec => []SetpointsArrive
<1>1. Init => SettledInv
  BY DEF Init, SettledInv, Listening
<1>2. SettledInv => SetpointsArrive
  BY DEF SettledInv, SetpointsArrive, IsTold, Shown
<1>3. OwnedInv => CallerInv
  BY DEF OwnedInv
<1> QED
  BY <1>1, <1>2, <1>3, OwnedInit, TypeStep, OwnedStep, SettledStep, PTL DEF Spec
===============================================================================
