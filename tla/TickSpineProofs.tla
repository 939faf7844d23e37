---------------------------- MODULE TickSpineProofs ----------------------------
(***************************************************************************)
(* What a run keeps to, for every scenario, every number of ticks, writes  *)
(* and recoveries: faults act in their windows and are told, orders are    *)
(* applied once, in their tick, in the order they came, and a resumed loop *)
(* and a replay persist what the live one does, unless they could not know *)
(* of something.                                                           *)
(***************************************************************************)
EXTENDS TickSpine, FiniteSetTheorems, WellFoundedInduction, TLAPS

-------------------------------------------------------------------------------
(***************************************************************************)
(* Induction over a number                                                 *)
(***************************************************************************)

\* A set of natural numbers has a least element.
LEMMA Least ==
    ASSUME NEW T, T \subseteq Nat, T # {}
    PROVE  \E m \in T : \A k \in T : m <= k
<1>1. IsWellFoundedOn(OpToRel(<, Nat), Nat)
  BY NatLessThanWellFounded
<1>2. \E m \in T : \A k \in T : ~(<<k, m>> \in OpToRel(<, Nat))
  BY <1>1, WFMin
<1>3. ASSUME NEW k \in Nat, NEW m \in Nat, k < m
      PROVE  <<k, m>> \in OpToRel(<, Nat)
  BY <1>3 DEF OpToRel
<1>4. PICK m \in T : \A k \in T : ~(<<k, m>> \in OpToRel(<, Nat))
  BY <1>2
<1>5. ASSUME NEW k \in T PROVE m <= k
  <2>1. ~(k < m)
    BY <1>3, <1>4
  <2> QED
    BY <2>1
<1> QED
  BY <1>5

\* What holds of 0, and of k + 1 when it holds of k, holds of every number up to n.
LEMMA UpTo ==
    ASSUME NEW n \in Nat, NEW S, 0 \in S, \A k \in 0..(n - 1) : k \in S => k + 1 \in S
    PROVE  0..n \subseteq S
<1> DEFINE T == {k \in 0..n : k \notin S}
<1>1. ASSUME T # {} PROVE FALSE
  <2>1. T \subseteq Nat
    OBVIOUS
  <2>2. PICK m \in T : \A k \in T : m <= k
    BY <1>1, <2>1, Least
  <2>3. m # 0 /\ m - 1 \in 0..(n - 1) /\ (m - 1) + 1 = m
    BY <2>2
  <2>4. m - 1 \in S
    BY <2>2, <2>3
  <2> QED
    BY <2>2, <2>3, <2>4
<1> QED
  BY <1>1

\* What is appended to a sequence comes last; the rest stays.
LEMMA Appended ==
    ASSUME NEW S, NEW q \in Seq(S), NEW x
    PROVE  /\ Append(q, x) \in Seq(S \cup {x})
           /\ Len(Append(q, x)) = Len(q) + 1
           /\ DOMAIN Append(q, x) = DOMAIN q \cup {Len(q) + 1}
           /\ \A i \in DOMAIN q : Append(q, x)[i] = q[i]
           /\ Append(q, x)[Len(q) + 1] = x
<1>1. q \in Seq(S \cup {x})
  OBVIOUS
<1> QED
  BY <1>1

-------------------------------------------------------------------------------
(***************************************************************************)
(* The faults of one tick                                                  *)
(***************************************************************************)

\* The states of the engine while it goes through the first n faults.
FaultStates(faults, loop, now, n, u) ==
    u = [k \in 0..n |->
            IF k = 0
            THEN [faulty |-> loop.faulty, active |-> loop.active, recover |-> loop.recover]
            ELSE FaultStep(u[k - 1], k, faults[k], now)]

\* The recursive function has the values it is written with.
LEMMA FaultsUnfold ==
    ASSUME NEW faults, Len(faults) \in Nat, NEW loop, NEW now
    PROVE  \E u : /\ FaultStates(faults, loop, now, Len(faults), u)
                  /\ ApplyFaults(faults, loop, now) = u[Len(faults)]
<1> DEFINE n == Len(faults)
           first == [faulty |-> loop.faulty, active |-> loop.active, recover |-> loop.recover]
           S == {k \in 0..n : \E u : FaultStates(faults, loop, now, k, u)}
<1>1. 0 \in S
  <2> DEFINE u == [i \in 0..0 |-> first]
  <2>1. FaultStates(faults, loop, now, 0, u)
    BY DEF FaultStates
  <2> QED
    BY <2>1
<1>2. ASSUME NEW k \in 0..(n - 1), k \in S PROVE k + 1 \in S
  <2>1. PICK u : FaultStates(faults, loop, now, k, u)
    BY <1>2
  <2> DEFINE w == [i \in 0..(k + 1) |->
                      IF i = k + 1 THEN FaultStep(u[k], k + 1, faults[k + 1], now) ELSE u[i]]
  <2>2. ASSUME NEW i \in 0..(k + 1)
        PROVE  w[i] = IF i = 0 THEN first ELSE FaultStep(w[i - 1], i, faults[i], now)
    <3> HIDE DEF first
    <3>1. CASE i = k + 1
      <4>1. w[i - 1] = u[k] /\ w[i] = FaultStep(u[k], k + 1, faults[k + 1], now) /\ i # 0
        BY <3>1
      <4> HIDE DEF w
      <4> QED
        BY <3>1, <4>1
    <3>2. CASE i # k + 1
      <4>1. w[i] = u[i] /\ i \in 0..k /\ (i # 0 => w[i - 1] = u[i - 1])
        BY <3>2
      <4>2. u[i] = IF i = 0 THEN first ELSE FaultStep(u[i - 1], i, faults[i], now)
        BY <2>1, <4>1 DEF FaultStates, first
      <4> HIDE DEF w
      <4> QED
        BY <4>1, <4>2
    <3> QED
      BY <3>1, <3>2
  <2>3. FaultStates(faults, loop, now, k + 1, w)
    BY <2>2 DEF FaultStates
  <2> HIDE DEF w
  <2> QED
    BY <2>3
<1>3. \E u : FaultStates(faults, loop, now, n, u)
  <2>1. 0..n \subseteq S
    BY <1>1, <1>2, UpTo
  <2> QED
    BY <2>1
<1> DEFINE upTo == CHOOSE u :
              u = [k \in 0..n |->
                      IF k = 0 THEN first ELSE FaultStep(u[k - 1], k, faults[k], now)]
<1>4. FaultStates(faults, loop, now, n, upTo)
  BY <1>3 DEF FaultStates
<1>5. ApplyFaults(faults, loop, now) = upTo[n]
  BY DEF ApplyFaults
<1> HIDE DEF upTo
<1> QED
  BY <1>4, <1>5

\* The end of another fault of the device was told in or after the tick in which fault i began.
Cut(faults, log0, i, now) ==
    \E g \in DOMAIN faults :
        /\ faults[g].target = faults[i].target /\ faults[g].end <= now
        /\ \A n \in DOMAIN log0 : faults[g].end <= log0[n].time => faults[i].start <= log0[n].time

EngineOK(faults, st) ==
    st \in [faulty : [Devices -> BOOLEAN], active : SUBSET DOMAIN faults,
            recover : SUBSET DOMAIN faults]

\* What an engine keeps to after the first k faults of a tick: R holds the devices somebody
\* has recovered, old the faults that were active before the tick.
FaultsSoFar(faults, log0, now, old, R, k, st) ==
    /\ EngineOK(faults, st)
    /\ \A i \in st.recover : faults[i].target \in R
    /\ \A d \in Devices : st.faulty[d] => \E i \in st.active : faults[i].target = d
    /\ \A i \in DOMAIN faults : i > k => (i \in st.active <=> i \in old)
    /\ \A i \in DOMAIN faults : i <= k /\ i \in st.active => InWindow(faults[i], now)
    /\ \A i \in DOMAIN faults :
          i <= k /\ InWindow(faults[i], now) => i \in st.active \/ faults[i].target \in R
    /\ \A i \in st.active :
          \/ st.faulty[faults[i].target]
          \/ faults[i].target \in R
          \/ Cut(faults, log0, i, now)

\* The next fault of the list, whether it is recovered, begins, ends or goes on.
LEMMA FaultStepKeeps ==
    ASSUME NEW faults \in Seq(Window), NEW log0, NEW now \in Int, NEW old, NEW R, NEW time0 \in Int,
           time0 < now, \A i \in old : InWindow(faults[i], time0),
           \A n \in DOMAIN log0 : log0[n].time \in Int /\ log0[n].time <= time0,
           NEW k \in 1..Len(faults), NEW st, FaultsSoFar(faults, log0, now, old, R, k - 1, st)
    PROVE  FaultsSoFar(faults, log0, now, old, R, k, FaultStep(st, k, faults[k], now))
<1> DEFINE f == faults[k]
           next == FaultStep(st, k, f, now)
<1>1. /\ k \in DOMAIN faults /\ f \in Window /\ f.target \in Devices
      /\ \A i \in DOMAIN faults : faults[i] \in Window
  <2>1. k \in DOMAIN faults /\ \A i \in DOMAIN faults : faults[i] \in Window
    OBVIOUS
  <2>2. f \in Window
    BY <2>1
  <2>3. f.target \in Devices
    BY <2>2 DEF Window
  <2> QED
    BY <2>1, <2>2, <2>3
<1>2. /\ EngineOK(faults, st)
      /\ \A i \in st.recover : faults[i].target \in R
      /\ \A d \in Devices : st.faulty[d] => \E i \in st.active : faults[i].target = d
      /\ \A i \in DOMAIN faults : i >= k => (i \in st.active <=> i \in old)
      /\ \A i \in DOMAIN faults : i < k /\ i \in st.active => InWindow(faults[i], now)
      /\ \A i \in DOMAIN faults :
            i < k /\ InWindow(faults[i], now) => i \in st.active \/ faults[i].target \in R
      /\ \A i \in st.active :
            \/ st.faulty[faults[i].target]
            \/ faults[i].target \in R
            \/ Cut(faults, log0, i, now)
  BY DEF FaultsSoFar
<1>3. CASE k \in st.recover
  <2>1. next = [st EXCEPT !.recover = @ \ {k}, !.active = @ \ {k},
                          !.faulty[f.target] = @ /\ k \notin st.active]
    BY <1>3 DEF FaultStep
  <2>2. /\ next.active = st.active \ {k} /\ next.recover = st.recover \ {k}
        /\ next.faulty = [st.faulty EXCEPT ![f.target] = @ /\ k \notin st.active]
        /\ EngineOK(faults, next)
    <3> DEFINE g == [st.faulty EXCEPT ![f.target] = @ /\ k \notin st.active]
    <3>1. next = [faulty |-> g, active |-> st.active \ {k}, recover |-> st.recover \ {k}]
      BY <1>2, <2>1 DEF EngineOK
    <3>2. g \in [Devices -> BOOLEAN]
      BY <1>1, <1>2 DEF EngineOK
    <3>3. st.active \ {k} \in SUBSET DOMAIN faults /\ st.recover \ {k} \in SUBSET DOMAIN faults
      BY <1>1, <1>2 DEF EngineOK
    <3> HIDE DEF g
    <3>4. EngineOK(faults, [faulty |-> g, active |-> st.active \ {k}, recover |-> st.recover \ {k}])
      BY <3>2, <3>3 DEF EngineOK
    <3>5. EngineOK(faults, next)
      BY <3>1, <3>4
    <3>6. next.active = st.active \ {k} /\ next.recover = st.recover \ {k} /\ next.faulty = g
      BY <3>1
    <3> QED
      BY <3>5, <3>6 DEF g
  <2>3. f.target \in R
    BY <1>2, <1>3
  <2>4. \A d \in Devices : next.faulty[d] => \E i \in next.active : faults[i].target = d
    <3> SUFFICES ASSUME NEW d \in Devices, next.faulty[d]
                 PROVE  \E i \in next.active : faults[i].target = d
      OBVIOUS
    <3>1. st.faulty[d] /\ (d = f.target => k \notin st.active)
      BY <1>1, <1>2, <2>2 DEF EngineOK
    <3> QED
      BY <1>2, <2>2, <3>1
  <2>5. \A i \in next.active : faults[i].target # f.target =>
           next.faulty[faults[i].target] = st.faulty[faults[i].target]
    BY <1>1, <1>2, <2>2 DEF EngineOK, Window
  <2> HIDE DEF f, next
  <2>6. \A i \in next.active : \/ next.faulty[faults[i].target]
                               \/ faults[i].target \in R
                               \/ Cut(faults, log0, i, now)
    BY <1>2, <2>2, <2>3, <2>5
  <2>7. FaultsSoFar(faults, log0, now, old, R, k, next)
    BY <1>1, <1>2, <2>2, <2>3, <2>4, <2>6 DEF FaultsSoFar, f
  <2> QED
    BY <2>7 DEF f, next
<1>4. CASE k \notin st.recover /\ InWindow(f, now) /\ k \notin st.active
  <2>1. next = [st EXCEPT !.active = @ \cup {k}, !.faulty[f.target] = TRUE]
    BY <1>4 DEF FaultStep
  <2>2. /\ next.active = st.active \cup {k} /\ next.recover = st.recover
        /\ next.faulty = [st.faulty EXCEPT ![f.target] = TRUE]
        /\ EngineOK(faults, next)
    <3> DEFINE g == [st.faulty EXCEPT ![f.target] = TRUE]
    <3>1. next = [faulty |-> g, active |-> (st.active \cup {k}), recover |-> st.recover]
      BY <1>2, <2>1 DEF EngineOK
    <3>2. g \in [Devices -> BOOLEAN]
      BY <1>1, <1>2 DEF EngineOK
    <3>3. (st.active \cup {k}) \in SUBSET DOMAIN faults /\ st.recover \in SUBSET DOMAIN faults
      BY <1>1, <1>2 DEF EngineOK
    <3> HIDE DEF g
    <3>4. EngineOK(faults, [faulty |-> g, active |-> (st.active \cup {k}), recover |-> st.recover])
      BY <3>2, <3>3 DEF EngineOK
    <3>5. EngineOK(faults, next)
      BY <3>1, <3>4
    <3>6. next.active = (st.active \cup {k}) /\ next.recover = st.recover /\ next.faulty = g
      BY <3>1
    <3> QED
      BY <3>5, <3>6 DEF g
  <2>3. /\ next.faulty[f.target]
        /\ \A d \in Devices : d # f.target => next.faulty[d] = st.faulty[d]
    BY <1>1, <1>2, <2>2 DEF EngineOK
  <2>4. \A i \in next.active : faults[i].target \in Devices
    BY <1>1, <2>2 DEF EngineOK, Window
  <2> HIDE DEF f, next
  <2>5. \A d \in Devices : next.faulty[d] => \E i \in next.active : faults[i].target = d
    BY <1>2, <2>2, <2>3 DEF f
  <2>6. \A i \in next.active : \/ next.faulty[faults[i].target]
                               \/ faults[i].target \in R
                               \/ Cut(faults, log0, i, now)
    BY <1>2, <2>2, <2>3, <2>4 DEF f
  <2>7. FaultsSoFar(faults, log0, now, old, R, k, next)
    BY <1>1, <1>2, <1>4, <2>2, <2>5, <2>6 DEF FaultsSoFar, f
  <2> QED
    BY <2>7 DEF f, next
<1>5. CASE k \notin st.recover /\ ~InWindow(f, now) /\ k \in st.active
  <2>1. next = [st EXCEPT !.active = @ \ {k}, !.faulty[f.target] = FALSE]
    BY <1>5 DEF FaultStep
  <2>2. /\ next.active = st.active \ {k} /\ next.recover = st.recover
        /\ next.faulty = [st.faulty EXCEPT ![f.target] = FALSE]
        /\ EngineOK(faults, next)
    <3> DEFINE g == [st.faulty EXCEPT ![f.target] = FALSE]
    <3>1. next = [faulty |-> g, active |-> st.active \ {k}, recover |-> st.recover]
      BY <1>2, <2>1 DEF EngineOK
    <3>2. g \in [Devices -> BOOLEAN]
      BY <1>1, <1>2 DEF EngineOK
    <3>3. st.active \ {k} \in SUBSET DOMAIN faults /\ st.recover \in SUBSET DOMAIN faults
      BY <1>1, <1>2 DEF EngineOK
    <3> HIDE DEF g
    <3>4. EngineOK(faults, [faulty |-> g, active |-> st.active \ {k}, recover |-> st.recover])
      BY <3>2, <3>3 DEF EngineOK
    <3>5. EngineOK(faults, next)
      BY <3>1, <3>4
    <3>6. next.active = st.active \ {k} /\ next.recover = st.recover /\ next.faulty = g
      BY <3>1
    <3> QED
      BY <3>5, <3>6 DEF g
  <2>3. /\ ~next.faulty[f.target]
        /\ \A d \in Devices : d # f.target => next.faulty[d] = st.faulty[d]
    BY <1>1, <1>2, <2>2 DEF EngineOK
  <2>4. \A i \in next.active : faults[i].target \in Devices /\ i \in DOMAIN faults
    BY <1>1, <2>2 DEF EngineOK, Window
  <2>5. InWindow(f, time0) /\ f.end \in Int /\ f.start \in Int
    BY <1>1, <1>2, <1>5 DEF Window
  <2>6. f.end <= now /\ \A n \in DOMAIN log0 : ~(f.end <= log0[n].time)
    BY <1>5, <2>5 DEF InWindow
  <2> HIDE DEF f, next
  <2>7. \A i \in DOMAIN faults : faults[i].target = f.target => Cut(faults, log0, i, now)
    BY <1>1, <2>6 DEF Cut, f
  <2>8. \A d \in Devices : next.faulty[d] => \E i \in next.active : faults[i].target = d
    BY <1>2, <2>2, <2>3 DEF f
  <2>9. \A i \in next.active : \/ next.faulty[faults[i].target]
                               \/ faults[i].target \in R
                               \/ Cut(faults, log0, i, now)
    BY <1>2, <2>2, <2>3, <2>4, <2>7
  <2>10. FaultsSoFar(faults, log0, now, old, R, k, next)
    BY <1>1, <1>2, <1>5, <2>2, <2>8, <2>9 DEF FaultsSoFar, f
  <2> QED
    BY <2>10 DEF f, next
<1>6. CASE k \notin st.recover /\ (InWindow(f, now) <=> k \in st.active)
  <2>1. next = st
    BY <1>6 DEF FaultStep
  <2> HIDE DEF f, next
  <2>2. FaultsSoFar(faults, log0, now, old, R, k, next)
    BY <1>1, <1>2, <1>6, <2>1 DEF FaultsSoFar, f
  <2> QED
    BY <2>2 DEF f, next
<1> QED
  BY <1>3, <1>4, <1>5, <1>6

\* The engine after all faults of a tick.
LEMMA FaultsKept ==
    ASSUME NEW faults \in Seq(Window), NEW log0, NEW now \in Int, NEW R, NEW time0 \in Int,
           NEW loop, time0 < now, \A i \in loop.active : InWindow(faults[i], time0),
           \A n \in DOMAIN log0 : log0[n].time \in Int /\ log0[n].time <= time0,
           FaultsSoFar(faults, log0, now, loop.active, R, 0,
                       [faulty |-> loop.faulty, active |-> loop.active, recover |-> loop.recover])
    PROVE  FaultsSoFar(faults, log0, now, loop.active, R, Len(faults),
                       ApplyFaults(faults, loop, now))
<1> DEFINE n == Len(faults)
           Good(k, st) == FaultsSoFar(faults, log0, now, loop.active, R, k, st)
<1>1. PICK u : FaultStates(faults, loop, now, n, u) /\ ApplyFaults(faults, loop, now) = u[n]
  BY FaultsUnfold
<1>2. /\ u[0] = [faulty |-> loop.faulty, active |-> loop.active, recover |-> loop.recover]
      /\ \A k \in 1..n : u[k] = FaultStep(u[k - 1], k, faults[k], now)
  <2>1. n \in Nat
    OBVIOUS
  <2> HIDE DEF n
  <2>2. u[0] = [faulty |-> loop.faulty, active |-> loop.active, recover |-> loop.recover]
    BY <1>1, <2>1 DEF FaultStates
  <2>3. ASSUME NEW k \in 1..n PROVE u[k] = FaultStep(u[k - 1], k, faults[k], now)
    <3>1. k \in 0..n /\ k # 0
      BY <2>1
    <3> QED
      BY <1>1, <3>1 DEF FaultStates
  <2> QED
    BY <2>2, <2>3
<1>3. ASSUME NEW k \in 1..n, NEW st, Good(k - 1, st)
      PROVE  Good(k, FaultStep(st, k, faults[k], now))
  BY <1>3, FaultStepKeeps
<1>4. Good(0, u[0])
  BY <1>2
<1> HIDE DEF Good
<1> DEFINE S == {k \in 0..n : Good(k, u[k])}
<1>5. ASSUME NEW k \in 0..(n - 1), k \in S PROVE k + 1 \in S
  <2>1. k + 1 \in 1..n /\ (k + 1) - 1 = k /\ Good(k, u[k])
    BY <1>5
  <2>2. u[k + 1] = FaultStep(u[k], k + 1, faults[k + 1], now)
    BY <1>2, <2>1
  <2>3. Good(k + 1, FaultStep(u[k], k + 1, faults[k + 1], now))
    BY <1>3, <2>1
  <2> QED
    BY <2>1, <2>2, <2>3
<1>6. 0 \in S
  BY <1>4
<1>7. 0..n \subseteq S
  <2> HIDE DEF S
  <2>1. n \in Nat
    OBVIOUS
  <2> QED
    BY <1>5, <1>6, <2>1, UpTo
<1>8. Good(n, u[n])
  BY <1>7
<1> QED
  BY <1>1, <1>8 DEF Good

-------------------------------------------------------------------------------
(***************************************************************************)
(* Faults act in their windows                                             *)
(***************************************************************************)

LoopFields == {"time", "count", "pending", "setpoint", "faulty", "active", "recover", "alarmed",
               "cache"}

\* The results so far lie in the past.
TimeInv ==
    /\ scenario \in Scenarios
    /\ LoopFields \subseteq DOMAIN live
    /\ live.time \in Int
    /\ \E S : log \in Seq(S)
    /\ live.count = Len(log)
    /\ \A n \in DOMAIN log : log[n].time \in Int /\ log[n].time <= live.time

\* The devices whose faults somebody has recovered.
Recovered == {scenario.faults[m[1]].target : m \in manual}

Engine(loop) == [faulty |-> loop.faulty, active |-> loop.active, recover |-> loop.recover]

\* Between two ticks the active faults are those in their windows, but for recoveries, and
\* a device is faulty because of one of them.
EngineInv ==
    /\ EngineOK(scenario.faults, Engine(live))
    /\ \A i \in live.recover : scenario.faults[i].target \in Recovered
    /\ \A d \in Devices :
          live.faulty[d] => \E i \in live.active : scenario.faults[i].target = d
    /\ \A i \in live.active : InWindow(scenario.faults[i], live.time)
    /\ log # <<>> => \A i \in DOMAIN scenario.faults :
          InWindow(scenario.faults[i], live.time) =>
             i \in live.active \/ scenario.faults[i].target \in Recovered
    /\ \A i \in live.active :
          \/ live.faulty[scenario.faults[i].target]
          \/ scenario.faults[i].target \in Recovered
          \/ Cut(scenario.faults, log, i, live.time)

\* What a tick does to the clock, the engine and the log.
LEMMA TickMoves ==
    ASSUME NEW s, NEW loop, NEW writes, NEW t, t = Tick(s, loop, writes),
           NEW now, now = loop.time + TickMs,
           NEW q, q = QualityStage(s, loop, t.result.real, now)
    PROVE  /\ LoopFields \subseteq DOMAIN t.loop
           /\ t.loop.time = now /\ t.loop.count = loop.count + 1
           /\ Engine(t.loop) = Engine(ApplyFaults(s.faults, loop, now))
           /\ t.loop.alarmed = q.alarmed /\ t.loop.cache = q.cache
           /\ t.result.time = now
           /\ t.result.points = q.points /\ t.result.alarms = q.alarms
<1> DEFINE commands == Applied(s, loop, writes, now)
           setpoint == SetPoints(loop.setpoint, commands)
           faults == ApplyFaults(s.faults, loop, now)
           power == [d \in Devices |-> Power(setpoint[d], faults.faulty[d])]
           quality == QualityStage(s, loop, power, now)
           pending == AgentCommands(s.agents, loop.count, now)
<1>1. t = [loop |-> [time |-> now, count |-> loop.count + 1, pending |-> pending,
                     setpoint |-> setpoint, faulty |-> faults.faulty,
                     active |-> faults.active, recover |-> faults.recover,
                     alarmed |-> quality.alarmed, cache |-> quality.cache],
           result |-> TickResult(loop, now, quality, commands, power)]
  BY DEF Tick
<1> HIDE DEF commands, setpoint, faults, power, quality, pending
<1>2. t.result = [tick |-> loop.count, time |-> now, points |-> quality.points,
                  alarms |-> quality.alarms, applied |-> commands, real |-> power]
  BY <1>1 DEF TickResult
<1>3. q = quality
  <2>1. t.result.real = power
    BY <1>2
  <2> QED
    BY <2>1 DEF quality
<1>4. /\ LoopFields \subseteq DOMAIN t.loop
      /\ t.loop.time = now /\ t.loop.count = loop.count + 1
      /\ t.loop.alarmed = quality.alarmed /\ t.loop.cache = quality.cache
      /\ t.loop.faulty = faults.faulty /\ t.loop.active = faults.active
      /\ t.loop.recover = faults.recover
  BY <1>1 DEF LoopFields
<1>5. Engine(t.loop) = Engine(faults)
  BY <1>4 DEF Engine
<1> QED
  BY <1>2, <1>3, <1>4, <1>5 DEF faults

\* A tick of the live loop, taken apart.
LEMMA LiveTickMoves ==
    ASSUME TimeInv, LiveTick, NEW now, now = live.time + TickMs
    PROVE  /\ TimeInv'
           /\ live.time' = now
           /\ Engine(live') = Engine(ApplyFaults(scenario.faults, live, now))
           /\ \E r, q :
                 /\ log' = Append(log, r)
                 /\ q = QualityStage(scenario, live, r.real, now)
                 /\ r.time = now /\ r.points = q.points /\ r.alarms = q.alarms
                 /\ live.alarmed' = q.alarmed /\ live.cache' = q.cache
           /\ now \in Int /\ live.time < now
           /\ DOMAIN log' = DOMAIN log \cup {Len(log) + 1} /\ log'[Len(log) + 1].time = now
           /\ \A n \in DOMAIN log : log'[n] = log[n] /\ n <= Len(log)
           /\ UNCHANGED <<scenario, manual>>
<1> DEFINE t == Tick(scenario, live, Drain)
           r == t.result
           q == QualityStage(scenario, live, r.real, now)
<1>1. live' = t.loop /\ log' = Append(log, r) /\ UNCHANGED <<scenario, manual>>
  BY DEF LiveTick
<1>2. /\ LoopFields \subseteq DOMAIN t.loop
      /\ t.loop.time = now /\ t.loop.count = live.count + 1
      /\ Engine(t.loop) = Engine(ApplyFaults(scenario.faults, live, now))
      /\ t.loop.alarmed = q.alarmed /\ t.loop.cache = q.cache
      /\ r.time = now /\ r.points = q.points /\ r.alarms = q.alarms
  BY TickMoves
<1> HIDE DEF t, r, q
<1>3. now \in Int /\ live.time < now
  BY TickAssumption DEF TimeInv
<1>4. PICK S : log \in Seq(S)
  BY DEF TimeInv
<1>5. /\ log' \in Seq(S \cup {r}) /\ Len(log') = Len(log) + 1
      /\ DOMAIN log' = DOMAIN log \cup {Len(log) + 1}
      /\ \A i \in DOMAIN log : log'[i] = log[i]
      /\ log'[Len(log) + 1] = r
  BY <1>1, <1>4, Appended
<1>6. \A n \in DOMAIN log : n <= Len(log)
  BY <1>4
<1>7. TimeInv'
  <2>1. (\E T : log \in Seq(T))'
    BY <1>5
  <2>2. (\A n \in DOMAIN log : log[n].time \in Int /\ log[n].time <= live.time)'
    BY <1>1, <1>2, <1>3, <1>5 DEF TimeInv
  <2>3. (live.count = Len(log) /\ live.time \in Int /\ LoopFields \subseteq DOMAIN live
         /\ scenario \in Scenarios)'
    BY <1>1, <1>2, <1>3, <1>5 DEF TimeInv
  <2> QED
    BY <2>1, <2>2, <2>3 DEF TimeInv
<1>8. \E rr, qq :
         /\ log' = Append(log, rr)
         /\ qq = QualityStage(scenario, live, rr.real, now)
         /\ rr.time = now /\ rr.points = qq.points /\ rr.alarms = qq.alarms
         /\ live.alarmed' = qq.alarmed /\ live.cache' = qq.cache
  BY <1>1, <1>2 DEF q
<1>9. live.time' = now /\ Engine(live') = Engine(ApplyFaults(scenario.faults, live, now))
  BY <1>1, <1>2
<1>10. log'[Len(log) + 1].time = now
  BY <1>2, <1>5
<1> QED
  BY <1>1, <1>3, <1>5, <1>6, <1>7, <1>8, <1>9, <1>10

\* A tick keeps the faults to their windows.
LEMMA EngineKept ==
    ASSUME TimeInv, EngineInv, LiveTick
    PROVE  EngineInv'
<1> DEFINE now == live.time + TickMs
           faults == scenario.faults
           st == ApplyFaults(faults, live, now)
<1>1. /\ live.time' = now
      /\ Engine(live') = Engine(st)
      /\ now \in Int /\ live.time < now
      /\ DOMAIN log' = DOMAIN log \cup {Len(log) + 1} /\ log'[Len(log) + 1].time = now
      /\ \A n \in DOMAIN log : log'[n] = log[n]
      /\ UNCHANGED <<scenario, manual>>
  BY LiveTickMoves
<1>2. faults \in Seq(Window)
  BY ScenarioAssumption DEF TimeInv, ScenarioOK
<1> HIDE DEF now
<1>3. ASSUME NEW i \in live.active, Cut(faults, log, i, live.time)
      PROVE  Cut(faults, log, i, now)
  <2>1. PICK g \in DOMAIN faults :
           /\ faults[g].target = faults[i].target /\ faults[g].end <= live.time
           /\ \A n \in DOMAIN log :
                 faults[g].end <= log[n].time => faults[i].start <= log[n].time
    BY <1>3 DEF Cut
  <2>2. faults[g] \in Window
    BY <1>2
  <2>3. faults[g].end \in Int
    BY <2>2 DEF Window
  <2>4. faults[g].end <= now
    BY <1>1, <2>1, <2>3 DEF TimeInv
  <2> QED
    BY <2>1, <2>4 DEF Cut
<1>4. FaultsSoFar(faults, log, now, live.active, Recovered, 0, Engine(live))
  <2>1. \A i \in DOMAIN faults : ~(i <= 0)
    BY <1>2
  <2>2. /\ Engine(live).active = live.active /\ Engine(live).faulty = live.faulty
        /\ Engine(live).recover = live.recover
    BY DEF Engine
  <2> HIDE DEF faults
  <2> QED
    BY <1>3, <2>1, <2>2 DEF EngineInv, FaultsSoFar, faults
<1>5. FaultsSoFar(faults, log, now, live.active, Recovered, Len(faults), st)
  <2>1. \A i \in live.active : InWindow(faults[i], live.time)
    BY DEF EngineInv
  <2>2. \A n \in DOMAIN log : log[n].time \in Int /\ log[n].time <= live.time
    BY DEF TimeInv
  <2>3. live.time \in Int
    BY DEF TimeInv
  <2>4. FaultsSoFar(faults, log, now, live.active, Recovered, 0,
               [faulty |-> live.faulty, active |-> live.active, recover |-> live.recover])
    BY <1>4 DEF Engine
  <2> HIDE DEF faults
  <2> QED
    BY <1>1, <1>2, <2>1, <2>2, <2>3, <2>4, FaultsKept
<1> HIDE DEF st
<1>6. live.faulty' = st.faulty /\ live.active' = st.active /\ live.recover' = st.recover
  BY <1>1 DEF Engine
<1>7. Recovered' = Recovered
  BY <1>1 DEF Recovered
<1>8. ASSUME NEW i \in st.active PROVE InWindow(faults[i], now) /\ i \in DOMAIN faults
  <2>1. i \in DOMAIN faults /\ i <= Len(faults)
    BY <1>2, <1>5 DEF FaultsSoFar, EngineOK
  <2> QED
    BY <1>5, <2>1 DEF FaultsSoFar
<1>9. ASSUME NEW i \in st.active, Cut(faults, log, i, now)
      PROVE  Cut(faults, log', i, now)
  <2>1. PICK g \in DOMAIN faults :
           /\ faults[g].target = faults[i].target /\ faults[g].end <= now
           /\ \A n \in DOMAIN log :
                 faults[g].end <= log[n].time => faults[i].start <= log[n].time
    BY <1>9 DEF Cut
  <2>2. faults[i].start <= now
    BY <1>8 DEF InWindow
  <2>3. \A n \in DOMAIN log' : faults[g].end <= log'[n].time => faults[i].start <= log'[n].time
    BY <1>1, <2>1, <2>2
  <2> QED
    BY <2>1, <2>3 DEF Cut
<1> DEFINE st1 == Engine(live)
<1>10. EngineOK(faults, Engine(live'))
  <2>1. st = Engine(st)
    BY <1>5 DEF FaultsSoFar, EngineOK, Engine
  <2> QED
    BY <1>1, <1>5, <2>1 DEF FaultsSoFar
<1>11. \A i \in DOMAIN faults :
          InWindow(faults[i], now) => i \in st.active \/ faults[i].target \in Recovered
  <2>1. \A i \in DOMAIN faults : i <= Len(faults)
    BY <1>2
  <2> QED
    BY <1>5, <2>1 DEF FaultsSoFar
<1>12. /\ \A i \in st.recover : faults[i].target \in Recovered
       /\ \A d \in Devices : st.faulty[d] => \E i \in st.active : faults[i].target = d
       /\ \A i \in st.active : \/ st.faulty[faults[i].target]
                               \/ faults[i].target \in Recovered
                               \/ Cut(faults, log', i, now)
  BY <1>5, <1>9 DEF FaultsSoFar
<1>13. faults' = faults
  BY <1>1
<1> HIDE DEF faults
<1> QED
  BY <1>1, <1>6, <1>7, <1>8, <1>10, <1>11, <1>12, <1>13 DEF EngineInv, faults

\* A recovery is asked for: the engine acts on it in the next tick.
LEMMA RecoverKeeps ==
    ASSUME TimeInv, EngineInv, NEW i \in DOMAIN scenario.faults, Recover(i)
    PROVE  TimeInv' /\ EngineInv'
<1> DEFINE faults == scenario.faults
<1>1. /\ live' = [live EXCEPT !.recover = @ \cup {i}]
      /\ manual' = manual \cup {<<i, Len(log)>>} /\ UNCHANGED <<scenario, log>>
  BY DEF Recover
<1>2. /\ LoopFields \subseteq DOMAIN live' /\ live'.time = live.time /\ live'.count = live.count
      /\ live'.faulty = live.faulty /\ live'.active = live.active
      /\ live'.recover = live.recover \cup {i}
  BY <1>1 DEF TimeInv, LoopFields
<1>3. TimeInv'
  BY <1>1, <1>2 DEF TimeInv
<1>4. Recovered \subseteq Recovered' /\ faults[i].target \in Recovered'
  <2>1. Recovered' = {faults[m[1]].target : m \in manual'}
    BY <1>1 DEF Recovered
  <2>2. manual \subseteq manual' /\ <<i, Len(log)>> \in manual'
    BY <1>1
  <2>3. Recovered \subseteq Recovered'
    BY <2>1, <2>2 DEF Recovered
  <2>4. <<i, Len(log)>>[1] = i
    OBVIOUS
  <2> QED
    BY <2>1, <2>2, <2>3, <2>4
<1>5. EngineOK(faults, Engine(live'))
  <2>1. EngineOK(faults, Engine(live))
    BY DEF EngineInv
  <2>2. /\ live.faulty \in [Devices -> BOOLEAN] /\ live.active \in SUBSET DOMAIN faults
        /\ live.recover \cup {i} \in SUBSET DOMAIN faults
    BY <2>1 DEF EngineOK, Engine
  <2> QED
    BY <1>2, <2>2 DEF EngineOK, Engine
<1>6. \A j : Cut(faults, log, j, live.time) => Cut(faults, log, j, live.time)'
  BY <1>1, <1>2 DEF Cut
<1>7. faults' = faults
  BY <1>1
<1> HIDE DEF faults
<1>8. EngineInv'
  BY <1>1, <1>2, <1>4, <1>5, <1>6, <1>7 DEF EngineInv, faults
<1> QED
  BY <1>3, <1>8

\* Writes and snapshots leave the loop and its log alone.
LEMMA OthersKeep ==
    ASSUME TimeInv, EngineInv, UNCHANGED <<scenario, live, log, manual>>
    PROVE  TimeInv' /\ EngineInv'
BY DEF TimeInv, EngineInv, Recovered, Cut, Engine

\* The results and the engine of every reachable state.
LEMMA EngineEver == Spec => [](TimeInv /\ EngineInv)
<1>1. Init => TimeInv /\ EngineInv
  <2> SUFFICES ASSUME Init PROVE TimeInv /\ EngineInv
    OBVIOUS
  <2>1. /\ LoopFields \subseteq DOMAIN live /\ live.time = 0 /\ live.count = 0
        /\ live.faulty = [d \in Devices |-> FALSE] /\ live.active = {} /\ live.recover = {}
        /\ log = <<>> /\ scenario \in Scenarios
    BY DEF Init, InitLoop, LoopFields
  <2>2. log \in Seq({}) /\ Len(log) = 0 /\ DOMAIN log = {}
    BY <2>1
  <2>3. TimeInv
    BY <2>1, <2>2 DEF TimeInv
  <2>4. EngineOK(scenario.faults, Engine(live))
    BY <2>1 DEF EngineOK, Engine
  <2>5. EngineInv
    BY <2>1, <2>4 DEF EngineInv
  <2> QED
    BY <2>3, <2>5
<1>2. TimeInv /\ EngineInv /\ [Next]_vars => (TimeInv /\ EngineInv)'
  <2> SUFFICES ASSUME TimeInv, EngineInv, [Next]_vars PROVE (TimeInv /\ EngineInv)'
    OBVIOUS
  <2>1. CASE \E w \in Writes : Enqueue(w[1], w[2])
    BY <2>1, OthersKeep DEF Enqueue
  <2>2. CASE \E i \in DOMAIN scenario.faults : Recover(i)
    BY <2>2, RecoverKeeps
  <2>3. CASE LiveTick
    <3>1. TimeInv'
      BY <2>3, LiveTickMoves
    <3> QED
      BY <2>3, <3>1, EngineKept
  <2>4. CASE Snapshot
    BY <2>4, OthersKeep DEF Snapshot
  <2>5. CASE UNCHANGED vars
    BY <2>5, OthersKeep DEF vars
  <2> QED
    BY <2>1, <2>2, <2>3, <2>4, <2>5 DEF Next
<1> QED
  BY <1>1, <1>2, PTL DEF Spec

\* A fault acts in its window and nowhere else, but for recoveries and for the end of
\* another fault of the same device.
LEMMA ActsInWindow ==
    ASSUME TimeInv, EngineInv
    PROVE  FaultInForce
<1> DEFINE faults == scenario.faults
<1>1. faults \in Seq(Window)
  BY ScenarioAssumption DEF TimeInv, ScenarioOK
<1>2. \A i \in DOMAIN faults : faults[i].start \in Int /\ faults[i].end \in Int
  <2>1. \A i \in DOMAIN faults : faults[i] \in Window
    BY <1>1
  <2> QED
    BY <2>1 DEF Window
<1>3. \A i \in DOMAIN faults :
         InWindow(faults[i], live.time) <=> live.time \in faults[i].start..(faults[i].end - 1)
  BY <1>2 DEF InWindow, TimeInv
<1>4. live.active \subseteq DOMAIN faults
  BY DEF EngineInv, EngineOK, Engine
<1>5. ASSUME NEW d \in Devices, live.faulty[d]
      PROVE  \E f \in ToSet(faults) : f.target = d /\ live.time \in f.start..(f.end - 1)
  <2>1. PICK i \in live.active : faults[i].target = d
    BY <1>5 DEF EngineInv
  <2>2. InWindow(faults[i], live.time)
    BY DEF EngineInv
  <2> QED
    BY <1>3, <1>4, <2>1, <2>2 DEF ToSet
<1>6. ASSUME NEW i \in DOMAIN faults, live.count > 0,
             live.time \in faults[i].start..(faults[i].end - 1)
      PROVE  \/ live.faulty[faults[i].target]
             \/ \E g \in ToSet(faults) :
                   /\ g.target = faults[i].target /\ g.end <= live.time
                   /\ \A n \in DOMAIN log : g.end <= log[n].time => faults[i].start <= log[n].time
             \/ \E m \in manual : faults[m[1]].target = faults[i].target
  <2>1. log # <<>>
    BY <1>6 DEF TimeInv
  <2>2. InWindow(faults[i], live.time)
    BY <1>3, <1>6
  <2>3. i \in live.active \/ faults[i].target \in Recovered
    BY <2>1, <2>2 DEF EngineInv
  <2>4. CASE faults[i].target \in Recovered
    BY <2>4 DEF Recovered
  <2>5. CASE i \in live.active /\ faults[i].target \notin Recovered
    <3>1. live.faulty[faults[i].target] \/ Cut(faults, log, i, live.time)
      BY <2>5 DEF EngineInv
    <3> QED
      BY <3>1 DEF Cut, ToSet
  <2> QED
    BY <2>3, <2>4, <2>5
<1>7. \A d \in Devices : live.faulty[d] =>
         \E f \in ToSet(faults) : f.target = d /\ live.time \in f.start..(f.end - 1)
  BY <1>5
<1> HIDE DEF faults
<1>8. \A i \in DOMAIN faults :
         live.count > 0 /\ live.time \in faults[i].start..(faults[i].end - 1) =>
            \/ live.faulty[faults[i].target]
            \/ \E g \in ToSet(faults) :
                  /\ g.target = faults[i].target /\ g.end <= live.time
                  /\ \A n \in DOMAIN log : g.end <= log[n].time => faults[i].start <= log[n].time
            \/ \E m \in manual : faults[m[1]].target = faults[i].target
  BY <1>6
<1> QED
  BY <1>7, <1>8, Zenon DEF FaultInForce, faults

-------------------------------------------------------------------------------
(***************************************************************************)
(* Quality faults are told                                                 *)
(***************************************************************************)

\* The last of some places in a sequence is one of them.
LEMMA LastPlace ==
    ASSUME NEW n \in Nat, NEW I, I \subseteq 1..n, I # {}
    PROVE  Max(I) \in I
<1> DEFINE T == {n - i : i \in I}
<1>1. T \subseteq Nat /\ T # {}
  <2>1. ASSUME NEW i \in I PROVE n - i \in Nat
    <3>1. i \in 1..n
      OBVIOUS
    <3> QED
      BY <3>1
  <2>2. T \subseteq Nat
    BY <2>1
  <2>3. T # {}
    OBVIOUS
  <2> QED
    BY <2>2, <2>3
<1>2. PICK m \in T : \A k \in T : m <= k
  BY <1>1, Least
<1>3. PICK x \in I : m = n - x
  BY <1>2
<1>4. \A y \in I : x >= y
  <2> SUFFICES ASSUME NEW y \in I PROVE x >= y
    OBVIOUS
  <2>1. n - x <= n - y
    BY <1>2, <1>3
  <2> QED
    BY <2>1
<1>5. \E z \in I : \A y \in I : z >= y
  BY <1>4
<1> QED
  BY <1>5 DEF Max

\* What is cached was once the value of the device.
WasReal(log0, d, cached) == \E m \in DOMAIN log0 : cached = <<log0[m].real[d], log0[m].time>>

\* The value of a device in tick n is what it is, or frozen and not too old.
Honest(stales, log0, n, d) ==
    LET p == log0[n].points[d] IN
    p.quality = "valid" =>
        \/ p.value = log0[n].real[d]
        \/ \E m \in 1..(n - 1), f \in ToSet(stales) :
              /\ f.target = d /\ log0[m].real[d] = p.value
              /\ log0[n].time - log0[m].time <= f.maxAge

\* What is cached is old, what is alarmed is in its window, no alarm was raised twice.
QualityInv ==
    /\ \A d \in Devices : live.cache[d] # None => WasReal(log, d, live.cache[d])
    /\ log # <<>> => live.alarmed = ActiveNan(scenario, live.time)
    /\ \A n \in DOMAIN log : \A i \in log[n].alarms :
          i \in DOMAIN scenario.nans /\ scenario.nans[i].start <= log[n].time
    /\ \A m, n \in DOMAIN log : \A i \in log[m].alarms \cap log[n].alarms : m = n
    /\ FrozenValueIsMarked

\* The point that is persisted, and the cache after it.
LEMMA PointTold ==
    ASSUME TimeInv, QualityInv, NEW power, NEW now \in Int, live.time < now,
           NEW q, q = QualityStage(scenario, live, power, now), NEW d \in Devices
    PROVE  /\ q.cache[d] = live.cache[d] \/ q.cache[d] = <<power[d], now>>
           /\ q.points[d].quality = "valid" =>
                 \/ q.points[d].value = power[d]
                 \/ \E m \in DOMAIN log, f \in ToSet(scenario.stales) :
                       /\ f.target = d /\ log[m].real[d] = q.points[d].value
                       /\ now - log[m].time <= f.maxAge
<1> DEFINE cache == Cached(scenario, live.cache, power, now)
           stale == ActiveStale(scenario, d, now)
           f == scenario.stales[Max(stale)]
           p == Point(scenario, d, cache, power, now)
<1>1. q.cache = cache /\ q.points[d] = p
  BY DEF QualityStage
<1>2. /\ cache[d] = live.cache[d] \/ cache[d] = <<power[d], now>>
      /\ stale # {} => cache[d] = live.cache[d]
  BY DEF Cached
<1>3. p = IF \E i \in ActiveNan(scenario, now) : scenario.nans[i].target = d
          THEN [value |-> 0, quality |-> "nan"]
          ELSE IF stale # {} THEN Stale(f, cache[d], power[d], now)
               ELSE [value |-> power[d], quality |-> "valid"]
  BY DEF Point
<1> HIDE DEF cache, p
<1>4. scenario.stales \in Seq([target : Devices, start : Int, end : Int, maxAge : Int])
  BY ScenarioAssumption DEF TimeInv, ScenarioOK
<1>5. CASE p.quality = "valid" /\ stale # {} /\ p.value # power[d]
  <2>1. p = Stale(f, live.cache[d], power[d], now)
    BY <1>2, <1>3, <1>5
  <2>2. Max(stale) \in stale
    <3>1. stale \subseteq 1..Len(scenario.stales) /\ Len(scenario.stales) \in Nat
      BY <1>4 DEF ActiveStale
    <3>2. stale # {}
      BY <1>5
    <3> HIDE DEF stale
    <3> QED
      BY <3>1, <3>2, LastPlace
  <2>3. f \in ToSet(scenario.stales) /\ f.target = d
    BY <2>2 DEF ActiveStale, ToSet
  <2>4. f.maxAge \in Int
    <3> DEFINE Type == [target : Devices, start : Int, end : Int, maxAge : Int]
    <3>1. f \in Type
      <4>1. Max(stale) \in DOMAIN scenario.stales
        BY <2>2 DEF ActiveStale
      <4> HIDE DEF stale, Type
      <4>2. scenario.stales \in Seq(Type)
        BY <1>4 DEF Type
      <4> QED
        BY <4>1, <4>2
    <3> QED
      BY <3>1
  <2> HIDE DEF f
  <2>5. live.cache[d] # None
    BY <1>5, <2>1 DEF Stale
  <2>6. PICK m \in DOMAIN log : live.cache[d] = <<log[m].real[d], log[m].time>>
    BY <2>5 DEF QualityInv, WasReal
  <2>7. p.value = log[m].real[d] /\ ~(now - log[m].time > f.maxAge)
    BY <1>5, <2>1, <2>5, <2>6 DEF Stale
  <2>8. log[m].time \in Int
    BY DEF TimeInv
  <2> QED
    BY <1>1, <1>2, <2>3, <2>4, <2>7, <2>8
<1>6. CASE p.quality = "valid" /\ stale = {}
  BY <1>1, <1>2, <1>3, <1>6
<1> QED
  BY <1>1, <1>2, <1>5, <1>6

\* A tick tells the quality faults.
LEMMA QualityKept ==
    ASSUME TimeInv, QualityInv, LiveTick
    PROVE  QualityInv'
<1> DEFINE now == live.time + TickMs
           last == Len(log) + 1
<1>1. PICK r, q :
         /\ log' = Append(log, r)
         /\ q = QualityStage(scenario, live, r.real, now)
         /\ r.time = now /\ r.points = q.points /\ r.alarms = q.alarms
         /\ live.alarmed' = q.alarmed /\ live.cache' = q.cache
  BY LiveTickMoves
<1>2. /\ live.time' = now /\ now \in Int /\ live.time < now
      /\ DOMAIN log' = DOMAIN log \cup {last}
      /\ \A n \in DOMAIN log : log'[n] = log[n] /\ n <= Len(log)
      /\ UNCHANGED <<scenario, manual>>
  BY LiveTickMoves
<1>3. PICK S : log \in Seq(S)
  BY DEF TimeInv
<1>4. log'[last] = r /\ DOMAIN log = 1..Len(log) /\ Len(log) \in Nat
  BY <1>1, <1>3, Appended
<1> HIDE DEF now
<1>5. ASSUME NEW d \in Devices
      PROVE  /\ live.cache'[d] # None => WasReal(log', d, live.cache'[d])
             /\ Honest(scenario.stales, log', last, d)
  <2>1. /\ q.cache[d] = live.cache[d] \/ q.cache[d] = <<r.real[d], now>>
        /\ q.points[d].quality = "valid" =>
              \/ q.points[d].value = r.real[d]
              \/ \E m \in DOMAIN log, f \in ToSet(scenario.stales) :
                    /\ f.target = d /\ log[m].real[d] = q.points[d].value
                    /\ now - log[m].time <= f.maxAge
    BY <1>1, <1>2, PointTold
  <2>2. live.cache'[d] # None => WasReal(log', d, live.cache'[d])
    <3>1. CASE q.cache[d] = <<r.real[d], now>>
      BY <1>1, <1>2, <1>4, <3>1 DEF WasReal
    <3>2. CASE q.cache[d] = live.cache[d] /\ live.cache[d] # None
      <4>1. WasReal(log, d, live.cache[d])
        BY <3>2 DEF QualityInv
      <4> QED
        BY <1>1, <1>2, <3>2, <4>1 DEF WasReal
    <3> QED
      BY <1>1, <2>1, <3>1, <3>2
  <2>3. Honest(scenario.stales, log', last, d)
    <3>1. \A m \in DOMAIN log : m \in 1..(last - 1) /\ log'[m] = log[m]
      BY <1>2, <1>4
    <3>2. /\ log'[last].points[d] = q.points[d] /\ log'[last].real = r.real
          /\ log'[last].time = now
      BY <1>1, <1>4
    <3> HIDE DEF last
    <3> QED
      BY <2>1, <3>1, <3>2 DEF Honest
  <2> QED
    BY <2>2, <2>3
<1>6. FrozenValueIsMarked'
  <2> SUFFICES ASSUME NEW n \in DOMAIN log', NEW d \in Devices
               PROVE  Honest(scenario.stales, log', n, d)
    BY <1>2 DEF FrozenValueIsMarked, Honest
  <2>1. CASE n = last
    BY <1>5, <2>1
  <2>2. CASE n \in DOMAIN log
    <3>1. Honest(scenario.stales, log, n, d)
      BY <2>2 DEF QualityInv, FrozenValueIsMarked, Honest
    <3>2. log'[n] = log[n] /\ \A m \in 1..(n - 1) : log'[m] = log[m]
      BY <1>2, <1>4, <2>2
    <3> QED
      BY <3>1, <3>2 DEF Honest
  <2> QED
    BY <1>2, <2>1, <2>2
<1>7. /\ q.alarmed = ActiveNan(scenario, now)
      /\ q.alarms = ActiveNan(scenario, now) \ live.alarmed
  BY <1>1 DEF QualityStage, NewAlarms
<1>8. \A i \in DOMAIN scenario.nans : scenario.nans[i].start \in Int /\ scenario.nans[i].end \in Int
  <2>1. scenario.nans \in Seq(Window)
    BY ScenarioAssumption DEF TimeInv, ScenarioOK
  <2>2. \A i \in DOMAIN scenario.nans : scenario.nans[i] \in Window
    BY <2>1
  <2> QED
    BY <2>2 DEF Window
<1>9. ASSUME NEW n \in DOMAIN log, NEW i \in log[n].alarms PROVE i \notin r.alarms
  <2>1. i \in DOMAIN scenario.nans /\ scenario.nans[i].start <= log[n].time
    BY DEF QualityInv
  <2>2. log # <<>> /\ log[n].time \in Int /\ log[n].time <= live.time /\ live.time \in Int
    BY DEF TimeInv
  <2>3. live.alarmed = ActiveNan(scenario, live.time)
    BY <2>2 DEF QualityInv
  <2>4. ASSUME i \in ActiveNan(scenario, now) PROVE i \in ActiveNan(scenario, live.time)
    BY <1>2, <1>8, <2>1, <2>2, <2>4 DEF ActiveNan, InWindow
  <2> QED
    BY <1>1, <1>7, <2>3, <2>4
<1>10. ASSUME NEW n \in DOMAIN log', NEW i \in log'[n].alarms
       PROVE  i \in DOMAIN scenario.nans /\ scenario.nans[i].start <= log'[n].time
  <2>1. CASE n = last
    BY <1>1, <1>4, <1>7, <1>10, <2>1 DEF ActiveNan, InWindow
  <2>2. CASE n \in DOMAIN log
    BY <1>2, <1>10, <2>2 DEF QualityInv
  <2> QED
    BY <1>2, <2>1, <2>2
<1>11. ASSUME NEW m \in DOMAIN log', NEW n \in DOMAIN log',
              NEW i \in log'[m].alarms \cap log'[n].alarms
       PROVE  m = n
  <2>1. CASE m \in DOMAIN log /\ n \in DOMAIN log
    BY <1>2, <1>11, <2>1 DEF QualityInv
  <2>2. CASE m = last /\ n \in DOMAIN log
    BY <1>2, <1>4, <1>9, <1>11, <2>2
  <2>3. CASE m \in DOMAIN log /\ n = last
    BY <1>2, <1>4, <1>9, <1>11, <2>3
  <2> QED
    BY <1>2, <2>1, <2>2, <2>3
<1>12. live.alarmed' = ActiveNan(scenario, live.time)'
  BY <1>1, <1>2, <1>7 DEF ActiveNan
<1> QED
  BY <1>2, <1>5, <1>6, <1>10, <1>11, <1>12 DEF QualityInv

\* The cache and the alarms of every reachable state.
LEMMA QualityEver == Spec => [](TimeInv /\ EngineInv /\ QualityInv)
<1>1. Init => QualityInv
  <2> SUFFICES ASSUME Init PROVE QualityInv
    OBVIOUS
  <2>1. live.cache = [d \in Devices |-> None] /\ log = <<>> /\ DOMAIN log = {}
    BY DEF Init, InitLoop
  <2> QED
    BY <2>1 DEF QualityInv, FrozenValueIsMarked
<1>2. TimeInv /\ QualityInv /\ [Next]_vars => QualityInv'
  <2> SUFFICES ASSUME TimeInv, QualityInv, [Next]_vars PROVE QualityInv'
    OBVIOUS
  <2>1. ASSUME live.time' = live.time, live.cache' = live.cache, live.alarmed' = live.alarmed,
               UNCHANGED <<scenario, log>>
        PROVE  QualityInv'
    BY <2>1 DEF QualityInv, FrozenValueIsMarked, WasReal, ActiveNan
  <2>2. CASE \E w \in Writes : Enqueue(w[1], w[2])
    BY <2>1, <2>2 DEF Enqueue
  <2>3. CASE \E i \in DOMAIN scenario.faults : Recover(i)
    <3>1. PICK i \in DOMAIN scenario.faults : Recover(i)
      BY <2>3
    <3>2. /\ live.time' = live.time /\ live.cache' = live.cache /\ live.alarmed' = live.alarmed
          /\ UNCHANGED <<scenario, log>>
      BY <3>1 DEF Recover, TimeInv, LoopFields
    <3> QED
      BY <2>1, <3>2
  <2>4. CASE LiveTick
    BY <2>4, QualityKept
  <2>5. CASE Snapshot
    BY <2>1, <2>5 DEF Snapshot
  <2>6. CASE UNCHANGED vars
    BY <2>1, <2>6 DEF vars
  <2> QED
    BY <2>2, <2>3, <2>4, <2>5, <2>6 DEF Next
<1> QED
  BY <1>1, <1>2, EngineEver, PTL DEF Spec

\* A fault acts in its window, and what faults do to a value is told by a mark and one alarm.
THEOREM FaultsEver == Spec => []FaultsActAndAreTold
<1>1. TimeInv /\ EngineInv /\ QualityInv => FaultsActAndAreTold
  <2> SUFFICES ASSUME TimeInv, EngineInv, QualityInv PROVE FaultsActAndAreTold
    OBVIOUS
  <2>1. FaultInForce
    BY ActsInWindow
  <2>2. ASSUME NEW i \in DOMAIN scenario.nans
        PROVE  Cardinality({n \in DOMAIN log : i \in log[n].alarms}) <= 1
    <3> DEFINE told == {n \in DOMAIN log : i \in log[n].alarms}
    <3>1. ASSUME NEW m \in told, NEW n \in told PROVE m = n
      <4>1. m \in DOMAIN log /\ n \in DOMAIN log /\ i \in log[m].alarms \cap log[n].alarms
        OBVIOUS
      <4> QED
        BY <4>1 DEF QualityInv
    <3> HIDE DEF told
    <3>2. ASSUME told = {} PROVE Cardinality(told) <= 1
      <4>1. Cardinality({}) = 0
        BY FS_EmptySet
      <4> QED
        BY <3>2, <4>1
    <3>3. ASSUME NEW m \in told PROVE Cardinality(told) <= 1
      <4>1. told = {m}
        BY <3>1, <3>3
      <4>2. Cardinality({m}) = 1
        BY FS_Singleton
      <4> QED
        BY <4>1, <4>2
    <3>4. Cardinality(told) <= 1
      BY <3>2, <3>3
    <3> QED
      BY <3>4 DEF told
  <2>3. AlarmOncePerFault
    BY <2>2 DEF AlarmOncePerFault
  <2> QED
    BY <2>1, <2>3 DEF FaultsActAndAreTold, QualityIsTold, QualityInv
<1> QED
  BY <1>1, QualityEver, PTL

-------------------------------------------------------------------------------
(***************************************************************************)
(* The members of a sequence at some places                                *)
(***************************************************************************)

\* What is sifted out of the first k members of q.
Sifts(q, I, n, u) ==
    u = [k \in 0..n |->
            IF k = 0 THEN <<>> ELSE IF k \in I THEN Append(u[k - 1], q[k]) ELSE u[k - 1]]

\* The recursive function has the values it is written with.
LEMMA SiftUnfolds ==
    ASSUME NEW S, NEW q \in Seq(S), NEW I
    PROVE  \E u : /\ u[0] = <<>>
                  /\ \A k \in 1..Len(q) :
                        u[k] = IF k \in I THEN Append(u[k - 1], q[k]) ELSE u[k - 1]
                  /\ Sift(q, I) = u[Len(q)]
<1> DEFINE n == Len(q)
           S0 == {k \in 0..n : \E u : Sifts(q, I, k, u)}
<1>0. n \in Nat
  OBVIOUS
<1> HIDE DEF n
<1>1. 0 \in S0
  <2> DEFINE u == [i \in 0..0 |-> <<>>]
  <2>1. Sifts(q, I, 0, u)
    BY DEF Sifts
  <2> QED
    BY <1>0, <2>1
<1>2. ASSUME NEW k \in 0..(n - 1), k \in S0 PROVE k + 1 \in S0
  <2>1. PICK u : Sifts(q, I, k, u)
    BY <1>2
  <2> DEFINE w == [i \in 0..(k + 1) |->
                      IF i = k + 1 THEN IF k + 1 \in I THEN Append(u[k], q[k + 1]) ELSE u[k]
                      ELSE u[i]]
  <2>2. ASSUME NEW i \in 0..(k + 1)
        PROVE  w[i] = IF i = 0 THEN <<>>
                      ELSE IF i \in I THEN Append(w[i - 1], q[i]) ELSE w[i - 1]
    <3>1. CASE i = k + 1
      BY <1>0, <3>1
    <3>2. CASE i # k + 1
      <4>1. w[i] = u[i] /\ i \in 0..k /\ (i # 0 => w[i - 1] = u[i - 1])
        BY <1>0, <3>2
      <4>2. u[i] = IF i = 0 THEN <<>>
                   ELSE IF i \in I THEN Append(u[i - 1], q[i]) ELSE u[i - 1]
        BY <2>1, <4>1 DEF Sifts
      <4> HIDE DEF w
      <4> QED
        BY <4>1, <4>2
    <3> QED
      BY <3>1, <3>2
  <2>3. Sifts(q, I, k + 1, w)
    BY <2>2 DEF Sifts
  <2>4. k + 1 \in 0..n
    BY <1>0
  <2> HIDE DEF w
  <2> QED
    BY <2>3, <2>4
<1>3. \E u : Sifts(q, I, n, u)
  <2>1. 0..n \subseteq S0
    <3> HIDE DEF S0
    <3> QED
      BY <1>0, <1>1, <1>2, UpTo
  <2> QED
    BY <1>0, <2>1
<1> DEFINE upTo == CHOOSE u :
              u = [k \in 0..n |->
                      IF k = 0 THEN <<>>
                      ELSE IF k \in I THEN Append(u[k - 1], q[k]) ELSE u[k - 1]]
<1>4. Sifts(q, I, n, upTo)
  BY <1>3 DEF Sifts
<1>5. Sift(q, I) = upTo[n]
  BY DEF Sift, n
<1> HIDE DEF upTo
<1>6. upTo[0] = <<>>
  BY <1>0, <1>4 DEF Sifts
<1>7. ASSUME NEW k \in 1..n
      PROVE  upTo[k] = IF k \in I THEN Append(upTo[k - 1], q[k]) ELSE upTo[k - 1]
  <2>1. k \in 0..n /\ k # 0
    BY <1>0
  <2> QED
    BY <1>4, <2>1 DEF Sifts
<1> QED
  BY <1>5, <1>6, <1>7 DEF n

\* The partial results of a sift, with the whole.
SiftOf(q, I, u) ==
    /\ u[0] = <<>>
    /\ \A k \in 1..Len(q) : u[k] = IF k \in I THEN Append(u[k - 1], q[k]) ELSE u[k - 1]
    /\ Sift(q, I) = u[Len(q)]

\* The same, under a name.
LEMMA SiftSteps ==
    ASSUME NEW S, NEW q \in Seq(S), NEW I
    PROVE  \E u : SiftOf(q, I, u)
BY SiftUnfolds DEF SiftOf

\* What is sifted out was at one of the places.
LEMMA SiftTyped ==
    ASSUME NEW S, NEW q \in Seq(S), NEW I, NEW T, \A i \in I \cap DOMAIN q : q[i] \in T,
           NEW u, SiftOf(q, I, u)
    PROVE  (\A k \in 0..Len(q) : u[k] \in Seq(T)) /\ Sift(q, I) \in Seq(T)
<1> DEFINE n == Len(q)
           G == {k \in 0..n : u[k] \in Seq(T)}
<1>1. n \in Nat /\ DOMAIN q = 1..n
  OBVIOUS
<1> HIDE DEF n
<1>2. 0 \in G
  <2>1. u[0] = <<>>
    BY DEF SiftOf
  <2>2. <<>> \in Seq(T)
    OBVIOUS
  <2>3. u[0] \in Seq(T)
    BY <2>1, <2>2
  <2>4. 0 \in 0..n
    BY <1>1
  <2> QED
    BY <2>3, <2>4
<1>3. ASSUME NEW k \in 0..(n - 1), k \in G PROVE k + 1 \in G
  <2>1. k + 1 \in 1..n /\ (k + 1) - 1 = k /\ k + 1 \in 0..n /\ u[k] \in Seq(T)
    BY <1>1, <1>3
  <2>2. u[k + 1] = IF k + 1 \in I THEN Append(u[k], q[k + 1]) ELSE u[k]
    BY <2>1 DEF SiftOf, n
  <2>3. k + 1 \in I => q[k + 1] \in T
    BY <1>1, <2>1
  <2>4. u[k + 1] \in Seq(T)
    BY <2>1, <2>2, <2>3
  <2> QED
    BY <2>1, <2>4
<1>4. 0..n \subseteq G
  <2> HIDE DEF G
  <2> QED
    BY <1>1, <1>2, <1>3, UpTo
<1>5. \A k \in 0..n : u[k] \in Seq(T)
  BY <1>4
<1>6. u[n] \in Seq(T)
  BY <1>1, <1>5
<1> QED
  BY <1>5, <1>6 DEF SiftOf, n

\* So is the whole of it.
LEMMA SiftIn ==
    ASSUME NEW S, NEW q \in Seq(S), NEW I, NEW T, \A i \in I \cap DOMAIN q : q[i] \in T
    PROVE  Sift(q, I) \in Seq(T)
<1>1. PICK u : SiftOf(q, I, u)
  BY SiftSteps
<1> QED
  BY <1>1, SiftTyped

\* Nothing or all of a sequence.
LEMMA SiftNone ==
    ASSUME NEW S, NEW q \in Seq(S), NEW I, \A i \in DOMAIN q : i \notin I
    PROVE  Sift(q, I) = <<>>
<1>1. Sift(q, I) \in Seq({})
  BY SiftIn
<1> QED
  BY <1>1

\* All of it, when every place is one of them.
LEMMA SiftAll ==
    ASSUME NEW S, NEW q \in Seq(S), NEW I, DOMAIN q \subseteq I
    PROVE  Sift(q, I) = q
<1> DEFINE n == Len(q)
<1>1. n \in Nat /\ DOMAIN q = 1..n
  OBVIOUS
<1>2. PICK u : SiftOf(q, I, u)
  BY SiftSteps
<1>3. \A k \in 0..n : u[k] \in Seq(S)
  <2>1. \A i \in I \cap DOMAIN q : q[i] \in S
    OBVIOUS
  <2> QED
    BY <1>2, <2>1, SiftTyped
<1> HIDE DEF n
<1> DEFINE G == {k \in 0..n : Len(u[k]) = k /\ \A i \in 1..k : u[k][i] = q[i]}
<1>4. 0 \in G
  BY <1>1, <1>2 DEF SiftOf
<1>5. ASSUME NEW k \in 0..(n - 1), k \in G PROVE k + 1 \in G
  <2>1. k + 1 \in 1..n /\ (k + 1) - 1 = k /\ k + 1 \in 0..n
        /\ k \in 0..n /\ Len(u[k]) = k /\ \A i \in 1..k : u[k][i] = q[i]
    BY <1>1, <1>5
  <2>2. u[k + 1] = Append(u[k], q[k + 1])
    BY <1>1, <1>2, <2>1 DEF SiftOf, n
  <2>3. u[k] \in Seq(S)
    BY <1>3, <2>1
  <2>4. Len(u[k + 1]) = k + 1 /\ \A i \in 1..(k + 1) : u[k + 1][i] = q[i]
    BY <2>1, <2>2, <2>3
  <2> QED
    BY <2>1, <2>4
<1>6. 0..n \subseteq G
  <2> HIDE DEF G
  <2> QED
    BY <1>1, <1>4, <1>5, UpTo
<1>7. Len(u[n]) = n /\ (\A i \in 1..n : u[n][i] = q[i]) /\ u[n] \in Seq(S)
  BY <1>1, <1>3, <1>6
<1>8. u[n] = q
  BY <1>1, <1>7 DEF n
<1> QED
  BY <1>2, <1>8 DEF SiftOf, n

\* One sequence after another; named, so that facts about it can be cited.
Cat(x, y) == x \o y

\* Appending first or last is the same.
LEMMA AppendCat ==
    ASSUME NEW S, NEW x \in Seq(S), NEW y \in Seq(S), NEW e \in S
    PROVE  Append(Cat(x, y), e) = Cat(x, Append(y, e))
BY DEF Cat

\* What is sifted out of two sequences, one after the other.
LEMMA SiftConcat ==
    ASSUME NEW S, NEW q \in Seq(S), NEW r \in Seq(S), NEW I, NEW J, NEW K,
           \A i \in DOMAIN q : i \in I <=> i \in J,
           \A i \in DOMAIN r : Len(q) + i \in I <=> i \in K
    PROVE  Sift(Cat(q, r), I) = Cat(Sift(q, J), Sift(r, K))
<1> DEFINE n == Len(q)
           m == Len(r)
           qr == Cat(q, r)
<1>1. /\ n \in Nat /\ m \in Nat /\ qr \in Seq(S) /\ Len(qr) = n + m
      /\ \A i \in 1..n : qr[i] = q[i]
      /\ \A i \in 1..m : qr[n + i] = r[i] /\ r[i] \in S
      /\ DOMAIN q = 1..n /\ DOMAIN r = 1..m
  BY DEF Cat
<1>2. PICK u : SiftOf(qr, I, u)
  BY <1>1, SiftSteps
<1>3. PICK v : SiftOf(q, J, v)
  BY SiftSteps
<1>4. PICK w : SiftOf(r, K, w)
  BY SiftSteps
<1>5. \A k \in 0..n : v[k] \in Seq(S)
  <2>1. \A i \in J \cap DOMAIN q : q[i] \in S
    OBVIOUS
  <2> QED
    BY <1>3, <2>1, SiftTyped
<1>6. \A k \in 0..m : w[k] \in Seq(S)
  <2>1. \A i \in K \cap DOMAIN r : r[i] \in S
    OBVIOUS
  <2> QED
    BY <1>4, <2>1, SiftTyped
<1>7. /\ u[0] = <<>> /\ v[0] = <<>> /\ w[0] = <<>>
      /\ \A k \in 1..(n + m) : u[k] = IF k \in I THEN Append(u[k - 1], qr[k]) ELSE u[k - 1]
      /\ \A k \in 1..n : v[k] = IF k \in J THEN Append(v[k - 1], q[k]) ELSE v[k - 1]
      /\ \A k \in 1..m : w[k] = IF k \in K THEN Append(w[k - 1], r[k]) ELSE w[k - 1]
      /\ Sift(qr, I) = u[n + m] /\ Sift(q, J) = v[n] /\ Sift(r, K) = w[m]
  BY <1>1, <1>2, <1>3, <1>4 DEF SiftOf
<1> HIDE DEF n, m, qr
<1>8. \A i \in 1..n : i \in I <=> i \in J
  BY <1>1
<1>9. \A i \in 1..m : n + i \in I <=> i \in K
  BY <1>1 DEF n
<1> DEFINE G == {k \in 0..n : u[k] = v[k]}
<1>10. 0..n \subseteq G
  <2>1. 0 \in G
    BY <1>1, <1>7
  <2>2. ASSUME NEW k \in 0..(n - 1), k \in G PROVE k + 1 \in G
    <3>1. k + 1 \in 1..n /\ k + 1 \in 1..(n + m) /\ (k + 1) - 1 = k /\ u[k] = v[k]
      BY <1>1, <2>2
    <3>2. u[k + 1] = IF k + 1 \in I THEN Append(u[k], qr[k + 1]) ELSE u[k]
      BY <1>7, <3>1
    <3>3. v[k + 1] = IF k + 1 \in J THEN Append(v[k], q[k + 1]) ELSE v[k]
      BY <1>7, <3>1
    <3>4. u[k + 1] = v[k + 1]
      BY <1>1, <1>8, <3>1, <3>2, <3>3
    <3> QED
      BY <1>1, <3>1, <3>4
  <2> HIDE DEF G
  <2> QED
    BY <1>1, <2>1, <2>2, UpTo
<1> DEFINE cat(k) == Cat(v[n], w[k])
<1>11. cat(0) = v[n]
  <2>1. v[n] \in Seq(S)
    BY <1>1, <1>5
  <2>2. v[n] \o <<>> = v[n]
    BY <2>1
  <2> QED
    BY <1>7, <2>2 DEF Cat
<1>12. ASSUME NEW k \in 0..(m - 1)
       PROVE  cat(k + 1) = IF k + 1 \in K THEN Append(cat(k), r[k + 1]) ELSE cat(k)
  <2>1. k + 1 \in 1..m /\ (k + 1) - 1 = k /\ k \in 0..m
    BY <1>1
  <2>2. w[k + 1] = IF k + 1 \in K THEN Append(w[k], r[k + 1]) ELSE w[k]
    BY <1>7, <2>1
  <2> DEFINE x == v[n]
             y == w[k]
             e == r[k + 1]
  <2>3. x \in Seq(S) /\ y \in Seq(S) /\ e \in S
    <3>1. n \in 0..n
      BY <1>1
    <3>2. x \in Seq(S)
      BY <1>5, <3>1
    <3>3. y \in Seq(S)
      BY <1>6, <2>1
    <3>4. e \in S
      BY <1>1, <2>1
    <3> QED
      BY <3>2, <3>3, <3>4
  <2> HIDE DEF x, y, e
  <2>4. Append(Cat(x, y), e) = Cat(x, Append(y, e))
    BY <2>3, AppendCat
  <2>5. w[k + 1] = IF k + 1 \in K THEN Append(y, e) ELSE y
    BY <2>2 DEF y, e
  <2>6. cat(k + 1) = Cat(x, w[k + 1]) /\ cat(k) = Cat(x, y)
    BY DEF x, y
  <2>7. cat(k + 1) = IF k + 1 \in K THEN Append(cat(k), e) ELSE cat(k)
    BY <2>4, <2>5, <2>6
  <2> QED
    BY <2>7 DEF e
<1> HIDE DEF cat
<1> DEFINE H == {k \in 0..m : u[n + k] = cat(k)}
<1>13. 0..m \subseteq H
  <2>1. 0 \in H
    <3>1. u[n] = v[n] /\ n + 0 = n /\ 0 \in 0..m
      BY <1>1, <1>10
    <3>2. u[n + 0] = cat(0)
      BY <1>11, <3>1
    <3> QED
      BY <3>1, <3>2
  <2>2. ASSUME NEW k \in 0..(m - 1), k \in H PROVE k + 1 \in H
    <3>1. /\ k + 1 \in 1..m /\ k + 1 \in 0..m /\ n + (k + 1) \in 1..(n + m)
          /\ (n + (k + 1)) - 1 = n + k
      BY <1>1
    <3>2. u[n + k] = cat(k)
      BY <2>2
    <3>3. u[n + (k + 1)] = IF n + (k + 1) \in I THEN Append(u[n + k], qr[n + (k + 1)]) ELSE u[n + k]
      BY <1>7, <3>1
    <3>4. qr[n + (k + 1)] = r[k + 1]
      BY <1>1, <3>1
    <3>5. cat(k + 1) = IF k + 1 \in K THEN Append(cat(k), r[k + 1]) ELSE cat(k)
      BY <1>12
    <3>6. n + (k + 1) \in I <=> k + 1 \in K
      BY <1>9, <3>1
    <3>7. u[n + (k + 1)] = cat(k + 1)
      BY <3>2, <3>3, <3>4, <3>5, <3>6
    <3> QED
      BY <3>1, <3>7
  <2> HIDE DEF H
  <2> QED
    BY <1>1, <2>1, <2>2, UpTo
<1>14. u[n + m] = cat(m)
  BY <1>1, <1>13
<1> QED
  BY <1>7, <1>14 DEF qr, cat

-------------------------------------------------------------------------------
(***************************************************************************)
(* The commands of a tick                                                  *)
(***************************************************************************)

Sources == {"scenario", "agent", "inbound"}
Command == [target : Devices, value : Int]
Order == [by : Sources, target : Devices, value : Int]

Marked(source, c) == [by |-> source, target |-> c.target, value |-> c.value]

\* Lists with the same members are equal.
LEMMA SameList ==
    ASSUME NEW S, NEW q \in Seq(S), NEW T, NEW r \in Seq(T), Len(q) = Len(r),
           \A i \in 1..Len(q) : q[i] = r[i]
    PROVE  q = r
<1>1. q = [i \in 1..Len(q) |-> q[i]] /\ r = [i \in 1..Len(r) |-> r[i]]
  OBVIOUS
<1> QED
  BY <1>1

\* The members of two lists, one after the other.
IsCat(S, q, r, c) ==
    /\ c \in Seq(S) /\ Len(c) = Len(q) + Len(r)
    /\ \A i \in 1..Len(q) : c[i] = q[i]
    /\ \A i \in 1..Len(r) : c[Len(q) + i] = r[i]

\* Two lists of S, one after the other, are a list of S.
LEMMA CatTyped ==
    ASSUME NEW S, NEW q \in Seq(S), NEW r \in Seq(S)
    PROVE  IsCat(S, q, r, Cat(q, r))
BY DEF Cat, IsCat

\* Commands of one source are a list of as many orders.
LEMMA ByTyped ==
    ASSUME NEW S, NEW q \in Seq(S), NEW source, NEW T,
           \A i \in DOMAIN q : Marked(source, q[i]) \in T
    PROVE  /\ By(source, q) \in Seq(T) /\ Len(By(source, q)) = Len(q)
           /\ \A i \in 1..Len(q) : By(source, q)[i] = Marked(source, q[i])
<1> DEFINE n == Len(q)
           b == [i \in 1..n |-> Marked(source, q[i])]
<1>1. n \in Nat /\ DOMAIN q = 1..n
  OBVIOUS
<1>2. By(source, q) = b
  BY <1>1 DEF By, Marked
<1> HIDE DEF n
<1>3. b \in [1..n -> T] /\ \A i \in 1..n : b[i] = Marked(source, q[i])
  BY <1>1
<1>4. b \in Seq(T) /\ Len(b) = n
  <2> HIDE DEF b
  <2> QED
    BY <1>1, <1>3
<1> QED
  BY <1>1, <1>2, <1>3, <1>4 DEF n

\* Marking a list, one element more.
LEMMA ByAppend ==
    ASSUME NEW S, NEW q \in Seq(S), NEW x \in S, NEW source
    PROVE  By(source, Append(q, x)) = Append(By(source, q), Marked(source, x))
<1> DEFINE n == Len(q)
           T == {Marked(source, y) : y \in S}
           a == Append(q, x)
           e == Marked(source, x)
           p == By(source, q)
           b == Append(p, e)
<1>1. /\ n \in Nat /\ a \in Seq(S) /\ Len(a) = n + 1
      /\ a[n + 1] = x /\ \A i \in 1..n : a[i] = q[i]
  OBVIOUS
<1>2. \A y \in S : Marked(source, y) \in T
  OBVIOUS
<1> HIDE DEF T, a
<1>3. \A i \in DOMAIN q : Marked(source, q[i]) \in T
  BY <1>2
<1>4. \A i \in DOMAIN a : Marked(source, a[i]) \in T
  BY <1>1, <1>2
<1>5. /\ p \in Seq(T) /\ Len(p) = n
      /\ \A i \in 1..n : p[i] = Marked(source, q[i])
  BY <1>3, ByTyped
<1>6. /\ By(source, a) \in Seq(T) /\ Len(By(source, a)) = n + 1
      /\ \A i \in 1..(n + 1) : By(source, a)[i] = Marked(source, a[i])
  BY <1>1, <1>4, ByTyped
<1> HIDE DEF p, n
<1>7. /\ b \in Seq(T) /\ Len(b) = n + 1 /\ b[n + 1] = e
      /\ \A i \in 1..n : b[i] = p[i]
  <2>1. e \in T
    BY <1>2
  <2> HIDE DEF e
  <2> QED
    BY <1>1, <1>5, <2>1
<1> HIDE DEF b
<1>8. \A i \in 1..Len(b) : b[i] = By(source, a)[i]
  BY <1>1, <1>5, <1>6, <1>7
<1>9. b = By(source, a)
  BY <1>6, <1>7, <1>8, SameList
<1> QED
  BY <1>9 DEF a, b, p

\* Marking two lists, one after the other.
LEMMA ByCat ==
    ASSUME NEW S, NEW q \in Seq(S), NEW r \in Seq(S), NEW source
    PROVE  By(source, Cat(q, r)) = Cat(By(source, q), By(source, r))
<1> DEFINE n == Len(q)
           m == Len(r)
           T == {Marked(source, y) : y \in S}
           x == By(source, q)
           y == By(source, r)
           z == By(source, Cat(q, r))
<1>1. /\ Cat(q, r) \in Seq(S) /\ Len(Cat(q, r)) = n + m
      /\ \A i \in 1..n : Cat(q, r)[i] = q[i]
      /\ \A i \in 1..m : Cat(q, r)[n + i] = r[i]
      /\ n \in Nat /\ m \in Nat
  <2>1. IsCat(S, q, r, Cat(q, r))
    BY CatTyped
  <2>2. n \in Nat /\ m \in Nat
    OBVIOUS
  <2> QED
    BY <2>1, <2>2 DEF IsCat
<1>2. \A e \in S : Marked(source, e) \in T
  OBVIOUS
<1> HIDE DEF T
<1>3. /\ \A i \in DOMAIN q : Marked(source, q[i]) \in T
      /\ \A i \in DOMAIN r : Marked(source, r[i]) \in T
      /\ \A i \in DOMAIN Cat(q, r) : Marked(source, Cat(q, r)[i]) \in T
  BY <1>1, <1>2
<1>4. /\ x \in Seq(T) /\ Len(x) = n /\ \A i \in 1..n : x[i] = Marked(source, q[i])
  BY <1>3, ByTyped
<1>5. /\ y \in Seq(T) /\ Len(y) = m /\ \A i \in 1..m : y[i] = Marked(source, r[i])
  BY <1>3, ByTyped
<1>6. /\ z \in Seq(T) /\ Len(z) = n + m
      /\ \A i \in 1..(n + m) : z[i] = Marked(source, Cat(q, r)[i])
  BY <1>1, <1>3, ByTyped
<1> HIDE DEF x, y, z, n, m
<1>7. /\ Cat(x, y) \in Seq(T) /\ Len(Cat(x, y)) = n + m
      /\ \A i \in 1..n : Cat(x, y)[i] = x[i]
      /\ \A i \in 1..m : Cat(x, y)[n + i] = y[i]
  <2>1. IsCat(T, x, y, Cat(x, y))
    BY <1>4, <1>5, CatTyped
  <2> QED
    BY <1>4, <1>5, <2>1 DEF IsCat
<1>8. ASSUME NEW i \in 1..(n + m) PROVE z[i] = Cat(x, y)[i]
  <2>1. CASE i \in 1..n
    BY <1>1, <1>4, <1>6, <1>7, <2>1
  <2>2. CASE i \notin 1..n
    <3>1. i - n \in 1..m /\ i = n + (i - n)
      BY <1>1, <2>2
    <3>2. Cat(q, r)[i] = r[i - n] /\ Cat(x, y)[i] = y[i - n]
      BY <1>1, <1>7, <3>1
    <3> QED
      BY <1>5, <1>6, <3>1, <3>2
  <2> QED
    BY <2>1, <2>2
<1>9. z = Cat(x, y)
  BY <1>6, <1>7, <1>8, SameList
<1> QED
  BY <1>9 DEF x, y, z

\* Commands of one source are orders of that source.
LEMMA ByOrders ==
    ASSUME NEW S, NEW q \in Seq(S), NEW source \in Sources,
           \A i \in DOMAIN q : q[i].target \in Devices /\ q[i].value \in Int
    PROVE  /\ By(source, q) \in Seq(Order) /\ Len(By(source, q)) = Len(q)
           /\ \A i \in 1..Len(q) : By(source, q)[i].by = source
<1>1. \A i \in DOMAIN q : Marked(source, q[i]) \in Order
  BY DEF Marked, Order
<1>2. /\ By(source, q) \in Seq(Order) /\ Len(By(source, q)) = Len(q)
      /\ \A i \in 1..Len(q) : By(source, q)[i] = Marked(source, q[i])
  <2> DEFINE T == Order
  <2>1. \A i \in DOMAIN q : Marked(source, q[i]) \in T
    BY <1>1
  <2> HIDE DEF T
  <2>2. By(source, q) \in Seq(T) /\ Len(By(source, q)) = Len(q)
        /\ \A i \in 1..Len(q) : By(source, q)[i] = Marked(source, q[i])
    BY <2>1, ByTyped
  <2> QED
    BY <2>2 DEF T
<1>3. \A c : Marked(source, c).by = source
  BY DEF Marked
<1> QED
  BY <1>2, <1>3

\* Two lists that are marked alike are marked alike at some of their places.
LEMMA BySift ==
    ASSUME NEW S, NEW q \in Seq(S), NEW T, NEW r \in Seq(T), Len(q) = Len(r), NEW I, NEW source,
           \A i \in 1..Len(q) : Marked(source, q[i]) = Marked(source, r[i])
    PROVE  By(source, Sift(q, I)) = By(source, Sift(r, I))
<1> DEFINE n == Len(q)
<1>1. n \in Nat /\ (\A k \in 1..n : q[k] \in S /\ r[k] \in T) /\ DOMAIN q = 1..n /\ DOMAIN r = 1..n
  OBVIOUS
<1>2. PICK u : SiftOf(q, I, u)
  BY SiftSteps
<1>3. PICK v : SiftOf(r, I, v)
  BY SiftSteps
<1>4. \A k \in 0..n : u[k] \in Seq(S)
  <2>1. \A i \in I \cap DOMAIN q : q[i] \in S
    OBVIOUS
  <2> QED
    BY <1>2, <2>1, SiftTyped
<1>5. \A k \in 0..n : v[k] \in Seq(T)
  <2>1. \A i \in I \cap DOMAIN r : r[i] \in T
    OBVIOUS
  <2> QED
    BY <1>3, <2>1, SiftTyped
<1>6. /\ u[0] = <<>> /\ v[0] = <<>>
      /\ \A k \in 1..n : u[k] = IF k \in I THEN Append(u[k - 1], q[k]) ELSE u[k - 1]
      /\ \A k \in 1..n : v[k] = IF k \in I THEN Append(v[k - 1], r[k]) ELSE v[k - 1]
      /\ Sift(q, I) = u[n] /\ Sift(r, I) = v[n]
  BY <1>2, <1>3 DEF SiftOf
<1>7. \A i \in 1..n : Marked(source, q[i]) = Marked(source, r[i])
  OBVIOUS
<1> HIDE DEF n
<1> DEFINE G == {k \in 0..n : By(source, u[k]) = By(source, v[k])}
<1>8. 0 \in G
  BY <1>1, <1>6
<1>9. ASSUME NEW k \in 0..(n - 1), k \in G PROVE k + 1 \in G
  <2>1. k + 1 \in 1..n /\ (k + 1) - 1 = k /\ k \in 0..n /\ k + 1 \in 0..n
    BY <1>1
  <2>2. By(source, u[k]) = By(source, v[k])
    BY <1>9
  <2>3. CASE k + 1 \in I
    <3>1. u[k + 1] = Append(u[k], q[k + 1]) /\ v[k + 1] = Append(v[k], r[k + 1])
      BY <1>6, <2>1, <2>3
    <3>2. By(source, Append(u[k], q[k + 1])) = Append(By(source, u[k]), Marked(source, q[k + 1]))
      BY <1>1, <1>4, <2>1, ByAppend
    <3>3. By(source, Append(v[k], r[k + 1])) = Append(By(source, v[k]), Marked(source, r[k + 1]))
      BY <1>1, <1>5, <2>1, ByAppend
    <3>4. Marked(source, q[k + 1]) = Marked(source, r[k + 1])
      BY <1>7, <2>1
    <3>5. By(source, u[k + 1]) = By(source, v[k + 1])
      BY <2>2, <3>1, <3>2, <3>3, <3>4
    <3> QED
      BY <2>1, <3>5
  <2>4. CASE k + 1 \notin I
    <3>1. u[k + 1] = u[k] /\ v[k + 1] = v[k]
      BY <1>6, <2>1, <2>4
    <3> QED
      BY <2>1, <2>2, <3>1
  <2> QED
    BY <2>3, <2>4
<1>10. 0..n \subseteq G
  <2> HIDE DEF G
  <2> QED
    BY <1>1, <1>8, <1>9, UpTo
<1>11. By(source, u[n]) = By(source, v[n])
  BY <1>1, <1>10
<1> QED
  BY <1>6, <1>11

\* The orders of one source among those of two lists, one after the other.
LEMMA FromCat ==
    ASSUME NEW x \in Seq(Order), NEW y \in Seq(Order), NEW source
    PROVE  From(source, Cat(x, y)) = Cat(From(source, x), From(source, y))
<1> DEFINE I == {i \in DOMAIN Cat(x, y) : Cat(x, y)[i].by = source}
           J == {i \in DOMAIN x : x[i].by = source}
           K == {i \in DOMAIN y : y[i].by = source}
<1>1. IsCat(Order, x, y, Cat(x, y))
  BY CatTyped
<1>2. \A i \in DOMAIN x : i \in I <=> i \in J
  BY <1>1 DEF IsCat
<1>3. \A i \in DOMAIN y : Len(x) + i \in I <=> i \in K
  BY <1>1 DEF IsCat
<1> HIDE DEF I, J, K
<1>4. Sift(Cat(x, y), I) = Cat(Sift(x, J), Sift(y, K))
  BY <1>2, <1>3, SiftConcat
<1> QED
  BY <1>4 DEF From, I, J, K

\* All orders of a list of one source are from that source.
LEMMA FromSame ==
    ASSUME NEW x \in Seq(Order), NEW source, \A i \in 1..Len(x) : x[i].by = source
    PROVE  From(source, x) = x
<1> DEFINE I == {i \in DOMAIN x : x[i].by = source}
<1>1. DOMAIN x \subseteq I
  OBVIOUS
<1> HIDE DEF I
<1>2. Sift(x, I) = x
  BY <1>1, SiftAll
<1> QED
  BY <1>2 DEF From, I

\* Among the orders of other sources there is none of its own.
LEMMA FromOther ==
    ASSUME NEW x \in Seq(Order), NEW source, \A i \in 1..Len(x) : x[i].by # source
    PROVE  From(source, x) = <<>>
<1> DEFINE I == {i \in DOMAIN x : x[i].by = source}
<1>1. \A i \in DOMAIN x : i \notin I
  OBVIOUS
<1> HIDE DEF I
<1>2. Sift(x, I) = <<>>
  BY <1>1, SiftNone
<1> QED
  BY <1>2 DEF From, I

-------------------------------------------------------------------------------
(***************************************************************************)
(* Lists of lists, and sorting what is in order                            *)
(***************************************************************************)

\* The first n lists, one after the other.
Flattens(seqs, n, u) ==
    u = [i \in 1..n |-> IF i = 1 THEN seqs[i] ELSE Cat(u[i - 1], seqs[i])]

\* The recursive function has the values it is written with.
LEMMA FlattenUnfolds ==
    ASSUME NEW seqs, Len(seqs) \in Nat \ {0}
    PROVE  \E u : /\ u[1] = seqs[1]
                  /\ \A k \in 2..Len(seqs) : u[k] = Cat(u[k - 1], seqs[k])
                  /\ FlattenSeq(seqs) = u[Len(seqs)]
<1> DEFINE n == Len(seqs)
           G == {k \in 0..(n - 1) : \E u : Flattens(seqs, k + 1, u)}
<1>0. n \in Nat /\ n - 1 \in Nat
  OBVIOUS
<1> HIDE DEF n
<1>1. 0 \in G
  <2> DEFINE u == [i \in 1..1 |-> seqs[i]]
  <2>1. Flattens(seqs, 1, u)
    BY DEF Flattens
  <2>2. 0 \in 0..(n - 1) /\ 0 + 1 = 1
    BY <1>0
  <2> HIDE DEF u
  <2> QED
    BY <2>1, <2>2
<1>2. ASSUME NEW k \in 0..((n - 1) - 1), k \in G PROVE k + 1 \in G
  <2>1. PICK u : Flattens(seqs, k + 1, u)
    BY <1>2
  <2> DEFINE m == k + 1
  <2>2. m \in Nat \ {0} /\ m + 1 # 1 /\ (m + 1) - 1 = m /\ m \in 0..(n - 1)
    BY <1>0
  <2> HIDE DEF m
  <2> DEFINE w == [i \in 1..(m + 1) |-> IF i = m + 1 THEN Cat(u[m], seqs[m + 1]) ELSE u[i]]
  <2>3. ASSUME NEW i \in 1..(m + 1)
        PROVE  w[i] = IF i = 1 THEN seqs[i] ELSE Cat(w[i - 1], seqs[i])
    <3>1. CASE i = m + 1
      <4>1. w[i - 1] = u[m] /\ w[i] = Cat(u[m], seqs[m + 1]) /\ i # 1
        BY <2>2, <3>1
      <4> HIDE DEF w
      <4> QED
        BY <3>1, <4>1
    <3>2. CASE i # m + 1
      <4>1. w[i] = u[i] /\ i \in 1..m /\ (i # 1 => w[i - 1] = u[i - 1])
        BY <2>2, <3>2
      <4>2. Flattens(seqs, m, u)
        BY <2>1 DEF m
      <4>3. u[i] = IF i = 1 THEN seqs[i] ELSE Cat(u[i - 1], seqs[i])
        BY <4>1, <4>2 DEF Flattens
      <4> HIDE DEF w
      <4> QED
        BY <4>1, <4>3
    <3> QED
      BY <3>1, <3>2
  <2>4. Flattens(seqs, m + 1, w)
    BY <2>3 DEF Flattens
  <2> HIDE DEF w
  <2>5. m \in G
    BY <2>2, <2>4
  <2> QED
    BY <2>5 DEF m
<1>3. \E u : Flattens(seqs, n, u)
  <2>1. 0..(n - 1) \subseteq G
    <3> HIDE DEF G
    <3> DEFINE m == n - 1
    <3>1. m \in Nat /\ 0 \in G /\ \A k \in 0..(m - 1) : k \in G => k + 1 \in G
      BY <1>0, <1>1, <1>2
    <3> HIDE DEF m
    <3>2. 0..m \subseteq G
      BY <3>1, UpTo
    <3> QED
      BY <3>2 DEF m
  <2>2. n - 1 \in 0..(n - 1) /\ (n - 1) + 1 = n
    BY <1>0
  <2>3. \E u : Flattens(seqs, (n - 1) + 1, u)
    BY <2>1, <2>2
  <2> QED
    BY <2>2, <2>3
<1> DEFINE flatten == CHOOSE u : u = [i \in 1..n |-> IF i = 1 THEN seqs[i] ELSE u[i - 1] \o seqs[i]]
<1>4. Flattens(seqs, n, flatten)
  BY <1>3 DEF Flattens, Cat
<1>5. FlattenSeq(seqs) = flatten[n]
  BY DEF FlattenSeq, n
<1> HIDE DEF flatten
<1>6. ASSUME NEW k \in 1..n
      PROVE  flatten[k] = IF k = 1 THEN seqs[k] ELSE Cat(flatten[k - 1], seqs[k])
  BY <1>4 DEF Flattens
<1>7. flatten[1] = seqs[1]
  <2>1. 1 \in 1..n
    BY <1>0
  <2> QED
    BY <1>6, <2>1
<1>8. ASSUME NEW k \in 2..n PROVE flatten[k] = Cat(flatten[k - 1], seqs[k])
  <2>1. k \in 1..n /\ k # 1
    OBVIOUS
  <2> QED
    BY <1>6, <2>1
<1> QED
  BY <1>5, <1>7, <1>8 DEF n

\* Nothing before or after a list.
LEMMA CatEmpty ==
    ASSUME NEW S, NEW x \in Seq(S)
    PROVE  Cat(x, <<>>) = x /\ Cat(<<>>, x) = x
BY DEF Cat

\* A list of lists is a list; a further list comes after it.
LEMMA FlattenTyped ==
    ASSUME NEW S, NEW seqs \in Seq(Seq(S))
    PROVE  FlattenSeq(seqs) \in Seq(S)
<1> DEFINE n == Len(seqs)
<1>1. n \in Nat /\ \A k \in 1..n : seqs[k] \in Seq(S)
  OBVIOUS
<1>2. CASE n = 0
  <2>1. FlattenSeq(seqs) = <<>>
    BY <1>2 DEF FlattenSeq
  <2> QED
    BY <2>1
<1>3. CASE n # 0
  <2>1. PICK u : /\ u[1] = seqs[1]
                 /\ \A k \in 2..Len(seqs) : u[k] = Cat(u[k - 1], seqs[k])
                 /\ FlattenSeq(seqs) = u[Len(seqs)]
    BY <1>1, <1>3, FlattenUnfolds
  <2> HIDE DEF n
  <2> DEFINE G == {k \in 0..(n - 1) : u[k + 1] \in Seq(S)}
             m == n - 1
  <2>2. m \in Nat /\ m + 1 = n
    BY <1>1, <1>3
  <2>3. 0 \in G
    <3>1. u[0 + 1] \in Seq(S) /\ 0 \in 0..(n - 1)
      BY <1>1, <1>3, <2>1
    <3> QED
      BY <3>1
  <2>4. ASSUME NEW k \in 0..(m - 1), k \in G PROVE k + 1 \in G
    <3>1. (k + 1) + 1 \in 2..n /\ ((k + 1) + 1) - 1 = k + 1 /\ k + 1 \in 0..(n - 1)
          /\ (k + 1) + 1 \in 1..n
      BY <1>1, <2>2
    <3>2. u[k + 1] \in Seq(S)
      BY <2>4
    <3>3. u[(k + 1) + 1] = Cat(u[k + 1], seqs[(k + 1) + 1])
      BY <2>1, <3>1 DEF n
    <3>4. seqs[(k + 1) + 1] \in Seq(S)
      BY <1>1, <3>1
    <3> DEFINE x == u[k + 1]
               y == seqs[(k + 1) + 1]
    <3> HIDE DEF x, y
    <3>5. IsCat(S, x, y, Cat(x, y))
      BY <3>2, <3>4, CatTyped DEF x, y
    <3>6. u[(k + 1) + 1] \in Seq(S)
      BY <3>3, <3>5 DEF IsCat, x, y
    <3> QED
      BY <3>1, <3>6
  <2>5. 0..m \subseteq G
    <3> HIDE DEF G, m
    <3> QED
      BY <2>2, <2>3, <2>4, UpTo
  <2>6. u[m + 1] \in Seq(S)
    BY <2>2, <2>5
  <2> QED
    BY <2>1, <2>2, <2>6 DEF n
<1> QED
  BY <1>2, <1>3

\* A further list comes after what the others make.
LEMMA FlattenAppend ==
    ASSUME NEW S, NEW seqs \in Seq(Seq(S)), NEW x \in Seq(S)
    PROVE  FlattenSeq(Append(seqs, x)) = Cat(FlattenSeq(seqs), x)
<1> DEFINE n == Len(seqs)
           longer == Append(seqs, x)
<1>1. /\ n \in Nat /\ Len(longer) = n + 1 /\ longer[n + 1] = x
      /\ \A k \in 1..n : longer[k] = seqs[k]
  OBVIOUS
<1> HIDE DEF longer
<1>2. PICK w : /\ w[1] = longer[1]
               /\ \A k \in 2..(n + 1) : w[k] = Cat(w[k - 1], longer[k])
               /\ FlattenSeq(longer) = w[n + 1]
  <2>1. Len(longer) \in Nat \ {0}
    BY <1>1
  <2> QED
    BY <1>1, <2>1, FlattenUnfolds
<1>3. CASE n = 0
  <2>1. FlattenSeq(seqs) = <<>>
    BY <1>3 DEF FlattenSeq
  <2>2. FlattenSeq(longer) = x
    BY <1>1, <1>2, <1>3
  <2> QED
    BY <2>1, <2>2, CatEmpty DEF longer
<1>4. CASE n # 0
  <2>1. PICK u : /\ u[1] = seqs[1]
                 /\ \A k \in 2..n : u[k] = Cat(u[k - 1], seqs[k])
                 /\ FlattenSeq(seqs) = u[n]
    BY <1>1, <1>4, FlattenUnfolds
  <2> HIDE DEF n
  <2> DEFINE m == n - 1
             G == {k \in 0..m : u[k + 1] = w[k + 1]}
  <2>2. m \in Nat /\ m + 1 = n
    BY <1>1, <1>4
  <2> HIDE DEF m
  <2>3. 0 \in G
    <3>1. 1 \in 1..n /\ 0 \in 0..m /\ 0 + 1 = 1
      BY <1>1, <2>2
    <3> QED
      BY <1>1, <1>2, <2>1, <3>1
  <2>4. ASSUME NEW k \in 0..(m - 1), k \in G PROVE k + 1 \in G
    <3> DEFINE i == (k + 1) + 1
    <3>1. i \in 2..n /\ i \in 2..(n + 1) /\ i \in 1..n /\ i - 1 = k + 1 /\ k + 1 \in 0..m
      BY <1>1, <2>2
    <3>2. u[k + 1] = w[k + 1]
      BY <2>4
    <3> HIDE DEF i
    <3>3. u[i] = w[i]
      BY <1>1, <1>2, <2>1, <3>1, <3>2
    <3> QED
      BY <3>1, <3>3 DEF i
  <2>5. 0..m \subseteq G
    <3> HIDE DEF G
    <3> QED
      BY <2>2, <2>3, <2>4, UpTo
  <2>6. u[n] = w[n]
    BY <2>2, <2>5
  <2>7. n + 1 \in 2..(n + 1) /\ (n + 1) - 1 = n
    BY <1>1, <1>4
  <2>8. w[n + 1] = Cat(w[n], x)
    BY <1>1, <1>2, <2>7
  <2> QED
    BY <1>2, <2>1, <2>6, <2>8 DEF longer
<1> QED
  BY <1>3, <1>4

\* Sorting a list that is in order leaves it as it is.
LEMMA SortedInOrder ==
    ASSUME NEW S, NEW q \in Seq(S), NEW before,
           \A i \in DOMAIN q : \A j \in DOMAIN q : <<i, j>> \in before <=> i < j
    PROVE  Sorted(q, before) = q
<1> DEFINE n == Len(q)
           Rank(j) == Cardinality({i \in DOMAIN q : <<i, j>> \in before})
<1>1. n \in Nat /\ DOMAIN q = 1..n
  OBVIOUS
<1>2. ASSUME NEW j \in DOMAIN q PROVE Rank(j) = j - 1
  <2>1. {i \in DOMAIN q : <<i, j>> \in before} = 1..(j - 1)
    BY <1>1
  <2>2. j \in Int /\ j - 1 \in Int /\ 1 \in Int /\ j >= 1
    BY <1>1
  <2> DEFINE m == j - 1
  <2>3. m \in Int /\ m >= 0 /\ m = j - 1
    BY <2>2
  <2> HIDE DEF m
  <2>4. Cardinality(1..m) = IF 1 > m THEN 0 ELSE m - 1 + 1
    BY <2>2, <2>3, FS_Interval
  <2>5. Cardinality(1..m) = m
    BY <2>3, <2>4
  <2>6. Rank(j) = Cardinality(1..m)
    BY <2>1, <2>3
  <2> QED
    BY <2>3, <2>5, <2>6
<1>3. Sorted(q, before) = [k \in DOMAIN q |-> q[CHOOSE j \in DOMAIN q : Rank(j) = k - 1]]
  BY DEF Sorted
<1>4. ASSUME NEW k \in DOMAIN q PROVE (CHOOSE j \in DOMAIN q : Rank(j) = k - 1) = k
  <2> HIDE DEF Rank
  <2>1. \A j \in DOMAIN q : Rank(j) = k - 1 <=> j = k
    BY <1>1, <1>2
  <2> QED
    BY <2>1
<1>5. Sorted(q, before) = [k \in DOMAIN q |-> q[k]]
  BY <1>3, <1>4
<1>6. q = [k \in DOMAIN q |-> q[k]]
  OBVIOUS
<1> QED
  BY <1>5, <1>6

\* A non-empty set of places has a first one.
LEMMA FirstPlace ==
    ASSUME NEW n \in Nat, NEW I, I \subseteq 1..n, I # {}
    PROVE  Min(I) \in I
<1>1. I \subseteq Nat
  OBVIOUS
<1>2. \E m \in I : \A k \in I : m <= k
  BY <1>1, Least
<1> QED
  BY <1>2 DEF Min

Agent == [target : Devices, rules : Seq(Rule)]

\* What agents decide are commands.
LEMMA AgentsTyped ==
    ASSUME NEW agents \in Seq(Agent), NEW tick, NEW now
    PROVE  AgentCommands(agents, tick, now) \in Seq(Command)
<1> DEFINE n == Len(agents)
           parts == [i \in 1..n |-> AgentTick(agents[i], tick, now)]
<1>1. n \in Nat /\ DOMAIN agents = 1..n /\ \A i \in 1..n : agents[i] \in Agent
  OBVIOUS
<1> HIDE DEF n
<1>2. ASSUME NEW i \in 1..n PROVE AgentTick(agents[i], tick, now) \in Seq(Command)
  <2> DEFINE a == agents[i]
             hits == {k \in DOMAIN a.rules : ConditionMatches(a.rules[k], tick, now)}
             c == [target |-> a.target, value |-> a.rules[Min(hits)].value]
  <2>1. a.target \in Devices /\ a.rules \in Seq(Rule)
    BY <1>1 DEF Agent
  <2>2. AgentTick(a, tick, now) = IF hits = {} THEN <<>> ELSE <<c>>
    BY DEF AgentTick
  <2>3. CASE hits = {}
    BY <2>2, <2>3
  <2>4. CASE hits # {}
    <3>1. hits \subseteq 1..Len(a.rules) /\ Len(a.rules) \in Nat
      BY <2>1
    <3>2. Min(hits) \in hits
      <4> DEFINE m == Len(a.rules)
      <4>1. m \in Nat /\ hits \subseteq 1..m
        BY <3>1
      <4> HIDE DEF hits, m
      <4> QED
        BY <2>4, <4>1, FirstPlace
    <3>3. a.rules[Min(hits)] \in Rule
      <4>1. Min(hits) \in DOMAIN a.rules
        BY <3>2
      <4> HIDE DEF hits, a
      <4> QED
        BY <2>1, <4>1
    <3>4. c \in Command
      <4> HIDE DEF hits, a
      <4> QED
        BY <2>1, <3>3 DEF Rule, Command
    <3> HIDE DEF c, hits, a
    <3>5. <<c>> \in Seq(Command)
      BY <3>4
    <3>6. AgentTick(a, tick, now) \in Seq(Command)
      BY <2>2, <2>4, <3>5
    <3> QED
      BY <3>6 DEF a
  <2> QED
    BY <2>3, <2>4
<1>3. parts \in Seq(Seq(Command))
  <2>1. parts \in [1..n -> Seq(Command)]
    BY <1>2
  <2> HIDE DEF parts
  <2> QED
    BY <1>1, <2>1
<1>4. AgentCommands(agents, tick, now) = FlattenSeq(parts)
  BY <1>1 DEF AgentCommands
<1> HIDE DEF parts
<1> QED
  BY <1>3, <1>4, FlattenTyped

Write == [target : Devices \cup {Ghost}, value : Int, seq : Int]

\* The scenario's commands that are due, and the writes that name a device.
Scheduled(s, now) == By("scenario", DueCommands(s, now))
Known(writes) == {i \in DOMAIN writes : writes[i].target \in Devices}

\* The orders of a tick, by where they come from.
OrdersOf(s, loop, writes, now, orders) ==
    /\ orders \in Seq(Order)
    /\ From("scenario", orders) = Scheduled(s, now)
    /\ From("agent", orders) = By("agent", loop.pending)
    /\ From("inbound", orders) = By("inbound", Sift(writes, Known(writes)))

\* The orders of a tick, source by source, are those the tick was given.
LEMMA AppliedParts ==
    ASSUME NEW s, ScenarioOK(s), NEW loop, loop.pending \in Seq(Command),
           NEW W, NEW writes \in Seq(W), W \subseteq Write, NEW now
    PROVE  OrdersOf(s, loop, writes, now, Applied(s, loop, writes, now))
<1> DEFINE due == DueCommands(s, now)
           known == Sift(writes, Known(writes))
           a == By("scenario", due)
           b == By("agent", loop.pending)
           c == By("inbound", known)
           C == [at : Int, target : Devices, value : Int]
           K == {w \in W : w.target \in Devices}
<1>1. a \in Seq(Order) /\ \A i \in 1..Len(a) : a[i].by = "scenario"
  <2>1. s.commands \in Seq(C)
    BY DEF ScenarioOK
  <2> HIDE DEF C
  <2>2. due \in Seq(C)
    BY <2>1, SiftIn DEF DueCommands
  <2> HIDE DEF due
  <2>3. \A i \in DOMAIN due : due[i] \in C
    BY <2>2
  <2>4. \A i \in DOMAIN due : due[i].target \in Devices /\ due[i].value \in Int
    BY <2>3 DEF C
  <2>5. "scenario" \in Sources
    BY DEF Sources
  <2> HIDE DEF C
  <2> QED
    BY <2>2, <2>4, <2>5, ByOrders
<1>2. b \in Seq(Order) /\ \A i \in 1..Len(b) : b[i].by = "agent"
  <2> DEFINE pending == loop.pending
  <2>1. pending \in Seq(Command)
    OBVIOUS
  <2> HIDE DEF pending
  <2>2. \A i \in DOMAIN pending : pending[i] \in Command
    BY <2>1
  <2>3. \A i \in DOMAIN pending : pending[i].target \in Devices /\ pending[i].value \in Int
    BY <2>2 DEF Command
  <2>4. "agent" \in Sources
    BY DEF Sources
  <2>5. By("agent", pending) \in Seq(Order)
        /\ Len(By("agent", pending)) = Len(pending)
        /\ \A i \in 1..Len(pending) : By("agent", pending)[i].by = "agent"
    BY <2>1, <2>3, <2>4, ByOrders
  <2> QED
    BY <2>5 DEF pending
<1>3. c \in Seq(Order) /\ \A i \in 1..Len(c) : c[i].by = "inbound"
  <2>1. \A i \in Known(writes) \cap DOMAIN writes : writes[i] \in K
    BY DEF Known
  <2>2. known \in Seq(K)
    <3> HIDE DEF K
    <3> QED
      BY <2>1, SiftIn
  <2>3. \A w \in K : w.target \in Devices /\ w.value \in Int
    BY DEF Write
  <2> HIDE DEF K, known
  <2>4. \A i \in DOMAIN known : known[i].target \in Devices /\ known[i].value \in Int
    BY <2>2, <2>3
  <2>5. "inbound" \in Sources
    BY DEF Sources
  <2> QED
    BY <2>2, <2>4, <2>5, ByOrders
<1>4. Applied(s, loop, writes, now) = Cat(Cat(a, b), c)
  BY DEF Applied, Known, Cat
<1> HIDE DEF a, b, c
<1>5. Cat(a, b) \in Seq(Order)
  <2>1. IsCat(Order, a, b, Cat(a, b))
    BY <1>1, <1>2, CatTyped
  <2> QED
    BY <2>1 DEF IsCat
<1>6. Cat(Cat(a, b), c) \in Seq(Order)
  <2>1. IsCat(Order, Cat(a, b), c, Cat(Cat(a, b), c))
    BY <1>3, <1>5, CatTyped
  <2> QED
    BY <2>1 DEF IsCat
<1>7. ASSUME NEW source
      PROVE  From(source, Cat(Cat(a, b), c))
               = Cat(Cat(From(source, a), From(source, b)), From(source, c))
  <2>1. From(source, Cat(Cat(a, b), c)) = Cat(From(source, Cat(a, b)), From(source, c))
    BY <1>3, <1>5, FromCat
  <2>2. From(source, Cat(a, b)) = Cat(From(source, a), From(source, b))
    BY <1>1, <1>2, FromCat
  <2> QED
    BY <2>1, <2>2
<1>8. /\ From("scenario", a) = a /\ From("agent", a) = <<>> /\ From("inbound", a) = <<>>
  <2>1. From("scenario", a) = a
    BY <1>1, FromSame
  <2>2. From("agent", a) = <<>>
    <3>1. a \in Seq(Order) /\ \A i \in 1..Len(a) : a[i].by # "agent"
      BY <1>1
    <3> QED
      BY <3>1, FromOther
  <2>3. From("inbound", a) = <<>>
    <3>1. a \in Seq(Order) /\ \A i \in 1..Len(a) : a[i].by # "inbound"
      BY <1>1
    <3> QED
      BY <3>1, FromOther
  <2> QED
    BY <2>1, <2>2, <2>3
<1>9. /\ From("scenario", b) = <<>> /\ From("agent", b) = b /\ From("inbound", b) = <<>>
  <2>1. From("scenario", b) = <<>>
    <3>1. b \in Seq(Order) /\ \A i \in 1..Len(b) : b[i].by # "scenario"
      BY <1>2
    <3> QED
      BY <3>1, FromOther
  <2>2. From("agent", b) = b
    BY <1>2, FromSame
  <2>3. From("inbound", b) = <<>>
    <3>1. b \in Seq(Order) /\ \A i \in 1..Len(b) : b[i].by # "inbound"
      BY <1>2
    <3> QED
      BY <3>1, FromOther
  <2> QED
    BY <2>1, <2>2, <2>3
<1>10. /\ From("scenario", c) = <<>> /\ From("agent", c) = <<>> /\ From("inbound", c) = c
  <2>1. From("scenario", c) = <<>>
    <3>1. c \in Seq(Order) /\ \A i \in 1..Len(c) : c[i].by # "scenario"
      BY <1>3
    <3> QED
      BY <3>1, FromOther
  <2>2. From("agent", c) = <<>>
    <3>1. c \in Seq(Order) /\ \A i \in 1..Len(c) : c[i].by # "agent"
      BY <1>3
    <3> QED
      BY <3>1, FromOther
  <2>3. From("inbound", c) = c
    BY <1>3, FromSame
  <2> QED
    BY <2>1, <2>2, <2>3
<1>11. /\ Cat(a, <<>>) = a /\ Cat(<<>>, b) = b /\ Cat(b, <<>>) = b /\ Cat(<<>>, c) = c
       /\ Cat(<<>>, <<>>) = <<>>
  <2>1. <<>> \in Seq(Order)
    OBVIOUS
  <2> QED
    BY <1>1, <1>2, <1>3, <2>1, CatEmpty
<1>12. From("scenario", Cat(Cat(a, b), c)) = a
  <2>1. From("scenario", Cat(Cat(a, b), c))
          = Cat(Cat(From("scenario", a), From("scenario", b)), From("scenario", c))
    BY <1>7
  <2>2. @ = Cat(Cat(a, <<>>), <<>>)
    BY <1>8, <1>9, <1>10
  <2>3. @ = Cat(a, <<>>)
    BY <1>11
  <2> QED
    BY <1>11, <2>1, <2>2, <2>3
<1>13. From("agent", Cat(Cat(a, b), c)) = b
  <2>1. From("agent", Cat(Cat(a, b), c))
          = Cat(Cat(From("agent", a), From("agent", b)), From("agent", c))
    BY <1>7
  <2>2. @ = Cat(Cat(<<>>, b), <<>>)
    BY <1>8, <1>9, <1>10
  <2>3. @ = Cat(b, <<>>)
    BY <1>11
  <2> QED
    BY <1>11, <2>1, <2>2, <2>3
<1>14. From("inbound", Cat(Cat(a, b), c)) = c
  <2>1. From("inbound", Cat(Cat(a, b), c))
          = Cat(Cat(From("inbound", a), From("inbound", b)), From("inbound", c))
    BY <1>7
  <2>2. @ = Cat(Cat(<<>>, <<>>), c)
    BY <1>8, <1>9, <1>10
  <2>3. @ = Cat(<<>>, c)
    BY <1>11
  <2> QED
    BY <1>11, <2>1, <2>2, <2>3
<1> QED
  BY <1>4, <1>6, <1>12, <1>13, <1>14 DEF OrdersOf, Scheduled, a, b, c

-------------------------------------------------------------------------------
(***************************************************************************)
(* The orders of a run                                                     *)
(***************************************************************************)

Recording == [at : Int, target : Devices \cup {Ghost}, value : Int, seq : Int]

\* The clock follows the count; what waits is in the order of arrival, after what has
\* been recorded; and the log holds the orders so far.
OrdersInv ==
    /\ live.pending \in Seq(Command)
    /\ live.count \in Nat /\ live.time = live.count * TickMs
    /\ buffer \in Seq(Write) /\ capture \in Seq(Recording)
    /\ \A i \in DOMAIN capture : capture[i].seq = i - 1
    /\ \A i \in DOMAIN buffer : buffer[i].seq = Len(capture) + i - 1
    /\ \A n \in DOMAIN log : log[n].applied \in Seq(Order)
    /\ CommandsExactlyOnce
    /\ AppliedWrites = By("inbound", Sift(capture, Known(capture)))

\* What waits is drained as it is: it lies in the order of arrival.
LEMMA DrainInOrder ==
    ASSUME OrdersInv
    PROVE  Drain = buffer
<1> DEFINE before == {p \in (DOMAIN buffer) \X (DOMAIN buffer) :
                         buffer[p[1]].seq < buffer[p[2]].seq}
<1>1. buffer \in Seq(Write) /\ Len(capture) \in Nat
  BY DEF OrdersInv
<1>2. ASSUME NEW i \in DOMAIN buffer, NEW j \in DOMAIN buffer
      PROVE  <<i, j>> \in before <=> i < j
  <2>1. <<i, j>> \in before <=> buffer[i].seq < buffer[j].seq
    OBVIOUS
  <2>2. buffer[i].seq = Len(capture) + i - 1 /\ buffer[j].seq = Len(capture) + j - 1
    BY DEF OrdersInv
  <2>3. i \in Nat /\ j \in Nat
    BY <1>1
  <2>4. buffer[i].seq < buffer[j].seq <=> i < j
    BY <1>1, <2>2, <2>3
  <2> QED
    BY <2>1, <2>4
<1>3. Drain = Sorted(buffer, before)
  BY DEF Drain
<1> HIDE DEF before
<1> QED
  BY <1>1, <1>2, <1>3, SortedInOrder

\* The commands that are due in a tick are those of its number.
LEMMA DueInTick ==
    ASSUME NEW s, ScenarioOK(s), NEW n \in Nat
    PROVE  DueCommands(s, n * TickMs)
             = Sift(s.commands, {i \in DOMAIN s.commands : s.commands[i].at \div TickMs = n})
<1>1. TickMs \in Nat \ {0}
  BY TickAssumption
<1>2. ASSUME NEW i \in DOMAIN s.commands
      PROVE  (n * TickMs <= s.commands[i].at /\ s.commands[i].at < n * TickMs + TickMs)
               <=> s.commands[i].at \div TickMs = n
  <2> DEFINE x == s.commands[i].at
  <2>1. x \in Int
    <3> DEFINE C == [at : Int, target : Devices, value : Int]
    <3>1. s.commands \in Seq(C)
      BY DEF ScenarioOK
    <3> HIDE DEF C
    <3>2. s.commands[i] \in C
      BY <3>1
    <3> QED
      BY <3>2 DEF C
  <2> HIDE DEF x
  <2>2. (n * TickMs <= x /\ x < (n + 1) * TickMs) <=> x \div TickMs = n
    BY <1>1, <2>1
  <2>3. (n + 1) * TickMs = n * TickMs + TickMs
    BY <1>1
  <2>4. (n * TickMs <= x /\ x < n * TickMs + TickMs) <=> x \div TickMs = n
    BY <2>2, <2>3
  <2> QED
    BY <2>4 DEF x
<1> QED
  BY <1>2 DEF DueCommands

\* What a tick does to the orders.
LEMMA TickOrders ==
    ASSUME NEW s, NEW loop, NEW writes
    PROVE  LET t == Tick(s, loop, writes) IN
           /\ t.loop.pending = AgentCommands(s.agents, loop.count, loop.time + TickMs)
           /\ t.loop.time = loop.time + TickMs /\ t.loop.count = loop.count + 1
           /\ t.result.applied = Applied(s, loop, writes, loop.time + TickMs)
<1> DEFINE now == loop.time + TickMs
           commands == Applied(s, loop, writes, now)
           setpoint == SetPoints(loop.setpoint, commands)
           faults == ApplyFaults(s.faults, loop, now)
           power == [d \in Devices |-> Power(setpoint[d], faults.faulty[d])]
           quality == QualityStage(s, loop, power, now)
           pending == AgentCommands(s.agents, loop.count, now)
           t == Tick(s, loop, writes)
<1>1. t = [loop |-> [time |-> now, count |-> loop.count + 1, pending |-> pending,
                     setpoint |-> setpoint, faulty |-> faults.faulty,
                     active |-> faults.active, recover |-> faults.recover,
                     alarmed |-> quality.alarmed, cache |-> quality.cache],
           result |-> TickResult(loop, now, quality, commands, power)]
  BY DEF Tick
<1> HIDE DEF commands, setpoint, faults, power, quality, pending, t
<1>2. t.result.applied = commands
  BY <1>1 DEF TickResult
<1>3. t.loop.pending = pending /\ t.loop.time = now /\ t.loop.count = loop.count + 1
  BY <1>1
<1> QED
  BY <1>2, <1>3 DEF t, pending, commands

\* The inbound writes of a longer log: those of the last tick come last.
LEMMA AppliedLonger ==
    ASSUME NEW S, log \in Seq(S), NEW r, log' = Append(log, r),
           \A n \in DOMAIN log : log[n].applied \in Seq(Order), r.applied \in Seq(Order)
    PROVE  AppliedWrites' = Cat(AppliedWrites, From("inbound", r.applied))
<1> DEFINE Part(x) == From("inbound", x.applied)
           parts == [n \in DOMAIN log |-> Part(log[n])]
           longer == [n \in DOMAIN log' |-> Part(log'[n])]
           more == Append(parts, Part(r))
<1>1. /\ DOMAIN log = 1..Len(log) /\ Len(log) \in Nat
      /\ DOMAIN log' = 1..(Len(log) + 1)
      /\ \A i \in DOMAIN log : log'[i] = log[i]
      /\ log'[Len(log) + 1] = r
  <2>1. /\ DOMAIN log' = DOMAIN log \cup {Len(log) + 1}
        /\ \A i \in DOMAIN log : log'[i] = log[i]
        /\ log'[Len(log) + 1] = r
    BY Appended
  <2> QED
    BY <2>1
<1>2. ASSUME NEW x, x \in Seq(Order) PROVE From("inbound", x) \in Seq(Order)
  <2>1. \A i \in {k \in DOMAIN x : x[k].by = "inbound"} \cap DOMAIN x : x[i] \in Order
    BY <1>2
  <2> DEFINE I == {k \in DOMAIN x : x[k].by = "inbound"}
  <2> HIDE DEF I
  <2>2. Sift(x, I) \in Seq(Order)
    BY <1>2, <2>1, SiftIn DEF I
  <2> QED
    BY <2>2 DEF I, From
<1>3. parts \in Seq(Seq(Order)) /\ Len(parts) = Len(log) /\ DOMAIN parts = DOMAIN log
  <2>1. parts \in [1..Len(log) -> Seq(Order)]
    BY <1>1, <1>2
  <2>2. DOMAIN parts = DOMAIN log
    OBVIOUS
  <2> HIDE DEF parts
  <2> QED
    BY <1>1, <2>1, <2>2
<1>4. Part(r) \in Seq(Order)
  BY <1>2
<1>5. longer \in Seq(Seq(Order)) /\ Len(longer) = Len(log) + 1
  <2> DEFINE n == Len(log) + 1
  <2>1. \A i \in 1..n : Part(log'[i]) \in Seq(Order)
    BY <1>1, <1>2
  <2>2. n \in Nat /\ DOMAIN log' = 1..n
    BY <1>1
  <2> HIDE DEF n, Part
  <2>3. longer \in [1..n -> Seq(Order)]
    BY <2>1, <2>2
  <2> HIDE DEF longer
  <2>4. longer \in Seq(Seq(Order)) /\ Len(longer) = n
    BY <2>2, <2>3
  <2> QED
    BY <2>4 DEF n
<1>6. /\ more \in Seq(Seq(Order)) /\ Len(more) = Len(log) + 1
      /\ \A i \in DOMAIN log : more[i] = parts[i]
      /\ more[Len(log) + 1] = Part(r)
  <2> HIDE DEF parts, Part
  <2>1. /\ Append(parts, Part(r)) \in Seq(Seq(Order) \cup {Part(r)})
        /\ Len(Append(parts, Part(r))) = Len(parts) + 1
        /\ \A i \in DOMAIN parts : Append(parts, Part(r))[i] = parts[i]
        /\ Append(parts, Part(r))[Len(parts) + 1] = Part(r)
    BY <1>3, Appended
  <2>2. more \in Seq(Seq(Order))
    BY <1>3, <1>4
  <2> QED
    BY <1>3, <2>1, <2>2
<1>7. \A i \in 1..Len(longer) : longer[i] = more[i]
  <2> SUFFICES ASSUME NEW i \in 1..Len(longer) PROVE longer[i] = more[i]
    OBVIOUS
  <2>1. i \in DOMAIN log' /\ (i \in DOMAIN log \/ i = Len(log) + 1)
    BY <1>1, <1>5
  <2>2. longer[i] = Part(log'[i])
    BY <2>1
  <2> HIDE DEF longer, more
  <2>3. CASE i \in DOMAIN log
    <3>1. parts[i] = Part(log[i])
      BY <2>3
    <3> HIDE DEF parts, Part
    <3> QED
      BY <1>1, <1>6, <2>2, <2>3, <3>1
  <2>4. CASE i = Len(log) + 1
    <3> HIDE DEF parts, Part
    <3> QED
      BY <1>1, <1>6, <2>2, <2>4
  <2> QED
    BY <2>1, <2>3, <2>4
<1>8. longer = more
  <2> HIDE DEF longer, more
  <2> QED
    BY <1>5, <1>6, <1>7, SameList
<1>9. AppliedWrites = FlattenSeq(parts) /\ AppliedWrites' = FlattenSeq(longer)
  BY DEF AppliedWrites
<1>10. FlattenSeq(more) = Cat(FlattenSeq(parts), Part(r))
  <2> HIDE DEF parts, Part
  <2> QED
    BY <1>3, <1>4, FlattenAppend
<1> QED
  BY <1>8, <1>9, <1>10

\* What a tick records of the writes it drains: the inbound orders it applies.
LEMMA NewRecordings ==
    ASSUME OrdersInv, NEW new, new = [i \in DOMAIN buffer |-> Resolved(buffer[i], live.time)]
    PROVE  /\ new \in Seq(Recording) /\ Len(new) = Len(buffer) /\ DOMAIN new = DOMAIN buffer
           /\ \A i \in DOMAIN buffer :
                 new[i].seq = buffer[i].seq /\ new[i].target = buffer[i].target
           /\ By("inbound", Sift(new, Known(new))) = By("inbound", Sift(buffer, Known(buffer)))
<1>1. buffer \in Seq(Write) /\ live.time \in Int /\ TickMs \in Int
  BY TickAssumption DEF OrdersInv
<1>2. ASSUME NEW i \in DOMAIN buffer
      PROVE  /\ new[i] \in Recording /\ new[i].seq = buffer[i].seq
             /\ new[i].target = buffer[i].target /\ new[i].value = buffer[i].value
  <2>1. new[i] = [at |-> live.time + TickMs, target |-> buffer[i].target,
                  value |-> buffer[i].value, seq |-> buffer[i].seq]
    BY DEF Resolved
  <2>2. buffer[i] \in Write /\ live.time + TickMs \in Int
    BY <1>1
  <2>3. /\ buffer[i].target \in Devices \cup {Ghost} /\ buffer[i].value \in Int
        /\ buffer[i].seq \in Int
    BY <2>2 DEF Write
  <2>4. new[i] \in Recording
    BY <2>1, <2>2, <2>3 DEF Recording
  <2> QED
    BY <2>1, <2>4
<1>3. new \in Seq(Recording) /\ Len(new) = Len(buffer) /\ DOMAIN new = DOMAIN buffer
  <2>1. new \in [1..Len(buffer) -> Recording]
    BY <1>1, <1>2
  <2> QED
    BY <1>1, <2>1
<1>4. Known(new) = Known(buffer)
  BY <1>2, <1>3 DEF Known
<1>5. \A i \in 1..Len(buffer) : Marked("inbound", new[i]) = Marked("inbound", buffer[i])
  BY <1>1, <1>2 DEF Marked
<1>6. By("inbound", Sift(new, Known(new))) = By("inbound", Sift(buffer, Known(new)))
  BY <1>1, <1>3, <1>5, BySift
<1> QED
  BY <1>2, <1>3, <1>4, <1>6

\* The orders of what is recorded now come after those of what was recorded before.
LEMMA RecordedLonger ==
    ASSUME NEW old \in Seq(Recording), NEW new \in Seq(Recording)
    PROVE  By("inbound", Sift(Cat(old, new), Known(Cat(old, new))))
             = Cat(By("inbound", Sift(old, Known(old))), By("inbound", Sift(new, Known(new))))
<1> DEFINE all == Cat(old, new)
           I == Known(all)
           J == Known(old)
           K == Known(new)
<1>1. /\ all \in Seq(Recording) /\ Len(all) = Len(old) + Len(new)
      /\ \A i \in 1..Len(old) : all[i] = old[i]
      /\ \A i \in 1..Len(new) : all[Len(old) + i] = new[i]
  <2>1. IsCat(Recording, old, new, Cat(old, new))
    BY CatTyped
  <2> QED
    BY <2>1 DEF IsCat
<1>2. /\ DOMAIN old = 1..Len(old) /\ Len(old) \in Nat
      /\ DOMAIN new = 1..Len(new) /\ Len(new) \in Nat
      /\ DOMAIN all = 1..(Len(old) + Len(new))
  <2>1. DOMAIN all = 1..Len(all)
    <3> HIDE DEF all
    <3> QED
      BY <1>1
  <2> QED
    BY <1>1, <2>1
<1> HIDE DEF all
<1>3. \A i \in DOMAIN old : i \in I <=> i \in J
  <2> SUFFICES ASSUME NEW i \in DOMAIN old PROVE i \in I <=> i \in J
    OBVIOUS
  <2>1. i \in DOMAIN all /\ all[i] = old[i]
    BY <1>1, <1>2
  <2> QED
    BY <2>1 DEF Known
<1>4. \A i \in DOMAIN new : Len(old) + i \in I <=> i \in K
  <2> SUFFICES ASSUME NEW i \in DOMAIN new PROVE Len(old) + i \in I <=> i \in K
    OBVIOUS
  <2>1. Len(old) + i \in DOMAIN all /\ all[Len(old) + i] = new[i]
    BY <1>1, <1>2
  <2> QED
    BY <2>1 DEF Known
<1> HIDE DEF I, J, K
<1>5. Sift(Cat(old, new), I) = Cat(Sift(old, J), Sift(new, K))
  BY <1>3, <1>4, SiftConcat
<1>6. Sift(old, J) \in Seq(Recording) /\ Sift(new, K) \in Seq(Recording)
  <2>1. \A i \in J \cap DOMAIN old : old[i] \in Recording
    OBVIOUS
  <2>2. \A i \in K \cap DOMAIN new : new[i] \in Recording
    OBVIOUS
  <2>3. Sift(old, J) \in Seq(Recording)
    BY <2>1, SiftIn
  <2>4. Sift(new, K) \in Seq(Recording)
    BY <2>2, SiftIn
  <2> QED
    BY <2>3, <2>4
<1>7. By("inbound", Cat(Sift(old, J), Sift(new, K)))
        = Cat(By("inbound", Sift(old, J)), By("inbound", Sift(new, K)))
  BY <1>6, ByCat
<1> QED
  BY <1>5, <1>7 DEF I, J, K, all

\* A tick keeps the orders as they should be.
LEMMA OrdersKept ==
    ASSUME TimeInv, OrdersInv, LiveTick
    PROVE  OrdersInv'
<1> DEFINE t == Tick(scenario, live, Drain)
           r == t.result
           now == live.time + TickMs
           new == [i \in DOMAIN buffer |-> Resolved(Drain[i], live.time)]
           n == Len(log) + 1
<1>1. /\ live' = t.loop /\ log' = Append(log, r) /\ scenario' = scenario /\ buffer' = <<>>
      /\ capture' = Cat(capture, new)
  BY DEF LiveTick, Cat
<1>2. Drain = buffer
  BY DrainInOrder
<1>3. /\ t.loop.pending = AgentCommands(scenario.agents, live.count, now)
      /\ t.loop.time = now /\ t.loop.count = live.count + 1
      /\ r.applied = Applied(scenario, live, buffer, now)
  BY <1>2, TickOrders
<1>4. new = [i \in DOMAIN buffer |-> Resolved(buffer[i], live.time)]
  BY <1>2
<1> HIDE DEF t, r, new
<1>5. ScenarioOK(scenario)
  BY ScenarioAssumption DEF TimeInv
<1>6. OrdersOf(scenario, live, buffer, now, r.applied)
  <2>1. live.pending \in Seq(Command) /\ buffer \in Seq(Write) /\ Write \subseteq Write
    BY DEF OrdersInv
  <2> QED
    BY <1>3, <1>5, <2>1, AppliedParts
<1>7. PICK S : log \in Seq(S)
  BY DEF TimeInv
<1>8. /\ DOMAIN log' = DOMAIN log \cup {n} /\ n \notin DOMAIN log
      /\ \A i \in DOMAIN log : log'[i] = log[i]
      /\ log'[n] = r
  <2>1. n \notin DOMAIN log
    BY <1>7
  <2> QED
    BY <1>1, <1>7, <2>1, Appended
<1>9. r.applied \in Seq(Order) /\ \A i \in DOMAIN log : log[i].applied \in Seq(Order)
  BY <1>6 DEF OrdersOf, OrdersInv
<1>10. (\A i \in DOMAIN log : log[i].applied \in Seq(Order))'
  BY <1>8, <1>9
<1>11. live.count = Len(log) /\ n \in Nat /\ now = n * TickMs
  <2>1. live.count = Len(log) /\ live.count \in Nat /\ live.time = live.count * TickMs
    BY DEF TimeInv, OrdersInv
  <2> QED
    BY <2>1, TickAssumption
<1>12. CommandsExactlyOnce'
  <2> DEFINE Due(k) == {i \in DOMAIN scenario.commands : scenario.commands[i].at \div TickMs = k}
  <2>1. From("scenario", r.applied) = By("scenario", Sift(scenario.commands, Due(n)))
    <3>1. From("scenario", r.applied) = By("scenario", DueCommands(scenario, now))
      BY <1>6 DEF OrdersOf, Scheduled
    <3> HIDE DEF n, now
    <3>2. DueCommands(scenario, n * TickMs) = Sift(scenario.commands, Due(n))
      BY <1>5, <1>11, DueInTick
    <3> QED
      BY <1>11, <3>1, <3>2
  <2>2. \A k \in DOMAIN log :
           From("scenario", log[k].applied) = By("scenario", Sift(scenario.commands, Due(k)))
    BY DEF OrdersInv, CommandsExactlyOnce
  <2> HIDE DEF Due
  <2>3. \A k \in DOMAIN log' :
           From("scenario", log'[k].applied) = By("scenario", Sift(scenario.commands, Due(k)))
    BY <1>8, <2>1, <2>2
  <2> QED
    BY <1>1, <2>3 DEF CommandsExactlyOnce, Due
<1>13. /\ new \in Seq(Recording) /\ Len(new) = Len(buffer) /\ DOMAIN new = DOMAIN buffer
       /\ \A i \in DOMAIN buffer : new[i].seq = buffer[i].seq
       /\ By("inbound", Sift(new, Known(new))) = By("inbound", Sift(buffer, Known(buffer)))
  BY <1>4, NewRecordings
<1>14. capture \in Seq(Recording) /\ IsCat(Recording, capture, new, Cat(capture, new))
  BY <1>13, CatTyped DEF OrdersInv
<1>15. AppliedWrites' = By("inbound", Sift(capture', Known(capture')))
  <2>1. AppliedWrites' = Cat(AppliedWrites, From("inbound", r.applied))
    BY <1>1, <1>7, <1>9, AppliedLonger
  <2>2. From("inbound", r.applied) = By("inbound", Sift(buffer, Known(buffer)))
    BY <1>6 DEF OrdersOf
  <2>3. AppliedWrites = By("inbound", Sift(capture, Known(capture)))
    BY DEF OrdersInv
  <2>4. By("inbound", Sift(Cat(capture, new), Known(Cat(capture, new))))
          = Cat(By("inbound", Sift(capture, Known(capture))),
                By("inbound", Sift(new, Known(new))))
    BY <1>13, <1>14, RecordedLonger
  <2> QED
    BY <1>1, <1>13, <2>1, <2>2, <2>3, <2>4
<1>16. (\A i \in DOMAIN capture : capture[i].seq = i - 1)'
  <2>1. /\ Len(capture) \in Nat /\ DOMAIN capture = 1..Len(capture)
        /\ Len(buffer) \in Nat /\ DOMAIN buffer = 1..Len(buffer)
    BY DEF OrdersInv
  <2>2. /\ DOMAIN capture' = 1..(Len(capture) + Len(buffer))
        /\ \A i \in 1..Len(capture) : capture'[i] = capture[i]
        /\ \A i \in 1..Len(buffer) : capture'[Len(capture) + i] = new[i]
    <3>1. /\ capture' \in Seq(Recording) /\ Len(capture') = Len(capture) + Len(new)
          /\ \A i \in 1..Len(capture) : capture'[i] = capture[i]
          /\ \A i \in 1..Len(new) : capture'[Len(capture) + i] = new[i]
      BY <1>1, <1>14 DEF IsCat
    <3>2. DOMAIN capture' = 1..Len(capture')
      BY <3>1
    <3> QED
      BY <1>13, <3>1, <3>2
  <2>3. ASSUME NEW i \in DOMAIN capture' PROVE capture'[i].seq = i - 1
    <3>1. CASE i \in 1..Len(capture)
      BY <2>1, <2>2, <3>1 DEF OrdersInv
    <3>2. CASE i \notin 1..Len(capture)
      <4> DEFINE j == i - Len(capture)
      <4>1. j \in 1..Len(buffer) /\ Len(capture) + j = i
        BY <2>1, <2>2, <3>2
      <4> HIDE DEF j
      <4>2. capture'[i] = new[j] /\ new[j].seq = buffer[j].seq
        BY <1>13, <2>1, <2>2, <4>1
      <4>3. buffer[j].seq = Len(capture) + j - 1
        BY <2>1, <4>1 DEF OrdersInv
      <4> QED
        BY <4>1, <4>2, <4>3
    <3> QED
      BY <3>1, <3>2
  <2> QED
    BY <2>3
<1>17. live'.pending \in Seq(Command)
  <2>1. scenario.agents \in Seq(Agent)
    BY <1>5 DEF ScenarioOK, Agent
  <2> QED
    BY <1>1, <1>3, <2>1, AgentsTyped
<1>18. live'.count \in Nat /\ live'.time = live'.count * TickMs
  BY <1>1, <1>3, <1>11
<1>19. buffer' \in Seq(Write) /\ capture' \in Seq(Recording)
       /\ (\A i \in DOMAIN buffer : buffer[i].seq = Len(capture) + i - 1)'
  <2>1. buffer' \in Seq(Write) /\ DOMAIN buffer' = {}
    BY <1>1
  <2>2. capture' \in Seq(Recording)
    BY <1>1, <1>14 DEF IsCat
  <2> QED
    BY <2>1, <2>2
<1> QED
  BY <1>10, <1>12, <1>15, <1>16, <1>17, <1>18, <1>19 DEF OrdersInv

\* A write that arrives waits behind the others.
LEMMA EnqueueKeeps ==
    ASSUME OrdersInv, NEW w \in Writes, Enqueue(w[1], w[2])
    PROVE  OrdersInv'
<1> DEFINE x == [target |-> w[1], value |-> w[2], seq |-> Arrived]
<1>1. buffer' = Append(buffer, x) /\ UNCHANGED <<scenario, live, capture, log>>
  BY DEF Enqueue
<1>2. buffer \in Seq(Write) /\ capture \in Seq(Recording)
  BY DEF OrdersInv
<1>3. /\ Len(capture) \in Nat /\ Len(buffer) \in Nat /\ Arrived = Len(capture) + Len(buffer)
      /\ DOMAIN buffer = 1..Len(buffer)
  BY <1>2 DEF Arrived
<1>4. w[1] \in Devices \cup {Ghost} /\ w[2] \in Int
  BY GhostAssumption
<1>5. x \in Write /\ x.seq = Len(capture) + Len(buffer)
  <2>1. Arrived \in Int
    BY <1>3
  <2> QED
    BY <1>3, <1>4, <2>1 DEF Write
<1> HIDE DEF x
<1>6. /\ buffer' \in Seq(Write) /\ DOMAIN buffer' = DOMAIN buffer \cup {Len(buffer) + 1}
      /\ \A i \in DOMAIN buffer : buffer'[i] = buffer[i]
      /\ buffer'[Len(buffer) + 1] = x
  <2>1. Append(buffer, x) \in Seq(Write)
    BY <1>2, <1>5
  <2> QED
    BY <1>1, <1>2, <2>1, Appended
<1>7. (\A i \in DOMAIN buffer : buffer[i].seq = Len(capture) + i - 1)'
  <2>1. ASSUME NEW i \in DOMAIN buffer' PROVE buffer'[i].seq = Len(capture) + i - 1
    <3>1. CASE i \in DOMAIN buffer
      BY <1>6, <3>1 DEF OrdersInv
    <3>2. CASE i = Len(buffer) + 1
      BY <1>3, <1>5, <1>6, <3>2
    <3> QED
      BY <1>6, <3>1, <3>2
  <2> QED
    BY <1>1, <2>1
<1> QED
  BY <1>1, <1>6, <1>7 DEF OrdersInv, CommandsExactlyOnce, AppliedWrites

\* The orders of every reachable state.
LEMMA OrdersInvEver == Spec => []OrdersInv
<1>1. Init => OrdersInv
  <2> SUFFICES ASSUME Init PROVE OrdersInv
    OBVIOUS
  <2>1. live.pending = <<>> /\ live.count = 0 /\ live.time = 0
    BY DEF Init, InitLoop
  <2>2. buffer = <<>> /\ capture = <<>> /\ log = <<>>
    BY DEF Init
  <2>3. DOMAIN log = {} /\ DOMAIN capture = {} /\ DOMAIN buffer = {}
    BY <2>2
  <2>4. AppliedWrites = <<>>
    <3> DEFINE parts == [n \in DOMAIN log |-> From("inbound", log[n].applied)]
    <3>1. parts = <<>>
      BY <2>3
    <3>2. FlattenSeq(<<>>) = <<>>
      BY DEF FlattenSeq
    <3> QED
      BY <3>1, <3>2 DEF AppliedWrites
  <2>5. By("inbound", Sift(capture, Known(capture))) = <<>>
    <3>1. capture \in Seq(Recording) /\ \A i \in DOMAIN capture : i \notin Known(capture)
      BY <2>2, <2>3
    <3>2. Sift(capture, Known(capture)) = <<>>
      BY <3>1, SiftNone
    <3> QED
      BY <3>2 DEF By
  <2>6. live.pending \in Seq(Command) /\ buffer \in Seq(Write) /\ capture \in Seq(Recording)
    BY <2>1, <2>2
  <2>7. 0 = 0 * TickMs
    BY TickAssumption
  <2> QED
    BY <2>1, <2>3, <2>4, <2>5, <2>6, <2>7 DEF OrdersInv, CommandsExactlyOnce
<1>2. TimeInv /\ OrdersInv /\ [Next]_vars => OrdersInv'
  <2> SUFFICES ASSUME TimeInv, OrdersInv, [Next]_vars PROVE OrdersInv'
    OBVIOUS
  <2>1. ASSUME live.pending' = live.pending, live.count' = live.count, live.time' = live.time,
               UNCHANGED <<scenario, buffer, capture, log>>
        PROVE  OrdersInv'
    BY <2>1 DEF OrdersInv, CommandsExactlyOnce, AppliedWrites
  <2>2. CASE \E w \in Writes : Enqueue(w[1], w[2])
    BY <2>2, EnqueueKeeps
  <2>3. CASE \E i \in DOMAIN scenario.faults : Recover(i)
    <3>1. PICK i \in DOMAIN scenario.faults : Recover(i)
      BY <2>3
    <3>2. /\ live.pending' = live.pending /\ live.count' = live.count
          /\ live.time' = live.time
          /\ UNCHANGED <<scenario, buffer, capture, log>>
      BY <3>1 DEF Recover, TimeInv, LoopFields
    <3> QED
      BY <2>1, <3>2
  <2>4. CASE LiveTick
    BY <2>4, OrdersKept
  <2>5. CASE Snapshot
    BY <2>1, <2>5 DEF Snapshot
  <2>6. CASE UNCHANGED vars
    BY <2>1, <2>6 DEF vars
  <2> QED
    BY <2>2, <2>3, <2>4, <2>5, <2>6 DEF Next
<1> QED
  BY <1>1, <1>2, EngineEver, PTL DEF Spec

\* A command is applied in the tick of its time and in no other; every write that arrives is
\* recorded once, in the order of arrival, and is applied as it was recorded.
THEOREM OrdersEver == Spec => []OrdersAreApplied
<1>1. OrdersInv => OrdersAreApplied
  <2> SUFFICES ASSUME OrdersInv PROVE OrdersAreApplied
    OBVIOUS
  <2> DEFINE all == Cat(capture, buffer)
  <2>1. /\ DOMAIN all = 1..(Len(capture) + Len(buffer))
        /\ Len(capture) \in Nat /\ DOMAIN capture = 1..Len(capture)
        /\ Len(buffer) \in Nat /\ DOMAIN buffer = 1..Len(buffer)
        /\ \A i \in 1..Len(capture) : all[i] = capture[i]
        /\ \A i \in 1..Len(buffer) : all[Len(capture) + i] = buffer[i]
    <3> DEFINE S == Recording \cup Write
    <3>1. capture \in Seq(S) /\ buffer \in Seq(S)
      BY DEF OrdersInv
    <3> HIDE DEF S
    <3>2. IsCat(S, capture, buffer, all)
      BY <3>1, CatTyped
    <3> HIDE DEF all
    <3> QED
      BY <3>1, <3>2 DEF IsCat
  <2>2. ASSUME NEW i \in DOMAIN all PROVE all[i].seq = i - 1
    <3> HIDE DEF all
    <3>1. CASE i \in 1..Len(capture)
      BY <2>1, <3>1 DEF OrdersInv
    <3>2. CASE i \notin 1..Len(capture)
      <4> DEFINE j == i - Len(capture)
      <4>1. j \in 1..Len(buffer) /\ Len(capture) + j = i
        BY <2>1, <3>2
      <4> HIDE DEF j
      <4>2. all[i] = buffer[j] /\ buffer[j].seq = Len(capture) + j - 1
        BY <2>1, <4>1 DEF OrdersInv
      <4> QED
        BY <4>1, <4>2
    <3> QED
      BY <3>1, <3>2
  <2>3. WritesInArrivalOrder
    BY <2>2 DEF OrdersInv, WritesInArrivalOrder, Known, Cat
  <2>4. CommandsExactlyOnce
    BY DEF OrdersInv
  <2> QED
    BY <2>3, <2>4 DEF OrdersAreApplied
<1> QED
  BY <1>1, OrdersInvEver, PTL

-------------------------------------------------------------------------------
-------------------------------------------------------------------------------
(***************************************************************************)
(* Loops that play                                                         *)
(***************************************************************************)

First(loop) == [loop |-> loop, log |-> <<>>]

\* The loops of the first n ticks.
Plays(s, loop, n, u) ==
    u = [k \in 0..n |-> IF k = 0 THEN First(loop) ELSE PlayTick(s, u[k - 1])]

PlayOf(s, loop, n, u) ==
    /\ u[0] = First(loop)
    /\ \A k \in 1..n : u[k] = PlayTick(s, u[k - 1])
    /\ Play(s, loop, n) = u[n]

\* The recursive function has the values it is written with.
LEMMA PlayUnfolds ==
    ASSUME NEW s, NEW loop, NEW n \in Nat
    PROVE  \E u : PlayOf(s, loop, n, u)
<1> DEFINE S == {k \in 0..n : \E u : Plays(s, loop, k, u)}
<1>1. 0 \in S
  <2> DEFINE u == [i \in 0..0 |-> First(loop)]
  <2>1. Plays(s, loop, 0, u)
    BY DEF Plays
  <2> QED
    BY <2>1
<1>2. ASSUME NEW k \in 0..(n - 1), k \in S PROVE k + 1 \in S
  <2>1. PICK u : Plays(s, loop, k, u)
    BY <1>2
  <2> DEFINE w == [i \in 0..(k + 1) |-> IF i = k + 1 THEN PlayTick(s, u[k]) ELSE u[i]]
  <2>2. ASSUME NEW i \in 0..(k + 1)
        PROVE  w[i] = IF i = 0 THEN First(loop) ELSE PlayTick(s, w[i - 1])
    <3>1. CASE i = k + 1
      BY <3>1
    <3>2. CASE i # k + 1
      <4>1. w[i] = u[i] /\ i \in 0..k /\ (i # 0 => w[i - 1] = u[i - 1])
        BY <3>2
      <4>2. u[i] = IF i = 0 THEN First(loop) ELSE PlayTick(s, u[i - 1])
        BY <2>1, <4>1 DEF Plays
      <4> HIDE DEF w
      <4> QED
        BY <4>1, <4>2
    <3> QED
      BY <3>1, <3>2
  <2>3. Plays(s, loop, k + 1, w)
    BY <2>2 DEF Plays
  <2> HIDE DEF w
  <2> QED
    BY <2>3
<1>3. \E u : Plays(s, loop, n, u)
  <2>1. 0..n \subseteq S
    <3> HIDE DEF S
    <3> QED
      BY <1>1, <1>2, UpTo
  <2> QED
    BY <2>1
<1> DEFINE upTo == CHOOSE u :
              u = [k \in 0..n |->
                      IF k = 0 THEN [loop |-> loop, log |-> <<>>] ELSE PlayTick(s, u[k - 1])]
<1>4. Plays(s, loop, n, upTo)
  BY <1>3 DEF Plays, First
<1>5. Play(s, loop, n) = upTo[n]
  BY DEF Play
<1> HIDE DEF upTo
<1>6. upTo[0] = First(loop)
  BY <1>4 DEF Plays
<1>7. ASSUME NEW k \in 1..n PROVE upTo[k] = PlayTick(s, upTo[k - 1])
  <2>1. k \in 0..n /\ k # 0
    OBVIOUS
  <2> QED
    BY <1>4, <2>1 DEF Plays
<1> QED
  BY <1>5, <1>6, <1>7 DEF PlayOf

\* One tick more is a tick of what has been played so far.
LEMMA PlaySteps ==
    ASSUME NEW s, NEW loop, NEW n \in Nat
    PROVE  /\ Play(s, loop, 0) = First(loop)
           /\ Play(s, loop, n + 1) = PlayTick(s, Play(s, loop, n))
<1>1. PICK u : PlayOf(s, loop, 0, u)
  BY PlayUnfolds
<1>2. PICK v : PlayOf(s, loop, n, v)
  BY PlayUnfolds
<1>3. n + 1 \in Nat
  OBVIOUS
<1>4. PICK w : PlayOf(s, loop, n + 1, w)
  BY <1>3, PlayUnfolds
<1> DEFINE S == {k \in 0..n : v[k] = w[k]}
<1>5. 0 \in S
  BY <1>2, <1>4 DEF PlayOf
<1>6. ASSUME NEW k \in 0..(n - 1), k \in S PROVE k + 1 \in S
  <2> DEFINE i == k + 1
  <2>1. i \in 1..n /\ i \in 1..(n + 1) /\ i - 1 = k
    OBVIOUS
  <2> HIDE DEF i
  <2>2. v[i] = PlayTick(s, v[k]) /\ w[i] = PlayTick(s, w[k])
    BY <1>2, <1>4, <2>1 DEF PlayOf
  <2>3. v[i] = w[i]
    BY <1>6, <2>2
  <2> QED
    BY <2>1, <2>3 DEF i
<1>7. v[n] = w[n]
  <2>1. 0..n \subseteq S
    <3> HIDE DEF S
    <3> QED
      BY <1>5, <1>6, UpTo
  <2> QED
    BY <2>1
<1>8. n + 1 \in 1..(n + 1) /\ (n + 1) - 1 = n
  OBVIOUS
<1>9. w[n + 1] = PlayTick(s, w[n])
  BY <1>4, <1>8 DEF PlayOf
<1>10. Play(s, loop, n + 1) = w[n + 1] /\ Play(s, loop, n) = v[n]
  BY <1>2, <1>4 DEF PlayOf
<1>11. Play(s, loop, 0) = First(loop)
  BY <1>1 DEF PlayOf
<1> QED
  BY <1>7, <1>9, <1>10, <1>11

\* What the rules say is what the sequence of loops is, whichever commands it had.
LEMMA PlaySame ==
    ASSUME NEW s, NEW r, NEW loop, NEW n \in Nat,
           \A k \in 0..(n - 1) : PlayTick(s, Play(s, loop, k)) = PlayTick(r, Play(s, loop, k))
    PROVE  Play(s, loop, n) = Play(r, loop, n)
<1> DEFINE S == {k \in 0..n : Play(s, loop, k) = Play(r, loop, k)}
<1>1. 0 \in S
  <2>1. Play(s, loop, 0) = First(loop)
    BY PlaySteps
  <2>2. Play(r, loop, 0) = First(loop)
    BY PlaySteps
  <2> QED
    BY <2>1, <2>2
<1>2. ASSUME NEW k \in 0..(n - 1), k \in S PROVE k + 1 \in S
  <2>1. k \in Nat /\ k + 1 \in 0..n
    OBVIOUS
  <2>2. Play(s, loop, k + 1) = PlayTick(s, Play(s, loop, k))
    BY <2>1, PlaySteps
  <2>3. Play(r, loop, k + 1) = PlayTick(r, Play(r, loop, k))
    BY <2>1, PlaySteps
  <2>4. Play(s, loop, k) = Play(r, loop, k)
    BY <1>2
  <2>5. PlayTick(s, Play(s, loop, k)) = PlayTick(r, Play(s, loop, k))
    OBVIOUS
  <2>6. Play(s, loop, k + 1) = Play(r, loop, k + 1)
    BY <2>2, <2>3, <2>4, <2>5
  <2> QED
    BY <2>1, <2>6
<1>3. 0..n \subseteq S
  <2> HIDE DEF S
  <2> QED
    BY <1>1, <1>2, UpTo
<1> QED
  BY <1>3
-------------------------------------------------------------------------------
(***************************************************************************)
(* What orders do to the set points                                        *)
(***************************************************************************)

\* The set points after one order.
Ordered(setpoint, c) == [setpoint EXCEPT ![c.target] = Clamp(c.value)]

\* The set points after the first n orders.
Orderings(setpoint, q, n, u) ==
    u = [k \in 0..n |-> IF k = 0 THEN setpoint ELSE Ordered(u[k - 1], q[k])]

SetOf(setpoint, q, u) ==
    /\ u[0] = setpoint
    /\ \A k \in 1..Len(q) : u[k] = Ordered(u[k - 1], q[k])
    /\ SetPoints(setpoint, q) = u[Len(q)]

\* The recursive function has the values it is written with.
LEMMA SetUnfolds ==
    ASSUME NEW setpoint, NEW S, NEW q \in Seq(S)
    PROVE  \E u : SetOf(setpoint, q, u)
<1> DEFINE n == Len(q)
           S0 == {k \in 0..n : \E u : Orderings(setpoint, q, k, u)}
<1>0. n \in Nat
  OBVIOUS
<1> HIDE DEF n
<1>1. 0 \in S0
  <2> DEFINE u == [i \in 0..0 |-> setpoint]
  <2>1. Orderings(setpoint, q, 0, u)
    BY DEF Orderings
  <2> QED
    BY <1>0, <2>1
<1>2. ASSUME NEW k \in 0..(n - 1), k \in S0 PROVE k + 1 \in S0
  <2>1. PICK u : Orderings(setpoint, q, k, u)
    BY <1>2
  <2> DEFINE w == [i \in 0..(k + 1) |-> IF i = k + 1 THEN Ordered(u[k], q[k + 1]) ELSE u[i]]
  <2>2. ASSUME NEW i \in 0..(k + 1)
        PROVE  w[i] = IF i = 0 THEN setpoint ELSE Ordered(w[i - 1], q[i])
    <3>1. CASE i = k + 1
      BY <1>0, <3>1
    <3>2. CASE i # k + 1
      <4>1. w[i] = u[i] /\ i \in 0..k /\ (i # 0 => w[i - 1] = u[i - 1])
        BY <1>0, <3>2
      <4>2. u[i] = IF i = 0 THEN setpoint ELSE Ordered(u[i - 1], q[i])
        BY <2>1, <4>1 DEF Orderings
      <4> HIDE DEF w
      <4> QED
        BY <4>1, <4>2
    <3> QED
      BY <3>1, <3>2
  <2>3. Orderings(setpoint, q, k + 1, w)
    BY <2>2 DEF Orderings
  <2>4. k + 1 \in 0..n
    BY <1>0
  <2> HIDE DEF w
  <2> QED
    BY <2>3, <2>4
<1>3. \E u : Orderings(setpoint, q, n, u)
  <2>1. 0..n \subseteq S0
    <3> HIDE DEF S0
    <3> QED
      BY <1>0, <1>1, <1>2, UpTo
  <2> QED
    BY <1>0, <2>1
<1> DEFINE upTo == CHOOSE u :
              u = [k \in 0..n |->
                      IF k = 0 THEN setpoint
                      ELSE [u[k - 1] EXCEPT ![q[k].target] = Clamp(q[k].value)]]
<1>4. Orderings(setpoint, q, n, upTo)
  BY <1>3 DEF Orderings, Ordered
<1>5. SetPoints(setpoint, q) = upTo[n]
  BY DEF SetPoints, n
<1> HIDE DEF upTo
<1>6. upTo[0] = setpoint
  BY <1>0, <1>4 DEF Orderings
<1>7. ASSUME NEW k \in 1..n PROVE upTo[k] = Ordered(upTo[k - 1], q[k])
  <2>1. k \in 0..n /\ k # 0
    BY <1>0
  <2> QED
    BY <1>4, <2>1 DEF Orderings
<1> QED
  BY <1>5, <1>6, <1>7 DEF n, SetOf

\* Set points stay numbers, one for each device.
LEMMA SetTyped ==
    ASSUME NEW setpoint \in [Devices -> Int], NEW q \in Seq(Order)
    PROVE  SetPoints(setpoint, q) \in [Devices -> Int]
<1> DEFINE n == Len(q)
<1>1. PICK u : SetOf(setpoint, q, u)
  BY SetUnfolds
<1>2. n \in Nat /\ \A k \in 1..n : q[k] \in Order
  OBVIOUS
<1>3. u[0] = setpoint /\ (\A k \in 1..n : u[k] = Ordered(u[k - 1], q[k]))
      /\ SetPoints(setpoint, q) = u[n]
  BY <1>1 DEF SetOf
<1> HIDE DEF n
<1> DEFINE S == {k \in 0..n : u[k] \in [Devices -> Int]}
<1>4. 0 \in S
  BY <1>2, <1>3
<1>5. ASSUME NEW k \in 0..(n - 1), k \in S PROVE k + 1 \in S
  <2> DEFINE i == k + 1
  <2>1. i \in 1..n /\ i \in 0..n /\ i - 1 = k
    BY <1>2
  <2> HIDE DEF i
  <2>2. q[i].value \in Int
    BY <1>2, <2>1 DEF Order
  <2>3. Clamp(q[i].value) \in Int
    BY <2>2, TickAssumption DEF Clamp
  <2>4. u[i] = [u[k] EXCEPT ![q[i].target] = Clamp(q[i].value)]
    BY <1>3, <2>1 DEF Ordered
  <2>5. u[i] \in [Devices -> Int]
    BY <1>5, <2>3, <2>4
  <2> QED
    BY <2>1, <2>5 DEF i
<1>6. 0..n \subseteq S
  <2> HIDE DEF S
  <2> QED
    BY <1>2, <1>4, <1>5, UpTo
<1> QED
  BY <1>2, <1>3, <1>6

\* A device that no order names keeps its set point.
LEMMA SetElsewhere ==
    ASSUME NEW setpoint \in [Devices -> Int], NEW q \in Seq(Order), NEW d \in Devices,
           \A k \in 1..Len(q) : q[k].target # d
    PROVE  SetPoints(setpoint, q)[d] = setpoint[d]
<1> DEFINE n == Len(q)
<1>1. PICK u : SetOf(setpoint, q, u)
  BY SetUnfolds
<1>2. n \in Nat /\ \A k \in 1..n : q[k].target # d
  OBVIOUS
<1>3. u[0] = setpoint /\ (\A k \in 1..n : u[k] = Ordered(u[k - 1], q[k]))
      /\ SetPoints(setpoint, q) = u[n]
  BY <1>1 DEF SetOf
<1> HIDE DEF n
<1> DEFINE S == {k \in 0..n : DOMAIN u[k] = Devices /\ u[k][d] = setpoint[d]}
<1>4. 0 \in S
  BY <1>2, <1>3
<1>5. ASSUME NEW k \in 0..(n - 1), k \in S PROVE k + 1 \in S
  <2> DEFINE i == k + 1
  <2>1. i \in 1..n /\ i \in 0..n /\ i - 1 = k
    BY <1>2
  <2> HIDE DEF i
  <2>2. u[i] = [u[k] EXCEPT ![q[i].target] = Clamp(q[i].value)]
    BY <1>3, <2>1 DEF Ordered
  <2>3. DOMAIN u[i] = Devices /\ u[i][d] = setpoint[d]
    BY <1>2, <1>5, <2>1, <2>2
  <2> QED
    BY <2>1, <2>3 DEF i
<1>6. 0..n \subseteq S
  <2> HIDE DEF S
  <2> QED
    BY <1>2, <1>4, <1>5, UpTo
<1> QED
  BY <1>2, <1>3, <1>6

\* Where two lists of orders do the same, and begin with the same, they end with the same.
LEMMA SetAlike ==
    ASSUME NEW f \in [Devices -> Int], NEW g \in [Devices -> Int],
           NEW q \in Seq(Order), NEW r \in Seq(Order), Len(q) = Len(r),
           \A k \in 1..Len(q) : q[k].target = r[k].target /\ q[k].value = r[k].value,
           NEW d \in Devices, f[d] = g[d]
    PROVE  SetPoints(f, q)[d] = SetPoints(g, r)[d]
<1> DEFINE n == Len(q)
<1>1. PICK u : SetOf(f, q, u)
  BY SetUnfolds
<1>2. PICK v : SetOf(g, r, v)
  BY SetUnfolds
<1>3. n \in Nat /\ \A k \in 1..n : q[k].target = r[k].target /\ q[k].value = r[k].value
  OBVIOUS
<1>4. u[0] = f /\ (\A k \in 1..n : u[k] = Ordered(u[k - 1], q[k])) /\ SetPoints(f, q) = u[n]
  BY <1>1 DEF SetOf
<1>5. v[0] = g /\ (\A k \in 1..n : v[k] = Ordered(v[k - 1], r[k])) /\ SetPoints(g, r) = v[n]
  BY <1>2 DEF SetOf
<1> HIDE DEF n
<1> DEFINE S == {k \in 0..n : /\ DOMAIN u[k] = Devices /\ DOMAIN v[k] = Devices
                              /\ u[k][d] = v[k][d]}
<1>6. 0 \in S
  BY <1>3, <1>4, <1>5
<1>7. ASSUME NEW k \in 0..(n - 1), k \in S PROVE k + 1 \in S
  <2> DEFINE i == k + 1
             x == Clamp(q[i].value)
  <2>1. i \in 1..n /\ i \in 0..n /\ i - 1 = k
    BY <1>3
  <2> HIDE DEF i
  <2>2. u[i] = [u[k] EXCEPT ![q[i].target] = x]
    BY <1>4, <2>1 DEF Ordered
  <2>3. v[i] = [v[k] EXCEPT ![q[i].target] = x]
    BY <1>3, <1>5, <2>1 DEF Ordered
  <2> HIDE DEF x
  <2>4. DOMAIN u[i] = Devices /\ DOMAIN v[i] = Devices /\ u[i][d] = v[i][d]
    BY <1>7, <2>2, <2>3
  <2> QED
    BY <2>1, <2>4 DEF i
<1>8. 0..n \subseteq S
  <2> HIDE DEF S
  <2> QED
    BY <1>3, <1>6, <1>7, UpTo
<1> QED
  BY <1>3, <1>4, <1>5, <1>8

\* Orders after orders.
LEMMA SetCat ==
    ASSUME NEW f, NEW q \in Seq(Order), NEW r \in Seq(Order)
    PROVE  SetPoints(f, Cat(q, r)) = SetPoints(SetPoints(f, q), r)
<1> DEFINE all == Cat(q, r)
           m == Len(q)
           n == Len(r)
           g == SetPoints(f, q)
<1>1. IsCat(Order, q, r, all)
  BY CatTyped
<1> HIDE DEF all
<1>2. /\ all \in Seq(Order) /\ Len(all) = m + n
      /\ \A i \in 1..m : all[i] = q[i]
      /\ \A i \in 1..n : all[m + i] = r[i]
  BY <1>1 DEF IsCat
<1>3. PICK u : SetOf(f, q, u)
  BY SetUnfolds
<1> HIDE DEF g
<1>4. PICK v : SetOf(g, r, v)
  BY SetUnfolds
<1>5. PICK w : SetOf(f, all, w)
  BY <1>2, SetUnfolds
<1>6. m \in Nat /\ n \in Nat
  OBVIOUS
<1>7. u[0] = f /\ (\A k \in 1..m : u[k] = Ordered(u[k - 1], q[k])) /\ g = u[m]
  BY <1>3 DEF SetOf, g
<1>8. v[0] = g /\ (\A k \in 1..n : v[k] = Ordered(v[k - 1], r[k])) /\ SetPoints(g, r) = v[n]
  BY <1>4 DEF SetOf
<1>9. w[0] = f /\ (\A k \in 1..(m + n) : w[k] = Ordered(w[k - 1], all[k]))
      /\ SetPoints(f, all) = w[m + n]
  BY <1>2, <1>5 DEF SetOf
<1> HIDE DEF m, n
<1>10. w[m] = g
  <2> DEFINE S == {k \in 0..m : w[k] = u[k]}
  <2>1. 0 \in S
    BY <1>6, <1>7, <1>9
  <2>2. ASSUME NEW k \in 0..(m - 1), k \in S PROVE k + 1 \in S
    <3> DEFINE i == k + 1
    <3>1. i \in 1..m /\ i \in 0..m /\ i - 1 = k /\ i \in 1..(m + n)
      BY <1>6
    <3> HIDE DEF i
    <3>2. w[i] = Ordered(w[k], all[i]) /\ u[i] = Ordered(u[k], q[i]) /\ all[i] = q[i]
      BY <1>2, <1>7, <1>9, <3>1
    <3>3. w[i] = u[i]
      BY <2>2, <3>2
    <3> QED
      BY <3>1, <3>3 DEF i
  <2>3. 0..m \subseteq S
    <3> HIDE DEF S
    <3> QED
      BY <1>6, <2>1, <2>2, UpTo
  <2> QED
    BY <1>6, <1>7, <2>3
<1>11. w[m + n] = v[n]
  <2> DEFINE S == {k \in 0..n : w[m + k] = v[k]}
  <2>1. 0 \in S
    BY <1>6, <1>8, <1>10
  <2>2. ASSUME NEW k \in 0..(n - 1), k \in S PROVE k + 1 \in S
    <3> DEFINE i == k + 1
               j == m + i
    <3>1. i \in 1..n /\ i \in 0..n /\ i - 1 = k /\ j \in 1..(m + n) /\ j - 1 = m + k
      BY <1>6
    <3> HIDE DEF i
    <3>2. all[j] = r[i]
      BY <1>2, <3>1
    <3> HIDE DEF j
    <3>3. w[j] = Ordered(w[m + k], all[j]) /\ v[i] = Ordered(v[k], r[i])
      BY <1>8, <1>9, <3>1
    <3>4. w[j] = v[i]
      BY <2>2, <3>2, <3>3
    <3> QED
      BY <3>1, <3>4 DEF i, j
  <2>3. 0..n \subseteq S
    <3> HIDE DEF S
    <3> QED
      BY <1>6, <2>1, <2>2, UpTo
  <2> QED
    BY <1>6, <2>3
<1> QED
  BY <1>8, <1>9, <1>11 DEF all, g

\* Orders for different devices may be applied in either order.
LEMMA SetCommutes ==
    ASSUME NEW f \in [Devices -> Int], NEW x \in Seq(Order), NEW y \in Seq(Order),
           \A i \in 1..Len(x), j \in 1..Len(y) : x[i].target # y[j].target
    PROVE  SetPoints(SetPoints(f, x), y) = SetPoints(SetPoints(f, y), x)
<1> DEFINE fx == SetPoints(f, x)
           fy == SetPoints(f, y)
<1>1. fx \in [Devices -> Int] /\ fy \in [Devices -> Int]
  <2>1. fx \in [Devices -> Int]
    BY SetTyped
  <2>2. fy \in [Devices -> Int]
    BY SetTyped
  <2> QED
    BY <2>1, <2>2
<1>2. ASSUME NEW d \in Devices, \A j \in 1..Len(y) : y[j].target # d
      PROVE  SetPoints(fx, y)[d] = SetPoints(fy, x)[d]
  <2>1. fy[d] = f[d]
    BY <1>2, SetElsewhere
  <2> HIDE DEF fy
  <2>2. SetPoints(fy, x)[d] = SetPoints(f, x)[d]
    BY <1>1, <2>1, SetAlike
  <2>3. SetPoints(fx, y)[d] = fx[d]
    <3> HIDE DEF fx
    <3> QED
      BY <1>1, <1>2, SetElsewhere
  <2> QED
    BY <2>2, <2>3
<1>3. ASSUME NEW d \in Devices, \A i \in 1..Len(x) : x[i].target # d
      PROVE  SetPoints(fx, y)[d] = SetPoints(fy, x)[d]
  <2>1. fx[d] = f[d]
    BY <1>3, SetElsewhere
  <2> HIDE DEF fx
  <2>2. SetPoints(fx, y)[d] = SetPoints(f, y)[d]
    BY <1>1, <2>1, SetAlike
  <2>3. SetPoints(fy, x)[d] = fy[d]
    <3> HIDE DEF fy
    <3> QED
      BY <1>1, <1>3, SetElsewhere
  <2> QED
    BY <2>2, <2>3
<1>4. SetPoints(fx, y) \in [Devices -> Int] /\ SetPoints(fy, x) \in [Devices -> Int]
  <2> HIDE DEF fx, fy
  <2>1. SetPoints(fx, y) \in [Devices -> Int]
    BY <1>1, SetTyped
  <2>2. SetPoints(fy, x) \in [Devices -> Int]
    BY <1>1, SetTyped
  <2> QED
    BY <2>1, <2>2
<1>5. \A d \in Devices : SetPoints(fx, y)[d] = SetPoints(fy, x)[d]
  <2> SUFFICES ASSUME NEW d \in Devices PROVE SetPoints(fx, y)[d] = SetPoints(fy, x)[d]
    OBVIOUS
  <2>1. (\A i \in 1..Len(x) : x[i].target # d) \/ (\A j \in 1..Len(y) : y[j].target # d)
    OBVIOUS
  <2> QED
    BY <1>2, <1>3, <2>1
<1> HIDE DEF fx, fy
<1>6. SetPoints(fx, y) = SetPoints(fy, x)
  BY <1>4, <1>5
<1> QED
  BY <1>6 DEF fx, fy

-------------------------------------------------------------------------------
(***************************************************************************)
(* Two loops side by side                                                  *)
(***************************************************************************)

\* Scenarios that differ in their commands only.
SameButCommands(s, r) ==
    s.faults = r.faults /\ s.nans = r.nans /\ s.stales = r.stales /\ s.agents = r.agents

\* The quality stage of both.
LEMMA QualityAlike ==
    ASSUME NEW s, NEW r, SameButCommands(s, r), NEW a, NEW b, a.cache = b.cache,
           NEW power, NEW now,
           NEW p, p = QualityStage(s, a, power, now), NEW q, q = QualityStage(r, b, power, now)
    PROVE  /\ p.cache = q.cache /\ p.alarmed = q.alarmed /\ p.points = q.points
           /\ p.alarms = ActiveNan(s, now) \ a.alarmed
           /\ q.alarms = ActiveNan(s, now) \ b.alarmed
<1>1. ActiveNan(s, now) = ActiveNan(r, now)
  BY DEF ActiveNan, SameButCommands
<1>2. ASSUME NEW d PROVE ActiveStale(s, d, now) = ActiveStale(r, d, now)
  BY DEF ActiveStale, SameButCommands
<1> DEFINE c == Cached(s, a.cache, power, now)
<1>3. c = Cached(r, b.cache, power, now)
  BY <1>2 DEF Cached, SameButCommands
<1> HIDE DEF c
<1>4. ASSUME NEW d PROVE Point(s, d, c, power, now) = Point(r, d, c, power, now)
  BY <1>1, <1>2 DEF Point, SameButCommands
<1>5. p = [cache |-> c, alarmed |-> ActiveNan(s, now), alarms |-> NewAlarms(s, a, now),
           points |-> [d \in Devices |-> Point(s, d, c, power, now)]]
  BY DEF QualityStage, c
<1>6. q = [cache |-> c, alarmed |-> ActiveNan(r, now), alarms |-> NewAlarms(r, b, now),
           points |-> [d \in Devices |-> Point(r, d, c, power, now)]]
  BY <1>3 DEF QualityStage
<1>7. [d \in Devices |-> Point(s, d, c, power, now)]
        = [d \in Devices |-> Point(r, d, c, power, now)]
  BY <1>4
<1>8. p.cache = c /\ q.cache = c /\ p.alarmed = q.alarmed
  BY <1>1, <1>5, <1>6
<1>9. p.points = q.points
  BY <1>5, <1>6, <1>7
<1>10. p.alarms = ActiveNan(s, now) \ a.alarmed /\ q.alarms = ActiveNan(s, now) \ b.alarmed
  BY <1>1, <1>5, <1>6 DEF NewAlarms
<1> QED
  BY <1>8, <1>9, <1>10

\* What a tick does, stage by stage.
IsTick(s, loop, now, setpoint, e, q, t) ==
    /\ t.loop = [time |-> now, count |-> loop.count + 1,
                 pending |-> AgentCommands(s.agents, loop.count, now),
                 setpoint |-> setpoint, faulty |-> e.faulty,
                 active |-> e.active, recover |-> e.recover,
                 alarmed |-> q.alarmed, cache |-> q.cache]
    /\ t.result.points = q.points /\ t.result.alarms = q.alarms

PowerOf(setpoint, e) == [d \in Devices |-> Power(setpoint[d], e.faulty[d])]

\* A tick is made of its stages.
LEMMA TickIs ==
    ASSUME NEW s, NEW loop, NEW writes, NEW now, now = loop.time + TickMs,
           NEW setpoint, setpoint = SetPoints(loop.setpoint, Applied(s, loop, writes, now)),
           NEW e, e = Engine(ApplyFaults(s.faults, loop, now)),
           NEW t, t = Tick(s, loop, writes)
    PROVE  IsTick(s, loop, now, setpoint, e,
                  QualityStage(s, loop, PowerOf(setpoint, e), now), t)
<1> DEFINE power == PowerOf(setpoint, e)
           q == QualityStage(s, loop, power, now)
<1> DEFINE commands == Applied(s, loop, writes, now)
           faults == ApplyFaults(s.faults, loop, now)
           pending == AgentCommands(s.agents, loop.count, now)
<1>1. e.faulty = faults.faulty /\ e.active = faults.active /\ e.recover = faults.recover
  BY DEF Engine
<1> HIDE DEF faults, pending, commands, power, q
<1>2. t = [loop |-> [time |-> now, count |-> loop.count + 1, pending |-> pending,
                     setpoint |-> setpoint, faulty |-> faults.faulty,
                     active |-> faults.active, recover |-> faults.recover,
                     alarmed |-> q.alarmed, cache |-> q.cache],
           result |-> TickResult(loop, now, q, commands, power)]
  BY <1>1 DEF Tick, faults, pending, commands, power, q, PowerOf
<1>3. t.result = [tick |-> loop.count, time |-> now, points |-> q.points,
                  alarms |-> q.alarms, applied |-> commands, real |-> power]
  BY <1>2 DEF TickResult
<1> QED
  BY <1>1, <1>2, <1>3 DEF pending, power, q, IsTick

\* Loops that agree in what a tick reads, and take the same orders and faults, do the same.
LEMMA TickAlike ==
    ASSUME NEW s, NEW r, SameButCommands(s, r), NEW a, NEW b,
           a.time = b.time, a.count = b.count, a.cache = b.cache, NEW v, NEW w,
           NEW now, now = a.time + TickMs,
           SetPoints(a.setpoint, Applied(s, a, v, now))
             = SetPoints(b.setpoint, Applied(r, b, w, now)),
           Engine(ApplyFaults(s.faults, a, now)) = Engine(ApplyFaults(r.faults, b, now)),
           NEW t, t = Tick(s, a, v), NEW u, u = Tick(r, b, w)
    PROVE  /\ t.loop = u.loop /\ t.result.points = u.result.points
           /\ t.result.alarms = ActiveNan(s, now) \ a.alarmed
           /\ u.result.alarms = ActiveNan(s, now) \ b.alarmed
<1> DEFINE setpoint == SetPoints(a.setpoint, Applied(s, a, v, now))
           e == Engine(ApplyFaults(s.faults, a, now))
           power == PowerOf(setpoint, e)
           p == QualityStage(s, a, power, now)
           q == QualityStage(r, b, power, now)
<1>1. /\ setpoint = SetPoints(b.setpoint, Applied(r, b, w, now))
      /\ e = Engine(ApplyFaults(r.faults, b, now))
      /\ now = b.time + TickMs
  OBVIOUS
<1> HIDE DEF setpoint, e
<1>2. IsTick(s, a, now, setpoint, e, QualityStage(s, a, PowerOf(setpoint, e), now), t)
  BY TickIs DEF setpoint, e
<1>3. IsTick(r, b, now, setpoint, e, QualityStage(r, b, PowerOf(setpoint, e), now), u)
  BY <1>1, TickIs
<1> HIDE DEF power
<1>4. /\ p.cache = q.cache /\ p.alarmed = q.alarmed /\ p.points = q.points
      /\ p.alarms = ActiveNan(s, now) \ a.alarmed /\ q.alarms = ActiveNan(s, now) \ b.alarmed
  BY QualityAlike
<1> HIDE DEF p, q
<1>5. s.agents = r.agents
  BY DEF SameButCommands
<1>6. IsTick(s, a, now, setpoint, e, p, t) /\ IsTick(r, b, now, setpoint, e, q, u)
  BY <1>2, <1>3 DEF p, q, power
<1> QED
  BY <1>4, <1>5, <1>6 DEF IsTick

\* The engines of both after k faults of the tick that follows a snapshot: the one that has
\* forgotten which faults are active has found the first k of them again.
BothEngines(faults, old, now, k, st, other) ==
    /\ st.faulty \in [Devices -> BOOLEAN] /\ other.faulty = st.faulty
    /\ \A i \in old : st.faulty[faults[i].target]
    /\ st.active = old \cup other.active
    /\ other.active = {i \in 1..k : InWindow(faults[i], now)}
    /\ st.recover = {} /\ other.recover = {}
    /\ st = [faulty |-> st.faulty, active |-> st.active, recover |-> st.recover]
    /\ other = [faulty |-> other.faulty, active |-> other.active, recover |-> other.recover]

\* One more fault: both engines have treated it alike.
LEMMA BothStep ==
    ASSUME NEW faults \in Seq(Window), NEW now,
           NEW old, \A i \in old : InWindow(faults[i], now), NEW k \in 1..Len(faults),
           NEW st, NEW other,
           BothEngines(faults, old, now, k - 1, st, other)
    PROVE  BothEngines(faults, old, now, k, FaultStep(st, k, faults[k], now),
                       FaultStep(other, k, faults[k], now))
<1> DEFINE f == faults[k]
           W(i) == {j \in 1..i : InWindow(faults[j], now)}
           next == FaultStep(st, k, f, now)
           follows == FaultStep(other, k, f, now)
<1>1. /\ st.faulty \in [Devices -> BOOLEAN] /\ other.faulty = st.faulty
      /\ \A i \in old : st.faulty[faults[i].target]
      /\ st.active = old \cup other.active /\ other.active = W(k - 1)
      /\ st.recover = {} /\ other.recover = {}
      /\ st = [faulty |-> st.faulty, active |-> st.active, recover |-> {}]
      /\ other = [faulty |-> other.faulty, active |-> other.active, recover |-> {}]
  BY DEF BothEngines
<1>2. k \notin W(k - 1) /\ k \notin st.recover /\ k \notin other.recover
  BY <1>1
<1>3. f \in Window /\ f.target \in Devices
  <2>1. f \in Window
    OBVIOUS
  <2> QED
    BY <2>1 DEF Window
<1>4. CASE ~InWindow(f, now)
  <2>1. k \notin old /\ W(k) = W(k - 1)
    BY <1>4
  <2>2. next = st /\ follows = other
    BY <1>1, <1>2, <1>4, <2>1 DEF FaultStep
  <2> HIDE DEF next, follows
  <2>3. BothEngines(faults, old, now, k, next, follows)
    <3>1. BothEngines(faults, old, now, k, st, other)
      BY <1>1, <2>1 DEF BothEngines
    <3> QED
      BY <2>2, <3>1
  <2> QED
    BY <2>3 DEF next, follows
<1>5. CASE InWindow(f, now)
  <2> DEFINE g == [st.faulty EXCEPT ![f.target] = TRUE]
  <2>1. W(k) = W(k - 1) \cup {k}
    BY <1>5
  <2>2. follows = [other EXCEPT !.active = @ \cup {k}, !.faulty[f.target] = TRUE]
    BY <1>1, <1>2, <1>5 DEF FaultStep
  <2>3. follows = [faulty |-> g, active |-> W(k), recover |-> {}]
    <3> HIDE DEF W, follows
    <3> QED
      BY <1>1, <2>1, <2>2
  <2>4. g \in [Devices -> BOOLEAN] /\ \A i \in old : g[faults[i].target]
    BY <1>1, <1>3
  <2>5. next = [faulty |-> g, active |-> old \cup W(k), recover |-> {}]
    <3>1. CASE k \in old
      <4>1. next = st
        BY <1>1, <1>2, <1>5, <3>1 DEF FaultStep
      <4>2. st.faulty[f.target] = TRUE
        BY <1>1, <1>3, <3>1
      <4>3. g = st.faulty
        BY <1>1, <1>3, <4>2
      <4>4. old \cup W(k) = st.active
        <5> HIDE DEF W
        <5> QED
          BY <1>1, <2>1, <3>1
      <4> HIDE DEF g, W, next
      <4> QED
        BY <1>1, <4>1, <4>3, <4>4
    <3>2. CASE k \notin old
      <4>1. k \notin st.active
        BY <1>1, <1>2, <3>2
      <4>2. next = [st EXCEPT !.active = @ \cup {k}, !.faulty[f.target] = TRUE]
        BY <1>2, <1>5, <4>1 DEF FaultStep
      <4>3. st.active \cup {k} = old \cup W(k)
        <5> HIDE DEF W
        <5> QED
          BY <1>1, <2>1
      <4> HIDE DEF W, next
      <4> QED
        BY <1>1, <4>2, <4>3
    <3> QED
      BY <3>1, <3>2
  <2> HIDE DEF g, next, follows
  <2>6. /\ next.faulty = g /\ next.active = old \cup W(k) /\ next.recover = {}
        /\ next = [faulty |-> next.faulty, active |-> next.active, recover |-> next.recover]
    BY <2>5
  <2>7. /\ follows.faulty = g /\ follows.active = W(k) /\ follows.recover = {}
        /\ follows = [faulty |-> follows.faulty, active |-> follows.active,
                      recover |-> follows.recover]
    BY <2>3
  <2>8. next.active = old \cup follows.active /\ follows.faulty = next.faulty
    BY <2>6, <2>7
  <2>9. BothEngines(faults, old, now, k, next, follows)
    BY <2>4, <2>6, <2>7, <2>8 DEF BothEngines
  <2> QED
    BY <2>9 DEF next, follows
<1> QED
  BY <1>4, <1>5

\* No active fault forgotten, none that is over, none cut short: the engines agree again.
LEMMA FaultsFoundAgain ==
    ASSUME NEW faults \in Seq(Window), NEW now, NEW a, NEW b,
           a.faulty \in [Devices -> BOOLEAN], a.active \subseteq DOMAIN faults, a.recover = {},
           b.faulty = a.faulty, b.active = {}, b.recover = {},
           \A i \in a.active : InWindow(faults[i], now) /\ a.faulty[faults[i].target]
    PROVE  Engine(ApplyFaults(faults, a, now)) = Engine(ApplyFaults(faults, b, now))
<1> DEFINE n == Len(faults)
<1>1. n \in Nat /\ DOMAIN faults = 1..n
  OBVIOUS
<1>2. PICK u : FaultStates(faults, a, now, n, u) /\ ApplyFaults(faults, a, now) = u[n]
  BY <1>1, FaultsUnfold
<1>3. PICK v : FaultStates(faults, b, now, n, v) /\ ApplyFaults(faults, b, now) = v[n]
  BY <1>1, FaultsUnfold
<1>4. u[0] = Engine(a) /\ v[0] = Engine(b)
  BY <1>1, <1>2, <1>3 DEF FaultStates, Engine
<1>5. ASSUME NEW k \in 1..n
      PROVE  /\ u[k] = FaultStep(u[k - 1], k, faults[k], now)
             /\ v[k] = FaultStep(v[k - 1], k, faults[k], now)
  <2>1. k \in 0..n /\ k # 0
    BY <1>1
  <2>2. u[k] = FaultStep(u[k - 1], k, faults[k], now)
    BY <1>2, <2>1 DEF FaultStates
  <2>3. v[k] = FaultStep(v[k - 1], k, faults[k], now)
    BY <1>3, <2>1 DEF FaultStates
  <2> QED
    BY <2>2, <2>3
<1> DEFINE S == {k \in 0..n : BothEngines(faults, a.active, now, k, u[k], v[k])}
<1>6. 0 \in S
  <2>1. {i \in 1..0 : InWindow(faults[i], now)} = {}
    OBVIOUS
  <2>2. u[0] = [faulty |-> a.faulty, active |-> a.active, recover |-> {}]
    BY <1>4 DEF Engine
  <2>3. v[0] = [faulty |-> a.faulty, active |-> {}, recover |-> {}]
    BY <1>4 DEF Engine
  <2>4. BothEngines(faults, a.active, now, 0, u[0], v[0])
    BY <2>1, <2>2, <2>3 DEF BothEngines
  <2> QED
    BY <1>1, <2>4
<1>7. ASSUME NEW k \in 0..(n - 1), k \in S PROVE k + 1 \in S
  <2> DEFINE i == k + 1
  <2>1. i \in 1..n /\ i \in 0..n /\ i - 1 = k /\ i \in 1..Len(faults)
    BY <1>1
  <2> HIDE DEF i
  <2>2. BothEngines(faults, a.active, now, i - 1, u[i - 1], v[i - 1])
    BY <1>7, <2>1
  <2>3. BothEngines(faults, a.active, now, i, FaultStep(u[i - 1], i, faults[i], now),
                    FaultStep(v[i - 1], i, faults[i], now))
    BY <2>1, <2>2, BothStep
  <2>4. BothEngines(faults, a.active, now, i, u[i], v[i])
    BY <1>5, <2>1, <2>3
  <2> QED
    BY <2>1, <2>4 DEF i
<1>8. 0..n \subseteq S
  <2> HIDE DEF S, n
  <2> QED
    BY <1>1, <1>6, <1>7, UpTo
<1>9. BothEngines(faults, a.active, now, n, u[n], v[n])
  BY <1>1, <1>8
<1>10. a.active \subseteq {i \in 1..n : InWindow(faults[i], now)}
  BY <1>1
<1>11. /\ u[n].faulty = v[n].faulty /\ u[n].recover = v[n].recover
       /\ u[n].active = v[n].active
  BY <1>9, <1>10 DEF BothEngines
<1> QED
  BY <1>2, <1>3, <1>11 DEF Engine

\* A recovery lasts for one tick.
LEMMA RecoverSpent ==
    ASSUME NEW faults \in Seq(Window), NEW loop, loop.recover \subseteq DOMAIN faults, NEW now
    PROVE  ApplyFaults(faults, loop, now).recover = {}
<1> DEFINE n == Len(faults)
           Fields == {"faulty", "active", "recover"}
<1>1. n \in Nat /\ DOMAIN faults = 1..n
  OBVIOUS
<1>2. PICK u : FaultStates(faults, loop, now, n, u) /\ ApplyFaults(faults, loop, now) = u[n]
  BY <1>1, FaultsUnfold
<1>3. u[0] = [faulty |-> loop.faulty, active |-> loop.active, recover |-> loop.recover]
  BY <1>1, <1>2 DEF FaultStates
<1>4. ASSUME NEW k \in 1..n PROVE u[k] = FaultStep(u[k - 1], k, faults[k], now)
  <2>1. k \in 0..n /\ k # 0
    BY <1>1
  <2> QED
    BY <1>2, <2>1 DEF FaultStates
<1> HIDE DEF n
<1> DEFINE S == {k \in 0..n : /\ Fields \subseteq DOMAIN u[k]
                              /\ u[k].recover \subseteq {i \in 1..n : i > k}}
<1>5. 0 \in S
  BY <1>1, <1>3
<1>6. ASSUME NEW k \in 0..(n - 1), k \in S PROVE k + 1 \in S
  <2> DEFINE i == k + 1
             st == u[k]
             next == u[i]
  <2>1. i \in 1..n /\ i \in 0..n /\ i - 1 = k
    BY <1>1
  <2>2. next = FaultStep(st, i, faults[i], now)
    <3> HIDE DEF i
    <3> QED
      BY <1>4, <2>1
  <2>3. Fields \subseteq DOMAIN st /\ st.recover \subseteq {j \in 1..n : j > k}
    BY <1>6
  <2> HIDE DEF st, next
  <2>4. Fields \subseteq DOMAIN next
    BY <2>2, <2>3 DEF FaultStep
  <2>5. i \in st.recover => next.recover = st.recover \ {i}
    BY <2>2, <2>3 DEF FaultStep
  <2>6. i \notin st.recover => next.recover = st.recover
    BY <2>2, <2>3 DEF FaultStep
  <2>7. next.recover \subseteq {j \in 1..n : j > i}
    BY <1>1, <2>1, <2>3, <2>5, <2>6
  <2> QED
    BY <2>1, <2>4, <2>7 DEF next
<1>7. 0..n \subseteq S
  <2> HIDE DEF S
  <2> QED
    BY <1>1, <1>5, <1>6, UpTo
<1>8. u[n].recover \subseteq {i \in 1..n : i > n}
  BY <1>1, <1>7
<1> QED
  BY <1>1, <1>2, <1>8

-------------------------------------------------------------------------------
(***************************************************************************)
(* The resumed loop                                                        *)
(***************************************************************************)

\* In a tick in which nobody else gives an order the agents' are all there are.
LEMMA AgentsOnly ==
    ASSUME NEW s, ScenarioOK(s), NEW loop, loop.pending \in Seq(Command),
           NEW writes \in Seq(Write), NEW now,
           NEW orders, orders = Applied(s, loop, writes, now),
           \A i \in DOMAIN orders : orders[i].by = "agent"
    PROVE  orders = By("agent", loop.pending)
<1>1. OrdersOf(s, loop, writes, now, Applied(s, loop, writes, now))
  <2>1. Write \subseteq Write
    OBVIOUS
  <2> QED
    BY <2>1, AppliedParts
<1>2. orders \in Seq(Order) /\ From("agent", orders) = By("agent", loop.pending)
  BY <1>1 DEF OrdersOf
<1>3. \A i \in 1..Len(orders) : orders[i].by = "agent"
  BY <1>2
<1>4. From("agent", orders) = orders
  BY <1>2, <1>3, FromSame
<1> QED
  BY <1>2, <1>4

\* Nobody else gives one to the resumed loop.
LEMMA ResumedOrders ==
    ASSUME NEW s, ScenarioOK(s), NEW loop, loop.pending \in Seq(Command), NEW now
    PROVE  /\ SameButCommands(s, Resumable(s))
           /\ Applied(Resumable(s), loop, <<>>, now) = By("agent", loop.pending)
<1> DEFINE r == Resumable(s)
           none == {}
           b == By("agent", loop.pending)
<1>1. r.commands = <<>> /\ SameButCommands(s, r)
  BY DEF ScenarioOK, Resumable, SameButCommands
<1> HIDE DEF r
<1>2. <<>> \in Seq(none) /\ \A I : \A i \in DOMAIN <<>> : i \notin I
  OBVIOUS
<1>3. ASSUME NEW I PROVE Sift(<<>>, I) = <<>>
  <2>1. \A i \in DOMAIN <<>> : i \notin I
    OBVIOUS
  <2> QED
    BY <1>2, <2>1, SiftNone
<1>4. By("scenario", DueCommands(r, now)) = <<>>
  <2>1. DueCommands(r, now) = <<>>
    BY <1>1, <1>3 DEF DueCommands
  <2> QED
    BY <2>1 DEF By
<1>5. By("inbound", Sift(<<>>, {i \in DOMAIN <<>> : <<>>[i].target \in Devices})) = <<>>
  <2>1. Sift(<<>>, {i \in DOMAIN <<>> : <<>>[i].target \in Devices}) = <<>>
    BY <1>3
  <2> QED
    BY <2>1 DEF By
<1>6. Applied(r, loop, <<>>, now) = Cat(Cat(<<>>, b), <<>>)
  BY <1>4, <1>5 DEF Applied, Cat
<1>7. b \in Seq(Order)
  <2> DEFINE pending == loop.pending
  <2>1. pending \in Seq(Command)
    OBVIOUS
  <2> HIDE DEF pending
  <2>2. \A i \in DOMAIN pending : pending[i] \in Command
    BY <2>1
  <2>3. \A i \in DOMAIN pending : pending[i].target \in Devices /\ pending[i].value \in Int
    BY <2>2 DEF Command
  <2>4. "agent" \in Sources
    BY DEF Sources
  <2>5. By("agent", pending) \in Seq(Order)
    BY <2>1, <2>3, <2>4, ByOrders
  <2> QED
    BY <2>5 DEF pending
<1> HIDE DEF b
<1>8. Cat(Cat(<<>>, b), <<>>) = b
  BY <1>7, CatEmpty
<1> QED
  BY <1>1, <1>6, <1>8 DEF r, b

\* What a snapshot brings back, and what it does not.
LEMMA Restored ==
    ASSUME NEW loop, loop.pending \in Seq(Command),
           loop.cache \in [Devices -> {None} \cup (Int \X Int)],
           NEW k, k = FromSnapshot(SnapshotOf(loop))
    PROVE  /\ k.time = loop.time /\ k.count = loop.count /\ k.setpoint = loop.setpoint
           /\ k.faulty = loop.faulty /\ k.pending = loop.pending /\ k.cache = loop.cache
           /\ k.active = {} /\ k.recover = {} /\ k.alarmed = {}
<1> DEFINE state == SnapshotOf(loop)
           pending == PendingRestored(PendingSnapshot(loop.pending))
           cache == CacheRestored(CacheSnapshot(loop.cache))
<1>1. /\ state.time = loop.time /\ state.count = loop.count
      /\ state.setpoint = loop.setpoint /\ state.faulty = loop.faulty
      /\ state.pending = PendingSnapshot(loop.pending)
      /\ state.cache = CacheSnapshot(loop.cache)
  BY DEF SnapshotOf
<1>2. pending = loop.pending
  BY NoneAssumption DEF PendingRestored, PendingSnapshot, Command
<1>3. cache = loop.cache
  <2> DEFINE held == {d \in Devices : loop.cache[d] # None}
             c == loop.cache
  <2>1. c \in [Devices -> {None} \cup (Int \X Int)]
    OBVIOUS
  <2> HIDE DEF c
  <2>2. CASE held = {}
    <3>1. \A d \in Devices : c[d] = None
      BY <2>2 DEF c
    <3>2. CacheSnapshot(c) = None
      BY <2>2 DEF CacheSnapshot, c
    <3>3. CacheRestored(None) = [d \in Devices |-> None]
      BY DEF CacheRestored
    <3> QED
      BY <2>1, <3>1, <3>2, <3>3 DEF c
  <2>3. CASE held # {}
    <3> DEFINE raw == [d \in held |-> c[d]]
    <3>1. CacheSnapshot(c) = raw
      BY <2>3 DEF CacheSnapshot, c
    <3>2. raw \in [held -> Int \X Int] /\ held \in SUBSET Devices
      BY <2>1 DEF c
    <3>3. raw # None
      <4> HIDE DEF raw, held
      <4> QED
        BY <3>2, NoneAssumption
    <3>4. \A d \in Devices : d \in DOMAIN raw <=> c[d] # None
      BY DEF c
    <3>5. \A d \in DOMAIN raw : raw[d] = c[d]
      OBVIOUS
    <3> HIDE DEF raw
    <3>6. CacheRestored(raw) = [d \in Devices |-> IF d \in DOMAIN raw THEN raw[d] ELSE None]
      BY <3>3 DEF CacheRestored
    <3>7. CacheRestored(raw) = [d \in Devices |-> c[d]]
      BY <3>4, <3>5, <3>6
    <3> QED
      BY <2>1, <3>1, <3>7 DEF c
  <2> QED
    BY <2>2, <2>3
<1> HIDE DEF state, pending, cache
<1>4. k = [time |-> loop.time, count |-> loop.count, pending |-> pending,
           setpoint |-> loop.setpoint, faulty |-> loop.faulty,
           active |-> {}, recover |-> {}, alarmed |-> {}, cache |-> cache]
  <2>1. k = FromSnapshot(state) /\ pending = PendingRestored(state.pending)
        /\ cache = CacheRestored(state.cache)
    BY <1>1 DEF state, pending, cache
  <2> QED
    BY <1>1, <2>1 DEF FromSnapshot, InitLoop
<1> QED
  BY <1>2, <1>3, <1>4

\* What a snapshot is taken of; and no recovery waits but one of the last tick.
LoopInv ==
    /\ live.setpoint \in [Devices -> Int]
    /\ live.cache \in [Devices -> {None} \cup (Int \X Int)]
    /\ live.recover # {} => \E m \in manual : m[2] = Len(log)

\* A tick of the live loop, for the loops beside it.
LEMMA LiveTickIs ==
    ASSUME TimeInv, OrdersInv, LiveTick, NEW now, now = live.time + TickMs
    PROVE  \E t : /\ t = Tick(scenario, live, buffer)
                  /\ live' = t.loop /\ log' = Append(log, t.result)
                  /\ t.result.applied = Applied(scenario, live, buffer, now)
                  /\ t.result.applied \in Seq(Order)
                  /\ scenario' = scenario /\ manual' = manual /\ snap' = snap
<1> DEFINE t == Tick(scenario, live, Drain)
<1>1. live' = t.loop /\ log' = Append(log, t.result)
      /\ scenario' = scenario /\ manual' = manual /\ snap' = snap
  BY DEF LiveTick
<1>2. Drain = buffer
  BY DrainInOrder
<1>3. t.result.applied = Applied(scenario, live, buffer, now)
  BY <1>2, TickOrders
<1>4. t.result.applied \in Seq(Order)
  <2>1. ScenarioOK(scenario)
    BY ScenarioAssumption DEF TimeInv
  <2>2. live.pending \in Seq(Command) /\ buffer \in Seq(Write) /\ Write \subseteq Write
    BY DEF OrdersInv
  <2>3. OrdersOf(scenario, live, buffer, now, Applied(scenario, live, buffer, now))
    BY <2>1, <2>2, AppliedParts
  <2> HIDE DEF t
  <2> QED
    BY <1>3, <2>3 DEF OrdersOf
<1> QED
  BY <1>1, <1>2, <1>3, <1>4

\* A tick keeps the types of the set points and the cache, and leaves no recovery waiting.
LEMMA LoopKept ==
    ASSUME TimeInv, EngineInv, OrdersInv, LoopInv, LiveTick
    PROVE  LoopInv'
<1> DEFINE now == live.time + TickMs
           setpoint == SetPoints(live.setpoint, Applied(scenario, live, buffer, now))
           e == Engine(ApplyFaults(scenario.faults, live, now))
           power == PowerOf(setpoint, e)
           q == QualityStage(scenario, live, power, now)
<1>1. PICK t : /\ t = Tick(scenario, live, buffer)
               /\ live' = t.loop /\ log' = Append(log, t.result)
               /\ t.result.applied = Applied(scenario, live, buffer, now)
               /\ t.result.applied \in Seq(Order)
               /\ scenario' = scenario /\ manual' = manual /\ snap' = snap
  BY LiveTickIs
<1>2. setpoint \in [Devices -> Int]
  <2> DEFINE orders == Applied(scenario, live, buffer, now)
  <2>1. orders \in Seq(Order) /\ live.setpoint \in [Devices -> Int]
    BY <1>1 DEF LoopInv
  <2> HIDE DEF orders
  <2>2. SetPoints(live.setpoint, orders) \in [Devices -> Int]
    BY <2>1, SetTyped
  <2> QED
    BY <2>2 DEF orders
<1>3. IsTick(scenario, live, now, setpoint, e,
             QualityStage(scenario, live, PowerOf(setpoint, e), now), t)
  <2>1. t = Tick(scenario, live, buffer)
    BY <1>1
  <2> QED
    BY <2>1, TickIs
<1>4. e.recover = {}
  <2>1. scenario.faults \in Seq(Window)
    BY ScenarioAssumption DEF TimeInv, ScenarioOK
  <2>2. live.recover \subseteq DOMAIN scenario.faults
    BY DEF EngineInv, EngineOK, Engine
  <2>3. ApplyFaults(scenario.faults, live, now).recover = {}
    BY <2>1, <2>2, RecoverSpent
  <2> QED
    BY <2>3 DEF Engine
<1>5. now \in Int
  BY TickAssumption DEF TimeInv
<1> HIDE DEF setpoint, e
<1>6. power \in [Devices -> Int]
  <2>1. ASSUME NEW d \in Devices PROVE Power(setpoint[d], e.faulty[d]) \in Int
    <3>1. setpoint[d] \in Int /\ Limit \in Int /\ Limit \div 2 \in Int
      BY <1>2, TickAssumption
    <3>2. -(Limit \div 2) \in Int
      BY <3>1
    <3> QED
      BY <3>1, <3>2 DEF Power
  <2> QED
    BY <2>1 DEF PowerOf
<1> HIDE DEF now, power
<1>7. q.cache \in [Devices -> {None} \cup (Int \X Int)]
  <2>1. q.cache = Cached(scenario, live.cache, power, now)
    BY DEF QualityStage
  <2>2. live.cache \in [Devices -> {None} \cup (Int \X Int)]
    BY DEF LoopInv
  <2>3. ASSUME NEW d \in Devices PROVE <<power[d], now>> \in Int \X Int
    BY <1>5, <1>6
  <2>4. Cached(scenario, live.cache, power, now) \in [Devices -> {None} \cup (Int \X Int)]
    BY <2>2, <2>3 DEF Cached
  <2> HIDE DEF q
  <2> QED
    BY <2>1, <2>4
<1> HIDE DEF q
<1>8. IsTick(scenario, live, now, setpoint, e, q, t)
  BY <1>3 DEF q, power
<1>9. live'.setpoint = setpoint /\ live'.cache = q.cache /\ live'.recover = {}
  BY <1>1, <1>4, <1>8 DEF IsTick
<1> QED
  BY <1>2, <1>7, <1>9 DEF LoopInv

\* The state that the comparisons of loops rest on.
SpineInv == TimeInv /\ EngineInv /\ OrdersInv /\ LoopInv

\* It holds in every state.
LEMMA SpineEver == Spec => []SpineInv
<1>1. Init => LoopInv
  <2> SUFFICES ASSUME Init PROVE LoopInv
    OBVIOUS
  <2>1. /\ live.setpoint = [d \in Devices |-> 0] /\ live.cache = [d \in Devices |-> None]
        /\ live.recover = {}
    BY DEF Init, InitLoop
  <2> QED
    BY <2>1 DEF LoopInv
<1>2. TimeInv /\ EngineInv /\ OrdersInv /\ LoopInv /\ [Next]_vars => LoopInv'
  <2> SUFFICES ASSUME TimeInv, EngineInv, OrdersInv, LoopInv, [Next]_vars PROVE LoopInv'
    OBVIOUS
  <2>1. ASSUME UNCHANGED <<live, log, manual>> PROVE LoopInv'
    BY <2>1 DEF LoopInv
  <2>2. CASE \E w \in Writes : Enqueue(w[1], w[2])
    BY <2>1, <2>2 DEF Enqueue
  <2>3. CASE \E i \in DOMAIN scenario.faults : Recover(i)
    <3>1. PICK i \in DOMAIN scenario.faults : Recover(i)
      BY <2>3
    <3>2. /\ live'.setpoint = live.setpoint /\ live'.cache = live.cache
          /\ log' = log /\ manual' = manual \cup {<<i, Len(log)>>}
      BY <3>1 DEF Recover, TimeInv, LoopFields
    <3>3. <<i, Len(log)>>[2] = Len(log)
      OBVIOUS
    <3>4. \E m \in manual' : m[2] = Len(log')
      BY <3>2, <3>3
    <3> QED
      BY <3>2, <3>4 DEF LoopInv
  <2>4. CASE LiveTick
    BY <2>4, LoopKept
  <2>5. CASE Snapshot
    BY <2>1, <2>5 DEF Snapshot
  <2>6. CASE UNCHANGED vars
    BY <2>1, <2>6 DEF vars
  <2> QED
    BY <2>2, <2>3, <2>4, <2>5, <2>6 DEF Next
<1> QED
  BY <1>1, <1>2, EngineEver, OrdersInvEver, PTL DEF Spec, SpineInv

\* Nothing that the resumed loop has forgotten matters in the next tick.
Recalls(now) ==
    /\ live.recover = {}
    /\ \A i \in live.active :
          now < scenario.faults[i].end /\ live.faulty[scenario.faults[i].target]

\* A tick of the live loop in which only agents give orders, and a tick of the loop beside it.
LEMMA ResumedTick ==
    ASSUME SpineInv, NEW now, now = live.time + TickMs, NEW k,
           k = live \/ (k = FromSnapshot(SnapshotOf(live)) /\ Recalls(now)),
           NEW t, t = Tick(scenario, live, buffer),
           t.result.applied = Applied(scenario, live, buffer, now),
           \A i \in DOMAIN t.result.applied : t.result.applied[i].by = "agent",
           NEW u, u = Tick(Resumable(scenario), k, <<>>)
    PROVE  /\ t.loop = u.loop /\ t.result.points = u.result.points
           /\ t.result.alarms = ActiveNan(scenario, now) \ live.alarmed
           /\ u.result.alarms = ActiveNan(scenario, now) \ k.alarmed
<1> DEFINE r == Resumable(scenario)
<1>1. ScenarioOK(scenario)
  BY ScenarioAssumption DEF SpineInv, TimeInv
<1>2. live.pending \in Seq(Command) /\ buffer \in Seq(Write)
  BY DEF SpineInv, OrdersInv
<1>3. /\ k.time = live.time /\ k.count = live.count /\ k.setpoint = live.setpoint
      /\ k.pending = live.pending /\ k.cache = live.cache
  <2>1. CASE k = live
    BY <2>1
  <2>2. CASE k = FromSnapshot(SnapshotOf(live))
    <3>1. live.cache \in [Devices -> {None} \cup (Int \X Int)]
      BY DEF SpineInv, LoopInv
    <3> QED
      BY <1>2, <2>2, <3>1, Restored
  <2> QED
    BY <2>1, <2>2
<1>4. Engine(ApplyFaults(scenario.faults, live, now)) = Engine(ApplyFaults(scenario.faults, k, now))
  <2>1. CASE k = live
    BY <2>1
  <2>2. CASE k = FromSnapshot(SnapshotOf(live)) /\ Recalls(now)
    <3>1. live.cache \in [Devices -> {None} \cup (Int \X Int)]
      BY DEF SpineInv, LoopInv
    <3>2. k.faulty = live.faulty /\ k.active = {} /\ k.recover = {}
      BY <1>2, <2>2, <3>1, Restored
    <3>3. scenario.faults \in Seq(Window)
      BY <1>1 DEF ScenarioOK
    <3>4. live.faulty \in [Devices -> BOOLEAN] /\ live.active \subseteq DOMAIN scenario.faults
      BY DEF SpineInv, EngineInv, EngineOK, Engine
    <3>5. ASSUME NEW i \in live.active
          PROVE  InWindow(scenario.faults[i], now) /\ live.faulty[scenario.faults[i].target]
      <4>1. InWindow(scenario.faults[i], live.time)
        BY DEF SpineInv, EngineInv
      <4>2. scenario.faults[i] \in Window
        BY <3>3, <3>4
      <4>3. /\ scenario.faults[i].start \in Int /\ scenario.faults[i].end \in Int
            /\ live.time \in Int /\ TickMs \in Nat
        BY <4>2, TickAssumption DEF Window, SpineInv, TimeInv
      <4>4. scenario.faults[i].start <= now /\ now < scenario.faults[i].end
        <5>1. scenario.faults[i].start <= live.time
          BY <4>1 DEF InWindow
        <5>2. now < scenario.faults[i].end
          BY <2>2 DEF Recalls
        <5> QED
          BY <4>3, <5>1, <5>2
      <4>5. live.faulty[scenario.faults[i].target]
        BY <2>2 DEF Recalls
      <4> QED
        BY <4>4, <4>5 DEF InWindow
    <3>6. live.recover = {}
      BY <2>2 DEF Recalls
    <3> QED
      BY <3>2, <3>3, <3>4, <3>5, <3>6, FaultsFoundAgain
  <2> QED
    BY <2>1, <2>2
<1>5. SameButCommands(scenario, r) /\ Applied(r, k, <<>>, now) = By("agent", k.pending)
  BY <1>1, <1>2, <1>3, ResumedOrders
<1>6. Applied(scenario, live, buffer, now) = By("agent", live.pending)
  <2> DEFINE orders == Applied(scenario, live, buffer, now)
  <2>1. \A i \in DOMAIN orders : orders[i].by = "agent"
    OBVIOUS
  <2> HIDE DEF orders
  <2>2. orders = By("agent", live.pending)
    BY <1>1, <1>2, <2>1, AgentsOnly DEF orders
  <2> QED
    BY <2>2 DEF orders
<1>7. /\ SetPoints(live.setpoint, Applied(scenario, live, buffer, now))
           = SetPoints(k.setpoint, Applied(r, k, <<>>, now))
      /\ Engine(ApplyFaults(scenario.faults, live, now))
           = Engine(ApplyFaults(r.faults, k, now))
  BY <1>3, <1>4, <1>5, <1>6 DEF SameButCommands
<1> HIDE DEF r
<1>8. live.time = k.time /\ live.count = k.count /\ live.cache = k.cache
  BY <1>3
<1>9. u = Tick(r, k, <<>>)
  BY DEF r
<1> QED
  BY <1>5, <1>7, <1>8, <1>9, TickAlike

\* What excuses the n-th tick of the resumed loop, given the log.
ExcusedBy(faults, log0, manual0, snap0, n) ==
    \/ \E m \in (snap0.at + 1)..(snap0.at + n) :
          \E x \in ToSet(log0[m].applied) : x.by # "agent"
    \/ \E m \in manual0 : m[2] >= snap0.at
    \/ \E i \in snap0.active :
          \/ faults[i].end <= snap0.state.time + TickMs
          \/ ~snap0.state.faulty[faults[i].target]

\* The n-th tick persists what the live one did, or is excused.
SameResult(old, new, alarmed) ==
    /\ new.points = old.points
    /\ old.alarms \subseteq new.alarms
    /\ new.alarms \ old.alarms \subseteq alarmed

Agreed(faults, log0, manual0, snap0, played, n) ==
    \/ ExcusedBy(faults, log0, manual0, snap0, n)
    \/ SameResult(log0[snap0.at + n], played[n], IF n = 1 THEN snap0.alarmed ELSE {})

\* What is appended to the log takes no excuse away and adds none to the ticks before.
LEMMA ExcusedLonger ==
    ASSUME NEW faults, NEW S, NEW log0 \in Seq(S), NEW x, NEW manual0, NEW snap0,
           snap0.at \in Nat, NEW n \in Nat, snap0.at + n <= Len(log0)
    PROVE  /\ ExcusedBy(faults, Append(log0, x), manual0, snap0, n)
                <=> ExcusedBy(faults, log0, manual0, snap0, n)
           /\ ExcusedBy(faults, Append(log0, x), manual0, snap0, n)
                => ExcusedBy(faults, Append(log0, x), manual0, snap0, n + 1)
<1> DEFINE at == snap0.at
           longer == Append(log0, x)
<1>1. at \in Nat /\ at + n <= Len(log0) /\ Len(log0) \in Nat /\ DOMAIN log0 = 1..Len(log0)
  OBVIOUS
<1>2. \A i \in DOMAIN log0 : longer[i] = log0[i]
  BY Appended
<1> HIDE DEF at, longer
<1>3. \A i \in (at + 1)..(at + n) : longer[i] = log0[i] /\ i \in (at + 1)..(at + (n + 1))
  <2> SUFFICES ASSUME NEW i \in (at + 1)..(at + n)
               PROVE  longer[i] = log0[i] /\ i \in (at + 1)..(at + (n + 1))
    OBVIOUS
  <2>1. i \in 1..Len(log0) /\ i \in (at + 1)..(at + (n + 1))
    BY <1>1
  <2> QED
    BY <1>1, <1>2, <2>1
<1> DEFINE Told(l, k) == \E m \in (at + 1)..(at + k) :
                            \E y \in ToSet(l[m].applied) : y.by # "agent"
<1>4. (Told(longer, n) <=> Told(log0, n)) /\ (Told(longer, n) => Told(longer, n + 1))
  BY <1>3
<1> HIDE DEF Told
<1>5. \A l, k : ExcusedBy(faults, l, manual0, snap0, k) <=>
         \/ Told(l, k)
         \/ \E m \in manual0 : m[2] >= at
         \/ \E i \in snap0.active :
               \/ faults[i].end <= snap0.state.time + TickMs
               \/ ~snap0.state.faulty[faults[i].target]
  BY DEF ExcusedBy, Told, at
<1> DEFINE Other == \/ \E m \in manual0 : m[2] >= at
                    \/ \E i \in snap0.active :
                          \/ faults[i].end <= snap0.state.time + TickMs
                          \/ ~snap0.state.faulty[faults[i].target]
<1>6. ExcusedBy(faults, longer, manual0, snap0, n) <=> Told(longer, n) \/ Other
  BY <1>5
<1>7. ExcusedBy(faults, log0, manual0, snap0, n) <=> Told(log0, n) \/ Other
  BY <1>5
<1>8. ExcusedBy(faults, longer, manual0, snap0, n + 1) <=> Told(longer, n + 1) \/ Other
  BY <1>5
<1> HIDE DEF Other
<1>9. /\ ExcusedBy(faults, longer, manual0, snap0, n)
            <=> ExcusedBy(faults, log0, manual0, snap0, n)
      /\ ExcusedBy(faults, longer, manual0, snap0, n)
            => ExcusedBy(faults, longer, manual0, snap0, n + 1)
  BY <1>4, <1>6, <1>7, <1>8
<1> QED
  BY <1>9 DEF longer

\* The same of a loop resumed in the model.
Excuses(n) == ExcusedBy(scenario.faults, log, manual, snap, n)

\* Unless something excuses it, the resumed loop is the live one from its first tick on.
ResumeInv ==
    snap # None =>
      /\ snap.at \in Nat /\ snap.at <= Len(log)
      /\ \E S : Relive.log \in Seq(S)
      /\ Len(Relive.log) = Len(log) - snap.at
      /\ \A n \in DOMAIN Relive.log :
            Agreed(scenario.faults, log, manual, snap, Relive.log, n)
      /\ ~Excuses(Len(log) - snap.at) =>
            IF Len(log) = snap.at
            THEN /\ snap.state = SnapshotOf(live) /\ Relive.loop = FromSnapshot(snap.state)
                 /\ snap.active = live.active /\ snap.alarmed = live.alarmed
            ELSE Relive.loop = live

\* A tick of both loops.
LEMMA ResumeKept ==
    ASSUME SpineInv, ResumeInv, LiveTick, snap # None
    PROVE  ResumeInv'
<1> DEFINE now == live.time + TickMs
           m == Len(log) - snap.at
           r == Resumable(scenario)
           k == Relive.loop
           u == Tick(r, k, <<>>)
           last == Len(log) + 1
<1>1. PICK t : /\ t = Tick(scenario, live, buffer)
               /\ live' = t.loop /\ log' = Append(log, t.result)
               /\ t.result.applied = Applied(scenario, live, buffer, now)
               /\ t.result.applied \in Seq(Order)
               /\ scenario' = scenario /\ manual' = manual /\ snap' = snap
  BY LiveTickIs DEF SpineInv
<1>2. PICK S : log \in Seq(S)
  BY DEF SpineInv, TimeInv
<1>3. /\ Len(log) \in Nat /\ DOMAIN log = 1..Len(log) /\ Len(log') = last
      /\ \A i \in DOMAIN log : log'[i] = log[i]
      /\ log'[last] = t.result
  BY <1>1, <1>2, Appended
<1>4. /\ snap.at \in Nat /\ m \in Nat /\ snap.at + m = Len(log) /\ snap.at + (m + 1) = last
      /\ Len(log') - snap'.at = m + 1
  <2>1. snap.at \in Nat /\ snap.at <= Len(log)
    BY DEF ResumeInv
  <2>2. snap'.at = snap.at
    BY <1>1
  <2> QED
    BY <1>3, <2>1, <2>2
<1>5. Relive' = PlayTick(r, Relive)
  <2> HIDE DEF m
  <2>1. Relive = Play(r, FromSnapshot(snap.state), m)
    BY DEF Relive, m
  <2>2. Relive' = Play(r, FromSnapshot(snap.state), m + 1)
    BY <1>1, <1>4 DEF Relive
  <2> QED
    BY <1>4, <2>1, <2>2, PlaySteps
<1>6. Relive'.loop = u.loop /\ Relive'.log = Append(Relive.log, u.result)
  BY <1>5 DEF PlayTick
<1>7. PICK T : Relive.log \in Seq(T)
  BY DEF ResumeInv
<1>21. now = live.time + TickMs /\ u = Tick(Resumable(scenario), k, <<>>)
  OBVIOUS
<1>22. t = Tick(scenario, live, buffer) /\ t.result.applied = Applied(scenario, live, buffer, now)
  BY <1>1
<1> HIDE DEF now, r, k, u
<1>8. /\ Relive'.log \in Seq(T \cup {u.result}) /\ Len(Relive'.log) = m + 1
      /\ DOMAIN Relive.log = 1..m /\ DOMAIN Relive'.log = 1..(m + 1)
      /\ \A n \in 1..m : Relive'.log[n] = Relive.log[n]
      /\ Relive'.log[m + 1] = u.result
  <2> DEFINE q == Relive.log
  <2>1. q \in Seq(T) /\ Len(q) = m
    BY <1>7 DEF ResumeInv
  <2> HIDE DEF q, m
  <2>2. /\ Append(q, u.result) \in Seq(T \cup {u.result})
        /\ Len(Append(q, u.result)) = Len(q) + 1
        /\ DOMAIN Append(q, u.result) = DOMAIN q \cup {Len(q) + 1}
        /\ \A i \in DOMAIN q : Append(q, u.result)[i] = q[i]
        /\ Append(q, u.result)[Len(q) + 1] = u.result
    BY <2>1, Appended
  <2>3. DOMAIN q = 1..m
    BY <2>1
  <2>4. DOMAIN q \cup {m + 1} = 1..(m + 1)
    BY <1>4, <2>3
  <2> QED
    BY <1>6, <2>1, <2>2, <2>3, <2>4 DEF q
<1> HIDE DEF m, last
<1> DEFINE faults == scenario.faults
           log0 == log'
           played == Relive'.log
           E(n) == ExcusedBy(faults, log, manual, snap, n)
           F(n) == ExcusedBy(faults, log0, manual, snap, n)
           A(n) == Agreed(faults, log0, manual, snap, played, n)
<1>9. ASSUME NEW n \in 0..m PROVE (E(n) <=> F(n)) /\ (F(n) => F(n + 1))
  <2>1. n \in Nat /\ snap.at + n <= Len(log) /\ snap.at \in Nat
    BY <1>3, <1>4
  <2>2. /\ ExcusedBy(faults, Append(log, t.result), manual, snap, n) <=> E(n)
        /\ ExcusedBy(faults, Append(log, t.result), manual, snap, n)
             => ExcusedBy(faults, Append(log, t.result), manual, snap, n + 1)
    BY <1>2, <2>1, ExcusedLonger
  <2> QED
    BY <1>1, <2>2
<1>10. ASSUME NEW n \in 1..m PROVE A(n)
  <2>1. Agreed(faults, log, manual, snap, Relive.log, n)
    BY <1>8 DEF ResumeInv
  <2>2. n \in 0..m /\ snap.at + n \in DOMAIN log
    BY <1>3, <1>4
  <2>3. log0[snap.at + n] = log[snap.at + n] /\ played[n] = Relive.log[n]
    BY <1>3, <1>8, <2>2
  <2>4. E(n) <=> F(n)
    BY <1>9, <2>2
  <2> HIDE DEF log0, played, faults
  <2> QED
    BY <2>1, <2>3, <2>4 DEF Agreed
<1>11. ASSUME ~F(m + 1)
       PROVE  A(m + 1) /\ Relive'.loop = live'
  <2>1. ~E(m)
    <3>1. m \in 0..m
      BY <1>4
    <3> HIDE DEF E, F
    <3> QED
      BY <1>9, <1>11, <3>1
  <2>2. \A i \in DOMAIN t.result.applied : t.result.applied[i].by = "agent"
    <3>1. last \in (snap.at + 1)..(snap.at + (m + 1)) /\ log0[last] = t.result
      BY <1>3, <1>4
    <3> HIDE DEF log0
    <3>2. \A x \in ToSet(log0[last].applied) : x.by = "agent"
      BY <1>11, <3>1 DEF ExcusedBy
    <3>3. \A x \in ToSet(t.result.applied) : x.by = "agent"
      BY <3>1, <3>2
    <3> QED
      BY <3>3 DEF ToSet
  <2>3. /\ \A x \in manual : ~(x[2] >= snap.at)
        /\ \A i \in snap.active : /\ ~(scenario.faults[i].end <= snap.state.time + TickMs)
                                  /\ snap.state.faulty[scenario.faults[i].target]
    BY <1>11 DEF ExcusedBy
  <2>4. CASE m = 0
    <3>1. /\ snap.state = SnapshotOf(live) /\ k = FromSnapshot(snap.state)
          /\ snap.active = live.active /\ snap.alarmed = live.alarmed /\ Len(log) = snap.at
      BY <1>4, <2>1, <2>4 DEF ResumeInv, Excuses, m, k
    <3>2. snap.state.time = live.time /\ snap.state.faulty = live.faulty
      BY <3>1 DEF SnapshotOf
    <3>3. live.recover = {}
      <4>1. ASSUME NEW x \in manual, x[2] = Len(log) PROVE FALSE
        BY <1>3, <2>3, <3>1, <4>1
      <4> QED
        BY <4>1 DEF SpineInv, LoopInv
    <3>4. ASSUME NEW i \in live.active PROVE now < scenario.faults[i].end
      <4>1. scenario.faults \in Seq(Window) /\ i \in DOMAIN scenario.faults
        BY ScenarioAssumption DEF SpineInv, TimeInv, ScenarioOK, EngineInv, EngineOK, Engine
      <4>2. scenario.faults[i] \in Window
        BY <4>1
      <4>3. scenario.faults[i].end \in Int /\ now \in Int
        BY <4>2, TickAssumption DEF Window, SpineInv, TimeInv, now
      <4>4. ~(scenario.faults[i].end <= now)
        BY <2>3, <3>1, <3>2 DEF now
      <4> QED
        BY <4>3, <4>4
    <3>5. Recalls(now)
      BY <2>3, <3>1, <3>2, <3>3, <3>4 DEF Recalls
    <3>6. /\ t.loop = u.loop /\ t.result.points = u.result.points
          /\ t.result.alarms = ActiveNan(scenario, now) \ live.alarmed
          /\ u.result.alarms = ActiveNan(scenario, now) \ k.alarmed
      BY <1>21, <1>22, <2>2, <3>1, <3>5, ResumedTick
    <3>7. k.alarmed = {}
      <4>1. live.pending \in Seq(Command)
            /\ live.cache \in [Devices -> {None} \cup (Int \X Int)]
        BY DEF SpineInv, OrdersInv, LoopInv
      <4> QED
        BY <3>1, <4>1, Restored
    <3>8. m + 1 = 1
      BY <2>4
    <3>9. Relive'.loop = live'
      BY <1>1, <1>6, <3>6
    <3>10. SameResult(t.result, u.result, snap.alarmed)
      BY <3>1, <3>6, <3>7 DEF SameResult
    <3>11. log0[snap.at + (m + 1)] = t.result /\ played[m + 1] = u.result
      BY <1>3, <1>4, <1>8
    <3>12. A(m + 1)
      <4> HIDE DEF log0, played, faults
      <4> QED
        BY <3>8, <3>10, <3>11 DEF Agreed
    <3> QED
      BY <3>9, <3>12
  <2>5. CASE m # 0
    <3>1. k = live
      BY <1>4, <2>1, <2>5 DEF ResumeInv, Excuses, m, k
    <3>2. /\ t.loop = u.loop /\ t.result.points = u.result.points
          /\ t.result.alarms = ActiveNan(scenario, now) \ live.alarmed
          /\ u.result.alarms = ActiveNan(scenario, now) \ k.alarmed
      BY <1>21, <1>22, <2>2, <3>1, ResumedTick
    <3>3. t.result.alarms = u.result.alarms
      BY <3>1, <3>2
    <3>4. Relive'.loop = live'
      BY <1>1, <1>6, <3>2
    <3>5. \A alarmed : SameResult(t.result, u.result, alarmed)
      BY <3>2, <3>3 DEF SameResult
    <3>6. log0[snap.at + (m + 1)] = t.result /\ played[m + 1] = u.result
      BY <1>3, <1>4, <1>8
    <3>7. A(m + 1)
      <4> HIDE DEF log0, played, faults
      <4> QED
        BY <3>5, <3>6 DEF Agreed
    <3> QED
      BY <3>4, <3>7
  <2> QED
    BY <2>4, <2>5
<1>12. ASSUME NEW n \in DOMAIN played PROVE A(n)
  <2>1. n \in 1..m \/ n = m + 1
    BY <1>4, <1>8
  <2>2. F(m + 1) => A(m + 1)
    BY DEF Agreed
  <2> HIDE DEF A, F
  <2> QED
    BY <1>10, <1>11, <2>1, <2>2
<1>13. Len(log0) # snap.at /\ snap.at <= Len(log0) /\ Len(log0) - snap.at = m + 1
  BY <1>1, <1>3, <1>4 DEF last
<1>14. scenario'.faults = faults /\ manual' = manual /\ snap' = snap
  BY <1>1
<1>15. F(m + 1) <=> Excuses(Len(log) - snap.at)'
  BY <1>13, <1>14 DEF Excuses
<1>16. (\A n \in DOMAIN Relive.log : Agreed(scenario.faults, log, manual, snap, Relive.log, n))'
  BY <1>12, <1>14
<1>17. \E U : played \in Seq(U) /\ Len(played) = m + 1
  BY <1>8
<1> HIDE DEF F, log0, played
<1>18. (\E U : Relive.log \in Seq(U))' /\ (Len(Relive.log) = Len(log) - snap.at)'
  BY <1>13, <1>14, <1>17 DEF log0, played
<1>19. ~Excuses(Len(log) - snap.at)' => Relive'.loop = live' /\ (Len(log) # snap.at)'
  BY <1>11, <1>13, <1>14, <1>15 DEF log0
<1>20. (snap.at \in Nat /\ snap.at <= Len(log))'
  BY <1>4, <1>13, <1>14 DEF log0
<1> QED
  BY <1>16, <1>18, <1>19, <1>20 DEF ResumeInv

\* A manual recovery after the snapshot excuses every tick.
LEMMA RecoverExcuses ==
    ASSUME NEW faults, NEW log0, NEW manual0, NEW snap0, NEW x \in manual0,
           x[2] >= snap0.at, NEW n
    PROVE  ExcusedBy(faults, log0, manual0, snap0, n)
  BY DEF ExcusedBy

\* A resumed loop stays the live one, unless it is excused.
LEMMA ResumeInvEver == Spec => []ResumeInv
<1>1. Init => ResumeInv
  BY DEF Init, ResumeInv
<1>2. ASSUME SpineInv, ResumeInv, [Next]_vars
      PROVE  ResumeInv'
  <2>1. CASE UNCHANGED <<scenario, live, log, manual, snap>>
    <3>1. Relive' = Relive /\ \A n : Excuses(n)' <=> Excuses(n)
      BY <2>1 DEF Relive, Excuses
    <3> QED
      BY <1>2, <2>1, <3>1 DEF ResumeInv
  <2>2. CASE \E i \in DOMAIN scenario.faults : Recover(i)
    <3>1. PICK i \in DOMAIN scenario.faults : Recover(i)
      BY <2>2
    <3>2. /\ manual' = manual \cup {<<i, Len(log)>>}
          /\ scenario' = scenario /\ log' = log /\ snap' = snap
      BY <3>1 DEF Recover
    <3>3. SUFFICES ASSUME snap # None
                   PROVE  ResumeInv'
      BY <3>2 DEF ResumeInv
    <3>4. Relive' = Relive
      BY <3>2 DEF Relive
    <3>5. snap.at \in Nat /\ snap.at <= Len(log)
      BY <1>2, <3>3 DEF ResumeInv
    <3>6. \A n : ExcusedBy(scenario.faults, log, manual', snap, n)
      <4> DEFINE x == <<i, Len(log)>>
      <4>1. x \in manual' /\ x[2] >= snap.at
        <5>1. Len(log) \in Nat
          BY <1>2 DEF SpineInv, TimeInv
        <5> QED
          BY <3>2, <3>5, <5>1
      <4> HIDE DEF x
      <4> QED
        BY <4>1, RecoverExcuses
    <3>7. \A n : Agreed(scenario.faults, log, manual', snap, Relive.log, n)
      BY <3>6 DEF Agreed
    <3>8. (\A n \in DOMAIN Relive.log :
              Agreed(scenario.faults, log, manual, snap, Relive.log, n))'
      BY <3>2, <3>4, <3>7
    <3>9. Excuses(Len(log) - snap.at)'
      BY <3>2, <3>6 DEF Excuses
    <3>10. (/\ snap.at \in Nat /\ snap.at <= Len(log)
            /\ \E S : Relive.log \in Seq(S)
            /\ Len(Relive.log) = Len(log) - snap.at)'
      BY <1>2, <3>2, <3>3, <3>4 DEF ResumeInv
    <3> QED
      BY <3>8, <3>9, <3>10 DEF ResumeInv
  <2>3. CASE LiveTick
    <3>1. CASE snap = None
      <4>1. snap' = None
        BY <2>3, <3>1 DEF LiveTick
      <4> QED
        BY <4>1 DEF ResumeInv
    <3>2. CASE snap # None
      BY <1>2, <2>3, <3>2, ResumeKept
    <3> QED
      BY <3>1, <3>2
  <2>4. CASE Snapshot
    <3>1. /\ snap' = [state |-> SnapshotOf(live), at |-> Len(log), active |-> live.active,
                      alarmed |-> live.alarmed]
          /\ scenario' = scenario /\ live' = live /\ log' = log
      BY <2>4 DEF Snapshot
    <3>2. /\ snap'.at = Len(log) /\ snap'.state = SnapshotOf(live)
          /\ snap'.active = live.active /\ snap'.alarmed = live.alarmed
      BY <3>1
    <3>3. Len(log) \in Nat
      BY <1>2 DEF SpineInv, TimeInv
    <3>4. Len(log)' - snap'.at = 0
      BY <3>1, <3>2, <3>3
    <3>5. Relive' = [loop |-> FromSnapshot(snap'.state), log |-> <<>>]
      <4>1. Relive' = Play(Resumable(scenario'), FromSnapshot(snap'.state), 0)
        BY <3>4 DEF Relive
      <4>2. \A r, loop : Play(r, loop, 0) = First(loop)
        BY PlaySteps
      <4> QED
        BY <4>1, <4>2 DEF First
    <3>6. Relive'.loop = FromSnapshot(snap'.state) /\ Relive'.log = <<>>
      BY <3>5
    <3>7. <<>> \in Seq({}) /\ Len(<<>>) = 0 /\ DOMAIN <<>> = {}
      OBVIOUS
    <3>8. (/\ \E S : Relive.log \in Seq(S)
           /\ \A n \in DOMAIN Relive.log :
                Agreed(scenario.faults, log, manual, snap, Relive.log, n))'
      BY <3>6, <3>7
    <3>9. (/\ snap.at \in Nat /\ snap.at <= Len(log)
           /\ Len(Relive.log) = Len(log) - snap.at)'
      BY <3>1, <3>2, <3>3, <3>4, <3>6, <3>7
    <3>10. (/\ Len(log) = snap.at
            /\ snap.state = SnapshotOf(live) /\ Relive.loop = FromSnapshot(snap.state)
            /\ snap.active = live.active /\ snap.alarmed = live.alarmed)'
      BY <3>1, <3>2, <3>6
    <3> QED
      BY <3>8, <3>9, <3>10 DEF ResumeInv
  <2>5. ASSUME NEW w \in Writes, Enqueue(w[1], w[2])
        PROVE  ResumeInv'
    <3>1. UNCHANGED <<scenario, live, log, manual, snap>>
      BY <2>5 DEF Enqueue
    <3> QED
      BY <2>1, <3>1
  <2>6. CASE UNCHANGED vars
    <3>1. UNCHANGED <<scenario, live, log, manual, snap>>
      BY <2>6 DEF vars
    <3> QED
      BY <2>1, <3>1
  <2> QED
    BY <1>2, <2>2, <2>3, <2>4, <2>5, <2>6 DEF Next
<1> QED
  BY <1>1, <1>2, SpineEver, PTL DEF Spec

\* A resumed loop persists what the live one does, but for what it cannot know.
THEOREM ResumeEver == Spec => []ResumedAgreesUnlessExcused
<1>1. ResumeInv => ResumedAgreesUnlessExcused
  <2> SUFFICES ASSUME ResumeInv, snap # None, NEW n \in DOMAIN Relive.log, ~ResumeExcused(n)
               PROVE  LET old == log[snap.at + n]
                          new == Relive.log[n]
                      IN  /\ new.points = old.points
                          /\ old.alarms \subseteq new.alarms
                          /\ new.alarms \ old.alarms \subseteq IF n = 1 THEN snap.alarmed ELSE {}
    BY DEF ResumedAgreesUnlessExcused
  <2>1. Agreed(scenario.faults, log, manual, snap, Relive.log, n)
    BY DEF ResumeInv
  <2>2. ~ExcusedBy(scenario.faults, log, manual, snap, n)
    BY DEF ExcusedBy, ResumeExcused
  <2> QED
    BY <2>1, <2>2 DEF Agreed, SameResult
<1> QED
  BY <1>1, ResumeInvEver, PTL

-------------------------------------------------------------------------------
(***************************************************************************)
(* A replay                                                                *)
(***************************************************************************)

\* The scenario with further commands behind its own.
With(s, q) == [s EXCEPT !.commands = Cat(s.commands, q)]

\* The places of the recorded writes that are due in a tick.
Due(q, now) == {i \in DOMAIN q : now <= q[i].at /\ q[i].at < now + TickMs}

Scripted == [at : Int, target : Devices, value : Int]

\* The commands of the scenario that are due come before the recorded writes that are.
LEMMA DueWith ==
    ASSUME NEW s, ScenarioOK(s), NEW q \in Seq(Recording), NEW now
    PROVE  DueCommands(With(s, q), now) = Cat(DueCommands(s, now), Sift(q, Due(q, now)))
<1> DEFINE c == s.commands
           S == Scripted \cup Recording
           w == Cat(c, q)
           I == Due(w, now)
<1>1. c \in Seq(S) /\ q \in Seq(S)
  <2>1. c \in Seq(Scripted)
    BY DEF ScenarioOK, Scripted
  <2> HIDE DEF c
  <2> QED
    BY <2>1
<1>2. IsCat(S, c, q, w)
  <2> HIDE DEF c, S
  <2> QED
    BY <1>1, CatTyped
<1>3. With(s, q).commands = w
  BY DEF ScenarioOK, With
<1> HIDE DEF c, S, w
<1>4. /\ Len(c) \in Nat /\ Len(q) \in Nat
      /\ DOMAIN c = 1..Len(c) /\ DOMAIN q = 1..Len(q) /\ DOMAIN w = 1..(Len(c) + Len(q))
      /\ \A i \in 1..Len(c) : w[i] = c[i]
      /\ \A i \in 1..Len(q) : w[Len(c) + i] = q[i]
  BY <1>1, <1>2 DEF IsCat
<1>5. \A i \in DOMAIN c : i \in I <=> i \in Due(c, now)
  <2> SUFFICES ASSUME NEW i \in DOMAIN c
               PROVE  i \in I <=> i \in Due(c, now)
    OBVIOUS
  <2>1. i \in DOMAIN w /\ w[i] = c[i]
    BY <1>4
  <2> QED
    BY <2>1 DEF Due
<1>6. \A i \in DOMAIN q : Len(c) + i \in I <=> i \in Due(q, now)
  <2> SUFFICES ASSUME NEW i \in DOMAIN q
               PROVE  Len(c) + i \in I <=> i \in Due(q, now)
    OBVIOUS
  <2>1. Len(c) + i \in DOMAIN w /\ w[Len(c) + i] = q[i]
    BY <1>4
  <2> QED
    BY <2>1 DEF Due
<1> HIDE DEF I
<1>7. Sift(w, I) = Cat(Sift(c, Due(c, now)), Sift(q, Due(q, now)))
  BY <1>1, <1>5, <1>6, SiftConcat DEF w
<1>8. DueCommands(s, now) = Sift(c, Due(c, now))
  BY DEF DueCommands, Due, c
<1>9. DueCommands(With(s, q), now) = Sift(w, I)
  BY <1>3 DEF DueCommands, Due, I
<1> QED
  BY <1>7, <1>8, <1>9

\* The recorded writes of a tick: none of those before, all of those now.
LEMMA DueParts ==
    ASSUME NEW old \in Seq(Recording), NEW new \in Seq(Recording), NEW now
    PROVE  /\ (\A i \in DOMAIN new : i \notin Due(new, now)) =>
                 Sift(Cat(old, new), Due(Cat(old, new), now)) = Sift(old, Due(old, now))
           /\ (\A i \in DOMAIN old : i \notin Due(old, now)) /\ DOMAIN new \subseteq Due(new, now)
                =>
                 Sift(Cat(old, new), Due(Cat(old, new), now)) = new
<1> DEFINE w == Cat(old, new)
           I == Due(w, now)
           a == Sift(old, Due(old, now))
           b == Sift(new, Due(new, now))
           R == Recording
<1> HIDE DEF R
<1>0. old \in Seq(R) /\ new \in Seq(R)
  BY DEF R
<1>1. IsCat(R, old, new, w)
  BY <1>0, CatTyped
<1> HIDE DEF w
<1>2. /\ Len(old) \in Nat /\ Len(new) \in Nat
      /\ DOMAIN old = 1..Len(old) /\ DOMAIN new = 1..Len(new)
      /\ DOMAIN w = 1..(Len(old) + Len(new))
      /\ \A i \in 1..Len(old) : w[i] = old[i]
      /\ \A i \in 1..Len(new) : w[Len(old) + i] = new[i]
  BY <1>0, <1>1 DEF IsCat
<1>3. \A i \in DOMAIN old : i \in I <=> i \in Due(old, now)
  <2> SUFFICES ASSUME NEW i \in DOMAIN old
               PROVE  i \in I <=> i \in Due(old, now)
    OBVIOUS
  <2>1. i \in DOMAIN w /\ w[i] = old[i]
    BY <1>2
  <2> QED
    BY <2>1 DEF Due
<1>4. \A i \in DOMAIN new : Len(old) + i \in I <=> i \in Due(new, now)
  <2> SUFFICES ASSUME NEW i \in DOMAIN new
               PROVE  Len(old) + i \in I <=> i \in Due(new, now)
    OBVIOUS
  <2>1. Len(old) + i \in DOMAIN w /\ w[Len(old) + i] = new[i]
    BY <1>2
  <2> QED
    BY <2>1 DEF Due
<1> HIDE DEF I
<1>5. Sift(w, I) = Cat(a, b)
  BY <1>0, <1>3, <1>4, SiftConcat DEF w
<1>6. ASSUME \A i \in DOMAIN new : i \notin Due(new, now)
      PROVE  Cat(a, b) = a
  <2>1. b = <<>>
    BY <1>0, <1>6, SiftNone
  <2>2. a \in Seq(R)
    <3>1. \A i \in Due(old, now) \cap DOMAIN old : old[i] \in R
      BY <1>0
    <3> QED
      BY <1>0, <3>1, SiftIn
  <2> HIDE DEF a, b
  <2> QED
    BY <2>1, <2>2, CatEmpty
<1>7. ASSUME \A i \in DOMAIN old : i \notin Due(old, now), DOMAIN new \subseteq Due(new, now)
      PROVE  Cat(a, b) = new
  <2>1. a = <<>>
    BY <1>0, <1>7, SiftNone
  <2>2. b = new
    BY <1>0, <1>7, SiftAll
  <2> HIDE DEF a, b
  <2> QED
    BY <1>0, <2>1, <2>2, CatEmpty
<1> HIDE DEF a, b
<1>8. /\ (\A i \in DOMAIN new : i \notin Due(new, now)) => Sift(w, I) = a
      /\ (\A i \in DOMAIN old : i \notin Due(old, now)) /\ DOMAIN new \subseteq Due(new, now) =>
            Sift(w, I) = new
  BY <1>5, <1>6, <1>7
<1> QED
  BY <1>8 DEF I, a, w

\* They change nothing else.
LEMMA WithAlike ==
    ASSUME NEW s, ScenarioOK(s), NEW q
    PROVE  SameButCommands(s, With(s, q)) /\ With(s, q).faults = s.faults
  BY DEF ScenarioOK, With, SameButCommands

\* A tick depends on the commands of the scenario only by those that are due in it.
LEMMA TickSame ==
    ASSUME NEW s, NEW r, SameButCommands(s, r), NEW loop, NEW now, now = loop.time + TickMs,
           DueCommands(s, now) = DueCommands(r, now)
    PROVE  Tick(s, loop, <<>>) = Tick(r, loop, <<>>)
<1> DEFINE commands == Applied(s, loop, <<>>, now)
           setpoint == SetPoints(loop.setpoint, commands)
           e == ApplyFaults(s.faults, loop, now)
           power == [d \in Devices |-> Power(setpoint[d], e.faulty[d])]
           p == QualityStage(s, loop, power, now)
           q == QualityStage(r, loop, power, now)
<1>1. commands = Applied(r, loop, <<>>, now)
  BY DEF Applied
<1>2. s.faults = r.faults /\ s.agents = r.agents
  BY DEF SameButCommands
<1>3. /\ p.cache = q.cache /\ p.alarmed = q.alarmed /\ p.points = q.points
      /\ p.alarms = q.alarms
  <2> HIDE DEF power
  <2>1. /\ p.cache = q.cache /\ p.alarmed = q.alarmed /\ p.points = q.points
        /\ p.alarms = ActiveNan(s, now) \ loop.alarmed
        /\ q.alarms = ActiveNan(s, now) \ loop.alarmed
    BY QualityAlike
  <2> QED
    BY <2>1
<1>4. Tick(s, loop, <<>>) =
        [loop |-> [time |-> now, count |-> loop.count + 1,
                   pending |-> AgentCommands(s.agents, loop.count, now),
                   setpoint |-> setpoint, faulty |-> e.faulty,
                   active |-> e.active, recover |-> e.recover,
                   alarmed |-> p.alarmed, cache |-> p.cache],
         result |-> TickResult(loop, now, p, commands, power)]
  BY DEF Tick
<1>5. Tick(r, loop, <<>>) =
        [loop |-> [time |-> now, count |-> loop.count + 1,
                   pending |-> AgentCommands(r.agents, loop.count, now),
                   setpoint |-> setpoint, faulty |-> e.faulty,
                   active |-> e.active, recover |-> e.recover,
                   alarmed |-> q.alarmed, cache |-> q.cache],
         result |-> TickResult(loop, now, q, commands, power)]
  <2>1. e = ApplyFaults(r.faults, loop, now) /\ setpoint = SetPoints(loop.setpoint, commands)
    BY <1>2
  <2> HIDE DEF commands, setpoint, e
  <2>2. /\ now = loop.time + TickMs
        /\ commands = Applied(r, loop, <<>>, now)
        /\ setpoint = SetPoints(loop.setpoint, Applied(r, loop, <<>>, now))
        /\ e = ApplyFaults(r.faults, loop, now)
        /\ power = [d \in Devices |-> Power(setpoint[d], e.faulty[d])]
    BY <1>1, <2>1
  <2> HIDE DEF power
  <2> QED
    BY <2>2 DEF Tick
<1>6. TickResult(loop, now, p, commands, power) = TickResult(loop, now, q, commands, power)
  <2> HIDE DEF p, q, commands, power
  <2> QED
    BY <1>3 DEF TickResult
<1> HIDE DEF commands, setpoint, e, power, p, q
<1> QED
  BY <1>2, <1>3, <1>4, <1>5, <1>6

\* The clock of a replay.
LEMMA PlayTime ==
    ASSUME NEW s, NEW n \in Nat
    PROVE  Play(s, InitLoop, n).loop.time = n * TickMs
<1> DEFINE time(k) == Play(s, InitLoop, k).loop.time
           S == {k \in 0..n : time(k) = k * TickMs}
<1>1. TickMs \in Nat
  BY TickAssumption
<1>2. 0 \in S
  <2>1. Play(s, InitLoop, 0) = First(InitLoop)
    BY PlaySteps
  <2>2. time(0) = 0
    BY <2>1 DEF First, InitLoop
  <2> HIDE DEF time
  <2> QED
    BY <1>1, <2>2
<1>3. ASSUME NEW k \in 0..(n - 1), k \in S PROVE k + 1 \in S
  <2> DEFINE run == Play(s, InitLoop, k)
  <2>1. Play(s, InitLoop, k + 1) = PlayTick(s, run)
    BY PlaySteps
  <2> HIDE DEF run
  <2>2. PlayTick(s, run).loop.time = run.loop.time + TickMs
    BY TickOrders DEF PlayTick
  <2>3. time(k + 1) = time(k) + TickMs
    BY <2>1, <2>2 DEF run
  <2>4. time(k) = k * TickMs
    BY <1>3
  <2> HIDE DEF time
  <2>5. (k + 1) * TickMs = k * TickMs + TickMs
    BY <1>1
  <2>6. time(k + 1) = (k + 1) * TickMs /\ k + 1 \in 0..n
    BY <2>3, <2>4, <2>5
  <2> QED
    BY <2>6
<1>4. 0..n \subseteq S
  <2> HIDE DEF S
  <2> QED
    BY <1>2, <1>3, UpTo
<1> QED
  BY <1>4

\* What is recorded of a tick does not change the replay of the ticks before it.
LEMMA ReplayStill ==
    ASSUME NEW s, ScenarioOK(s), NEW old \in Seq(Recording), NEW new \in Seq(Recording),
           NEW n \in Nat, \A i \in DOMAIN new : new[i].at = (n + 1) * TickMs
    PROVE  Play(With(s, old), InitLoop, n) = Play(With(s, Cat(old, new)), InitLoop, n)
<1> DEFINE a == With(s, old)
           w == Cat(old, new)
           b == With(s, w)
<1>1. TickMs \in Nat \ {0}
  BY TickAssumption
<1>2. w \in Seq(Recording)
  <2>1. IsCat(Recording, old, new, w)
    BY CatTyped
  <2> QED
    BY <2>1 DEF IsCat
<1>3. SameButCommands(a, b)
  BY WithAlike DEF SameButCommands
<1>4. ASSUME NEW k \in 0..(n - 1)
      PROVE  PlayTick(a, Play(a, InitLoop, k)) = PlayTick(b, Play(a, InitLoop, k))
  <2> DEFINE run == Play(a, InitLoop, k)
             now == run.loop.time + TickMs
  <2>1. run.loop.time = k * TickMs
    BY PlayTime
  <2> HIDE DEF run
  <2>2. now + TickMs < (n + 1) * TickMs \/ now + TickMs = (n + 1) * TickMs
    <3>1. now + TickMs = (k + 2) * TickMs
      BY <1>1, <2>1
    <3>2. k + 2 < n + 1 \/ k + 2 = n + 1
      OBVIOUS
    <3>3. CASE k + 2 = n + 1
      BY <3>1, <3>3
    <3>4. CASE k + 2 < n + 1
      <4>1. PICK j \in Nat \ {0} : k + 2 + j = n + 1
        BY <3>4
      <4>2. (k + 2 + j) * TickMs = (k + 2) * TickMs + j * TickMs
        BY <1>1
      <4>3. j * TickMs > 0 /\ j * TickMs \in Int /\ (k + 2) * TickMs \in Int
        BY <1>1
      <4> QED
        BY <3>1, <4>1, <4>2, <4>3
    <3> QED
      BY <3>2, <3>3, <3>4
  <2>3. now \in Int /\ (n + 1) * TickMs \in Int
    BY <1>1, <2>1
  <2> HIDE DEF now
  <2>4. \A i \in DOMAIN new : i \notin Due(new, now)
    <3> SUFFICES ASSUME NEW i \in Due(new, now) PROVE FALSE
      OBVIOUS
    <3>1. new[i].at = (n + 1) * TickMs /\ new[i].at < now + TickMs
      BY DEF Due
    <3> QED
      BY <1>1, <2>2, <2>3, <3>1
  <2>5. Sift(w, Due(w, now)) = Sift(old, Due(old, now))
    BY <2>4, DueParts
  <2> HIDE DEF w
  <2>6. DueCommands(a, now) = Cat(DueCommands(s, now), Sift(old, Due(old, now)))
    BY DueWith
  <2>7. DueCommands(b, now) = Cat(DueCommands(s, now), Sift(w, Due(w, now)))
    BY <1>2, DueWith
  <2>8. DueCommands(a, now) = DueCommands(b, now)
    BY <2>5, <2>6, <2>7
  <2> HIDE DEF a, b
  <2>9. Tick(a, run.loop, <<>>) = Tick(b, run.loop, <<>>)
    BY <1>3, <2>8, TickSame DEF now
  <2> QED
    BY <2>9 DEF PlayTick, run
<1> HIDE DEF a, b
<1>5. Play(a, InitLoop, n) = Play(b, InitLoop, n)
  BY <1>4, PlaySame
<1> QED
  BY <1>5 DEF a, b, w


\* The orders of a tick, source by source.
IsOrders(s, loop, writes, now, a, g, w) ==
    /\ a \in Seq(Order) /\ g \in Seq(Order) /\ w \in Seq(Order)
    /\ a = Scheduled(s, now)
    /\ g = By("agent", loop.pending)
    /\ Len(w) = Len(writes)
    /\ \A i \in 1..Len(w) : w[i] = Marked("inbound", writes[i])
    /\ \A i \in 1..Len(g) : g[i].by = "agent"
    /\ Applied(s, loop, writes, now) = Cat(Cat(a, g), w)

NoGhost(writes) == \A i \in DOMAIN writes : writes[i].target \in Devices

\* Their lists, behind each other, are what is applied.
LEMMA OrdersAre ==
    ASSUME NEW s, ScenarioOK(s), NEW loop, loop.pending \in Seq(Command),
           NEW writes \in Seq(Write), NoGhost(writes), NEW now
    PROVE  IsOrders(s, loop, writes, now, Scheduled(s, now), By("agent", loop.pending),
                    By("inbound", writes))
<1> DEFINE a == Scheduled(s, now)
           g == By("agent", loop.pending)
           w == By("inbound", writes)
           due == DueCommands(s, now)
           pending == loop.pending
<1>1. a \in Seq(Order)
  <2>1. s.commands \in Seq(Scripted)
    BY DEF ScenarioOK, Scripted
  <2>2. due \in Seq(Scripted)
    <3>1. \A I : \A i \in I \cap DOMAIN s.commands : s.commands[i] \in Scripted
      BY <2>1
    <3> QED
      BY <2>1, <3>1, SiftIn DEF DueCommands
  <2> HIDE DEF due
  <2>3. \A i \in DOMAIN due : due[i] \in Scripted
    BY <2>2
  <2>4. \A i \in DOMAIN due : due[i].target \in Devices /\ due[i].value \in Int
    BY <2>3 DEF Scripted
  <2>5. "scenario" \in Sources
    BY DEF Sources
  <2>6. By("scenario", due) \in Seq(Order)
    BY <2>2, <2>4, <2>5, ByOrders
  <2> QED
    BY <2>6 DEF Scheduled, due
<1>2. g \in Seq(Order) /\ \A i \in 1..Len(g) : g[i].by = "agent"
  <2>1. pending \in Seq(Command)
    OBVIOUS
  <2> HIDE DEF pending
  <2>2. \A i \in DOMAIN pending : pending[i] \in Command
    BY <2>1
  <2>3. \A i \in DOMAIN pending : pending[i].target \in Devices /\ pending[i].value \in Int
    BY <2>2 DEF Command
  <2>4. "agent" \in Sources
    BY DEF Sources
  <2>5. By("agent", pending) \in Seq(Order)
        /\ Len(By("agent", pending)) = Len(pending)
        /\ \A i \in 1..Len(pending) : By("agent", pending)[i].by = "agent"
    BY <2>1, <2>3, <2>4, ByOrders
  <2> QED
    BY <2>5 DEF pending
<1>3. w \in Seq(Order) /\ Len(w) = Len(writes)
  <2>1. \A i \in DOMAIN writes : writes[i] \in Write
    OBVIOUS
  <2>2. \A i \in DOMAIN writes : writes[i].target \in Devices /\ writes[i].value \in Int
    BY <2>1 DEF Write, NoGhost
  <2>3. "inbound" \in Sources
    BY DEF Sources
  <2> QED
    BY <2>2, <2>3, ByOrders
<1>4. \A i \in 1..Len(w) : w[i] = Marked("inbound", writes[i])
  BY <1>3 DEF By, Marked
<1>5. Sift(writes, {i \in DOMAIN writes : writes[i].target \in Devices}) = writes
  <2> DEFINE I == {i \in DOMAIN writes : writes[i].target \in Devices}
  <2>1. DOMAIN writes \subseteq I
    BY DEF NoGhost
  <2> HIDE DEF I
  <2>2. Sift(writes, I) = writes
    BY <2>1, SiftAll
  <2> QED
    BY <2>2 DEF I
<1>6. Applied(s, loop, writes, now) = Cat(Cat(a, g), w)
  BY <1>5 DEF Applied, Cat, Scheduled
<1> HIDE DEF a, g, w
<1>7. IsOrders(s, loop, writes, now, a, g, w)
  <2>1. a = Scheduled(s, now) /\ g = By("agent", loop.pending)
    BY DEF a, g
  <2> QED
    BY <1>1, <1>2, <1>3, <1>4, <1>6, <2>1 DEF IsOrders
<1> QED
  BY <1>7 DEF a, g, w

\* No agent and no write set the same device.
NoClash(orders) ==
    \A x \in ToSet(orders), y \in ToSet(orders) :
        x.by = "agent" /\ y.by = "inbound" => x.target # y.target

Apart(g, w) == \A i \in 1..Len(g), j \in 1..Len(w) : g[i].target # w[j].target

\* Then the lists of the two name different devices.
LEMMA ApartIn ==
    ASSUME NEW a \in Seq(Order), NEW g \in Seq(Order), NEW w \in Seq(Order),
           NoClash(Cat(Cat(a, g), w)),
           \A i \in 1..Len(g) : g[i].by = "agent", \A i \in 1..Len(w) : w[i].by = "inbound"
    PROVE  Apart(g, w)
<1> DEFINE ag == Cat(a, g)
           orders == Cat(ag, w)
<1>1. IsCat(Order, a, g, ag)
  BY CatTyped
<1>2. ag \in Seq(Order)
  BY <1>1 DEF IsCat
<1>3. IsCat(Order, ag, w, orders)
  <2> HIDE DEF ag
  <2> QED
    BY <1>2, CatTyped
<1>4. NoClash(orders)
  OBVIOUS
<1> HIDE DEF ag, orders
<1> SUFFICES ASSUME NEW i \in 1..Len(g), NEW j \in 1..Len(w)
             PROVE  g[i].target # w[j].target
  BY DEF Apart
<1>5. /\ Len(a) \in Nat /\ Len(g) \in Nat /\ Len(w) \in Nat
      /\ Len(ag) = Len(a) + Len(g) /\ Len(orders) = Len(ag) + Len(w)
      /\ orders \in Seq(Order)
  BY <1>1, <1>3 DEF IsCat
<1>6. ag[Len(a) + i] = g[i] /\ orders[Len(ag) + j] = w[j]
  BY <1>1, <1>3 DEF IsCat
<1>7. Len(a) + i \in 1..Len(ag)
  BY <1>5
<1>8. orders[Len(a) + i] = g[i]
  BY <1>3, <1>6, <1>7 DEF IsCat
<1>9. Len(a) + i \in DOMAIN orders /\ Len(ag) + j \in DOMAIN orders
  BY <1>5, <1>7
<1>10. g[i] \in ToSet(orders) /\ w[j] \in ToSet(orders)
  BY <1>6, <1>8, <1>9 DEF ToSet
<1> QED
  BY <1>4, <1>10 DEF NoClash

\* What an order does depends on its device and its value, not on where it comes from.
SameAims(q, r) == \A k \in 1..Len(q) : q[k].target = r[k].target /\ q[k].value = r[k].value

\* Two lists of orders with the same aims do the same, to one device and to all.
LEMMA AimsAlike ==
    ASSUME NEW f \in [Devices -> Int], NEW g \in [Devices -> Int],
           NEW q \in Seq(Order), NEW r \in Seq(Order), Len(q) = Len(r), SameAims(q, r),
           NEW d \in Devices, f[d] = g[d]
    PROVE  SetPoints(f, q)[d] = SetPoints(g, r)[d]
<1>1. \A k \in 1..Len(q) : q[k].target = r[k].target /\ q[k].value = r[k].value
  BY DEF SameAims
<1> QED
  BY <1>1, SetAlike

\* The same, from the same set points.
LEMMA SetAims ==
    ASSUME NEW f \in [Devices -> Int], NEW q \in Seq(Order), NEW r \in Seq(Order),
           Len(q) = Len(r), SameAims(q, r), NEW d \in Devices
    PROVE  SetPoints(f, q)[d] = SetPoints(f, r)[d]
<1>1. PICK g \in [Devices -> Int] : g = f
  OBVIOUS
<1>2. f[d] = g[d]
  BY <1>1
<1>3. SetPoints(f, q)[d] = SetPoints(g, r)[d]
  BY <1>2, AimsAlike
<1> QED
  BY <1>1, <1>3

\* Without a clash it does not matter whether the writes come after the agents, or before
\* them as commands of the scenario.
LEMMA SameSetPoints ==
    ASSUME NEW f \in [Devices -> Int], NEW a \in Seq(Order), NEW g \in Seq(Order),
           NEW w \in Seq(Order), NEW v \in Seq(Order), Len(w) = Len(v),
           SameAims(w, v), Apart(g, w)
    PROVE  SetPoints(f, Cat(Cat(a, g), w)) = SetPoints(f, Cat(Cat(a, v), g))
<1> DEFINE fa == SetPoints(f, a)
           ag == Cat(a, g)
           av == Cat(a, v)
           fag == SetPoints(fa, g)
           fav == SetPoints(fa, v)
<1>1. fa \in [Devices -> Int]
  BY SetTyped
<1>2. ag \in Seq(Order) /\ av \in Seq(Order)
  <2>1. IsCat(Order, a, g, ag) /\ IsCat(Order, a, v, av)
    BY CatTyped
  <2> QED
    BY <2>1 DEF IsCat
<1>3. SetPoints(f, ag) = fag /\ SetPoints(f, av) = fav
  BY SetCat
<1> HIDE DEF fa, ag, av
<1>4. fag \in [Devices -> Int]
  BY <1>1, SetTyped
<1> HIDE DEF fag
<1>5. SetPoints(f, Cat(ag, w)) = SetPoints(fag, w)
  BY <1>2, <1>3, SetCat
<1>6. SetPoints(f, Cat(av, g)) = SetPoints(fav, g)
  BY <1>2, <1>3, SetCat
<1>7. SetPoints(fag, w) = SetPoints(fag, v)
  <2>1. ASSUME NEW d \in Devices PROVE SetPoints(fag, w)[d] = SetPoints(fag, v)[d]
    BY <1>4, SetAims
  <2>2. SetPoints(fag, w) \in [Devices -> Int]
    BY <1>4, SetTyped
  <2>3. SetPoints(fag, v) \in [Devices -> Int]
    BY <1>4, SetTyped
  <2> QED
    BY <2>1, <2>2, <2>3
<1>8. SetPoints(fag, v) = SetPoints(fav, g)
  <2>1. \A i \in 1..Len(g), j \in 1..Len(v) : g[i].target # v[j].target
    BY DEF SameAims, Apart
  <2>2. SetPoints(SetPoints(fa, g), v) = SetPoints(SetPoints(fa, v), g)
    BY <1>1, <2>1, SetCommutes
  <2> QED
    BY <2>2 DEF fag
<1>9. SetPoints(f, Cat(ag, w)) = SetPoints(f, Cat(av, g))
  BY <1>5, <1>6, <1>7, <1>8
<1> QED
  BY <1>9 DEF ag, av


\* When they may change places.
Swappable(f, a, g, w, v) ==
    /\ f \in [Devices -> Int] /\ a \in Seq(Order) /\ g \in Seq(Order)
    /\ w \in Seq(Order) /\ v \in Seq(Order) /\ Len(w) = Len(v)
    /\ SameAims(w, v) /\ Apart(g, w)

\* Then they do.
LEMMA SwapSame ==
    ASSUME NEW f, NEW a, NEW g, NEW w, NEW v, Swappable(f, a, g, w, v)
    PROVE  SetPoints(f, Cat(Cat(a, g), w)) = SetPoints(f, Cat(Cat(a, v), g))
<1>1. /\ f \in [Devices -> Int] /\ a \in Seq(Order) /\ g \in Seq(Order)
      /\ w \in Seq(Order) /\ v \in Seq(Order) /\ Len(w) = Len(v)
      /\ SameAims(w, v) /\ Apart(g, w)
  BY DEF Swappable
<1> QED
  BY <1>1, SameSetPoints

\* What a tick records behind the old writes, which lie before it.
Recorder(now, old, writes, new, all) ==
    /\ new \in Seq(Recording) /\ Len(new) = Len(writes)
    /\ all = Cat(old, new)
    /\ \A i \in 1..Len(new) : /\ new[i].at = now /\ new[i].target = writes[i].target
                              /\ new[i].value = writes[i].value

Earlier(old, now) == \A i \in DOMAIN old : old[i].at < now

\* A tick of the replay sets the devices as the tick it replays did.
LEMMA ReplayOrders ==
    ASSUME NEW s, ScenarioOK(s), NEW loop, loop.pending \in Seq(Command),
           loop.setpoint \in [Devices -> Int], NEW now \in Int,
           NEW writes \in Seq(Write), NoGhost(writes),
           NEW old \in Seq(Recording), Earlier(old, now),
           NEW new, NEW all, Recorder(now, old, writes, new, all),
           NoClash(Applied(s, loop, writes, now))
    PROVE  SetPoints(loop.setpoint, Applied(s, loop, writes, now))
             = SetPoints(loop.setpoint, Applied(With(s, all), loop, <<>>, now))
<1> DEFINE a == Scheduled(s, now)
           g == By("agent", loop.pending)
           w == By("inbound", writes)
           v == By("scenario", new)
           due == DueCommands(s, now)
           recorded == Cat(old, new)
           b == With(s, recorded)
<1>1. TickMs \in Nat \ {0}
  BY TickAssumption
<1>20. /\ new \in Seq(Recording) /\ Len(new) = Len(writes) /\ all = recorded
       /\ \A i \in 1..Len(new) : /\ new[i].at = now /\ new[i].target = writes[i].target
                                 /\ new[i].value = writes[i].value
  BY DEF Recorder
<1>21. \A i \in DOMAIN old : old[i].at < now
  BY DEF Earlier
<1>2. IsOrders(s, loop, writes, now, a, g, w)
  BY OrdersAre
<1> HIDE DEF a, g, w
<1>3. /\ a \in Seq(Order) /\ g \in Seq(Order) /\ w \in Seq(Order)
      /\ a = By("scenario", due) /\ g = By("agent", loop.pending)
      /\ Len(w) = Len(writes)
      /\ \A i \in 1..Len(g) : g[i].by = "agent"
      /\ Applied(s, loop, writes, now) = Cat(Cat(a, g), w)
  BY <1>2 DEF IsOrders, Scheduled
<1>4. \A i \in 1..Len(w) : /\ w[i].by = "inbound" /\ w[i].target = writes[i].target
                           /\ w[i].value = writes[i].value
  <2> SUFFICES ASSUME NEW i \in 1..Len(w)
               PROVE  /\ w[i].by = "inbound" /\ w[i].target = writes[i].target
                      /\ w[i].value = writes[i].value
    OBVIOUS
  <2>1. w[i] = Marked("inbound", writes[i])
    BY <1>2 DEF IsOrders
  <2> QED
    BY <2>1 DEF Marked
<1>5. \A i \in 1..Len(new) : new[i] \in Recording /\ i \in DOMAIN writes
  <2>1. Len(new) \in Nat /\ DOMAIN new = 1..Len(new) /\ DOMAIN writes = 1..Len(writes)
    BY <1>20
  <2> QED
    BY <1>20, <2>1
<1>6. v \in Seq(Order) /\ Len(v) = Len(new)
  <2>1. \A i \in DOMAIN new : new[i].target \in Devices /\ new[i].value \in Int
    <3> SUFFICES ASSUME NEW i \in DOMAIN new
                 PROVE  new[i].target \in Devices /\ new[i].value \in Int
      OBVIOUS
    <3>1. i \in 1..Len(new)
      BY <1>20
    <3>2. new[i] \in Recording /\ i \in DOMAIN writes /\ new[i].target = writes[i].target
      BY <1>5, <1>20, <3>1
    <3> QED
      BY <3>2 DEF NoGhost, Recording
  <2>2. "scenario" \in Sources
    BY DEF Sources
  <2> QED
    BY <1>20, <2>1, <2>2, ByOrders
<1>7. \A i \in 1..Len(new) : v[i] = Marked("scenario", new[i])
  BY <1>20 DEF By, Marked
<1>8. SameAims(w, v)
  <2> SUFFICES ASSUME NEW i \in 1..Len(w)
               PROVE  w[i].target = v[i].target /\ w[i].value = v[i].value
    BY DEF SameAims
  <2>1. i \in 1..Len(new)
    BY <1>3, <1>20
  <2>2. new[i].target = writes[i].target /\ new[i].value = writes[i].value
    BY <1>20, <2>1
  <2>3. v[i] = Marked("scenario", new[i])
    BY <1>7, <2>1
  <2>4. v[i].target = new[i].target /\ v[i].value = new[i].value
    BY <2>3 DEF Marked
  <2> QED
    BY <1>4, <2>2, <2>4
<1>9. DueCommands(b, now) = Cat(due, new)
  <2>1. \A i \in DOMAIN old : i \notin Due(old, now)
    <3> SUFFICES ASSUME NEW i \in DOMAIN old PROVE ~(now <= old[i].at)
      BY DEF Due
    <3>1. old[i] \in Recording
      OBVIOUS
    <3>2. old[i].at \in Int /\ old[i].at < now
      BY <1>21, <3>1 DEF Recording
    <3> QED
      BY <3>2
  <2>2. DOMAIN new \subseteq Due(new, now)
    <3> SUFFICES ASSUME NEW i \in DOMAIN new PROVE i \in Due(new, now)
      OBVIOUS
    <3>1. new[i].at = now
      BY <1>20
    <3> QED
      BY <1>1, <3>1 DEF Due
  <2>3. Sift(recorded, Due(recorded, now)) = new
    BY <1>20, <2>1, <2>2, DueParts
  <2>4. recorded \in Seq(Recording)
    <3>1. IsCat(Recording, old, new, recorded)
      BY <1>20, CatTyped
    <3> QED
      BY <3>1 DEF IsCat
  <2> HIDE DEF recorded
  <2> QED
    BY <2>3, <2>4, DueWith
<1>10. By("scenario", Cat(due, new)) = Cat(a, v)
  <2> DEFINE S == Scripted \cup Recording
  <2>1. due \in Seq(Scripted)
    <3>1. s.commands \in Seq(Scripted)
      BY DEF ScenarioOK, Scripted
    <3>2. \A I : \A i \in I \cap DOMAIN s.commands : s.commands[i] \in Scripted
      BY <3>1
    <3> QED
      BY <3>1, <3>2, SiftIn DEF DueCommands
  <2> HIDE DEF due
  <2>2. due \in Seq(S) /\ new \in Seq(S)
    BY <1>20, <2>1
  <2> HIDE DEF S
  <2> QED
    BY <1>3, <2>2, ByCat
<1> HIDE DEF b, due
<1>11. By("inbound", Sift(<<>>, {i \in DOMAIN <<>> : <<>>[i].target \in Devices})) = <<>>
  <2> DEFINE none == {}
             I == {i \in DOMAIN <<>> : <<>>[i].target \in Devices}
  <2>1. <<>> \in Seq(none) /\ \A i \in DOMAIN <<>> : i \notin I
    OBVIOUS
  <2> HIDE DEF none, I
  <2>2. Sift(<<>>, I) = <<>>
    BY <2>1, SiftNone
  <2> QED
    BY <2>2 DEF By, I
<1> HIDE DEF v
<1>12. Applied(b, loop, <<>>, now) = Cat(Cat(Cat(a, v), g), <<>>)
  <2>1. By("scenario", DueCommands(b, now)) = Cat(a, v)
    BY <1>9, <1>10
  <2> QED
    BY <1>3, <1>11, <2>1 DEF Applied, Cat
<1>13. Applied(b, loop, <<>>, now) = Cat(Cat(a, v), g)
  <2> DEFINE av == Cat(a, v)
             avg == Cat(av, g)
  <2>1. IsCat(Order, a, v, av)
    BY <1>3, <1>6, CatTyped
  <2>2. av \in Seq(Order)
    BY <2>1 DEF IsCat
  <2> HIDE DEF av
  <2>3. IsCat(Order, av, g, avg)
    BY <1>3, <2>2, CatTyped
  <2>4. avg \in Seq(Order)
    BY <2>3 DEF IsCat
  <2> HIDE DEF avg
  <2>5. Cat(avg, <<>>) = avg
    BY <2>4, CatEmpty
  <2>6. Applied(b, loop, <<>>, now) = avg
    BY <1>12, <2>5 DEF av, avg
  <2> QED
    BY <2>6 DEF av, avg
<1>14. Apart(g, w)
  <2>1. \A i \in 1..Len(w) : w[i].by = "inbound"
    BY <1>4
  <2>2. NoClash(Cat(Cat(a, g), w))
    BY <1>3
  <2> QED
    BY <1>3, <2>1, <2>2, ApartIn
<1>15. SetPoints(loop.setpoint, Cat(Cat(a, g), w)) = SetPoints(loop.setpoint, Cat(Cat(a, v), g))
  <2> DEFINE f == loop.setpoint
  <2>1. Len(w) = Len(v) /\ f \in [Devices -> Int]
    BY <1>3, <1>6, <1>20
  <2>2. a \in Seq(Order) /\ g \in Seq(Order) /\ w \in Seq(Order) /\ v \in Seq(Order)
    BY <1>3, <1>6
  <2> HIDE DEF f
  <2>3. SetPoints(f, Cat(Cat(a, g), w)) = SetPoints(f, Cat(Cat(a, v), g))
    BY <1>8, <1>14, <2>1, <2>2, SwapSame DEF Swappable
  <2> QED
    BY <2>3 DEF f
<1> QED
  BY <1>3, <1>13, <1>15, <1>20 DEF b

\* The recorded writes lie in the order of their ticks, and of their arrival.
InOrder(q) ==
    /\ \A i \in DOMAIN q : q[i].seq = i - 1
    /\ \A i \in DOMAIN q, j \in DOMAIN q : i < j => q[i].at <= q[j].at

\* Sorting them leaves them as they are.
LEMMA MaterializedIs ==
    ASSUME NEW q \in Seq(Recording), InOrder(q)
    PROVE  Materialized(q) = q
<1> DEFINE Before(v, w) == v.at < w.at \/ (v.at = w.at /\ v.seq < w.seq)
           before == {p \in (DOMAIN q) \X (DOMAIN q) : Before(q[p[1]], q[p[2]])}
<1>2. ASSUME NEW i \in DOMAIN q, NEW j \in DOMAIN q
      PROVE  <<i, j>> \in before <=> i < j
  <2>1. <<i, j>> \in before <=> Before(q[i], q[j])
    OBVIOUS
  <2>2. i \in Nat /\ j \in Nat /\ q[i] \in Recording /\ q[j] \in Recording
    OBVIOUS
  <2>3. q[i].at \in Int /\ q[j].at \in Int
    BY <2>2 DEF Recording
  <2>4. q[i].seq = i - 1 /\ q[j].seq = j - 1
    BY DEF InOrder
  <2>5. (i < j => q[i].at <= q[j].at) /\ (j < i => q[j].at <= q[i].at)
    BY DEF InOrder
  <2>6. Before(q[i], q[j]) <=> i < j
    BY <2>2, <2>3, <2>4, <2>5
  <2> QED
    BY <2>1, <2>6
<1>3. Materialized(q) = Sorted(q, before)
  BY DEF Materialized
<1> HIDE DEF before
<1>4. Sorted(q, before) = q
  BY <1>2, SortedInOrder
<1> QED
  BY <1>3, <1>4

\* None of them lies after the present tick.
CaptureInv ==
    /\ InOrder(capture)
    /\ \A i \in DOMAIN capture : capture[i].at <= live.time

\* What a tick records.
LEMMA TickRecords ==
    ASSUME SpineInv, LiveTick, NEW now, now = live.time + TickMs
    PROVE  \E new : Recorder(now, capture, buffer, new, capture')
<1> DEFINE new == [i \in DOMAIN buffer |-> Resolved(buffer[i], live.time)]
<1>1. OrdersInv
  BY DEF SpineInv
<1>2. new \in Seq(Recording) /\ Len(new) = Len(buffer) /\ DOMAIN new = DOMAIN buffer
  BY <1>1, NewRecordings
<1>3. capture' = Cat(capture, new)
  <2>1. Drain = buffer
    BY <1>1, DrainInOrder
  <2> QED
    BY <2>1 DEF LiveTick, Cat
<1>4. ASSUME NEW i \in 1..Len(new)
      PROVE  /\ new[i].at = now /\ new[i].target = buffer[i].target
             /\ new[i].value = buffer[i].value
  <2>1. i \in DOMAIN buffer
    BY <1>2
  <2>2. new[i] = Resolved(buffer[i], live.time)
    BY <2>1
  <2> QED
    BY <2>2 DEF Resolved
<1> HIDE DEF new
<1>5. Recorder(now, capture, buffer, new, capture')
  BY <1>2, <1>3, <1>4 DEF Recorder
<1> QED
  BY <1>5

\* It comes behind what was recorded before.
LEMMA CaptureKept ==
    ASSUME SpineInv, OrdersInv', CaptureInv, LiveTick
    PROVE  CaptureInv'
<1> DEFINE now == live.time + TickMs
           R == Recording
<1>1. PICK new : Recorder(now, capture, buffer, new, capture')
  BY TickRecords
<1> HIDE DEF R
<1>2. capture \in Seq(R) /\ new \in Seq(R) /\ capture' = Cat(capture, new)
  BY <1>1 DEF Recorder, SpineInv, OrdersInv, R
<1>3. IsCat(R, capture, new, capture')
  BY <1>2, CatTyped
<1>4. /\ Len(capture) \in Nat /\ Len(new) \in Nat
      /\ DOMAIN capture = 1..Len(capture) /\ DOMAIN new = 1..Len(new)
      /\ DOMAIN capture' = 1..(Len(capture) + Len(new))
      /\ \A i \in 1..Len(capture) : capture'[i] = capture[i]
      /\ \A i \in 1..Len(new) : capture'[Len(capture) + i] = new[i]
  BY <1>2, <1>3 DEF IsCat
<1>5. now \in Int /\ live.time \in Int /\ live.time < now /\ live'.time = now
  <2>1. live' = Tick(scenario, live, Drain).loop
    BY DEF LiveTick
  <2>2. live'.time = now
    BY <2>1, TickOrders
  <2> QED
    BY <2>2, TickAssumption DEF SpineInv, TimeInv
<1>6. \A i \in 1..Len(new) : new[i].at = now
  BY <1>1 DEF Recorder
<1> HIDE DEF now
<1>7. \A i \in DOMAIN capture' : i \notin 1..Len(capture) =>
         \E k \in 1..Len(new) : i = Len(capture) + k
  <2> SUFFICES ASSUME NEW i \in DOMAIN capture', i \notin 1..Len(capture)
               PROVE  \E k \in 1..Len(new) : i = Len(capture) + k
    OBVIOUS
  <2>1. i - Len(capture) \in 1..Len(new) /\ i = Len(capture) + (i - Len(capture))
    BY <1>4
  <2> QED
    BY <2>1
<1>8. \A i \in DOMAIN capture' :
         /\ i \in 1..Len(capture) => capture'[i] = capture[i] /\ capture[i].at <= live.time
         /\ i \notin 1..Len(capture) => capture'[i].at = now
  <2>1. ASSUME NEW i \in 1..Len(capture)
        PROVE  capture'[i] = capture[i] /\ capture[i].at <= live.time
    BY <1>4 DEF CaptureInv
  <2>2. ASSUME NEW i \in DOMAIN capture', i \notin 1..Len(capture)
        PROVE  capture'[i].at = now
    <3>1. PICK k \in 1..Len(new) : i = Len(capture) + k
      BY <1>7, <2>2
    <3> QED
      BY <1>4, <1>6, <3>1
  <2> QED
    BY <2>1, <2>2
<1>9. \A i \in 1..Len(capture) : capture[i].at \in Int
  <2> SUFFICES ASSUME NEW i \in 1..Len(capture) PROVE capture[i].at \in Int
    OBVIOUS
  <2>1. capture[i] \in R
    BY <1>2
  <2> QED
    BY <2>1 DEF R, Recording
<1>10. \A i \in DOMAIN capture' : capture'[i].at <= live'.time
  <2> SUFFICES ASSUME NEW i \in DOMAIN capture' PROVE capture'[i].at <= now
    BY <1>5
  <2>1. CASE i \in 1..Len(capture)
    BY <1>5, <1>8, <1>9, <2>1
  <2>2. CASE i \notin 1..Len(capture)
    BY <1>5, <1>8, <2>2
  <2> QED
    BY <2>1, <2>2
<1>11. ASSUME NEW i \in DOMAIN capture', NEW j \in DOMAIN capture', i < j
       PROVE  capture'[i].at <= capture'[j].at
  <2>1. CASE j \in 1..Len(capture)
    <3>1. i \in 1..Len(capture)
      BY <1>4, <1>11, <2>1
    <3>2. capture[i].at <= capture[j].at
      BY <1>4, <1>11, <2>1, <3>1 DEF CaptureInv, InOrder
    <3> QED
      BY <1>8, <2>1, <3>1, <3>2
  <2>2. CASE j \notin 1..Len(capture)
    BY <1>5, <1>8, <1>10, <2>2
  <2> QED
    BY <2>1, <2>2
<1>12. \A i \in DOMAIN capture' : capture'[i].seq = i - 1
  BY DEF OrdersInv
<1> QED
  BY <1>10, <1>11, <1>12 DEF CaptureInv, InOrder

\* Nothing happened that a replay cannot know: no recovery, no write to an unknown device.
Faithful == manual = {} /\ \A i \in DOMAIN capture : capture[i].target # Ghost

Replay == Play(Recorded, InitLoop, Len(log))

NoClashes(log0, n) == \A m \in 1..n : NoClash(log0[m].applied)

\* A tick of the replay persists what was persisted, as long as there was no clash.
Replayed(log0, played, n) ==
    NoClashes(log0, n) =>
        played[n].points = log0[n].points /\ played[n].alarms = log0[n].alarms

ReplayInv ==
    Faithful =>
      /\ \E S : Replay.log \in Seq(S)
      /\ Len(Replay.log) = Len(log)
      /\ \A n \in DOMAIN log : Replayed(log, Replay.log, n)
      /\ NoClashes(log, Len(log)) => Replay.loop = live

\* The writes of a tick, and those recorded before, when what is recorded now is faithful.
LEMMA FaithfulTick ==
    ASSUME SpineInv, NEW now, NEW new, Recorder(now, capture, buffer, new, capture'),
           Faithful', manual' = manual
    PROVE  Faithful /\ NoGhost(buffer)
<1> DEFINE R == Recording
<1> HIDE DEF R
<1>1. capture \in Seq(R) /\ new \in Seq(R) /\ capture' = Cat(capture, new)
  BY DEF Recorder, SpineInv, OrdersInv, R
<1>2. IsCat(R, capture, new, capture')
  BY <1>1, CatTyped
<1>3. /\ Len(capture) \in Nat /\ Len(new) \in Nat
      /\ DOMAIN capture = 1..Len(capture)
      /\ DOMAIN capture' = 1..(Len(capture) + Len(new))
      /\ \A i \in 1..Len(capture) : capture'[i] = capture[i]
      /\ \A i \in 1..Len(new) : capture'[Len(capture) + i] = new[i]
  BY <1>1, <1>2 DEF IsCat
<1>4. manual' = {} /\ \A i \in DOMAIN capture' : capture'[i].target # Ghost
  BY DEF Faithful
<1>5. Faithful
  <2>1. ASSUME NEW i \in DOMAIN capture PROVE capture[i].target # Ghost
    <3>1. i \in DOMAIN capture' /\ capture'[i] = capture[i]
      BY <1>3
    <3> QED
      BY <1>4, <3>1
  <2> QED
    BY <1>4, <2>1 DEF Faithful
<1>6. ASSUME NEW i \in DOMAIN buffer PROVE buffer[i].target \in Devices
  <2>1. buffer \in Seq(Write) /\ Len(new) = Len(buffer)
    BY DEF Recorder, SpineInv, OrdersInv
  <2>2. buffer[i] \in Write /\ i \in 1..Len(new)
    BY <2>1
  <2>3. Len(capture) + i \in DOMAIN capture' /\ capture'[Len(capture) + i] = new[i]
    BY <1>3, <2>2
  <2>4. new[i].target = buffer[i].target
    BY <2>2 DEF Recorder
  <2>5. buffer[i].target # Ghost
    BY <1>4, <2>3, <2>4
  <2> QED
    BY <2>2, <2>5 DEF Write
<1> QED
  BY <1>5, <1>6 DEF NoGhost

\* A tick without a clash, and the same tick replayed.
LEMMA ReplayedTick ==
    ASSUME SpineInv, CaptureInv, NEW now, now = live.time + TickMs,
           NEW new, NEW all, Recorder(now, capture, buffer, new, all), NoGhost(buffer),
           NEW t, t = Tick(scenario, live, buffer), NoClash(Applied(scenario, live, buffer, now)),
           NEW u, u = Tick(With(scenario, all), live, <<>>)
    PROVE  /\ t.loop = u.loop /\ t.result.points = u.result.points
           /\ t.result.alarms = u.result.alarms
<1>1. ScenarioOK(scenario)
  BY ScenarioAssumption DEF SpineInv, TimeInv
<1>2. /\ live.pending \in Seq(Command) /\ live.setpoint \in [Devices -> Int]
      /\ buffer \in Seq(Write) /\ capture \in Seq(Recording)
  BY DEF SpineInv, OrdersInv, LoopInv
<1>3. now \in Int /\ live.time \in Int /\ live.time < now
  BY TickAssumption DEF SpineInv, TimeInv
<1>4. ASSUME NEW i \in DOMAIN capture PROVE capture[i].at < now
  <2>1. capture[i] \in Recording
    BY <1>2
  <2>2. capture[i].at \in Int /\ capture[i].at <= live.time
    BY <2>1 DEF Recording, CaptureInv
  <2> QED
    BY <1>3, <2>2
<1>5. Earlier(capture, now)
  BY <1>4 DEF Earlier
<1> DEFINE r == With(scenario, all)
<1>7. SetPoints(live.setpoint, Applied(scenario, live, buffer, now))
        = SetPoints(live.setpoint, Applied(r, live, <<>>, now))
  BY <1>1, <1>2, <1>3, <1>5, ReplayOrders
<1>8. SameButCommands(scenario, r) /\ r.faults = scenario.faults
  BY <1>1, WithAlike
<1> HIDE DEF r
<1>9. Engine(ApplyFaults(scenario.faults, live, now)) = Engine(ApplyFaults(r.faults, live, now))
  BY <1>8
<1>10. u = Tick(r, live, <<>>)
  BY DEF r
<1>11. /\ t.loop = u.loop /\ t.result.points = u.result.points
       /\ t.result.alarms = ActiveNan(scenario, now) \ live.alarmed
       /\ u.result.alarms = ActiveNan(scenario, now) \ live.alarmed
  BY <1>7, <1>8, <1>9, <1>10, TickAlike
<1> QED
  BY <1>11


\* What is appended to the log leaves the clashes before it.
LEMMA ClashesLonger ==
    ASSUME NEW S, NEW log0 \in Seq(S), NEW x, NEW n \in 0..Len(log0)
    PROVE  NoClashes(Append(log0, x), n) <=> NoClashes(log0, n)
<1>1. \A m \in 1..n : Append(log0, x)[m] = log0[m]
  <2> SUFFICES ASSUME NEW m \in 1..n PROVE Append(log0, x)[m] = log0[m]
    OBVIOUS
  <2>1. m \in DOMAIN log0
    OBVIOUS
  <2> QED
    BY <2>1, Appended
<1> QED
  BY <1>1 DEF NoClashes

\* A tick of both.
LEMMA ReplayKept ==
    ASSUME SpineInv, CaptureInv, ReplayInv, LiveTick, OrdersInv', CaptureInv', Faithful'
    PROVE  ReplayInv'
<1> DEFINE now == live.time + TickMs
           n == Len(log)
           k == Replay
           b == With(scenario, capture')
           u == Tick(b, k.loop, <<>>)
           last == n + 1
<1>1. PICK t : /\ t = Tick(scenario, live, buffer)
               /\ live' = t.loop /\ log' = Append(log, t.result)
               /\ t.result.applied = Applied(scenario, live, buffer, now)
               /\ t.result.applied \in Seq(Order)
               /\ scenario' = scenario /\ manual' = manual /\ snap' = snap
  BY LiveTickIs DEF SpineInv
<1>2. PICK new : Recorder(now, capture, buffer, new, capture')
  BY TickRecords
<1>3. Faithful /\ NoGhost(buffer)
  BY <1>1, <1>2, FaithfulTick
<1>4. PICK S : log \in Seq(S)
  BY DEF SpineInv, TimeInv
<1>5. /\ n \in Nat /\ DOMAIN log = 1..n /\ Len(log') = last /\ DOMAIN log' = 1..last
      /\ \A i \in DOMAIN log : log'[i] = log[i]
      /\ log'[last] = t.result
  <2>1. /\ Len(Append(log, t.result)) = n + 1
        /\ DOMAIN Append(log, t.result) = DOMAIN log \cup {n + 1}
        /\ \A i \in DOMAIN log : Append(log, t.result)[i] = log[i]
        /\ Append(log, t.result)[n + 1] = t.result
    BY <1>4, Appended
  <2>2. n \in Nat /\ DOMAIN log = 1..n
    BY <1>4
  <2>3. DOMAIN log \cup {n + 1} = 1..(n + 1)
    BY <2>2
  <2> QED
    BY <1>1, <2>1, <2>2, <2>3
<1>6. now = (n + 1) * TickMs /\ now \in Int
  <2>1. live.count = n /\ live.time = live.count * TickMs
    BY DEF SpineInv, TimeInv, OrdersInv
  <2>2. (n + 1) * TickMs = n * TickMs + TickMs /\ n * TickMs \in Int /\ TickMs \in Int
    BY <1>5, TickAssumption
  <2> QED
    BY <2>1, <2>2
<1>7. Recorded = With(scenario, capture)
  <2>1. Materialized(capture) = capture
    BY MaterializedIs DEF SpineInv, OrdersInv, CaptureInv
  <2> QED
    BY <2>1 DEF Recorded, With, Cat
<1>8. Recorded' = b
  <2>1. capture' \in Seq(Recording) /\ InOrder(capture')
    BY DEF OrdersInv, CaptureInv
  <2>2. Materialized(capture') = capture'
    BY <2>1, MaterializedIs
  <2> QED
    BY <1>1, <2>2 DEF Recorded, With, Cat
<1>9. Replay' = PlayTick(b, k)
  <2>1. k = Play(With(scenario, capture), InitLoop, n)
    BY <1>7 DEF Replay
  <2>2. ScenarioOK(scenario)
    BY ScenarioAssumption DEF SpineInv, TimeInv
  <2>3. /\ capture \in Seq(Recording) /\ new \in Seq(Recording) /\ capture' = Cat(capture, new)
        /\ \A i \in 1..Len(new) : new[i].at = now
    BY <1>2 DEF Recorder, SpineInv, OrdersInv
  <2>4. \A i \in DOMAIN new : new[i].at = (n + 1) * TickMs
    <3>1. DOMAIN new = 1..Len(new)
      BY <2>3
    <3> HIDE DEF now
    <3> QED
      BY <1>6, <2>3, <3>1
  <2> HIDE DEF n
  <2>5. Play(With(scenario, capture), InitLoop, n)
          = Play(With(scenario, Cat(capture, new)), InitLoop, n)
    BY <1>5, <2>2, <2>3, <2>4, ReplayStill
  <2>6. k = Play(b, InitLoop, n)
    BY <2>1, <2>3, <2>5
  <2>7. Replay' = Play(b, InitLoop, n + 1)
    BY <1>5, <1>8 DEF Replay
  <2> HIDE DEF b, k
  <2> QED
    BY <1>5, <2>6, <2>7, PlaySteps
<1>10. Replay'.loop = u.loop /\ Replay'.log = Append(k.log, u.result)
  BY <1>9 DEF PlayTick
<1>11. PICK T : k.log \in Seq(T)
  BY <1>3 DEF ReplayInv
<1>12. /\ Len(k.log) = n
       /\ \A i \in 1..n : Replayed(log, k.log, i)
       /\ NoClashes(log, n) => k.loop = live
  BY <1>3, <1>5 DEF ReplayInv
<1>13. u = Tick(b, k.loop, <<>>) /\ now = live.time + TickMs
  OBVIOUS
<1> HIDE DEF n, k, u, now
<1>14. /\ Replay'.log \in Seq(T \cup {u.result}) /\ Len(Replay'.log) = last
       /\ \A i \in 1..n : Replay'.log[i] = k.log[i]
       /\ Replay'.log[last] = u.result
  <2> DEFINE q == k.log
  <2>1. q \in Seq(T) /\ Len(q) = n
    BY <1>11, <1>12
  <2> HIDE DEF q
  <2>2. /\ Append(q, u.result) \in Seq(T \cup {u.result})
        /\ Len(Append(q, u.result)) = Len(q) + 1
        /\ \A i \in DOMAIN q : Append(q, u.result)[i] = q[i]
        /\ Append(q, u.result)[Len(q) + 1] = u.result
    BY <2>1, Appended
  <2>3. DOMAIN q = 1..n
    BY <2>1
  <2> QED
    BY <1>10, <2>1, <2>2, <2>3 DEF q
<1>15. ASSUME NoClashes(log', last)
       PROVE  /\ t.loop = u.loop /\ t.result.points = u.result.points
              /\ t.result.alarms = u.result.alarms
  <2>1. NoClashes(log, n)
    <3>1. \A m \in 1..n : NoClash(log'[m].applied)
      BY <1>5, <1>15 DEF NoClashes
    <3>2. \A m \in 1..n : log'[m] = log[m]
      BY <1>5
    <3> QED
      BY <3>1, <3>2 DEF NoClashes
  <2>2. k.loop = live
    BY <1>12, <2>1
  <2>3. NoClash(Applied(scenario, live, buffer, now))
    <3>1. last \in 1..last
      BY <1>5
    <3>2. NoClash(log'[last].applied)
      BY <1>15, <3>1 DEF NoClashes
    <3> QED
      BY <1>1, <1>5, <3>2
  <2>4. t = Tick(scenario, live, buffer)
    BY <1>1
  <2>5. u = Tick(With(scenario, capture'), live, <<>>)
    BY <1>13, <2>2
  <2> QED
    BY <1>2, <1>3, <1>13, <2>3, <2>4, <2>5, ReplayedTick
<1> DEFINE log0 == log'
           played == Replay'.log
<1>16. ASSUME NEW i \in 1..last PROVE Replayed(log0, played, i)
  <2>1. CASE i \in 1..n
    <3>1. Replayed(log, k.log, i)
      BY <1>12, <2>1
    <3>2. NoClashes(log0, i) <=> NoClashes(log, i)
      <4>1. i \in 0..Len(log)
        BY <1>5, <2>1 DEF n
      <4>2. NoClashes(Append(log, t.result), i) <=> NoClashes(log, i)
        BY <1>4, <4>1, ClashesLonger
      <4> QED
        BY <1>1, <4>2
    <3>3. log0[i] = log[i] /\ played[i] = k.log[i]
      BY <1>5, <1>14, <2>1
    <3> HIDE DEF log0, played
    <3> QED
      BY <3>1, <3>2, <3>3 DEF Replayed
  <2>2. CASE i = last
    <3>1. log0[i] = t.result /\ played[i] = u.result
      BY <1>5, <1>14, <2>2
    <3>2. NoClashes(log0, i) => /\ t.result.points = u.result.points
                                /\ t.result.alarms = u.result.alarms
      BY <1>15, <2>2
    <3> HIDE DEF log0, played
    <3> QED
      BY <3>1, <3>2 DEF Replayed
  <2>3. i \in 1..n \/ i = last
    BY <1>5
  <2> QED
    BY <2>1, <2>2, <2>3
<1>17. NoClashes(log0, last) => Replay'.loop = live'
  BY <1>1, <1>10, <1>15
<1>18. DOMAIN log0 = 1..last /\ Len(log0) = last
  BY <1>5
<1>19. (\E U : Replay.log \in Seq(U))' /\ (Len(Replay.log) = Len(log))'
  BY <1>5, <1>14
<1>20. (\A i \in DOMAIN log : Replayed(log, Replay.log, i))'
  BY <1>16, <1>18
<1>21. (NoClashes(log, Len(log)) => Replay.loop = live)'
  BY <1>17, <1>18
<1> QED
  BY <1>19, <1>20, <1>21 DEF ReplayInv

\* The writes stay in order, and the replay stays the live loop unless there is an excuse.
LEMMA ReplayInvEver == Spec => [](SpineInv /\ CaptureInv /\ ReplayInv)
<1>1. Init /\ SpineInv => CaptureInv /\ ReplayInv
  <2> SUFFICES ASSUME Init, SpineInv PROVE CaptureInv /\ ReplayInv
    OBVIOUS
  <2>1. capture = <<>> /\ log = <<>> /\ live = InitLoop
    BY DEF Init
  <2>2. DOMAIN <<>> = {} /\ Len(<<>>) = 0 /\ <<>> \in Seq({})
    OBVIOUS
  <2>3. CaptureInv
    BY <2>1, <2>2 DEF CaptureInv, InOrder
  <2>4. Replay = First(InitLoop)
    <3>1. Replay = Play(Recorded, InitLoop, 0)
      BY <2>1, <2>2 DEF Replay
    <3>2. \A r, loop : Play(r, loop, 0) = First(loop)
      BY PlaySteps
    <3> QED
      BY <3>1, <3>2
  <2>5. Replay.loop = live /\ Replay.log = <<>>
    BY <2>1, <2>4 DEF First
  <2>6. ReplayInv
    BY <2>1, <2>2, <2>5 DEF ReplayInv
  <2> QED
    BY <2>3, <2>6
<1>2. ASSUME SpineInv, SpineInv', CaptureInv, ReplayInv, [Next]_vars
      PROVE  CaptureInv' /\ ReplayInv'
  <2>1. CASE UNCHANGED <<scenario, live, capture, log, manual>>
    <3>1. Replay' = Replay /\ (Faithful' <=> Faithful)
      BY <2>1 DEF Replay, Recorded, Faithful
    <3>2. CaptureInv'
      BY <1>2, <2>1 DEF CaptureInv
    <3>3. ReplayInv'
      BY <1>2, <2>1, <3>1 DEF ReplayInv
    <3> QED
      BY <3>2, <3>3
  <2>2. CASE \E i \in DOMAIN scenario.faults : Recover(i)
    <3>1. PICK i \in DOMAIN scenario.faults : Recover(i)
      BY <2>2
    <3>2. ~Faithful'
      BY <3>1 DEF Recover, Faithful
    <3>3. capture' = capture /\ live'.time = live.time
      <4>1. LoopFields \subseteq DOMAIN live /\ live' = [live EXCEPT !.recover = @ \cup {i}]
        BY <1>2, <3>1 DEF Recover, SpineInv, TimeInv
      <4>2. "time" \in DOMAIN live
        BY <4>1 DEF LoopFields
      <4> QED
        BY <3>1, <4>1, <4>2 DEF Recover
    <3>4. CaptureInv'
      BY <1>2, <3>3 DEF CaptureInv
    <3> QED
      BY <3>2, <3>4 DEF ReplayInv
  <2>3. CASE LiveTick
    <3>1. OrdersInv'
      BY <1>2 DEF SpineInv
    <3>2. CaptureInv'
      BY <1>2, <2>3, <3>1, CaptureKept
    <3>3. CASE Faithful'
      BY <1>2, <2>3, <3>1, <3>2, <3>3, ReplayKept
    <3>4. CASE ~Faithful'
      BY <3>2, <3>4 DEF ReplayInv
    <3> QED
      BY <3>2, <3>3, <3>4
  <2>4. CASE Snapshot
    BY <2>1, <2>4 DEF Snapshot
  <2>5. ASSUME NEW w \in Writes, Enqueue(w[1], w[2])
        PROVE  CaptureInv' /\ ReplayInv'
    <3>1. UNCHANGED <<scenario, live, capture, log, manual>>
      BY <2>5 DEF Enqueue
    <3> QED
      BY <2>1, <3>1
  <2>6. CASE UNCHANGED vars
    <3>1. UNCHANGED <<scenario, live, capture, log, manual>>
      BY <2>6 DEF vars
    <3> QED
      BY <2>1, <3>1
  <2> QED
    BY <1>2, <2>2, <2>3, <2>4, <2>5, <2>6 DEF Next
<1> QED
  BY <1>1, <1>2, SpineEver, PTL DEF Spec

\* A replay of the recorded writes persists what was persisted, unless it cannot.
THEOREM ReplayEver == Spec => []ReplayAgreesUnlessExcused
<1>1. ReplayInv => ReplayAgreesUnlessExcused
  <2> SUFFICES ASSUME ReplayInv, manual = {}, \A i \in DOMAIN capture : capture[i].target # Ghost,
                      NEW n \in DOMAIN log, \A m \in 1..n : ~Clash(m)
               PROVE  /\ Play(Recorded, InitLoop, Len(log)).log[n].points = log[n].points
                      /\ Play(Recorded, InitLoop, Len(log)).log[n].alarms = log[n].alarms
    BY DEF ReplayAgreesUnlessExcused
  <2>1. NoClashes(log, n)
    BY DEF Clash, NoClashes, NoClash
  <2>2. Replayed(log, Replay.log, n)
    BY DEF ReplayInv, Faithful
  <2> QED
    BY <2>1, <2>2 DEF Replayed, Replay
<1> QED
  BY <1>1, ReplayInvEver, PTL

===============================================================================
