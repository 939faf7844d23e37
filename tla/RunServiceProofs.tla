---------------------------- MODULE RunServiceProofs ----------------------------
(***************************************************************************)
(* RunService for every number of runs, drivers, scenarios, seeds and      *)
(* ticks and every cap: its types, the promises of the RunDriverRegistry,  *)
(* and the verdict of a replay.                                            *)
(*                                                                         *)
(* The registry promises something about loops (CapHolds, OneLoopPerRun),  *)
(* but what it looks at is its dictionary.  The link is NoOrphan: every    *)
(* loop that nobody stops is in the dictionary.  NoOrphan in turn needs to *)
(* know what stop_all() has done when it clears the dictionary (Handled).  *)
(* DownIsQuiet follows from the same account of the shutdown.              *)
(*                                                                         *)
(* A verdict (VerdictIsEarned, OverIsOver) compares two sinks, which grow  *)
(* while a finalize is on its way: OwnInv says whose points a sink holds,  *)
(* JudgedInv what the comparison that stands was made of.                  *)
(*                                                                         *)
(* Two refinements close the module: each task keeps the contract of       *)
(* TaskLife (ContractsKept), and the registry is the pool of slots of      *)
(* RunSlots (PoolEver).                                                    *)
(***************************************************************************)
EXTENDS RunService, FiniteSetTheorems, TLAPS

\* A started driver has a run, and that run was created.
Started == \A d \in Drivers : life[d] # "unused" => of[d] \in Runs /\ meta[of[d]] # None

TypeInv == TypeOK /\ Started

\* A point of a run that was created is a Sample.
LEMMA PointType ==
    ASSUME TypeInv, NEW d \in Drivers, life[d] # "unused", count[d] < MaxTicks
    PROVE  Point(of[d], count[d]) \in Sample
<1>1. of[d] \in Runs /\ meta[of[d]] \in Metadata
  BY DEF TypeInv, TypeOK, Started
<1>2. count[d] + 1 \in 1..MaxTicks
  BY BoundAssumption DEF TypeInv, TypeOK
<1> QED
  BY <1>1, <1>2 DEF Point, Sample, Metadata

\* The sink grows by one point of the run.
LEMMA SinkGrows ==
    ASSUME samples \in [Runs -> Seq(Sample)], NEW r \in Runs, NEW p \in Sample
    PROVE  [samples EXCEPT ![r] = Append(@, p)] \in [Runs -> Seq(Sample)]
<1>1. Append(samples[r], p) \in Seq(Sample)
  <2>1. samples[r] \in Seq(Sample)
    OBVIOUS
  <2> QED
    BY <2>1
<1> QED
  BY <1>1

\* What finalize() decides is one of its verdicts.
LEMMA OutcomeType ==
    ASSUME NEW d
    PROVE  Outcome(d) \in {"noop", "partial", "mismatch", "clean", "diverged"}
BY DEF Outcome, ReplayDiffStatus

\* Initially the types are right.
LEMMA TypeInit == Init => TypeInv
<1> SUFFICES ASSUME Init PROVE TypeInv
  OBVIOUS
<1>1. \A r \in Runs : samples[r] \in Seq(Sample)
  BY DEF Init
<1>2. TypeOK
  BY <1>1, BoundAssumption, ScenarioAssumption DEF Init, TypeOK, RunStatus
<1> QED
  BY <1>2 DEF Init, TypeInv, Started

\* Every step keeps the types.
LEMMA TypeNext == TypeInv /\ [Next]_vars => TypeInv'
<1> SUFFICES ASSUME TypeInv, [Next]_vars PROVE TypeInv'
  OBVIOUS
<1> USE BoundAssumption
<1>1. ASSUME NEW h \in Scenarios, PostScenario(h) PROVE TypeInv'
  BY <1>1 DEF PostScenario, TypeInv, TypeOK, Started, taskVars, stopVars
<1>2. ASSUME NEW r \in Runs, NEW h \in Scenarios, NEW ref \in Runs \cup {None},
             NEW seed \in SeedsOf[r], PostRun(r, h, seed, ref)
      PROVE TypeInv'
  <2>1. [scenario |-> h, seed |-> seed, replay_of |-> ref] \in Metadata
    BY DEF Metadata, Seeds
  <2>2. meta' \in [Runs -> Metadata \cup {None}]
    BY <1>2, <2>1 DEF PostRun, TypeInv, TypeOK
  <2>3. TypeOK'
    BY <1>2, <2>2 DEF PostRun, TypeInv, TypeOK, taskVars, stopVars
  <2>4. Started'
    BY <1>2 DEF PostRun, TypeInv, TypeOK, Started, taskVars
  <2> QED BY <2>3, <2>4 DEF TypeInv
<1>3. ASSUME NEW r \in Runs, PostStart(r) PROVE TypeInv'
  BY <1>3 DEF PostStart, TypeInv, TypeOK, Started, Startable, Evicted, apiVars, stopVars
<1>4. ASSUME NEW r \in Runs, PostStartRefused(r) PROVE TypeInv'
  BY <1>4 DEF PostStartRefused, TypeInv, TypeOK, Started, Evicted, apiVars, taskVars, stopVars
<1>5. ASSUME NEW d \in Drivers, FirstStep(d) PROVE TypeInv'
  BY <1>5 DEF FirstStep, TypeInv, TypeOK, Started, apiVars, stopVars
<1>6. ASSUME NEW d \in Drivers, Tick(d) PROVE TypeInv'
  <2>1. Point(of[d], count[d]) \in Sample
    BY <1>6, PointType DEF Tick
  <2>2. samples' \in [Runs -> Seq(Sample)]
    <3>1. of[d] \in Runs /\ samples \in [Runs -> Seq(Sample)]
      BY <1>6 DEF Tick, TypeInv, TypeOK, Started
    <3>2. samples' = [samples EXCEPT ![of[d]] = Append(@, Point(of[d], count[d]))]
      BY <1>6 DEF Tick
    <3> QED
      BY <2>1, <3>1, <3>2, SinkGrows
  <2>3. count' \in [Drivers -> 0..MaxTicks]
    BY <1>6 DEF Tick, TypeInv, TypeOK
  <2>4. status' \in [Runs -> RunStatus] /\ control' \in [Drivers -> RunStatus]
    BY <1>6 DEF Tick, TypeInv, TypeOK, RunStatus
  <2> QED
    BY <1>6, <2>2, <2>3, <2>4 DEF Tick, TypeInv, TypeOK, Started, apiVars, stopVars
<1>7. ASSUME NEW d \in Drivers, TickFails(d) PROVE TypeInv'
  <2>1. samples' \in [Runs -> Seq(Sample)] /\ count' \in [Drivers -> 0..MaxTicks]
    <3>1. CASE UNCHANGED <<samples, count>>
      BY <3>1 DEF TypeInv, TypeOK
    <3>2. CASE count[d] < MaxTicks /\ samples' = [samples EXCEPT ![of[d]] = Append(@, Point(of[d], count[d]))]
               /\ count' = [count EXCEPT ![d] = @ + 1]
      <4>1. Point(of[d], count[d]) \in Sample
        BY <1>7, <3>2, PointType DEF TickFails
      <4>2. of[d] \in Runs /\ samples \in [Runs -> Seq(Sample)]
        BY <1>7 DEF TickFails, TypeInv, TypeOK, Started
      <4>3. samples' \in [Runs -> Seq(Sample)]
        BY <3>2, <4>1, <4>2, SinkGrows
      <4>4. count' \in [Drivers -> 0..MaxTicks]
        BY <3>2 DEF TypeInv, TypeOK
      <4> QED BY <4>3, <4>4
    <3> QED BY <1>7, <3>1, <3>2 DEF TickFails
  <2>2. status' \in [Runs -> RunStatus] /\ control' \in [Drivers -> RunStatus]
    <3>1. "running" \in RunStatus /\ "stopped" \in RunStatus
      BY DEF RunStatus
    <3>2. control' \in [Drivers -> RunStatus]
      BY <1>7, <3>1 DEF TickFails, TypeInv, TypeOK
    <3>3. \/ status' = [status EXCEPT ![of[d]] = "stopped"]
          \/ status' = status
          \/ status' = [status EXCEPT ![of[d]] = IF control[d] = "pending" THEN "running" ELSE @]
      BY <1>7 DEF TickFails
    <3>4. of[d] \in Runs /\ status \in [Runs -> RunStatus]
      BY <1>7 DEF TickFails, TypeInv, TypeOK, Started
    <3> QED
      BY <3>1, <3>2, <3>3, <3>4
  <2>3. broken' \subseteq Drivers
    BY <1>7 DEF TickFails, TypeInv, TypeOK
  <2>4. failed' \in [Drivers -> BOOLEAN]
        /\ life' \in [Drivers -> {"unused", "created", "live", "closing", "ended"}]
    BY <1>7 DEF TickFails, TypeInv, TypeOK
  <2>5. UNCHANGED <<maxActive, store, meta, registry, of, cancelled, verdict, stop, phase, toStop,
                    starts, uneven>>
    BY <1>7 DEF TickFails, apiVars, stopVars
  <2>6. TypeOK'
    BY <2>1, <2>2, <2>3, <2>4, <2>5, SMTT(30) DEF TypeInv, TypeOK
  <2>7. Started'
    BY <1>7, <2>5 DEF TickFails, TypeInv, TypeOK, Started
  <2> QED
    BY <2>6, <2>7 DEF TypeInv
<1>8. ASSUME NEW d \in Drivers, TaskCancelled(d) PROVE TypeInv'
  BY <1>8 DEF TaskCancelled, TypeInv, TypeOK, Started, apiVars, stopVars
<1>9. ASSUME NEW d \in Drivers, EndTask(d) PROVE TypeInv'
  <2>1. verdict' \in [Drivers -> {"none", "noop", "partial", "mismatch", "clean", "diverged"}]
    BY <1>9, OutcomeType DEF EndTask, TypeInv, TypeOK
  <2>2. uneven' \subseteq Drivers /\ broken' \subseteq Drivers
    BY <1>9 DEF EndTask, TypeInv, TypeOK
  <2> QED
    BY <1>9, <2>1, <2>2 DEF EndTask, TypeInv, TypeOK, Started, apiVars, stopVars
<1>10. ASSUME NEW d \in Drivers, StopRun(d) PROVE TypeInv'
  BY <1>10 DEF StopRun, Cancel, IsRunning, TypeInv, TypeOK, Started, apiVars
<1>11. ASSUME NEW d \in Drivers, StopWake(d) PROVE TypeInv'
  <2>1. stop' \in [Drivers -> {"none", "await", "done", "raised"}] /\ toStop' \subseteq Drivers
        /\ phase' \in {"serving", "stopping", "down", "aborted"}
    BY <1>11 DEF StopWake, StopOver, TypeInv, TypeOK
  <2>2. status' \in [Runs -> RunStatus] /\ control' \in [Drivers -> RunStatus]
    BY <1>11 DEF StopWake, TypeInv, TypeOK, RunStatus
  <2> QED
    BY <1>11, <2>1, <2>2 DEF StopWake, TypeInv, TypeOK, Started, apiVars
<1>12. ASSUME Shutdown PROVE TypeInv'
  BY <1>12 DEF Shutdown, TypeInv, TypeOK, Started, apiVars, taskVars
<1>13. ASSUME NEW d \in Drivers, StopNext(d) PROVE TypeInv'
  BY <1>13 DEF StopNext, Cancel, IsRunning, TypeInv, TypeOK, Started, apiVars
<1>14. CASE Cleared
  BY <1>14 DEF Cleared, TypeInv, TypeOK, Started, apiVars, taskVars
<1>15. CASE UNCHANGED vars
  BY <1>15 DEF vars, TypeInv, TypeOK, Started
<1> QED
  BY <1>1, <1>2, <1>3, <1>4, <1>5, <1>6, <1>7, <1>8, <1>9, <1>10, <1>11, <1>12, <1>13, <1>14, <1>15
  DEF Next, Task, StopAll

\* The types are right in every state.
THEOREM TypeCorrect == Spec => []TypeOK
<1>1. TypeInv => TypeOK
  BY DEF TypeInv
<1> QED
  BY <1>1, TypeInit, TypeNext, PTL DEF Spec

-------------------------------------------------------------------------------
\* The dictionary itself keeps the cap ...
WithinCap == Cardinality(registry) <= maxActive

\* ... and has one running driver of a run.
Unique ==
    \A d, e \in registry : IsRunning(d) /\ IsRunning(e) /\ of[d] = of[e] => d = e

\* stop_all() has dealt with what is no longer on its list.
Handled == phase = "stopping" => \A d \in registry \ toStop : stop[d] # "none"

RegistryInv == NoOrphan /\ WithinCap /\ Unique /\ Handled

\* The drivers are finitely many, and so is what the registry holds.
LEMMA RegistryFinite == TypeOK => IsFiniteSet(registry) /\ Cardinality(registry) \in Nat
BY NumberAssumption, FS_Subset, FS_CardinalityType DEF TypeOK

\* Taking drivers out of the registry keeps the cap.
LEMMA FewerWithinCap ==
    ASSUME TypeOK, WithinCap, NEW S, S \subseteq registry
    PROVE  IsFiniteSet(S) /\ Cardinality(S) \in Nat /\ Cardinality(S) <= maxActive
<1>1. IsFiniteSet(S) /\ Cardinality(S) <= Cardinality(registry)
  BY RegistryFinite, FS_Subset
<1>2. maxActive \in Nat
  BY BoundAssumption DEF TypeOK
<1> QED
  BY <1>1, <1>2, RegistryFinite, FS_CardinalityType DEF WithinCap

\* The registry is empty at first.
LEMMA RegistryInit == Init => RegistryInv
<1> SUFFICES ASSUME Init PROVE RegistryInv
  OBVIOUS
<1>1. NoOrphan /\ Unique /\ Handled
  BY DEF Init, NoOrphan, Active, IsRunning, Unique, Handled
<1>2. WithinCap
  BY FS_EmptySet, BoundAssumption DEF Init, WithinCap
<1> QED
  BY <1>1, <1>2 DEF RegistryInv

\* A step that starts no driver, resumes none and leaves the registry and the list
\* of stop_all() alone keeps all of it.
LEMMA Settled ==
    ASSUME RegistryInv, UNCHANGED <<maxActive, registry, of, phase, toStop>>,
           \A d \in Drivers : IsRunning(d)' => IsRunning(d),
           \A d \in Drivers : stop'[d] = "none" => stop[d] = "none",
           TypeOK
    PROVE  RegistryInv'
<1>1. NoOrphan'
  BY DEF RegistryInv, NoOrphan, Active
<1>2. WithinCap'
  BY DEF RegistryInv, WithinCap
<1>3. Unique'
  BY DEF RegistryInv, Unique, TypeOK
<1>4. Handled'
  BY DEF RegistryInv, Handled, TypeOK
<1> QED
  BY <1>1, <1>2, <1>3, <1>4 DEF RegistryInv

\* post_run_start keeps it: the cap is compared after the eviction, and the new
\* driver is the only one of its run.
LEMMA StartKeepsRegistry ==
    ASSUME RegistryInv, TypeInv, NEW r \in Runs, PostStart(r)
    PROVE  RegistryInv'
<1>1. PICK d \in Drivers :
        /\ life[d] = "unused"
        /\ registry' = Evicted \cup {d}
        /\ of' = [of EXCEPT ![d] = r]
        /\ life' = [life EXCEPT ![d] = "created"]
  BY DEF PostStart
<1>2. UNCHANGED <<maxActive, stop, phase, toStop>> /\ phase = "serving"
  BY DEF PostStart, apiVars, stopVars, Startable
<1>3. Evicted \subseteq registry
  BY DEF Evicted
<1>4. \A e \in Drivers : IsRunning(e)' => IsRunning(e) \/ e = d
  BY <1>1 DEF IsRunning, TypeInv, TypeOK
<1>5. NoOrphan'
  BY <1>1, <1>2, <1>4 DEF RegistryInv, NoOrphan, Active, Evicted
<1>6. WithinCap'
  <2>1. IsFiniteSet(Evicted) /\ Cardinality(Evicted) \in Nat
    BY <1>3, FewerWithinCap DEF RegistryInv, TypeInv
  <2>2. Cardinality(Evicted) < maxActive
    <3>1. ~(Cardinality(Evicted) >= maxActive)
      BY DEF PostStart, Refused
    <3>2. maxActive \in Nat
      BY BoundAssumption DEF TypeInv, TypeOK
    <3> QED
      BY <2>1, <3>1, <3>2
  <2>3. IsFiniteSet(Evicted \cup {d})
    BY <2>1, FS_AddElement
  <2>4. Cardinality(Evicted \cup {d}) \in Nat
    BY <2>3, FS_CardinalityType
  <2>5. maxActive \in Nat
    BY BoundAssumption DEF TypeInv, TypeOK
  <2>6. d \notin Evicted
    BY <1>1 DEF Evicted, IsRunning
  <2>7. Cardinality(Evicted \cup {d}) = Cardinality(Evicted) + 1
    BY <2>1, <2>6, FS_AddElement
  <2>8. Cardinality(Evicted \cup {d}) <= maxActive
    BY <2>1, <2>2, <2>4, <2>5, <2>7
  <2> QED
    BY <1>1, <1>2, <2>8 DEF WithinCap
<1>7. Unique'
  <2>1. \A e \in Evicted : of[e] # r
    BY DEF PostStart, Refused
  <2>2. d \notin Evicted
    BY <1>1 DEF Evicted, IsRunning
  <2> SUFFICES ASSUME NEW e \in registry', NEW g \in registry', IsRunning(e)', IsRunning(g)',
                      of'[e] = of'[g]
               PROVE  e = g
    BY DEF Unique
  <2>3. \A x \in Evicted : x \in Drivers /\ of'[x] = of[x] /\ IsRunning(x)
    BY <1>1, <1>3, <2>2 DEF TypeInv, TypeOK, Evicted
  <2>4. of'[d] = r
    BY <1>1 DEF TypeInv, TypeOK
  <2>5. CASE e \in Evicted /\ g \in Evicted
    BY <2>3, <2>5, <1>3 DEF RegistryInv, Unique
  <2>6. CASE e = d \/ g = d
    BY <1>1, <2>1, <2>3, <2>4, <2>6
  <2> QED
    BY <1>1, <2>5, <2>6
<1>8. Handled'
  BY <1>2 DEF Handled
<1> QED
  BY <1>5, <1>6, <1>7, <1>8 DEF RegistryInv

\* Every step keeps it.
LEMMA RegistryNext == RegistryInv /\ TypeInv /\ [Next]_vars => RegistryInv'
<1> SUFFICES ASSUME RegistryInv, TypeInv, [Next]_vars PROVE RegistryInv'
  OBVIOUS
<1>0. TypeOK
  BY DEF TypeInv
<1>1. ASSUME NEW h \in Scenarios, PostScenario(h) PROVE RegistryInv'
  BY <1>0, <1>1, Settled DEF PostScenario, IsRunning, taskVars, stopVars
<1>2. ASSUME NEW r \in Runs, NEW h \in Scenarios, NEW ref \in Runs \cup {None},
             NEW seed \in SeedsOf[r], PostRun(r, h, seed, ref)
      PROVE RegistryInv'
  BY <1>0, <1>2, Settled DEF PostRun, IsRunning, taskVars, stopVars
<1>3. ASSUME NEW r \in Runs, PostStart(r) PROVE RegistryInv'
  BY <1>3, StartKeepsRegistry
<1>4. ASSUME NEW r \in Runs, PostStartRefused(r) PROVE RegistryInv'
  <2>1. registry' = Evicted /\ Evicted \subseteq registry
    BY <1>4 DEF PostStartRefused, Evicted
  <2>2. UNCHANGED <<maxActive, of, life, stop, phase, toStop>> /\ phase = "serving"
    BY <1>4 DEF PostStartRefused, apiVars, taskVars, stopVars, Startable
  <2>3. NoOrphan'
    BY <2>1, <2>2 DEF RegistryInv, NoOrphan, Active, Evicted, IsRunning
  <2>4. WithinCap'
    BY <1>0, <2>1, <2>2, FewerWithinCap DEF RegistryInv, WithinCap
  <2>5. Unique'
    BY <2>1, <2>2 DEF RegistryInv, Unique, IsRunning
  <2>6. Handled'
    BY <2>2 DEF Handled
  <2> QED
    BY <2>3, <2>4, <2>5, <2>6 DEF RegistryInv
<1>5. ASSUME NEW d \in Drivers, FirstStep(d) PROVE RegistryInv'
  BY <1>0, <1>5, Settled DEF FirstStep, IsRunning, TypeOK, apiVars, stopVars
<1>6. ASSUME NEW d \in Drivers, Tick(d) PROVE RegistryInv'
  BY <1>0, <1>6, Settled DEF Tick, IsRunning, apiVars, stopVars
<1>7. ASSUME NEW d \in Drivers, TickFails(d) PROVE RegistryInv'
  BY <1>0, <1>7, Settled DEF TickFails, IsRunning, TypeOK, apiVars, stopVars
<1>8. ASSUME NEW d \in Drivers, TaskCancelled(d) PROVE RegistryInv'
  BY <1>0, <1>8, Settled DEF TaskCancelled, IsRunning, TypeOK, apiVars, stopVars
<1>9. ASSUME NEW d \in Drivers, EndTask(d) PROVE RegistryInv'
  BY <1>0, <1>9, Settled DEF EndTask, IsRunning, TypeOK, apiVars, stopVars
<1>10. ASSUME NEW d \in Drivers, StopRun(d) PROVE RegistryInv'
  <2>1. registry' = registry \ {d} /\ stop' = [stop EXCEPT ![d] = "await"]
    BY <1>10 DEF StopRun, Cancel
  <2>2. UNCHANGED <<maxActive, of, life, phase, toStop>> /\ phase = "serving"
    BY <1>10 DEF StopRun, apiVars
  <2>3. NoOrphan'
    BY <1>0, <2>1, <2>2 DEF RegistryInv, NoOrphan, Active, IsRunning, TypeOK
  <2>4. WithinCap'
    BY <1>0, <2>1, <2>2, FewerWithinCap DEF RegistryInv, WithinCap
  <2>5. Unique'
    BY <2>1, <2>2 DEF RegistryInv, Unique, IsRunning
  <2>6. Handled'
    BY <2>2 DEF Handled
  <2> QED
    BY <2>3, <2>4, <2>5, <2>6 DEF RegistryInv
<1>11. ASSUME NEW d \in Drivers, StopWake(d) PROVE RegistryInv'
  <2>1. /\ stop' = [stop EXCEPT ![d] = "raised"] \/ stop' = [stop EXCEPT ![d] = "done"]
        /\ toStop' = toStop \ {d}
        /\ phase' = "stopping" => phase = "stopping"
    BY <1>11 DEF StopWake, StopOver
  <2>2. UNCHANGED <<maxActive, registry, of, life>>
    BY <1>11 DEF StopWake, apiVars
  <2>3. NoOrphan'
    BY <1>0, <2>1, <2>2 DEF RegistryInv, NoOrphan, Active, IsRunning, TypeOK
  <2>4. WithinCap' /\ Unique'
    BY <2>2 DEF RegistryInv, WithinCap, Unique, IsRunning
  <2>5. Handled'
    BY <1>0, <2>1, <2>2 DEF RegistryInv, Handled, TypeOK
  <2> QED
    BY <2>3, <2>4, <2>5 DEF RegistryInv
<1>12. CASE Shutdown
  <2>1. toStop' = registry
    BY <1>12 DEF Shutdown
  <2>2. UNCHANGED <<maxActive, registry, of, life, stop>>
    BY <1>12 DEF Shutdown, apiVars, taskVars
  <2>3. NoOrphan' /\ WithinCap' /\ Unique'
    BY <2>2 DEF RegistryInv, NoOrphan, Active, IsRunning, WithinCap, Unique
  <2>4. Handled'
    BY <2>1, <2>2 DEF Handled
  <2> QED
    BY <2>3, <2>4 DEF RegistryInv
<1>13. ASSUME NEW d \in Drivers, StopNext(d) PROVE RegistryInv'
  BY <1>0, <1>13, Settled DEF StopNext, Cancel, IsRunning, TypeOK, apiVars
<1>14. CASE Cleared
  <2>1. phase = "stopping" /\ toStop = {} /\ registry' = {} /\ phase' = "down"
    BY <1>14 DEF Cleared
  <2>2. UNCHANGED <<maxActive, of, life, stop>>
    BY <1>14 DEF Cleared, apiVars, taskVars
  <2>3. Active = {}
    BY <2>1 DEF RegistryInv, NoOrphan, Handled, Active
  <2>4. NoOrphan'
    BY <2>2, <2>3 DEF NoOrphan, Active, IsRunning
  <2>5. WithinCap'
    BY <1>0, <2>1, <2>2, FS_EmptySet, BoundAssumption DEF WithinCap, TypeOK
  <2>6. Unique' /\ Handled'
    BY <2>1 DEF Unique, Handled
  <2> QED
    BY <2>4, <2>5, <2>6 DEF RegistryInv
<1>15. CASE UNCHANGED vars
  BY <1>15 DEF vars, RegistryInv, NoOrphan, Active, IsRunning, WithinCap, Unique, Handled
<1> QED
  BY <1>1, <1>2, <1>3, <1>4, <1>5, <1>6, <1>7, <1>8, <1>9, <1>10, <1>11, <1>12, <1>13, <1>14, <1>15
  DEF Next, Task, StopAll

\* No loop runs without an owner.
THEOREM NoOrphanEver == Spec => []NoOrphan
<1>1. RegistryInv => NoOrphan
  BY DEF RegistryInv
<1> QED
  BY <1>1, TypeInit, TypeNext, RegistryInit, RegistryNext, PTL DEF Spec

\* Never more loops than the cap.
THEOREM CapEver == Spec => []CapHolds
<1>1. RegistryInv /\ TypeInv => CapHolds
  BY FewerWithinCap DEF RegistryInv, NoOrphan, CapHolds, TypeInv
<1> QED
  BY <1>1, TypeInit, TypeNext, RegistryInit, RegistryNext, PTL DEF Spec

\* Never two loops for one run.
THEOREM OneLoopEver == Spec => []OneLoopPerRun
<1>1. RegistryInv => OneLoopPerRun
  BY DEF RegistryInv, NoOrphan, Active, Unique, OneLoopPerRun
<1> QED
  BY <1>1, TypeInit, TypeNext, RegistryInit, RegistryNext, PTL DEF Spec

-------------------------------------------------------------------------------
(***************************************************************************)
(* A run that was started once has one driver, and nobody else writes its  *)
(* status and its samples.  Everything below rests on that.                *)
(***************************************************************************)
\* A driver that was never started has done nothing.
Unstarted ==
    \A d \in Drivers : life[d] = "unused" =>
        control[d] = "pending" /\ count[d] = 0 /\ verdict[d] = "none" /\ stop[d] # "done"

\* A run that was never started has no driver and no trace.
Untouched ==
    \A r \in Runs : starts[r] = 0 =>
        /\ status[r] = "pending" /\ samples[r] = <<>>
        /\ \A d \in Drivers : life[d] # "unused" => of[d] # r

\* A run that was started once has one driver.
Sole ==
    \A d, e \in Drivers :
        life[d] # "unused" /\ life[e] # "unused" /\ of[d] = of[e] /\ starts[of[d]] <= 1 => d = e

\* Its status says that it is over when the control state of its driver says so, ...
Mirrored ==
    \A d \in Drivers : life[d] # "unused" /\ starts[of[d]] <= 1 =>
        (status[of[d]] \in Terminal <=> control[d] \in Terminal)

\* ... and then its task ticks no more.
Wound ==
    \A d \in Drivers :
        /\ control[d] \in Terminal => life[d] \in {"closing", "ended"}
        /\ stop[d] = "done" => life[d] = "ended" /\ control[d] \in Terminal

\* What stop_all() leaves behind.
Emptied == phase = "down" => registry = {}

OwnInv == Unstarted /\ Untouched /\ Sole /\ Mirrored /\ Wound /\ Emptied

\* A reference run exists, and so does a run that was started.
Created ==
    \A r \in Runs :
        /\ starts[r] > 0 => meta[r] # None
        /\ meta[r] # None /\ meta[r].replay_of # None => meta[meta[r].replay_of] # None

\* The samples of a run that was started once are the ticks of its driver, in order.
Logged ==
    /\ \A r \in Runs : meta[r] # None /\ starts[r] <= 1 =>
          \A i \in DOMAIN samples[r] : samples[r][i] = <<meta[r].scenario, meta[r].seed, i>>
    /\ \A d \in Drivers : life[d] # "unused" /\ starts[of[d]] <= 1 =>
          count[d] = Len(samples[of[d]])

\* The run a driver's run is to be compared with.
Reference(d) == meta[of[d]].replay_of

\* A clean verdict: of the same identity, and not longer.
Agreed(d) ==
    /\ Reference(d) # None /\ Preflight(of[d], Reference(d))
    /\ (starts[of[d]] <= 1 /\ starts[Reference(d)] <= 1) =>
          Len(samples[of[d]]) <= Len(samples[Reference(d)])

\* What a verdict means when it is given, and later.
Judged ==
    \A d \in Drivers :
        /\ verdict[d] # "none" => life[d] = "ended"
        /\ verdict[d] = "diverged" => d \in uneven
        /\ verdict[d] = "clean" => Agreed(d)

JudgedInv == Created /\ Logged /\ Judged

\* Nothing is started, nothing over at first.
LEMMA OwnInit == Init => OwnInv
<1> SUFFICES ASSUME Init PROVE OwnInv
  OBVIOUS
<1>1. Unstarted /\ Untouched /\ Sole /\ Mirrored /\ Emptied
  BY DEF Init, Unstarted, Untouched, Sole, Mirrored, Emptied
<1>2. Wound
  BY DEF Init, Wound, Terminal
<1> QED
  BY <1>1, <1>2 DEF OwnInv

\* A step that touches neither the runs nor the tasks keeps it.
LEMMA OwnAside ==
    ASSUME OwnInv, TypeInv, Emptied',
           UNCHANGED <<status, samples, of, life, control, count, verdict, starts>>,
           \A d \in Drivers : stop'[d] = "done" => stop[d] = "done"
    PROVE  OwnInv'
<1>1. Unstarted' /\ Untouched' /\ Sole' /\ Mirrored'
  BY DEF OwnInv, Unstarted, Untouched, Sole, Mirrored
<1>2. Wound'
  BY DEF OwnInv, Wound
<1> QED
  BY <1>1, <1>2 DEF OwnInv

\* A task that goes on to a later stage keeps it; it begins to tick only when its run
\* is not over.
LEMMA OwnMove ==
    ASSUME OwnInv, TypeInv, NEW d \in Drivers, NEW to,
           UNCHANGED <<status, samples, registry, of, control, count, stop, phase, starts>>,
           life' = [life EXCEPT ![d] = to],
           life[d] \in {"created", "live", "closing"}, to \in {"live", "closing", "ended"},
           to = "live" => life[d] = "created",
           \A e \in Drivers : e # d => verdict'[e] = verdict[e]
    PROVE  OwnInv'
<1>1. \A e \in Drivers : life'[e] = IF e = d THEN to ELSE life[e]
  BY DEF TypeInv, TypeOK
<1>2. Unstarted' /\ Untouched' /\ Emptied'
  BY <1>1 DEF OwnInv, Unstarted, Untouched, Emptied
<1>3. Sole' /\ Mirrored'
  BY <1>1 DEF OwnInv, Sole, Mirrored
<1>4. Wound'
  BY <1>1 DEF OwnInv, Wound
<1> QED
  BY <1>2, <1>3, <1>4 DEF OwnInv

\* post_run_start keeps it: the run is not over, and it is counted.
LEMMA OwnStart ==
    ASSUME OwnInv, TypeInv, NEW r \in Runs, PostStart(r)
    PROVE  OwnInv'
<1>1. PICK d \in Drivers :
        /\ life[d] = "unused"
        /\ of' = [of EXCEPT ![d] = r]
        /\ life' = [life EXCEPT ![d] = "created"]
  BY DEF PostStart
<1>2. /\ UNCHANGED <<status, samples, control, count, verdict, stop, phase>>
      /\ phase = "serving" /\ status[r] \notin Terminal
  BY DEF PostStart, Startable, stopVars
<1>3. \A q \in Runs : starts'[q] = (IF q = r THEN starts[q] + 1 ELSE starts[q]) /\ starts[q] \in Nat
  BY DEF PostStart, TypeInv, TypeOK
<1>4. \A e \in Drivers : /\ life'[e] = (IF e = d THEN "created" ELSE life[e])
                         /\ of'[e] = IF e = d THEN r ELSE of[e]
  BY <1>1 DEF TypeInv, TypeOK
<1>5. \A e \in Drivers : life[e] # "unused" => of[e] \in Runs
  BY DEF TypeInv, Started
<1>6. Unstarted' /\ Emptied'
  BY <1>2, <1>4 DEF OwnInv, Unstarted, Emptied
<1>7. Untouched'
  BY <1>2, <1>3, <1>4, <1>5 DEF OwnInv, Untouched
<1>8. starts'[r] <= 1 => \A e \in Drivers : life[e] # "unused" => of[e] # r
  BY <1>3 DEF OwnInv, Untouched
<1>9. Sole'
  BY <1>1, <1>3, <1>4, <1>5, <1>8 DEF OwnInv, Sole
<1>10. control[d] \notin Terminal
  BY <1>1 DEF OwnInv, Unstarted, Terminal
<1>11. Mirrored'
  BY <1>1, <1>2, <1>3, <1>4, <1>5, <1>8, <1>10 DEF OwnInv, Mirrored
<1>12. Wound'
  BY <1>1, <1>2, <1>4, <1>10 DEF OwnInv, Wound, Unstarted
<1> QED
  BY <1>6, <1>7, <1>9, <1>11, <1>12 DEF OwnInv

\* What a tick, or the end of a stop(), writes: only the driver's own run, and the two
\* views of it together.
LEMMA OwnWrite ==
    ASSUME OwnInv, TypeInv, NEW d \in Drivers, life[d] # "unused",
           NEW c, NEW s, NEW to,
           UNCHANGED <<registry, of, verdict, starts>>,
           control' = [control EXCEPT ![d] = c],
           status' = [status EXCEPT ![of[d]] = s],
           life' = [life EXCEPT ![d] = to], to # "unused",
           starts[of[d]] <= 1 => (s \in Terminal <=> c \in Terminal),
           c \in Terminal => to \in {"closing", "ended"},
           \A e \in Drivers : e # d => count'[e] = count[e],
           \A q \in Runs : q # of[d] => samples'[q] = samples[q],
           \A e \in Drivers : e # d => stop'[e] = stop[e],
           stop'[d] = "done" => to = "ended" /\ c \in Terminal,
           phase' = "down" => phase = "down"
    PROVE  OwnInv'
<1>1. of[d] \in Runs
  BY DEF TypeInv, Started
<1>2. \A e \in Drivers : /\ life'[e] = (IF e = d THEN to ELSE life[e])
                         /\ control'[e] = IF e = d THEN c ELSE control[e]
  BY DEF TypeInv, TypeOK
<1>3. \A q \in Runs : status'[q] = IF q = of[d] THEN s ELSE status[q]
  BY DEF TypeInv, TypeOK
<1>4. Unstarted' /\ Emptied'
  BY <1>2 DEF OwnInv, Unstarted, Emptied
<1>5. Untouched'
  BY <1>2, <1>3 DEF OwnInv, Untouched
<1>6. Sole'
  BY <1>2 DEF OwnInv, Sole
<1>7. Mirrored'
  <2> SUFFICES ASSUME NEW e \in Drivers, life'[e] # "unused", starts[of[e]] <= 1
               PROVE  status'[of[e]] \in Terminal <=> control'[e] \in Terminal
    BY DEF Mirrored
  <2>1. life[e] # "unused" /\ of[e] \in Runs
    BY <1>2 DEF TypeInv, Started
  <2>2. CASE e = d
    BY <1>1, <1>2, <1>3, <2>2
  <2>3. CASE e # d
    <3>1. of[e] # of[d]
      BY <2>1, <2>3 DEF OwnInv, Sole
    <3> QED
      BY <1>2, <1>3, <2>1, <2>3, <3>1 DEF OwnInv, Mirrored
  <2> QED
    BY <2>2, <2>3
<1>8. Wound'
  BY <1>2 DEF OwnInv, Wound
<1> QED
  BY <1>4, <1>5, <1>6, <1>7, <1>8 DEF OwnInv

\* A tick writes its own run only.
LEMMA OwnTick ==
    ASSUME OwnInv, TypeInv, NEW d \in Drivers, Tick(d)
    PROVE  OwnInv'
<1> DEFINE s == IF control[d] = "pending" THEN "running" ELSE status[of[d]]
<1>1. life[d] = "live" /\ life' = [life EXCEPT ![d] = "live"]
  BY DEF Tick, TypeInv, TypeOK
<1>2. status' = [status EXCEPT ![of[d]] = s] /\ control' = [control EXCEPT ![d] = "running"]
  BY DEF Tick
<1>3. UNCHANGED <<registry, of, verdict, starts, stop, phase>>
  BY DEF Tick, apiVars, stopVars
<1>4. /\ \A e \in Drivers : e # d => count'[e] = count[e]
      /\ \A q \in Runs : q # of[d] => samples'[q] = samples[q]
  BY DEF Tick, TypeInv, TypeOK
<1>5. "running" \notin Terminal /\ control[d] \notin Terminal /\ stop[d] # "done"
  BY <1>1 DEF OwnInv, Wound, Terminal
<1>6. starts[of[d]] <= 1 => s \notin Terminal
  BY <1>1, <1>5 DEF OwnInv, Mirrored
<1> HIDE DEF s
<1> QED
  BY <1>1, <1>2, <1>3, <1>4, <1>5, <1>6, OwnWrite

\* A failing tick too, whether the repository takes the stop or refuses it.
LEMMA OwnTickFails ==
    ASSUME OwnInv, TypeInv, NEW d \in Drivers, TickFails(d)
    PROVE  OwnInv'
<1>1. life[d] = "live" /\ life' = [life EXCEPT ![d] = "closing"]
  BY DEF TickFails
<1>2. UNCHANGED <<registry, of, verdict, starts, stop, phase>>
  BY DEF TickFails, apiVars, stopVars
<1>3. /\ \A e \in Drivers : e # d => count'[e] = count[e]
      /\ \A q \in Runs : q # of[d] => samples'[q] = samples[q]
  BY DEF TickFails, TypeInv, TypeOK
<1>4. "running" \notin Terminal /\ "stopped" \in Terminal /\ stop[d] # "done"
      /\ control[d] \notin Terminal
  BY <1>1 DEF OwnInv, Wound, Terminal
<1>5. CASE control' = [control EXCEPT ![d] = "stopped"]
           /\ status' = [status EXCEPT ![of[d]] = "stopped"]
  BY <1>1, <1>2, <1>3, <1>4, <1>5, OwnWrite
<1>6. CASE control' = [control EXCEPT ![d] = "running"]
           /\ status' \in {status, [status EXCEPT ![of[d]] =
                                      IF control[d] = "pending" THEN "running" ELSE @]}
  <2>1. PICK s : status' = [status EXCEPT ![of[d]] = s] /\ s \in {status[of[d]], "running"}
    <3>1. status = [status EXCEPT ![of[d]] = status[of[d]]]
      BY DEF TypeInv, TypeOK
    <3> QED
      BY <1>6, <3>1
  <2>2. starts[of[d]] <= 1 => s \notin Terminal
    BY <1>1, <1>4, <2>1 DEF OwnInv, Mirrored
  <2> QED
    BY <1>1, <1>2, <1>3, <1>4, <1>6, <2>1, <2>2, OwnWrite
<1> QED
  BY <1>5, <1>6 DEF TickFails

\* The end of a stop() leaves a driver that is over, in both views, or has raised.
LEMMA OwnStopWake ==
    ASSUME OwnInv, TypeInv, NEW d \in Drivers, StopWake(d)
    PROVE  OwnInv'
<1>1. life[d] = "ended" /\ life' = [life EXCEPT ![d] = "ended"] /\ stop[d] = "await"
  BY DEF StopWake, TypeInv, TypeOK
<1>2. UNCHANGED <<registry, of, verdict, starts, samples, count, life>>
  BY DEF StopWake, apiVars
<1>3. PICK how \in {"done", "raised"} : StopOver(d, how)
  BY DEF StopWake
<1>4. /\ stop' = [stop EXCEPT ![d] = how]
      /\ \A e \in Drivers : e # d => stop'[e] = stop[e]
      /\ phase' = "down" => phase = "down"
  BY <1>3 DEF StopOver, TypeInv, TypeOK
<1>8. /\ \A e \in Drivers : e # d => count'[e] = count[e]
      /\ \A q \in Runs : q # of[d] => samples'[q] = samples[q]
      /\ life[d] # "unused" /\ stop[d] # "done"
  BY <1>1, <1>2
<1>5. CASE UNCHANGED <<control, status>> /\ stop'[d] # "done"
  BY <1>2, <1>4, <1>5, OwnAside DEF OwnInv, Emptied
<1>6. CASE UNCHANGED <<control, status>> /\ control[d] \in Terminal
  <2> DEFINE c == control[d]
             s == status[of[d]]
  <2>1. control' = [control EXCEPT ![d] = c] /\ status' = [status EXCEPT ![of[d]] = s]
    BY <1>6 DEF TypeInv, TypeOK
  <2>2. starts[of[d]] <= 1 => (s \in Terminal <=> c \in Terminal)
    BY <1>1 DEF OwnInv, Mirrored
  <2>3. c \in Terminal
    BY <1>6
  <2> HIDE DEF c, s
  <2> QED
    BY <1>1, <1>2, <1>4, <1>8, <2>1, <2>2, <2>3, OwnWrite
<1>7. CASE control' = [control EXCEPT ![d] = "stopped"] /\ status' = [status EXCEPT ![of[d]] = "stopped"]
  <2>1. "stopped" \in Terminal
    BY DEF Terminal
  <2> QED
    BY <1>1, <1>2, <1>4, <1>7, <1>8, <2>1, OwnWrite
<1> QED
  BY <1>5, <1>6, <1>7 DEF StopWake, StopOver, TypeInv, TypeOK

\* Every step keeps it.
LEMMA OwnNext == OwnInv /\ TypeInv /\ [Next]_vars => OwnInv'
<1> SUFFICES ASSUME OwnInv, TypeInv, [Next]_vars PROVE OwnInv'
  OBVIOUS
<1>1. ASSUME NEW h \in Scenarios, PostScenario(h) PROVE OwnInv'
  BY <1>1, OwnAside DEF PostScenario, OwnInv, Emptied, taskVars, stopVars
<1>2. ASSUME NEW r \in Runs, NEW h \in Scenarios, NEW ref \in Runs \cup {None},
             NEW seed \in SeedsOf[r], PostRun(r, h, seed, ref)
      PROVE OwnInv'
  BY <1>2, OwnAside DEF PostRun, OwnInv, Emptied, taskVars, stopVars
<1>3. ASSUME NEW r \in Runs, PostStart(r) PROVE OwnInv'
  BY <1>3, OwnStart
<1>4. ASSUME NEW r \in Runs, PostStartRefused(r) PROVE OwnInv'
  BY <1>4, OwnAside DEF PostStartRefused, Startable, Emptied, taskVars, stopVars
<1>5. ASSUME NEW d \in Drivers, FirstStep(d) PROVE OwnInv'
  BY <1>5, OwnMove DEF FirstStep, apiVars, stopVars
<1>6. ASSUME NEW d \in Drivers, Tick(d) PROVE OwnInv'
  BY <1>6, OwnTick
<1>7. ASSUME NEW d \in Drivers, TickFails(d) PROVE OwnInv'
  BY <1>7, OwnTickFails
<1>8. ASSUME NEW d \in Drivers, TaskCancelled(d) PROVE OwnInv'
  BY <1>8, OwnMove DEF TaskCancelled, apiVars, stopVars
<1>9. ASSUME NEW d \in Drivers, EndTask(d) PROVE OwnInv'
  <2>1. \A e \in Drivers : e # d => verdict'[e] = verdict[e]
    BY <1>9 DEF EndTask, TypeInv, TypeOK
  <2> QED
    BY <1>9, <2>1, OwnMove DEF EndTask, apiVars, stopVars
<1>10. ASSUME NEW d \in Drivers, StopRun(d) PROVE OwnInv'
  BY <1>10, OwnAside DEF StopRun, Cancel, Emptied, TypeInv, TypeOK
<1>11. ASSUME NEW d \in Drivers, StopWake(d) PROVE OwnInv'
  BY <1>11, OwnStopWake
<1>12. CASE Shutdown
  BY <1>12, OwnAside DEF Shutdown, Emptied, taskVars
<1>13. ASSUME NEW d \in Drivers, StopNext(d) PROVE OwnInv'
  BY <1>13, OwnAside DEF StopNext, Cancel, Emptied, TypeInv, TypeOK
<1>14. CASE Cleared
  BY <1>14, OwnAside DEF Cleared, Emptied, taskVars
<1>15. CASE UNCHANGED vars
  BY <1>15, OwnAside DEF vars, OwnInv, Emptied
<1> QED
  BY <1>1, <1>2, <1>3, <1>4, <1>5, <1>6, <1>7, <1>8, <1>9, <1>10, <1>11, <1>12, <1>13, <1>14, <1>15
  DEF Next, Task, StopAll

\* After stop_all() no loop runs that nobody stops, and what was stopped is over.
THEOREM DownEver == Spec => []DownIsQuiet
<1>1. OwnInv /\ TypeInv /\ RegistryInv => DownIsQuiet
  <2> SUFFICES ASSUME OwnInv, TypeInv, RegistryInv, phase = "down" PROVE DownIsQuiet
    BY DEF DownIsQuiet
  <2>1. Active = {}
    BY DEF OwnInv, Emptied, RegistryInv, NoOrphan
  <2>2. ASSUME NEW d \in Drivers, stop[d] = "done"
        PROVE ~IsRunning(d) /\ (starts[of[d]] = 1 => status[of[d]] \in Terminal)
    <3>1. life[d] = "ended" /\ control[d] \in Terminal
      BY <2>2 DEF OwnInv, Wound
    <3> QED
      BY <3>1 DEF IsRunning, OwnInv, Mirrored
  <2> QED
    BY <2>1, <2>2 DEF DownIsQuiet
<1> QED
  BY <1>1, TypeInit, TypeNext, RegistryInit, RegistryNext, OwnInit, OwnNext, PTL DEF Spec

\* A run that is shown as over stays over: the one driver that could write it ticks no
\* more, and the API starts no other.
THEOREM OverEver == Spec => OverIsOver
<1>1. ASSUME OwnInv, TypeInv, Next, NEW r \in Runs, status[r] \in Terminal, starts[r] <= 1
      PROVE  samples'[r] = samples[r] /\ status'[r] = status[r]
  <2>1. \A d \in Drivers : life[d] # "unused" /\ of[d] = r => control[d] \in Terminal
    BY <1>1 DEF OwnInv, Mirrored
  <2>2. ASSUME NEW d \in Drivers, Tick(d) \/ TickFails(d)
        PROVE samples'[r] = samples[r] /\ status'[r] = status[r]
    <3>1. life[d] = "live"
      BY <2>2 DEF Tick, TickFails
    <3>2. of[d] # r
      BY <1>1, <2>1, <3>1 DEF OwnInv, Wound
    <3> QED
      BY <1>1, <2>2, <3>2 DEF Tick, TickFails, TypeInv, TypeOK
  <2>3. ASSUME NEW d \in Drivers, StopWake(d)
        PROVE samples'[r] = samples[r] /\ status'[r] = status[r]
    <3>1. life[d] = "ended" /\ samples' = samples
      BY <2>3 DEF StopWake
    <3>2. of[d] = r => control[d] \in Terminal
      BY <2>1, <3>1
    <3> QED
      BY <1>1, <2>3, <3>1, <3>2 DEF StopWake, TypeInv, TypeOK
  <2>4. ASSUME NEW d \in Drivers, FirstStep(d) \/ TaskCancelled(d) \/ EndTask(d) \/ StopRun(d) \/ StopNext(d)
        PROVE samples'[r] = samples[r] /\ status'[r] = status[r]
    BY <2>4 DEF FirstStep, TaskCancelled, EndTask, StopRun, StopNext
  <2>5. ASSUME NEW q \in Runs, PostStart(q) \/ PostStartRefused(q)
        PROVE samples'[r] = samples[r] /\ status'[r] = status[r]
    BY <2>5 DEF PostStart, PostStartRefused
  <2>6. ASSUME \/ \E h \in Scenarios : PostScenario(h)
               \/ \E q \in Runs, h \in Scenarios, ref \in Runs \cup {None} :
                      \E seed \in SeedsOf[q] : PostRun(q, h, seed, ref)
               \/ Shutdown \/ Cleared
        PROVE samples'[r] = samples[r] /\ status'[r] = status[r]
    BY <2>6 DEF PostScenario, PostRun, Shutdown, Cleared
  <2> QED
    BY <1>1, <2>2, <2>3, <2>4, <2>5, <2>6 DEF Next, Task, StopAll
<1>2. OwnInv /\ TypeInv /\ [Next]_vars =>
        [\A r \in Runs : (status[r] \in Terminal /\ starts[r] <= 1) =>
            (samples'[r] = samples[r] /\ status'[r] = status[r])]_vars
  BY <1>1
<1> QED
  BY <1>2, TypeInit, TypeNext, OwnInit, OwnNext, PTL DEF Spec, OverIsOver

-------------------------------------------------------------------------------
\* Nothing is logged and nothing judged at first.
LEMMA JudgedInit == Init => JudgedInv
<1> SUFFICES ASSUME Init PROVE JudgedInv
  OBVIOUS
<1>1. Created /\ Judged
  BY DEF Init, Created, Judged
<1>2. Logged
  BY DEF Init, Logged
<1> QED
  BY <1>1, <1>2 DEF JudgedInv

\* The reference of a run that exists is a run.
LEMMA ReferenceExists ==
    ASSUME TypeInv, Created, NEW r \in Runs, meta[r] # None, meta[r].replay_of # None
    PROVE  meta[r].replay_of \in Runs /\ meta[meta[r].replay_of] # None
BY DEF TypeInv, TypeOK, Metadata, Created

\* A step that touches no samples, tasks or identities keeps it; nor does it matter
\* that a task which is not judged yet goes on.
LEMMA JudgedMove ==
    ASSUME JudgedInv, TypeInv, UNCHANGED <<meta, samples, of, count, verdict, starts, uneven>>,
           \A d \in Drivers : life'[d] = "unused" => life[d] = "unused",
           \A d \in Drivers : life[d] = "unused" => life'[d] = "unused",
           \A d \in Drivers : life[d] = "ended" => life'[d] = "ended"
    PROVE  JudgedInv'
<1>1. Created'
  BY DEF JudgedInv, Created
<1>2. Logged'
  BY DEF JudgedInv, Logged
<1>3. Judged'
  BY DEF JudgedInv, Judged, Agreed, Reference, Preflight
<1> QED
  BY <1>1, <1>2, <1>3 DEF JudgedInv

\* post_runs keeps it: the new run has no samples, and is nobody's reference.
LEMMA JudgedPostRun ==
    ASSUME JudgedInv, OwnInv, TypeInv,
           NEW r \in Runs, NEW h \in Scenarios, NEW ref \in Runs \cup {None},
           NEW seed \in SeedsOf[r], PostRun(r, h, seed, ref)
    PROVE  JudgedInv'
<1> DEFINE m == [scenario |-> h, seed |-> seed, replay_of |-> ref]
<1>1. /\ meta[r] = None /\ \A q \in Runs : meta'[q] = IF q = r THEN m ELSE meta[q]
      /\ ref # None => meta[ref] # None
  BY DEF PostRun, TypeInv, TypeOK
<1>2. UNCHANGED <<samples, of, life, count, verdict, starts, uneven>>
  BY DEF PostRun, taskVars
<1>3. starts[r] = 0 /\ samples[r] = <<>>
  <2>1. starts[r] \in Nat /\ ~(starts[r] > 0)
    BY <1>1 DEF JudgedInv, Created, TypeInv, TypeOK
  <2> QED
    BY <2>1 DEF OwnInv, Untouched
<1>5. Created'
  <2> SUFFICES ASSUME NEW q \in Runs
               PROVE  /\ starts[q] > 0 => meta'[q] # None
                      /\ meta'[q] # None /\ meta'[q].replay_of # None
                           => meta'[meta'[q].replay_of] # None
    BY <1>2 DEF Created
  <2>1. CASE q = r
    BY <1>1, <1>3, <2>1
  <2>2. CASE q # r
    BY <1>1, <2>2, ReferenceExists DEF JudgedInv, Created
  <2> QED
    BY <2>1, <2>2
<1>6. Logged'
  BY <1>1, <1>2, <1>3 DEF JudgedInv, Logged
<1>7. ASSUME NEW d \in Drivers, verdict[d] # "none"
      PROVE  /\ of[d] \in Runs /\ meta'[of[d]] = meta[of[d]]
             /\ meta[of[d]].replay_of # None =>
                   meta'[meta[of[d]].replay_of] = meta[meta[of[d]].replay_of]
  <2>1. of[d] \in Runs /\ meta[of[d]] # None
    BY <1>7 DEF JudgedInv, Judged, TypeInv, Started
  <2> QED
    BY <1>1, <2>1, ReferenceExists DEF JudgedInv
<1>8. Judged'
  BY <1>2, <1>7 DEF JudgedInv, Judged, Agreed, Reference, Preflight
<1> QED
  BY <1>5, <1>6, <1>8 DEF JudgedInv

\* post_run_start keeps it: the first driver of a run finds no samples.
LEMMA JudgedStart ==
    ASSUME JudgedInv, OwnInv, TypeInv, NEW r \in Runs, PostStart(r)
    PROVE  JudgedInv'
<1>1. PICK d \in Drivers :
        /\ life[d] = "unused"
        /\ of' = [of EXCEPT ![d] = r]
        /\ life' = [life EXCEPT ![d] = "created"]
  BY DEF PostStart
<1>2. UNCHANGED <<meta, samples, count, verdict, uneven>> /\ meta[r] # None
  BY DEF PostStart, Startable, apiVars
<1>3. \A q \in Runs : starts'[q] = (IF q = r THEN starts[q] + 1 ELSE starts[q]) /\ starts[q] \in Nat
  BY DEF PostStart, TypeInv, TypeOK
<1>4. \A e \in Drivers : /\ life'[e] = (IF e = d THEN "created" ELSE life[e])
                         /\ of'[e] = IF e = d THEN r ELSE of[e]
  BY <1>1 DEF TypeInv, TypeOK
<1>5. \A e \in Drivers : life[e] # "unused" => of[e] \in Runs /\ meta[of[e]] # None
  BY DEF TypeInv, Started
<1>6. Created'
  BY <1>2, <1>3 DEF JudgedInv, Created
<1>7. Logged'
  <2>1. \A q \in Runs : starts'[q] <= 1 => starts[q] <= 1
    BY <1>3
  <2>2. starts'[r] <= 1 => count[d] = 0 /\ Len(samples[r]) = 0
    BY <1>1, <1>3 DEF OwnInv, Unstarted, Untouched
  <2> QED
    BY <1>2, <1>4, <1>5, <2>1, <2>2 DEF JudgedInv, Logged
<1>8. Judged'
  <2> SUFFICES ASSUME NEW e \in Drivers, verdict[e] # "none"
               PROVE  /\ life'[e] = "ended"
                      /\ verdict[e] = "diverged" => e \in uneven
                      /\ verdict[e] = "clean" => Agreed(e)'
    BY <1>2 DEF Judged
  <2>1. e # d
    BY <1>1 DEF OwnInv, Unstarted
  <2>2. life[e] = "ended"
    BY DEF JudgedInv, Judged
  <2>3. of[e] \in Runs /\ (meta[of[e]].replay_of # None => meta[of[e]].replay_of \in Runs)
    BY <1>5, <2>2, ReferenceExists DEF JudgedInv
  <2>4. \A q \in Runs : starts'[q] <= 1 => starts[q] <= 1
    BY <1>3
  <2>5. of'[e] = of[e] /\ life'[e] = life[e]
    BY <1>4, <2>1
  <2>6. verdict[e] = "clean" => Agreed(e)'
    BY <1>2, <2>3, <2>4, <2>5 DEF JudgedInv, Judged, Agreed, Reference, Preflight
  <2> QED
    BY <2>2, <2>5, <2>6 DEF JudgedInv, Judged
<1> QED
  BY <1>6, <1>7, <1>8 DEF JudgedInv

\* A run that agrees with its reference goes on agreeing when only the reference grows.
LEMMA AgreedStays ==
    ASSUME NEW d \in Drivers, Agreed(d), UNCHANGED <<meta, of, starts>>,
           starts[of[d]] <= 1 => samples'[of[d]] = samples[of[d]],
           Len(samples[of[d]]) \in Nat, Len(samples[Reference(d)]) \in Nat,
           Len(samples'[Reference(d)]) \in Nat,
           Len(samples[Reference(d)]) <= Len(samples'[Reference(d)])
    PROVE  Agreed(d)'
<1>1. Reference(d)' = Reference(d)
  BY DEF Reference
<1>2. ASSUME starts[of[d]] <= 1, starts[Reference(d)] <= 1
      PROVE  Len(samples'[of[d]]) <= Len(samples'[Reference(d)])
  BY <1>2 DEF Agreed
<1> QED
  BY <1>1, <1>2 DEF Agreed, Preflight

\* A tick that persists its point keeps it: the point comes to its place.
LEMMA JudgedGrow ==
    ASSUME JudgedInv, OwnInv, TypeInv, NEW d \in Drivers, NEW to,
           life[d] = "live", life' = [life EXCEPT ![d] = to], to \in {"live", "closing"},
           samples' = [samples EXCEPT ![of[d]] = Append(@, Point(of[d], count[d]))],
           count' = [count EXCEPT ![d] = @ + 1],
           UNCHANGED <<meta, of, verdict, starts, uneven>>
    PROVE  JudgedInv'
<1> DEFINE r == of[d]
<1>1. r \in Runs /\ meta[r] # None
  BY DEF TypeInv, Started
<1>2. \A q \in Runs : samples[q] \in Seq(Sample)
  BY DEF TypeInv, TypeOK
<1>3. /\ samples'[r] = Append(samples[r], Point(r, count[d]))
      /\ \A q \in Runs : q # r => samples'[q] = samples[q]
  BY <1>1 DEF TypeInv, TypeOK
<1>4. /\ Len(samples'[r]) = Len(samples[r]) + 1
      /\ \A i \in DOMAIN samples'[r] :
            samples'[r][i] = IF i = Len(samples[r]) + 1 THEN Point(r, count[d]) ELSE samples[r][i]
      /\ \A i \in DOMAIN samples'[r] : i \in DOMAIN samples[r] \/ i = Len(samples[r]) + 1
  BY <1>1, <1>2, <1>3
<1>5. /\ \A e \in Drivers : life'[e] = IF e = d THEN to ELSE life[e]
      /\ \A e \in Drivers : e # d => count'[e] = count[e]
      /\ count'[d] = count[d] + 1
  BY DEF TypeInv, TypeOK
<1>6. \A e \in Drivers : e # d /\ life[e] # "unused" /\ starts[of[e]] <= 1 => of[e] # r
  BY DEF OwnInv, Sole
<1>7. Created'
  BY DEF JudgedInv, Created
<1>8. starts[r] <= 1 => count[d] = Len(samples[r])
  BY DEF JudgedInv, Logged
<1>9. ASSUME NEW q \in Runs, meta[q] # None, starts[q] <= 1, NEW i \in DOMAIN samples'[q]
      PROVE  samples'[q][i] = <<meta[q].scenario, meta[q].seed, i>>
  <2>1. CASE q # r
    BY <1>3, <1>9, <2>1 DEF JudgedInv, Logged
  <2>2. CASE q = r
    <3>1. CASE i = Len(samples[r]) + 1
      BY <1>4, <1>8, <1>9, <2>2, <3>1 DEF Point
    <3>2. CASE i # Len(samples[r]) + 1
      BY <1>4, <1>9, <2>2, <3>2 DEF JudgedInv, Logged
    <3> QED
      BY <3>1, <3>2
  <2> QED
    BY <2>1, <2>2
<1>10. ASSUME NEW e \in Drivers, life'[e] # "unused", starts[of[e]] <= 1
       PROVE  count'[e] = Len(samples'[of[e]])
  <2>1. life[e] # "unused" /\ of[e] \in Runs
    BY <1>5, <1>10 DEF TypeInv, Started
  <2>2. CASE e = d
    BY <1>4, <1>5, <1>8, <1>10, <2>2
  <2>3. CASE e # d
    BY <1>3, <1>5, <1>6, <1>10, <2>1, <2>3 DEF JudgedInv, Logged
  <2> QED
    BY <2>2, <2>3
<1>11. Logged'
  BY <1>9, <1>10 DEF Logged
<1>12. ASSUME NEW e \in Drivers, verdict[e] # "none"
       PROVE  life'[e] = "ended" /\ (verdict[e] = "clean" => Agreed(e)')
  <2>1. life[e] = "ended" /\ e # d
    BY <1>12 DEF JudgedInv, Judged
  <2>2. of[e] \in Runs /\ meta[of[e]] # None
    BY <2>1 DEF TypeInv, Started
  <2>3. ASSUME NEW q \in Runs
        PROVE  /\ Len(samples[q]) \in Nat /\ Len(samples'[q]) \in Nat
               /\ Len(samples[q]) <= Len(samples'[q])
    BY <1>2, <1>3, <1>4
  <2>4. starts[of[e]] <= 1 => samples'[of[e]] = samples[of[e]]
    BY <1>3, <1>6, <2>1, <2>2
  <2>5. meta[of[e]].replay_of # None => meta[of[e]].replay_of \in Runs
    BY <2>2, ReferenceExists DEF JudgedInv
  <2>6. life'[e] = "ended"
    BY <1>5, <2>1
  <2>7. verdict[e] = "clean" => Agreed(e)
    BY DEF JudgedInv, Judged
  <2> HIDE DEF r
  <2>8. ASSUME verdict[e] = "clean"
        PROVE  Agreed(e)'
    <3>1. Reference(e) # None /\ Reference(e) \in Runs /\ Reference(e)' = Reference(e)
      BY <2>5, <2>7, <2>8 DEF Agreed, Reference
    <3>2. /\ Len(samples[of[e]]) \in Nat /\ Len(samples[Reference(e)]) \in Nat
          /\ Len(samples'[Reference(e)]) \in Nat
          /\ Len(samples[Reference(e)]) <= Len(samples'[Reference(e)])
      BY <2>2, <2>3, <3>1
    <3> QED
      BY <2>4, <2>7, <2>8, <3>2, AgreedStays
  <2> QED
    BY <2>6, <2>8
<1>13. Judged'
  BY <1>12 DEF JudgedInv, Judged
<1> QED
  BY <1>7, <1>11, <1>13 DEF JudgedInv

\* Two runs of one identity that were started once and have the same ticks do not differ.
LEMMA EvenRunsAgree ==
    ASSUME JudgedInv, TypeInv, NEW r \in Runs, NEW ref \in Runs,
           meta[r] # None, meta[ref] # None, Preflight(r, ref),
           starts[r] <= 1, starts[ref] <= 1, Len(samples[r]) = Len(samples[ref])
    PROVE  DiffReplay(samples[ref], samples[r]) = {}
<1>1. /\ samples[r] \in Seq(Sample) /\ samples[ref] \in Seq(Sample)
      /\ DOMAIN samples[r] = DOMAIN samples[ref]
  BY DEF TypeInv, TypeOK
<1>2. \A i \in DOMAIN samples[r] : samples[ref][i] = samples[r][i]
  BY <1>1 DEF JudgedInv, Logged, Preflight
<1> QED
  BY <1>1, <1>2 DEF DiffReplay

\* finalize() keeps it: a divergence has a reason, a clean diff is one.
LEMMA JudgedEnd ==
    ASSUME JudgedInv, TypeInv, NEW d \in Drivers, EndTask(d)
    PROVE  JudgedInv'
<1>1. life[d] = "closing" /\ UNCHANGED <<meta, samples, of, count, starts>>
  BY DEF EndTask, apiVars
<1>2. \A e \in Drivers : life'[e] = IF e = d THEN "ended" ELSE life[e]
  BY DEF EndTask, TypeInv, TypeOK
<1>3. Created' /\ Logged'
  BY <1>1, <1>2 DEF JudgedInv, Created, Logged
<1>4. \A e \in Drivers : Agreed(e)' <=> Agreed(e)
  BY <1>1 DEF Agreed, Reference, Preflight
<1>5. uneven \subseteq uneven'
  BY DEF EndTask
<1>6. CASE UNCHANGED <<verdict, uneven>>
  BY <1>2, <1>3, <1>4, <1>6 DEF JudgedInv, Judged
<1>7. CASE verdict' = [verdict EXCEPT ![d] = Outcome(d)]
           /\ uneven' = IF Uneven(d) THEN uneven \cup {d} ELSE uneven
  <2> DEFINE r == of[d]
             ref == Reference(d)
  <2>1. r \in Runs /\ meta[r] # None
    BY <1>1 DEF TypeInv, Started
  <2>2. ref # None => ref \in Runs /\ meta[ref] # None
    BY <2>1, ReferenceExists DEF Reference, JudgedInv
  <2>3. ASSUME Outcome(d) \in {"clean", "diverged"}
        PROVE  /\ ref # None /\ Preflight(r, ref)
               /\ Outcome(d) = ReplayDiffStatus(DiffReplay(samples[ref], samples[r]))
    BY <2>3 DEF Outcome, Reference
  <2>4. Outcome(d) = "clean" => Agreed(d)
    <3> SUFFICES ASSUME Outcome(d) = "clean", starts[r] <= 1, starts[ref] <= 1
                 PROVE  Len(samples[r]) <= Len(samples[ref])
      BY <2>3 DEF Agreed
    <3>1. DiffReplay(samples[ref], samples[r]) = {}
      BY <2>3 DEF ReplayDiffStatus
    <3>2. DOMAIN samples[r] = DOMAIN samples[ref]
      BY <3>1 DEF DiffReplay
    <3>3. samples[r] \in Seq(Sample) /\ samples[ref] \in Seq(Sample)
      BY <2>1, <2>2, <2>3 DEF TypeInv, TypeOK
    <3>4. Len(samples[r]) = Len(samples[ref]) /\ Len(samples[r]) \in Nat
      BY <3>2, <3>3
    <3> QED
      BY <3>4
  <2>5. Outcome(d) = "diverged" => Uneven(d)
    <3> SUFFICES ASSUME Outcome(d) = "diverged", ~Uneven(d) PROVE FALSE
      OBVIOUS
    <3>1. /\ ref # None /\ ~(starts[r] > 1) /\ ~(starts[ref] > 1)
          /\ Len(samples[r]) = Len(samples[ref])
      BY <2>3 DEF Uneven, Reference
    <3>2. starts[r] <= 1 /\ starts[ref] <= 1
      BY <2>1, <2>2, <3>1 DEF TypeInv, TypeOK
    <3>3. DiffReplay(samples[ref], samples[r]) = {}
      BY <2>1, <2>2, <2>3, <3>1, <3>2, EvenRunsAgree
    <3> QED
      BY <2>3, <3>3 DEF ReplayDiffStatus
  <2>6. \A e \in Drivers : verdict'[e] = IF e = d THEN Outcome(d) ELSE verdict[e]
    BY <1>7 DEF TypeInv, TypeOK
  <2>7. Uneven(d) => d \in uneven'
    BY <1>7
  <2>8. Judged'
    BY <1>2, <1>4, <1>5, <2>4, <2>5, <2>6, <2>7 DEF JudgedInv, Judged
  <2> QED
    BY <1>3, <2>8 DEF JudgedInv
<1> QED
  BY <1>6, <1>7 DEF EndTask

\* Every step keeps it.
LEMMA JudgedNext == JudgedInv /\ OwnInv /\ TypeInv /\ [Next]_vars => JudgedInv'
<1> SUFFICES ASSUME JudgedInv, OwnInv, TypeInv, [Next]_vars PROVE JudgedInv'
  OBVIOUS
<1>1. ASSUME NEW r \in Runs, NEW h \in Scenarios, NEW ref \in Runs \cup {None},
             NEW seed \in SeedsOf[r], PostRun(r, h, seed, ref)
      PROVE JudgedInv'
  BY <1>1, JudgedPostRun
<1>2. ASSUME NEW r \in Runs, PostStart(r) PROVE JudgedInv'
  BY <1>2, JudgedStart
<1>3. ASSUME NEW d \in Drivers, FirstStep(d) \/ TaskCancelled(d) PROVE JudgedInv'
  <2>1. \A e \in Drivers : e # d => life'[e] = life[e]
    BY <1>3 DEF FirstStep, TaskCancelled, TypeInv, TypeOK
  <2>2. life[d] \notin {"unused", "ended"} /\ life'[d] # "unused"
    BY <1>3 DEF FirstStep, TaskCancelled, TypeInv, TypeOK
  <2> QED
    BY <1>3, <2>1, <2>2, JudgedMove DEF FirstStep, TaskCancelled, apiVars
<1>4. ASSUME NEW d \in Drivers, Tick(d) PROVE JudgedInv'
  <2>1. life' = [life EXCEPT ![d] = "live"]
    BY <1>4 DEF Tick, TypeInv, TypeOK
  <2> QED
    BY <1>4, <2>1, JudgedGrow DEF Tick, apiVars
<1>5. ASSUME NEW d \in Drivers, TickFails(d) PROVE JudgedInv'
  <2>1. life[d] = "live" /\ life' = [life EXCEPT ![d] = "closing"]
        /\ UNCHANGED <<meta, of, verdict, starts, uneven>>
    BY <1>5 DEF TickFails, apiVars
  <2>2. CASE UNCHANGED <<samples, count>>
    <3>1. \A e \in Drivers : life'[e] = IF e = d THEN "closing" ELSE life[e]
      BY <2>1 DEF TypeInv, TypeOK
    <3> QED
      BY <2>1, <2>2, <3>1, JudgedMove
  <2>3. CASE /\ samples' = [samples EXCEPT ![of[d]] = Append(@, Point(of[d], count[d]))]
             /\ count' = [count EXCEPT ![d] = @ + 1]
    BY <2>1, <2>3, JudgedGrow
  <2> QED
    BY <1>5, <2>2, <2>3 DEF TickFails
<1>6. ASSUME NEW d \in Drivers, EndTask(d) PROVE JudgedInv'
  BY <1>6, JudgedEnd
<1>7. ASSUME \/ \E h \in Scenarios : PostScenario(h)
             \/ \E r \in Runs : PostStartRefused(r)
             \/ \E d \in Drivers : StopRun(d) \/ StopWake(d) \/ StopNext(d)
             \/ Shutdown \/ Cleared \/ UNCHANGED vars
      PROVE JudgedInv'
  <2>1. UNCHANGED <<meta, samples, of, life, count, verdict, starts, uneven>>
    BY <1>7 DEF PostScenario, PostStartRefused, StopRun, StopWake, StopNext, Shutdown, Cleared, vars,
                apiVars, taskVars
  <2> QED
    BY <2>1, JudgedMove
<1> QED
  BY <1>1, <1>2, <1>3, <1>4, <1>5, <1>6, <1>7 DEF Next, Task, StopAll

\* A divergence has a reason, and a clean replay is, tick by tick, its reference.
THEOREM VerdictEver == Spec => []VerdictIsEarned
<1>1. JudgedInv /\ TypeInv => VerdictIsEarned
  <2> SUFFICES ASSUME JudgedInv, TypeInv, NEW d \in Drivers
               PROVE  /\ verdict[d] = "diverged" => d \in uneven
                      /\ (verdict[d] = "clean" /\ starts[of[d]] <= 1 /\ starts[Reference(d)] <= 1) =>
                            /\ Len(samples[of[d]]) <= Len(samples[Reference(d)])
                            /\ \A i \in DOMAIN samples[of[d]] :
                                  samples[of[d]][i] = samples[Reference(d)][i]
    BY DEF VerdictIsEarned, Reference
  <2>1. verdict[d] = "diverged" => d \in uneven
    BY DEF JudgedInv, Judged
  <2>2. ASSUME verdict[d] = "clean", starts[of[d]] <= 1, starts[Reference(d)] <= 1
        PROVE  /\ Len(samples[of[d]]) <= Len(samples[Reference(d)])
               /\ \A i \in DOMAIN samples[of[d]] : samples[of[d]][i] = samples[Reference(d)][i]
    <3>1. Agreed(d) /\ life[d] = "ended"
      BY <2>2 DEF JudgedInv, Judged
    <3>2. of[d] \in Runs /\ meta[of[d]] # None
      BY <3>1 DEF TypeInv, Started
    <3>3. Reference(d) \in Runs /\ meta[Reference(d)] # None
      BY <3>1, <3>2, ReferenceExists DEF Agreed, Reference, JudgedInv
    <3>4. Len(samples[of[d]]) <= Len(samples[Reference(d)])
      BY <2>2, <3>1 DEF Agreed
    <3>5. samples[of[d]] \in Seq(Sample) /\ samples[Reference(d)] \in Seq(Sample)
      BY <3>2, <3>3 DEF TypeInv, TypeOK
    <3>6. \A i \in DOMAIN samples[of[d]] : i \in DOMAIN samples[Reference(d)]
      BY <3>4, <3>5
    <3>7. \A i \in DOMAIN samples[of[d]] : samples[of[d]][i] = samples[Reference(d)][i]
      BY <2>2, <3>1, <3>2, <3>3, <3>6 DEF JudgedInv, Logged, Agreed, Preflight
    <3> QED
      BY <3>4, <3>7
  <2> QED
    BY <2>1, <2>2
<1> QED
  BY <1>1, TypeInit, TypeNext, OwnInit, OwnNext, JudgedInit, JudgedNext, PTL DEF Spec
-------------------------------------------------------------------------------
(***************************************************************************)
(* The contract of the tasks, and the registry as a pool of slots          *)
(***************************************************************************)

\* Who has been started, and what a cancellation can still hit: stop() cancels every
\* task it waits for, so a task that may go on ticking is nobody's to stop.
TaskInv ==
    /\ \A d \in Drivers : control[d] # "paused"
    /\ \A d \in Drivers : ~IsRunning(d) => ~cancelled[d]
    /\ \A d \in registry \cup toStop : life[d] # "unused"
    /\ \A d \in Drivers : life[d] = "unused" => stop[d] = "none"
    /\ \A d \in Drivers : life[d] \in {"created", "live"} /\ ~cancelled[d] => stop[d] = "none"

\* Every step keeps it.
LEMMA TaskStep ==
    ASSUME TypeInv, TaskInv, [Next]_vars
    PROVE  TaskInv'
<1> USE DEF TypeInv, TypeOK, TaskInv, IsRunning, apiVars, taskVars, stopVars
<1>1. CASE \E h \in Scenarios : PostScenario(h)
  BY <1>1 DEF PostScenario
<1>2. CASE \E r \in Runs, h \in Scenarios, ref \in Runs \cup {None} :
               \E seed \in SeedsOf[r] : PostRun(r, h, seed, ref)
  BY <1>2 DEF PostRun
<1>3. ASSUME NEW r \in Runs, PostStart(r) PROVE TaskInv'
  BY <1>3 DEF PostStart, Evicted
<1>4. ASSUME NEW r \in Runs, PostStartRefused(r) PROVE TaskInv'
  BY <1>4 DEF PostStartRefused, Evicted
<1>5. ASSUME NEW d \in Drivers, FirstStep(d) PROVE TaskInv'
  BY <1>5 DEF FirstStep
<1>6. ASSUME NEW d \in Drivers, Tick(d) PROVE TaskInv'
  BY <1>6 DEF Tick
<1>7. ASSUME NEW d \in Drivers, TickFails(d) PROVE TaskInv'
  BY <1>7 DEF TickFails
<1>8. ASSUME NEW d \in Drivers, TaskCancelled(d) PROVE TaskInv'
  BY <1>8 DEF TaskCancelled
<1>9. ASSUME NEW d \in Drivers, EndTask(d) PROVE TaskInv'
  BY <1>9 DEF EndTask
<1>10. ASSUME NEW d \in Drivers, StopRun(d) PROVE TaskInv'
  BY <1>10 DEF StopRun, Cancel
<1>11. ASSUME NEW d \in Drivers, StopWake(d) PROVE TaskInv'
  BY <1>11 DEF StopWake, StopOver
<1>12. CASE Shutdown
  BY <1>12 DEF Shutdown
<1>13. ASSUME NEW d \in Drivers, StopNext(d) PROVE TaskInv'
  BY <1>13 DEF StopNext, Cancel
<1>14. CASE Cleared
  BY <1>14 DEF Cleared
<1>15. CASE UNCHANGED vars
  BY <1>15 DEF vars
<1> QED
  BY <1>1, <1>2, <1>3, <1>4, <1>5, <1>6, <1>7, <1>8, <1>9, <1>10, <1>11, <1>12, <1>13, <1>14,
     <1>15 DEF Next, Task, StopAll

\* It holds in every state.
LEMMA TaskEver == Spec => [](TypeInv /\ TaskInv /\ OwnInv)
<1>1. Init => TaskInv
  BY DEF Init, TaskInv
<1> QED
  BY <1>1, TypeInit, TypeNext, OwnInit, OwnNext, TaskStep, PTL DEF Spec

\* A task nobody has touched.
Still(d) == UNCHANGED <<life[d], cancelled[d], control[d], failed[d], verdict[d]>>

\* Nothing happens to its contract either.
LEMMA StillStutters ==
    ASSUME NEW d \in Drivers, Still(d)
    PROVE  UNCHANGED TaskOf(d)!vars
BY DEF Still, TaskOf!vars, Judgement

\* Each step of a task is a step of its contract, or none.
LEMMA TaskKeepsContract ==
    ASSUME TypeInv, TaskInv, OwnInv, NEW d \in Drivers, Task(d)
    PROVE  TaskOf(d)!Next \/ UNCHANGED TaskOf(d)!vars
<1> USE DEF TypeInv, TypeOK, TaskOf!Next
<1>1. CASE FirstStep(d)
  <2>1. TaskOf(d)!Begin
    BY <1>1 DEF FirstStep, TaskOf!Begin, Judgement
  <2> QED BY <2>1
<1>2. CASE Tick(d)
  <2>1. control[d] \in {"pending", "running"}
    BY <1>2 DEF Tick, TaskInv, OwnInv, Wound, RunStatus, Terminal
  <2>2. TaskOf(d)!Tick
    BY <1>2, <2>1 DEF Tick, TaskOf!Tick, Judgement
  <2> QED BY <2>2
<1>3. CASE TickFails(d)
  <2>1. control[d] \in {"pending", "running"}
    BY <1>3 DEF TickFails, TaskInv, OwnInv, Wound, RunStatus, Terminal
  <2>2. control'[d] \in {"running", "stopped"}
    BY <1>3 DEF TickFails
  <2>3. TaskOf(d)!Fail
    BY <1>3, <2>1, <2>2 DEF TickFails, TaskOf!Fail, TaskOf!Terminal, Judgement
  <2> QED BY <2>3
<1>4. CASE TaskCancelled(d)
  <2>1. TaskOf(d)!Leave
    BY <1>4 DEF TaskCancelled, TaskOf!Leave, Judgement
  <2> QED BY <2>1
<1>5. CASE EndTask(d)
  <2>1. /\ life[d] = "closing" /\ life'[d] = "ended" /\ cancelled'[d] = FALSE
        /\ UNCHANGED <<control, failed>>
    BY <1>5 DEF EndTask
  <2>2. CASE verdict'[d] = Outcome(d)
    <3>1. Judgement(d)' \in {"noop", IF failed[d] THEN "partial" ELSE "diffed"}
      BY <2>2 DEF Judgement, Outcome, ReplayDiffStatus
    <3>2. TaskOf(d)!End
      BY <2>1, <3>1 DEF TaskOf!End
    <3> QED BY <3>2
  <2>3. CASE cancelled[d] /\ verdict' = verdict
    <3>1. TaskOf(d)!End
      BY <2>1, <2>3 DEF TaskOf!End, Judgement
    <3> QED BY <3>1
  <2> QED BY <1>5, <2>2, <2>3 DEF EndTask
<1> QED
  BY <1>1, <1>2, <1>3, <1>4, <1>5 DEF Task

\* A step of anybody keeps the contract of every task.
LEMMA StepKeepsContracts ==
    ASSUME TypeInv, TaskInv, OwnInv, [Next]_vars, NEW d \in Drivers
    PROVE  TaskOf(d)!Next \/ UNCHANGED TaskOf(d)!vars
<1> USE DEF TypeInv, TypeOK, apiVars, taskVars, stopVars
<1>1. CASE \/ \E h \in Scenarios : PostScenario(h)
           \/ \E r \in Runs, h \in Scenarios, ref \in Runs \cup {None} :
                  \E seed \in SeedsOf[r] : PostRun(r, h, seed, ref)
           \/ \E r \in Runs : PostStartRefused(r)
           \/ Shutdown \/ Cleared \/ UNCHANGED vars
  <2>1. Still(d)
    BY <1>1 DEF PostScenario, PostRun, PostStartRefused, Shutdown, Cleared, vars, Still
  <2> QED
    BY <2>1, StillStutters
<1>2. ASSUME NEW r \in Runs, PostStart(r) PROVE TaskOf(d)!Next \/ UNCHANGED TaskOf(d)!vars
  <2>1. PICK e \in Drivers : life[e] = "unused" /\ life' = [life EXCEPT ![e] = "created"]
    BY <1>2 DEF PostStart
  <2>2. UNCHANGED <<cancelled, control, failed, verdict>>
    BY <1>2 DEF PostStart
  <2>3. CASE e = d
    <3>1. TaskOf(d)!Create
      BY <2>1, <2>2, <2>3 DEF TaskOf!Create, Judgement
    <3> QED BY <3>1 DEF TaskOf!Next
  <2>4. CASE e # d
    <3>1. Still(d)
      BY <2>1, <2>2, <2>4 DEF Still
    <3> QED BY <3>1, StillStutters
  <2> QED BY <2>3, <2>4
<1>3. ASSUME NEW e \in Drivers, Task(e) PROVE TaskOf(d)!Next \/ UNCHANGED TaskOf(d)!vars
  <2>1. CASE e = d
    BY <1>3, <2>1, TaskKeepsContract
  <2>2. CASE e # d
    <3>1. Still(d)
      BY <1>3, <2>2 DEF Task, FirstStep, Tick, TickFails, TaskCancelled, EndTask, Still
    <3> QED BY <3>1, StillStutters
  <2> QED BY <2>1, <2>2
<1>4. ASSUME NEW e \in Drivers, StopRun(e) \/ StopNext(e)
      PROVE  TaskOf(d)!Next \/ UNCHANGED TaskOf(d)!vars
  <2>1. /\ cancelled' = [cancelled EXCEPT ![e] = IsRunning(e)]
        /\ UNCHANGED <<life, control, failed, verdict>>
    BY <1>4 DEF StopRun, StopNext, Cancel
  <2>2. CASE e = d /\ IsRunning(d)
    <3>1. TaskOf(d)!Cancel
      BY <2>1, <2>2 DEF TaskOf!Cancel, IsRunning, Judgement
    <3> QED BY <3>1 DEF TaskOf!Next
  <2>3. CASE e # d \/ ~IsRunning(d)
    <3>1. Still(d)
      BY <2>1, <2>3 DEF Still, TaskInv, IsRunning
    <3> QED BY <3>1, StillStutters
  <2> QED BY <2>2, <2>3
<1>5. ASSUME NEW e \in Drivers, StopWake(e) PROVE TaskOf(d)!Next \/ UNCHANGED TaskOf(d)!vars
  <2>1. UNCHANGED <<life, cancelled, failed, verdict>>
    BY <1>5 DEF StopWake
  <2>2. CASE e = d /\ control[d] \notin Terminal /\ control'[d] = "stopped"
    <3>1. control[d] \in TaskOf(d)!AllowedFrom["stop"]
      BY <2>2 DEF TaskOf!AllowedFrom, RunStatus, Terminal
    <3>2. TaskOf(d)!Request("stop")
      BY <2>1, <2>2, <3>1 DEF TaskOf!Request, TaskOf!Target, Judgement
    <3> QED BY <3>2 DEF TaskOf!Next, TaskOf!ControlAction
  <2>3. CASE control'[d] = control[d]
    <3>1. Still(d)
      BY <2>1, <2>3 DEF Still
    <3> QED BY <3>1, StillStutters
  <2> QED BY <1>5, <2>2, <2>3 DEF StopWake
<1> QED
  BY <1>1, <1>2, <1>3, <1>4, <1>5 DEF Next, StopAll

\* Seen through the service, every task is the one whose contract RunDriver implements.
THEOREM ContractsKept == Spec => TasksKeepContract
<1>1. ASSUME Init PROVE \A d \in Drivers : TaskOf(d)!Init
  BY <1>1 DEF Init, TaskOf!Init, Judgement
<1>2. TypeInv /\ TaskInv /\ OwnInv /\ [Next]_vars =>
        [\A d \in Drivers : TaskOf(d)!Next \/ UNCHANGED TaskOf(d)!vars]_vars
  BY StepKeepsContracts
<1> QED
  BY <1>1, <1>2, TaskEver, PTL DEF Spec, TasksKeepContract

-------------------------------------------------------------------------------
\* An active loop is one the eviction leaves in the registry.
LEMMA ActiveEvicted == RegistryInv => Active \subseteq Evicted
BY DEF RegistryInv, NoOrphan, Active, Evicted

\* There are no more slots taken than loops in the registry after the eviction.
LEMMA TakenFew ==
    ASSUME TypeInv, RegistryInv
    PROVE  /\ IsFiniteSet(Taken) /\ Cardinality(Taken) \in Nat
           /\ Cardinality(Evicted) \in Nat /\ Cardinality(Taken) <= Cardinality(Evicted)
<1> DEFINE f == [d \in Active |-> <<d, of[d]>>]
<1>1. IsFiniteSet(Evicted) /\ Cardinality(Evicted) \in Nat
  <2>1. Evicted \subseteq registry
    BY DEF Evicted
  <2> QED BY <2>1, FewerWithinCap DEF TypeInv, RegistryInv
<1>2. IsFiniteSet(Active) /\ Cardinality(Active) <= Cardinality(Evicted)
  BY <1>1, ActiveEvicted, FS_Subset
<1>3. f \in Surjection(Active, Taken)
  BY DEF Surjection, Taken
<1> HIDE DEF f
<1>4. IsFiniteSet(Taken) /\ Cardinality(Taken) <= Cardinality(Active)
  BY <1>2, <1>3, FS_Surjection
<1> QED
  BY <1>1, <1>2, <1>4, FS_CardinalityType

\* The pool counts its slots as the service counts its drivers.
LEMMA SlotsAreCounted == Slots!Cardinality(Taken) = Cardinality(Taken)
BY DEF Slots!Cardinality, Cardinality

\* A step of the pool, or none.
PoolStep == Slots!Next \/ UNCHANGED Slots!vars

\* A step that only takes a loop out of those that are active gives its slot up.
LEMMA PoolRelease ==
    ASSUME NEW d \in Drivers, Active' \in {Active, Active \ {d}},
           UNCHANGED <<maxActive, of, samples, phase>>
    PROVE  PoolStep
<1> USE DEF PoolStep, Slots!vars, Slots!Next
<1>1. Lengths' = Lengths
  BY DEF Lengths
<1>2. CASE Active' = Active
  <2>1. Taken' = Taken
    BY <1>2 DEF Taken
  <2> QED BY <1>1, <2>1
<1>3. CASE Active' = Active \ {d} /\ d \in Active
  <2>1. Taken' = Taken \ {<<d, of[d]>>} /\ <<d, of[d]>> \in Taken
    BY <1>3 DEF Taken
  <2>2. Slots!Release(<<d, of[d]>>)
    BY <1>1, <2>1 DEF Slots!Release
  <2> QED BY <2>1, <2>2
<1> QED
  BY <1>2, <1>3

\* A step that leaves the loops and the sinks alone is none, or begins the shutdown.
LEMMA PoolAside ==
    ASSUME Active' = Active, UNCHANGED <<maxActive, of, samples>>,
           phase' = "serving" => phase = "serving"
    PROVE  PoolStep
<1>1. Lengths' = Lengths /\ Taken' = Taken
  BY DEF Lengths, Taken
<1>2. CASE (phase' = "serving") = (phase = "serving")
  BY <1>1, <1>2 DEF PoolStep, Slots!vars
<1>3. CASE phase = "serving" /\ phase' # "serving"
  <2>1. Slots!Close
    BY <1>1, <1>3 DEF Slots!Close
  <2> QED BY <2>1 DEF PoolStep, Slots!Next
<1> QED
  BY <1>2, <1>3

\* A tick that persists its point is recorded by the holder of a slot.
LEMMA PoolRecord ==
    ASSUME TypeInv, TaskInv, NEW d \in Drivers, life[d] = "live", ~cancelled[d],
           Active' = Active, UNCHANGED <<maxActive, of, phase>>,
           samples' = [samples EXCEPT ![of[d]] = Append(@, Point(of[d], count[d]))]
    PROVE  PoolStep
<1>1. d \in Active /\ of[d] \in Runs
  BY DEF Active, IsRunning, TaskInv, TypeInv, Started
<1>2. <<d, of[d]>> \in Taken /\ Taken' = Taken
  BY <1>1 DEF Taken
<1>3. Lengths' = [Lengths EXCEPT ![of[d]] = @ + 1]
  <2>1. \A r \in Runs : samples[r] \in Seq(Sample)
    BY DEF TypeInv, TypeOK
  <2>2. \A r \in Runs : samples'[r] = IF r = of[d] THEN Append(samples[r], Point(r, count[d]))
                                                   ELSE samples[r]
    BY DEF TypeInv, TypeOK
  <2>3. \A r \in Runs : Len(samples'[r]) = IF r = of[d] THEN Len(samples[r]) + 1 ELSE Len(samples[r])
    <3> SUFFICES ASSUME NEW r \in Runs
                 PROVE  Len(samples'[r]) = IF r = of[d] THEN Len(samples[r]) + 1 ELSE Len(samples[r])
      OBVIOUS
    <3> DEFINE p == Point(r, count[d])
    <3>1. samples[r] \in Seq(Sample) /\ samples'[r] = IF r = of[d] THEN Append(samples[r], p) ELSE samples[r]
      BY <2>1, <2>2
    <3> HIDE DEF p
    <3>2. Len(Append(samples[r], p)) = Len(samples[r]) + 1
      BY <3>1
    <3>3. CASE r = of[d]
      <4>1. samples'[r] = Append(samples[r], p)
        BY <3>1, <3>3
      <4>2. Len(samples'[r]) = Len(samples[r]) + 1
        BY <3>2, <4>1, Zenon
      <4> QED BY <3>3, <4>2
    <3>4. CASE r # of[d]
      BY <3>1, <3>4
    <3> QED BY <3>3, <3>4
  <2> QED BY <1>1, <2>3 DEF Lengths
<1>4. Slots!Record(<<d, of[d]>>)
  BY <1>2, <1>3 DEF Slots!Record
<1> QED
  BY <1>2, <1>4 DEF PoolStep, Slots!Next

\* A run that is started takes a free slot.
LEMMA PoolTake ==
    ASSUME TypeInv, TaskInv, RegistryInv, NEW r \in Runs, PostStart(r)
    PROVE  PoolStep
<1>1. PICK d \in Drivers :
        /\ life[d] = "unused"
        /\ of' = [of EXCEPT ![d] = r]
        /\ life' = [life EXCEPT ![d] = "created"]
  BY DEF PostStart
<1>2. UNCHANGED <<maxActive, samples, stop, phase>> /\ phase = "serving"
  BY DEF PostStart, Startable, apiVars, stopVars
<1>3. Lengths' = Lengths
  BY <1>2 DEF Lengths
<1>4. d \notin Active /\ Active' = Active \cup {d}
  BY <1>1, <1>2 DEF Active, IsRunning, TaskInv, TypeInv, TypeOK
<1>5. Taken' = Taken \cup {<<d, r>>}
  <2>1. of'[d] = r /\ \A e \in Active : of'[e] = of[e]
    BY <1>1, <1>4 DEF TypeInv, TypeOK, Active
  <2> QED BY <1>4, <2>1 DEF Taken
<1>6. \A s \in Taken : s[1] # d /\ s[2] # r
  BY <1>4, ActiveEvicted DEF Taken, PostStart, Refused
<1>7. Slots!Cardinality(Taken) < maxActive
  <2>1. ~(Cardinality(Evicted) >= maxActive) /\ maxActive \in Nat
    BY BoundAssumption DEF PostStart, Refused, TypeInv, TypeOK
  <2>2. Cardinality(Taken) < maxActive
    BY <2>1, TakenFew
  <2> QED BY <2>2, SlotsAreCounted
<1>8. Slots!Take(d, r)
  BY <1>2, <1>3, <1>5, <1>6, <1>7 DEF Slots!Take
<1> QED
  BY <1>8 DEF PoolStep, Slots!Next

\* Every step is a step of the pool, or none.
LEMMA StepKeepsPool ==
    ASSUME TypeInv, TaskInv, RegistryInv, [Next]_vars
    PROVE  PoolStep
<1> USE DEF TypeInv, TypeOK, Active, IsRunning, apiVars, taskVars, stopVars
<1>1. CASE \/ \E h \in Scenarios : PostScenario(h)
           \/ \E r \in Runs, h \in Scenarios, ref \in Runs \cup {None} :
                  \E seed \in SeedsOf[r] : PostRun(r, h, seed, ref)
           \/ \E r \in Runs : PostStartRefused(r)
           \/ Shutdown \/ Cleared \/ UNCHANGED vars
  <2>1. UNCHANGED <<maxActive, of, samples, life, stop>> /\ (phase' = "serving" => phase = "serving")
    BY <1>1 DEF PostScenario, PostRun, PostStartRefused, Shutdown, Cleared, vars
  <2> QED BY <2>1, PoolAside
<1>2. ASSUME NEW r \in Runs, PostStart(r) PROVE PoolStep
  BY <1>2, PoolTake
<1>3. ASSUME NEW d \in Drivers, FirstStep(d) \/ TaskCancelled(d) \/ EndTask(d) PROVE PoolStep
  <2>1. UNCHANGED <<maxActive, of, samples, phase, stop>>
    BY <1>3 DEF FirstStep, TaskCancelled, EndTask
  <2>2. Active' \in {Active, Active \ {d}}
    BY <1>3, <2>1 DEF FirstStep, TaskCancelled, EndTask
  <2> QED BY <2>1, <2>2, PoolRelease
<1>4. ASSUME NEW d \in Drivers, Tick(d) PROVE PoolStep
  BY <1>4, PoolRecord DEF Tick
<1>5. ASSUME NEW d \in Drivers, TickFails(d) PROVE PoolStep
  <2>1. /\ life[d] = "live" /\ ~cancelled[d] /\ UNCHANGED <<maxActive, of, phase, stop>>
        /\ life' = [life EXCEPT ![d] = "closing"]
    BY <1>5 DEF TickFails
  <2>2. Active' = Active
    BY <2>1
  <2>3. \/ samples' = samples
        \/ samples' = [samples EXCEPT ![of[d]] = Append(@, Point(of[d], count[d]))]
    BY <1>5 DEF TickFails
  <2> QED BY <2>1, <2>2, <2>3, PoolAside, PoolRecord
<1>6. ASSUME NEW d \in Drivers, StopRun(d) \/ StopNext(d) PROVE PoolStep
  <2>1. UNCHANGED <<maxActive, of, samples, phase, life>> /\ stop' = [stop EXCEPT ![d] = "await"]
    BY <1>6 DEF StopRun, StopNext, Cancel
  <2>2. Active' = Active \ {d}
    BY <2>1
  <2> QED BY <2>1, <2>2, PoolRelease
<1>7. ASSUME NEW d \in Drivers, StopWake(d) PROVE PoolStep
  <2>1. /\ UNCHANGED <<maxActive, of, samples, life>> /\ life[d] = "ended"
        /\ phase' \in {phase, "aborted"}
    BY <1>7 DEF StopWake, StopOver
  <2>2. \A e \in Drivers : e # d => stop'[e] = stop[e]
    BY <1>7 DEF StopWake, StopOver
  <2>3. Active' = Active
    BY <2>1, <2>2
  <2> QED BY <2>1, <2>3, PoolAside
<1> QED
  BY <1>1, <1>2, <1>3, <1>4, <1>5, <1>6, <1>7 DEF Next, Task, StopAll

\* The registry, its eviction and its shutdown implement a pool of max_active_runs slots.
THEOREM PoolEver == Spec => RegistryIsPool
<1>1. ASSUME Init PROVE Slots!Init
  <2>1. Taken = {} /\ Lengths = [r \in Runs |-> 0]
    BY <1>1 DEF Init, Taken, Active, IsRunning, Lengths
  <2> QED BY <1>1, <2>1 DEF Init, Slots!Init
<1>2. TypeInv /\ TaskInv /\ RegistryInv /\ [Next]_vars => [Slots!Next]_(Slots!vars)
  BY StepKeepsPool DEF PoolStep
<1> QED
  BY <1>1, <1>2, TaskEver, TypeInit, TypeNext, RegistryInit, RegistryNext, PTL
  DEF Spec, Slots!Spec, RegistryIsPool
===============================================================================
