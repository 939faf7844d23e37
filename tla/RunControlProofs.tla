---------------------------- MODULE RunControlProofs ----------------------------
(***************************************************************************)
(* What RunControl guarantees for any set of worker threads.               *)
(*                                                                         *)
(*   TypeCorrect         the state keeps its type, in every environment;   *)
(*   SealedStop          a sealed stop is never undone, in every           *)
(*                       environment;                                      *)
(*   SerialTerminal      if calls do not overlap, a terminal state is      *)
(*                       final ...                                         *)
(*   SerialMatrix        ... and the control state implements              *)
(*                       RunLifecycle;                                     *)
(*   SerialMirror        if moreover the repository never raises, it       *)
(*                       agrees with the control state between calls,      *)
(*   SerialBoth          implements RunLifecycle as well,                  *)
(*   SerialEnd           and a run ends terminal for everyone, failed only *)
(*                       by a defect;                                      *)
(*   LateTicks           at most one tick follows a pause or a stop, in    *)
(*                       every environment.                                *)
(***************************************************************************)
EXTENDS RunControl, TLAPS

-------------------------------------------------------------------------------
(***************************************************************************)
(* Type correctness                                                        *)
(***************************************************************************)

\* A request step keeps the type of every variable.
LEMMA RequestTyped ==
  ASSUME TypeOK, NEW t \in Threads, Request(t)
  PROVE  TypeOK'
<1> USE LoopAssumption DEF TypeOK, RunStatus, Terminal, ControlAction, Target,
        AllowedFrom, Threads, RequestPC, TickPC, RestPC, Goto, taskVars, ReturnPC
<1>1. CASE CheckSame(t)
  BY <1>1 DEF CheckSame
<1>2. CASE CheckAllowed(t)
  BY <1>2 DEF CheckAllowed
<1>3. CASE UpdateStatus(t)
  BY <1>3 DEF UpdateStatus
<1>4. CASE SetCache(t)
  BY <1>4 DEF SetCache
<1> QED BY <1>1, <1>2, <1>3, <1>4 DEF Request

\* So does a step of the tick task.
LEMMA TickTaskTyped ==
  ASSUME TypeOK, TickTask
  PROVE  TypeOK'
<1> USE LoopAssumption DEF TypeOK, RunStatus, Terminal, ControlAction, Threads,
        RequestPC, TickPC, RestPC, Goto, taskVars
<1>1. CASE Poll          BY <1>1 DEF Poll
<1>2. CASE TickPaused    BY <1>2 DEF TickPaused
<1>3. CASE TickTerminal  BY <1>3 DEF TickTerminal
<1>4. CASE TickPending   BY <1>4 DEF TickPending
<1>5. CASE TickFlip      BY <1>5 DEF TickFlip
<1>6. CASE TickMirror    BY <1>6 DEF TickMirror
<1>7. CASE TickBody
  <2>1. late' \in 0..2
    <3>1. late \in 0..2 /\ (late' = late \/ (late # 2 /\ late' = late + 1))
      BY <1>7 DEF TickBody
    <3> QED BY ONLY <3>1, SMT
  <2>2. /\ cache' \in RunStatus
        /\ repo' \in RunStatus
        /\ act' \in [Threads -> ControlAction]
        /\ outcome' \in [Threads -> {"none", "ok", "noop", "invalid", "error"}]
        /\ verdict' \in {"none", "diffed", "partial"}
    BY <1>7 DEF TickBody
  <2>3. failed' \in BOOLEAN /\ defect' \in BOOLEAN
    BY <1>7 DEF TickBody
  <2>4. /\ pc' \in [Threads -> RequestPC \cup TickPC \cup RestPC]
        /\ \A w \in Workers : pc'[w] \in RequestPC \cup {"idle"}
        /\ pc'[Loop] # "idle"
    BY <1>7 DEF TickBody
  <2> QED BY <2>1, <2>2, <2>3, <2>4
<1>8. CASE ForceStop     BY <1>8 DEF ForceStop
<1>9. CASE Cancel        BY <1>9 DEF Cancel
<1>10. CASE Finalize     BY <1>10 DEF Finalize
<1>11. CASE StopCheck    BY <1>11 DEF StopCheck
<1> QED BY <1>1, <1>2, <1>3, <1>4, <1>5, <1>6, <1>7, <1>8, <1>9, <1>10, <1>11 DEF TickTask

\* TypeOK is an invariant, whatever the threads do.
THEOREM TypeCorrect == Spec => []TypeOK
<1>1. Init => TypeOK
  <2> SUFFICES ASSUME Init PROVE TypeOK
    OBVIOUS
  <2> USE LoopAssumption DEF Init, Threads, RequestPC, TickPC, RestPC
  <2>1. /\ pc \in [Threads -> RequestPC \cup TickPC \cup RestPC]
        /\ \A w \in Workers : pc[w] \in RequestPC \cup {"idle"}
        /\ pc[Loop] # "idle"
    OBVIOUS
  <2>2. late \in 0..2
    OBVIOUS
  <2> QED BY <2>1, <2>2 DEF TypeOK, RunStatus, ControlAction
<1>2. TypeOK /\ [Next]_vars => TypeOK'
  <2> SUFFICES ASSUME TypeOK, [Next]_vars PROVE TypeOK'
    OBVIOUS
  <2>1. ASSUME NEW w \in Workers, NEW a \in ControlAction, Begin(w, a)
        PROVE  TypeOK'
    BY <2>1, LoopAssumption DEF Begin, TypeOK, Threads, RequestPC, TickPC, RestPC,
       Goto, taskVars
  <2>2. ASSUME NEW t \in Threads, Request(t) PROVE TypeOK'
    BY <2>2, RequestTyped
  <2>3. CASE TickTask
    BY <2>3, TickTaskTyped
  <2>4. CASE UNCHANGED vars
    BY <2>4 DEF TypeOK, vars
  <2> QED BY <2>1, <2>2, <2>3, <2>4 DEF Next
<1> QED BY <1>1, <1>2, PTL DEF Spec

-------------------------------------------------------------------------------
(***************************************************************************)
(* A sealed stop                                                           *)
(***************************************************************************)

\* Once the run is stopped and no call is past its guard with another target,
\* every later call finds it stopped: no step unseals it.
THEOREM SealedStop == Spec => SealedStopIsFinal
<1>1. TypeOK /\ [Next]_vars => (Sealed => Sealed')
  <2> SUFFICES ASSUME TypeOK, [Next]_vars, Sealed PROVE Sealed'
    OBVIOUS
  <2> USE LoopAssumption DEF Sealed, TypeOK, Threads, Goto, taskVars
  <2>1. ASSUME NEW w \in Workers, NEW a \in ControlAction, Begin(w, a)
        PROVE  Sealed'
    BY <2>1 DEF Begin
  <2>2. ASSUME NEW t \in Threads, Request(t) PROVE Sealed'
    <3> USE DEF ReturnPC, Target, AllowedFrom, ControlAction
    <3>1. CASE CheckSame(t)     BY <3>1 DEF CheckSame
    <3>2. CASE CheckAllowed(t)  BY <3>2 DEF CheckAllowed
    <3>3. CASE UpdateStatus(t)  BY <3>3 DEF UpdateStatus
    <3>4. CASE SetCache(t)      BY <3>4 DEF SetCache
    <3> QED BY <2>2, <3>1, <3>2, <3>3, <3>4 DEF Request
  <2>3. CASE TickTask
    <3> USE DEF Terminal
    <3>1. CASE Poll          BY <3>1 DEF Poll
    <3>2. CASE TickPaused    BY <3>2 DEF TickPaused
    <3>3. CASE TickTerminal  BY <3>3 DEF TickTerminal
    <3>4. CASE TickPending   BY <3>4 DEF TickPending
    <3>5. CASE TickFlip      BY <3>5 DEF TickFlip
    <3>6. CASE TickMirror    BY <3>6 DEF TickMirror
    <3>7. CASE TickBody      BY <3>7 DEF TickBody
    <3>8. CASE ForceStop     BY <3>8 DEF ForceStop
    <3>9. CASE Cancel        BY <3>9 DEF Cancel
    <3>10. CASE Finalize     BY <3>10 DEF Finalize
    <3>11. CASE StopCheck    BY <3>11 DEF StopCheck
    <3> QED BY <2>3, <3>1, <3>2, <3>3, <3>4, <3>5, <3>6, <3>7, <3>8, <3>9, <3>10, <3>11
            DEF TickTask
  <2>4. CASE UNCHANGED vars
    BY <2>4 DEF vars
  <2> QED BY <2>1, <2>2, <2>3, <2>4 DEF Next
<1>2. TypeOK /\ [Next]_vars => [Sealed => Sealed']_vars
  BY <1>1
<1> QED BY <1>2, TypeCorrect, PTL DEF Spec, SealedStopIsFinal

-------------------------------------------------------------------------------
(***************************************************************************)
(* Calls that do not overlap                                               *)
(*                                                                         *)
(* What makes a call safe is that nobody writes between its guard and its  *)
(* write: Exclusive says that only one thread is inside a call, Guarded    *)
(* that what its guard established still holds when it writes.             *)
(***************************************************************************)

Exclusive ==
    \A t, u \in Threads : t # u => AtRest(t) \/ AtRest(u)

Guarded ==
    /\ \A t \in Threads : pc[t] \in {"repo", "cache"} => cache \in AllowedFrom[act[t]]
    /\ pc[Loop] = "tick_flip" => cache = "pending"

SerialInv == TypeOK /\ Exclusive /\ Guarded

\* Only a thread at rest begins a call, and then all others are at rest.
LEMMA ExclusiveStep ==
  ASSUME ~Overlap, TypeOK, Exclusive, [Next]_vars
  PROVE  Exclusive'
<1> USE LoopAssumption DEF Exclusive, AtRest, RestPC, TypeOK, Threads, Goto, taskVars
<1>1. ASSUME NEW w \in Workers, NEW a \in ControlAction, Begin(w, a)
      PROVE  Exclusive'
  BY <1>1 DEF Begin, MayBegin
<1>2. ASSUME NEW t \in Threads, Request(t) PROVE Exclusive'
  <2>1. /\ pc[t] \in RequestPC
        /\ \E label \in RequestPC \cup TickPC \cup RestPC : pc' = [pc EXCEPT ![t] = label]
    BY <1>2 DEF Request, CheckSame, CheckAllowed, UpdateStatus, SetCache, ReturnPC,
       RequestPC, TickPC
  <2>2. ~AtRest(t)
    BY <2>1 DEF RequestPC
  <2> QED BY <2>1, <2>2
<1>3. CASE TickTask
  <2>1. \/ pc' = pc
        \/ \E label \in RequestPC \cup TickPC \cup RestPC : pc' = [pc EXCEPT ![Loop] = label]
    BY <1>3 DEF TickTask, Poll, TickPaused, TickTerminal, TickPending, TickFlip,
       TickMirror, TickBody, ForceStop, Cancel, Finalize, StopCheck, RequestPC, TickPC
  <2>2. ~AtRest(Loop) \/ MayBegin(Loop)
    BY <1>3 DEF TickTask, Poll, TickPaused, TickTerminal, TickPending, TickFlip,
       TickMirror, TickBody, ForceStop, Cancel, Finalize, StopCheck
  <2> QED BY <2>1, <2>2 DEF MayBegin
<1>4. CASE UNCHANGED vars
  BY <1>4 DEF vars
<1> QED BY <1>1, <1>2, <1>3, <1>4 DEF Next

\* While a thread is between guard and write, no other thread writes.
LEMMA GuardedStep ==
  ASSUME SerialInv, [Next]_vars
  PROVE  Guarded'
<1> USE LoopAssumption DEF SerialInv, Guarded, TypeOK, Threads, Goto, taskVars
<1>1. ASSUME NEW w \in Workers, NEW a \in ControlAction, Begin(w, a)
      PROVE  Guarded'
  BY <1>1 DEF Begin
<1>2. ASSUME NEW t \in Threads, Request(t) PROVE Guarded'
  <2> USE DEF ReturnPC, ControlAction
  <2>1. CASE CheckSame(t)     BY <2>1 DEF CheckSame
  <2>2. CASE CheckAllowed(t)  BY <2>2 DEF CheckAllowed
  <2>3. CASE UpdateStatus(t)  BY <2>3 DEF UpdateStatus
  <2>4. CASE SetCache(t)
    <3>1. \A u \in Threads \ {t} : AtRest(u)
      BY <2>4 DEF SetCache, Exclusive, AtRest, RestPC
    <3>2. \A u \in Threads : pc'[u] \notin {"repo", "cache", "tick_flip"}
      BY <2>4, <3>1 DEF SetCache, AtRest, RestPC
    <3> QED BY <3>2
  <2> QED BY <1>2, <2>1, <2>2, <2>3, <2>4 DEF Request
<1>3. CASE TickTask
  <2>1. CASE TickFlip
    <3>1. \A u \in Threads \ {Loop} : AtRest(u)
      BY <2>1 DEF TickFlip, Exclusive, AtRest, RestPC
    <3>2. \A u \in Threads : pc'[u] \notin {"repo", "cache", "tick_flip"}
      BY <2>1, <3>1 DEF TickFlip, AtRest, RestPC
    <3> QED BY <3>2
  <2>2. CASE Poll          BY <2>2 DEF Poll
  <2>3. CASE TickPaused    BY <2>3 DEF TickPaused
  <2>4. CASE TickTerminal  BY <2>4 DEF TickTerminal
  <2>5. CASE TickPending   BY <2>5 DEF TickPending
  <2>6. CASE TickMirror    BY <2>6 DEF TickMirror
  <2>7. CASE TickBody      BY <2>7 DEF TickBody
  <2>8. CASE ForceStop     BY <2>8 DEF ForceStop
  <2>9. CASE Cancel        BY <2>9 DEF Cancel
  <2>10. CASE Finalize     BY <2>10 DEF Finalize
  <2>11. CASE StopCheck    BY <2>11 DEF StopCheck
  <2> QED BY <1>3, <2>1, <2>2, <2>3, <2>4, <2>5, <2>6, <2>7, <2>8, <2>9, <2>10, <2>11
          DEF TickTask
<1>4. CASE UNCHANGED vars
  BY <1>4 DEF vars
<1> QED BY <1>1, <1>2, <1>3, <1>4 DEF Next

\* Without overlap every call keeps its guard until it writes.
THEOREM SerialGuards ==
  ASSUME ~Overlap
  PROVE  Spec => []SerialInv
<1>1. Init => Exclusive /\ Guarded
  BY LoopAssumption DEF Init, Exclusive, Guarded, AtRest, RestPC, Threads
<1>2. SerialInv /\ [Next]_vars => Exclusive' /\ Guarded'
  BY ExclusiveStep, GuardedStep DEF SerialInv
<1> QED BY <1>1, <1>2, TypeCorrect, PTL DEF Spec, SerialInv

\* Every write of the control state is a transition of the matrix.
LEMMA SerialWrite ==
  ASSUME SerialInv, [Next]_vars
  PROVE  cache' = cache \/ CacheView!Next
<1> USE DEF CacheView!Next, CacheView!Accept, CacheView!AutoStart
<1>1. ASSUME NEW t \in Threads, SetCache(t) PROVE CacheView!Next
  BY <1>1 DEF SetCache, SerialInv, Guarded, TypeOK, ControlAction, AllowedFrom, Target,
     CacheView!ControlAction, CacheView!AllowedFrom, CacheView!Target
<1>2. CASE TickFlip
  BY <1>2 DEF TickFlip, SerialInv, Guarded
<1>3. ASSUME NEW t \in Threads, CheckSame(t) \/ CheckAllowed(t) \/ UpdateStatus(t)
      PROVE  cache' = cache
  BY <1>3 DEF CheckSame, CheckAllowed, UpdateStatus
<1>4. CASE TickTask /\ ~TickFlip
  BY <1>4 DEF TickTask, Poll, TickPaused, TickTerminal, TickPending, TickMirror,
     TickBody, ForceStop, Cancel, Finalize, StopCheck
<1>5. ASSUME NEW w \in Workers, NEW a \in ControlAction, Begin(w, a)
      PROVE  cache' = cache
  BY <1>5 DEF Begin
<1>6. CASE UNCHANGED vars
  BY <1>6 DEF vars
<1> QED BY <1>1, <1>2, <1>3, <1>4, <1>5, <1>6 DEF Next, Request

\* Without overlap the control state implements the lifecycle of ADR 0039.
THEOREM SerialMatrix ==
  ASSUME ~Overlap
  PROVE  Spec => CacheView!Spec
<1>1. Init => CacheView!Init
  BY DEF Init, CacheView!Init
<1>2. SerialInv /\ [Next]_vars => [CacheView!Next]_cache
  BY SerialWrite
<1> QED BY <1>1, <1>2, SerialGuards, PTL DEF Spec, CacheView!Spec

\* No transition of the matrix leaves a terminal state.
LEMMA TerminalStays ==
  ASSUME SerialInv, [Next]_vars, cache \in Terminal
  PROVE  cache' = cache
BY SerialWrite DEF CacheView!Next, CacheView!Accept, CacheView!AutoStart, Terminal,
   CacheView!ControlAction, CacheView!AllowedFrom, CacheView!Target

\* Without overlap no call revives a run that has been stopped.
THEOREM SerialTerminal ==
  ASSUME ~Overlap
  PROVE  Spec => TerminalIsFinal
<1>1. SerialInv /\ [Next]_vars => [(cache \in Terminal) => (cache' = cache)]_vars
  BY TerminalStays
<1> QED BY <1>1, SerialGuards, PTL DEF Spec, TerminalIsFinal

-------------------------------------------------------------------------------
(***************************************************************************)
(* The repository mirror                                                   *)
(*                                                                         *)
(* request() writes the repository first, the flip of the first tick writes *)
(* it last; only a thread between its two writes may see them differ.      *)
(***************************************************************************)

MirrorInv ==
    /\ \A t \in Threads : pc[t] = "cache" => repo = Target[act[t]]
    /\ pc[Loop] = "tick_mirror" => cache = "running"
    /\ \/ cache = repo
       \/ pc[Loop] = "tick_mirror"
       \/ \E t \in Threads : pc[t] = "cache"

\* Each of the two writers closes the gap it has opened.
LEMMA MirrorStep ==
  ASSUME ~RepoMayFail, SerialInv, MirrorInv, [Next]_vars
  PROVE  MirrorInv'
<1> USE LoopAssumption DEF MirrorInv, SerialInv, TypeOK, Threads, Goto, taskVars
<1>1. ASSUME NEW w \in Workers, NEW a \in ControlAction, Begin(w, a)
      PROVE  MirrorInv'
  BY <1>1 DEF Begin
<1>2. ASSUME NEW t \in Threads, Request(t) PROVE MirrorInv'
  <2> USE DEF ReturnPC
  <2>1. CASE CheckSame(t)     BY <2>1 DEF CheckSame
  <2>2. CASE CheckAllowed(t)  BY <2>2 DEF CheckAllowed
  <2>3. CASE UpdateStatus(t)
    <3>1. \A u \in Threads \ {t} : AtRest(u)
      BY <2>3 DEF UpdateStatus, Exclusive, AtRest, RestPC
    <3>2. \A u \in Threads \ {t} : pc'[u] \notin {"cache", "tick_mirror"}
      BY <2>3, <3>1 DEF UpdateStatus, AtRest, RestPC
    <3>3. pc'[t] = "cache" /\ repo' = Target[act'[t]]
      BY <2>3 DEF UpdateStatus
    <3> QED BY <3>2, <3>3
  <2>4. CASE SetCache(t)
    <3>1. cache' = repo'
      BY <2>4 DEF SetCache
    <3>2. \A u \in Threads \ {t} : AtRest(u)
      BY <2>4 DEF SetCache, Exclusive, AtRest, RestPC
    <3>3. \A u \in Threads : pc'[u] \notin {"cache", "tick_mirror"}
      BY <2>4, <3>2 DEF SetCache, AtRest, RestPC
    <3> QED BY <3>1, <3>3
  <2> QED BY <1>2, <2>1, <2>2, <2>3, <2>4 DEF Request
<1>3. CASE TickTask
  <2>1. CASE TickFlip
    <3>1. \A u \in Threads \ {Loop} : AtRest(u)
      BY <2>1 DEF TickFlip, Exclusive, AtRest, RestPC
    <3>2. \A u \in Threads : pc'[u] # "cache"
      BY <2>1, <3>1 DEF TickFlip, AtRest, RestPC
    <3>3. pc'[Loop] = "tick_mirror" /\ cache' = "running"
      BY <2>1 DEF TickFlip
    <3> QED BY <3>2, <3>3
  <2>2. CASE TickMirror
    <3>1. cache' = repo'
      BY <2>2 DEF TickMirror
    <3>2. \A u \in Threads \ {Loop} : AtRest(u)
      BY <2>2 DEF TickMirror, Exclusive, AtRest, RestPC
    <3>3. \A u \in Threads : pc'[u] \notin {"cache", "tick_mirror"}
      BY <2>2, <3>2 DEF TickMirror, AtRest, RestPC
    <3> QED BY <3>1, <3>3
  <2>3. CASE Poll          BY <2>3 DEF Poll
  <2>4. CASE TickPaused    BY <2>4 DEF TickPaused
  <2>5. CASE TickTerminal  BY <2>5 DEF TickTerminal
  <2>6. CASE TickPending   BY <2>6 DEF TickPending
  <2>7. CASE TickBody      BY <2>7 DEF TickBody
  <2>8. CASE ForceStop     BY <2>8 DEF ForceStop
  <2>9. CASE Cancel        BY <2>9 DEF Cancel
  <2>10. CASE Finalize     BY <2>10 DEF Finalize
  <2>11. CASE StopCheck    BY <2>11 DEF StopCheck
  <2> QED BY <1>3, <2>1, <2>2, <2>3, <2>4, <2>5, <2>6, <2>7, <2>8, <2>9, <2>10, <2>11
          DEF TickTask
<1>4. CASE UNCHANGED vars
  BY <1>4 DEF vars
<1> QED BY <1>1, <1>2, <1>3, <1>4 DEF Next

\* MirrorInv is inductive relative to SerialInv.
LEMMA MirrorEver ==
  ASSUME ~Overlap, ~RepoMayFail
  PROVE  Spec => []MirrorInv
<1>1. Init => MirrorInv
  BY LoopAssumption DEF Init, MirrorInv, Threads
<1>2. SerialInv /\ MirrorInv /\ [Next]_vars => MirrorInv'
  BY MirrorStep
<1> QED BY <1>1, <1>2, SerialGuards, PTL DEF Spec

\* Without overlap, and with a repository that never raises, control state and
\* repository agree between calls.
THEOREM SerialMirror ==
  ASSUME ~Overlap, ~RepoMayFail
  PROVE  Spec => []MirrorAtRest
<1>1. MirrorInv => MirrorAtRest
  BY DEF MirrorInv, MirrorAtRest, AllAtRest, AtRest, RestPC, Threads
<1> QED BY <1>1, MirrorEver, PTL

-------------------------------------------------------------------------------
(***************************************************************************)
(* The status that clients see                                             *)
(*                                                                         *)
(* The guards of request() look at the control state.  That its writes to  *)
(* the repository follow the matrix too takes MirrorInv: whoever is about  *)
(* to write still finds there what the guard has found in the cache.       *)
(***************************************************************************)

\* Between the two writes of the first tick the repository is still pending.
FlipGuarded == pc[Loop] = "tick_mirror" => repo = "pending"

\* The thread that writes is alone inside a call.
LEMMA FlipStep ==
  ASSUME SerialInv, MirrorInv, FlipGuarded, [Next]_vars
  PROVE  FlipGuarded'
<1> USE LoopAssumption DEF FlipGuarded, SerialInv, TypeOK, Threads, Goto, taskVars
<1>1. ASSUME NEW w \in Workers, NEW a \in ControlAction, Begin(w, a)
      PROVE  FlipGuarded'
  BY <1>1 DEF Begin
<1>2. ASSUME NEW t \in Threads, Request(t) PROVE FlipGuarded'
  <2>1. pc[t] \in RequestPC /\ \A u \in Threads \ {t} : AtRest(u) /\ pc'[u] = pc[u]
    BY <1>2 DEF Request, CheckSame, CheckAllowed, UpdateStatus, SetCache, Exclusive,
       AtRest, RestPC, RequestPC
  <2>2. pc'[t] # "tick_mirror"
    BY <1>2 DEF Request, CheckSame, CheckAllowed, UpdateStatus, SetCache, ReturnPC
  <2>3. pc'[Loop] # "tick_mirror"
    BY <2>1, <2>2 DEF AtRest, RestPC
  <2> QED BY <2>3
<1>3. CASE TickTask
  <2>1. CASE TickFlip
    <3>1. \A u \in Threads : pc[u] # "cache"
      BY <2>1 DEF TickFlip, Exclusive, AtRest, RestPC
    <3>2. repo = "pending"
      BY <2>1, <3>1 DEF TickFlip, Guarded, MirrorInv
    <3> QED BY <2>1, <3>2 DEF TickFlip
  <2>2. CASE ~TickFlip
    <3>1. pc'[Loop] # "tick_mirror"
      BY <1>3, <2>2 DEF TickTask, Poll, TickPaused, TickTerminal, TickPending, TickMirror,
         TickBody, ForceStop, Cancel, Finalize, StopCheck
    <3> QED BY <3>1
  <2> QED BY <2>1, <2>2
<1>4. CASE UNCHANGED vars
  BY <1>4 DEF vars
<1> QED BY <1>1, <1>2, <1>3, <1>4 DEF Next

\* Every write of the repository is a transition of the matrix.
LEMMA RepoWrite ==
  ASSUME SerialInv, MirrorInv, FlipGuarded, [Next]_vars
  PROVE  repo' = repo \/ RepoView!Next
<1> USE DEF RepoView!Next, RepoView!Accept, RepoView!AutoStart
<1>1. ASSUME NEW t \in Threads, UpdateStatus(t) PROVE repo' = repo \/ RepoView!Next
  <2>1. \A u \in Threads : pc[u] # "cache" /\ (u # t => AtRest(u))
    BY <1>1 DEF UpdateStatus, SerialInv, Exclusive, AtRest, RestPC
  <2>2. repo = cache
    BY <1>1, <2>1 DEF UpdateStatus, MirrorInv, AtRest, RestPC, Threads
  <2>3. act[t] \in ControlAction /\ cache \in AllowedFrom[act[t]]
    BY <1>1 DEF UpdateStatus, SerialInv, TypeOK, Guarded
  <2>4. repo' = repo \/ repo' = Target[act[t]]
    BY <1>1 DEF UpdateStatus
  <2> QED
    BY <2>2, <2>3, <2>4 DEF ControlAction, AllowedFrom, Target,
       RepoView!ControlAction, RepoView!AllowedFrom, RepoView!Target
<1>2. CASE TickMirror
  BY <1>2 DEF TickMirror, FlipGuarded
<1>3. ASSUME NEW t \in Threads, CheckSame(t) \/ CheckAllowed(t) \/ SetCache(t)
      PROVE  repo' = repo
  BY <1>3 DEF CheckSame, CheckAllowed, SetCache
<1>4. CASE TickTask /\ ~TickMirror
  BY <1>4 DEF TickTask, Poll, TickPaused, TickTerminal, TickPending, TickFlip,
     TickBody, ForceStop, Cancel, Finalize, StopCheck
<1>5. ASSUME NEW w \in Workers, NEW a \in ControlAction, Begin(w, a)
      PROVE  repo' = repo
  BY <1>5 DEF Begin
<1>6. CASE UNCHANGED vars
  BY <1>6 DEF vars
<1> QED BY <1>1, <1>2, <1>3, <1>4, <1>5, <1>6 DEF Next, Request

\* Without overlap, and with a repository that never raises, the status shown to
\* clients implements the lifecycle of ADR 0039 as well.
LEMMA SerialRepo ==
  ASSUME ~Overlap, ~RepoMayFail
  PROVE  Spec => RepoView!Spec
<1>1. Init => RepoView!Init /\ FlipGuarded
  BY LoopAssumption DEF Init, RepoView!Init, FlipGuarded, Threads
<1>2. SerialInv /\ MirrorInv /\ FlipGuarded /\ [Next]_vars => FlipGuarded'
  BY FlipStep
<1>3. SerialInv /\ MirrorInv /\ FlipGuarded /\ [Next]_vars => [RepoView!Next]_repo
  BY RepoWrite
<1> QED BY <1>1, <1>2, <1>3, SerialGuards, MirrorEver, PTL
        DEF Spec, RepoView!Spec

\* Without overlap and outages both keep to the matrix.
THEOREM SerialBoth ==
  ASSUME ~Overlap, ~RepoMayFail
  PROVE  Spec => BothFollowMatrix
BY SerialMatrix, SerialRepo DEF BothFollowMatrix

-------------------------------------------------------------------------------
(***************************************************************************)
(* The end of the tick task                                                *)
(***************************************************************************)

\* The task calls request() to stop the run only; what it has polled still holds
\* in the two tests of tick(), and it is past its last tick only when the run is
\* terminal.
EndInv ==
    /\ pc[Loop] \in RequestPC => act[Loop] = "stop"
    /\ pc[Loop] \in {"tick_paused", "tick_terminal"} => cache \notin Terminal
    /\ pc[Loop] \in {"finalize", "ended"} => cache \in Terminal
    /\ failed => defect

\* No other thread writes while the task is inside a tick, and a terminal state
\* stays.
LEMMA EndStep ==
  ASSUME ~RepoMayFail, SerialInv, EndInv, [Next]_vars
  PROVE  EndInv'
<1> USE LoopAssumption DEF EndInv, SerialInv, TypeOK, Threads, Goto, taskVars
<1>1. ASSUME NEW w \in Workers, NEW a \in ControlAction, Begin(w, a)
      PROVE  EndInv'
  BY <1>1 DEF Begin
<1>2. ASSUME NEW w \in Workers, Request(w) PROVE EndInv'
  <2>1. AtRest(Loop)
    BY <1>2 DEF Request, CheckSame, CheckAllowed, UpdateStatus, SetCache, Exclusive,
       AtRest, RestPC
  <2>2. UNCHANGED <<pc[Loop], act[Loop], failed, defect>>
    BY <1>2 DEF Request, CheckSame, CheckAllowed, UpdateStatus, SetCache
  <2>3. cache \in Terminal => cache' \in Terminal
    BY TerminalStays
  <2> QED BY <2>1, <2>2, <2>3 DEF AtRest, RestPC, RequestPC
<1>3. CASE Request(Loop)
  <2> USE DEF RequestPC, ReturnPC
  <2>1. CASE CheckSame(Loop)
    BY <2>1 DEF CheckSame, Target, Terminal
  <2>2. CASE CheckAllowed(Loop)
    BY <2>2 DEF CheckAllowed, AllowedFrom, ControlAction, Terminal, RunStatus
  <2>3. CASE UpdateStatus(Loop)
    BY <2>3 DEF UpdateStatus
  <2>4. CASE SetCache(Loop)
    BY <2>4 DEF SetCache, Target, Terminal
  <2> QED BY <1>3, <2>1, <2>2, <2>3, <2>4 DEF Request
<1>4. CASE TickTask
  <2> USE DEF RequestPC
  <2>1. CASE Poll          BY <2>1 DEF Poll
  <2>2. CASE TickPaused    BY <2>2 DEF TickPaused
  <2>3. CASE TickTerminal  BY <2>3 DEF TickTerminal
  <2>4. CASE TickPending   BY <2>4 DEF TickPending
  <2>5. CASE TickFlip      BY <2>5 DEF TickFlip
  <2>6. CASE TickMirror    BY <2>6 DEF TickMirror
  <2>7. CASE TickBody      BY <2>7 DEF TickBody
  <2>8. CASE ForceStop     BY <2>8 DEF ForceStop
  <2>9. CASE Cancel        BY <2>9 DEF Cancel
  <2>10. CASE Finalize     BY <2>10 DEF Finalize
  <2>11. CASE StopCheck    BY <2>11 DEF StopCheck
  <2> QED BY <1>4, <2>1, <2>2, <2>3, <2>4, <2>5, <2>6, <2>7, <2>8, <2>9, <2>10, <2>11
          DEF TickTask
<1>5. CASE UNCHANGED vars
  BY <1>5 DEF vars
<1> QED BY <1>1, <1>2, <1>3, <1>4, <1>5 DEF Next

\* Without overlap, and with a repository that never raises, a run whose task is gone
\* is terminal for everyone, and failed only if a tick went wrong.
THEOREM SerialEnd ==
  ASSUME ~Overlap, ~RepoMayFail
  PROVE  Spec => []EndIsHonest
<1>1. Init => EndInv
  BY LoopAssumption DEF Init, EndInv, Threads, RequestPC
<1>2. SerialInv /\ EndInv /\ [Next]_vars => EndInv'
  BY EndStep
<1>3. EndInv /\ MirrorAtRest => EndIsHonest
  BY DEF EndInv, MirrorAtRest, EndIsHonest, FailedOnlyByDefect, EndIsVisible
<1> QED BY <1>1, <1>2, <1>3, SerialGuards, SerialMirror, PTL DEF Spec

-------------------------------------------------------------------------------
(***************************************************************************)
(* Late ticks                                                              *)
(***************************************************************************)

\* The places from the first test of a tick to its body.
InTick == {"tick_paused", "tick_terminal", "tick_pending", "tick_flip", "tick_mirror",
           "tick_body"}

\* A tick begins only when none has been late; one that is late leaves a run that
\* the next poll does not tick.  A run that has begun to tick is never pending
\* again, or a poll would take it for a new one.
LateInv ==
    /\ pc[Loop] \in InTick => late = 0
    /\ pc[Loop] \in {"tick_mirror", "tick_body"} => cache # "pending"
    /\ late \in {0, 1}
    /\ late = 1 => cache \notin {"pending", "running"}

\* A resume resets the count, in whatever order its write arrives.
LEMMA LateStep ==
  ASSUME TypeOK, LateInv, [Next]_vars
  PROVE  LateInv'
<1> USE LoopAssumption DEF LateInv, InTick, TypeOK, Threads, Goto, taskVars
<1>1. ASSUME NEW w \in Workers, NEW a \in ControlAction, Begin(w, a)
      PROVE  LateInv'
  BY <1>1 DEF Begin
<1>2. ASSUME NEW t \in Threads, Request(t) PROVE LateInv'
  <2> USE DEF ReturnPC
  <2>1. CASE CheckSame(t)     BY <2>1 DEF CheckSame
  <2>2. CASE CheckAllowed(t)  BY <2>2 DEF CheckAllowed
  <2>3. CASE UpdateStatus(t)  BY <2>3 DEF UpdateStatus
  <2>4. CASE SetCache(t)
    BY <2>4 DEF SetCache, Target, ControlAction
  <2> QED BY <1>2, <2>1, <2>2, <2>3, <2>4 DEF Request
<1>3. CASE TickTask
  <2>1. CASE Poll
    BY <2>1 DEF Poll, RunStatus, Terminal
  <2>2. CASE TickPaused    BY <2>2 DEF TickPaused
  <2>3. CASE TickTerminal  BY <2>3 DEF TickTerminal
  <2>4. CASE TickPending   BY <2>4 DEF TickPending
  <2>5. CASE TickFlip      BY <2>5 DEF TickFlip
  <2>6. CASE TickMirror    BY <2>6 DEF TickMirror
  <2>7. CASE TickBody      BY <2>7 DEF TickBody
  <2>8. CASE ForceStop     BY <2>8 DEF ForceStop
  <2>9. CASE Cancel        BY <2>9 DEF Cancel
  <2>10. CASE Finalize     BY <2>10 DEF Finalize
  <2>11. CASE StopCheck    BY <2>11 DEF StopCheck
  <2> QED BY <1>3, <2>1, <2>2, <2>3, <2>4, <2>5, <2>6, <2>7, <2>8, <2>9, <2>10, <2>11
          DEF TickTask
<1>4. CASE UNCHANGED vars
  BY <1>4 DEF vars
<1> QED BY <1>1, <1>2, <1>3, <1>4 DEF Next

\* However calls interleave and whatever the repository does, at most one tick body
\* begins after the run has left "running".
THEOREM LateTicks == Spec => []AtMostOneLateTick
<1>1. Init => LateInv
  BY LoopAssumption DEF Init, LateInv, InTick, Threads
<1>2. TypeOK /\ LateInv /\ [Next]_vars => LateInv'
  BY LateStep
<1>3. LateInv => AtMostOneLateTick
  BY DEF LateInv, AtMostOneLateTick
<1> QED BY <1>1, <1>2, <1>3, TypeCorrect, PTL DEF Spec
===============================================================================
