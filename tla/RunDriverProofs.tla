---------------------------- MODULE RunDriverProofs ----------------------------
(***************************************************************************)
(* What RunDriver guarantees for any number of callers of stop(), any set  *)
(* of configured ports and every interleaving of its cancellations.        *)
(*                                                                         *)
(*   TypeCorrect      the state keeps its type;                            *)
(*   CleanEver        the run is finalized and its ports are closed, but   *)
(*                    for a cancellation in one of the named moments;      *)
(*   ServedEver       no tick without the device server;                   *)
(*   HonestEver       the end of the run is what everybody sees of it;     *)
(*   ContractKept     seen from outside, the task is one of TaskLife.      *)
(***************************************************************************)
EXTENDS RunDriver, TLAPS

\* A CASE of every action begins with the same few expansions.
USE DEF portVars, runVars, taskVars, stopVars

-------------------------------------------------------------------------------
(***************************************************************************)
(* Type correctness                                                        *)
(***************************************************************************)

\* The two orders list the three ports, each once.
LEMMA Orders ==
  /\ \A i \in 1..3 : StartOrder[i] \in Ports /\ StopOrder[i] \in Ports
  /\ \A p \in Ports : \E i \in 1..3 : p = StopOrder[i]
  /\ StartOrder[3] = "server" /\ \A i \in 1..3 : StartOrder[i] = "server" => i = 3
  /\ \A i, j \in 1..3 : StopOrder[i] = StopOrder[j] => i = j
BY DEF StartOrder, StopOrder, Ports

\* The Boolean part of the type ...
Flags ==
    /\ {failed, cancelled, held, broke, outage} \subseteq BOOLEAN
    /\ active \in [Ports -> BOOLEAN]

\* ... and the rest; while a call of a port is awaited, `next` is the index of a port.
TypeInv == TypeOK /\ (at \in {"opening", "closing"} => next # 4)

\* request("stop") leaves a terminal run alone and stops any other, or the repository
\* raises.
LEMMA StopEffect ==
  ASSUME NEW succeeds \in BOOLEAN, StopRequest(succeeds)
  PROVE  /\ UNCHANGED <<failed, verdict, broke>>
         /\ outage' = outage \/ outage' = TRUE
         /\ control' = control \/ control' = "stopped"
         /\ control \in Terminal => control' = control
         /\ succeeds => control' \in Terminal /\ outage' = outage
         /\ ~succeeds => outage' = TRUE
BY DEF StopRequest, Terminal

\* The same of the two places that call it.
LEMMA ForceEffect ==
  ASSUME ForceStop
  PROVE  /\ UNCHANGED <<failed, verdict, broke, cancelled, cut, portVars, stopVars>>
         /\ outage' = outage \/ outage' = TRUE
         /\ control' = control \/ control' = "stopped"
         /\ \/ raised' = "none" /\ control' \in Terminal /\ outage' = outage
            \/ raised' = "error" /\ outage' = TRUE
         /\ at = "force" /\ at' = "finally" /\ next' = 1
<1>1. PICK succeeds \in BOOLEAN :
         /\ StopRequest(succeeds)
         /\ raised' = IF succeeds THEN "none" ELSE "error"
  BY DEF ForceStop
<1>2. \/ raised' = "none" /\ control' \in Terminal /\ outage' = outage
      \/ raised' = "error" /\ outage' = TRUE
  BY <1>1, StopEffect
<1> QED BY <1>1, <1>2, StopEffect DEF ForceStop

\* Every step keeps the Boolean part of the type.
LEMMA FlagsStep ==
  ASSUME TypeInv, [Next]_vars
  PROVE  Flags'
<1> USE DEF TypeInv, TypeOK, Flags
<1>1. CASE Start            BY <1>1 DEF Start
<1>2. CASE FirstStep        BY <1>2 DEF FirstStep
<1>3. CASE OpenNext         BY <1>3 DEF OpenNext
<1>4. CASE Opened           BY <1>4 DEF Opened
<1>5. CASE AllOpened        BY <1>5 DEF AllOpened
<1>6. CASE Poll             BY <1>6 DEF Poll
<1>7. CASE Tick             BY <1>7 DEF Tick
<1>8. CASE SleepOver        BY <1>8 DEF SleepOver
<1>9. CASE Except           BY <1>9 DEF Except
<1>10. CASE ForceStop       BY <1>10, ForceEffect
<1>11. CASE CloseNext       BY <1>11 DEF CloseNext
<1>12. CASE Closed          BY <1>12 DEF Closed
<1>13. CASE Finalize        BY <1>13 DEF Finalize
<1>14. CASE SleepCancelled  BY <1>14 DEF SleepCancelled
<1>15. CASE OpeningCancelled BY <1>15 DEF OpeningCancelled
<1>16. CASE ClosingCancelled BY <1>16 DEF ClosingCancelled
<1>17. ASSUME NEW p \in Ports, Pickup(p) \/ Complete(p) PROVE Flags'
  BY <1>17 DEF Pickup, Complete
<1>18. ASSUME NEW a \in ControlAction, Client(a) PROVE Flags'
  BY <1>18 DEF Client
<1>19. ASSUME NEW s \in Stoppers, Stop(s) PROVE Flags'
  BY <1>19 DEF Stop, StopBegin, StopWake, StopMirror, StopRequest
<1>20. CASE UNCHANGED vars
  BY <1>20 DEF vars
<1> QED BY <1>1, <1>2, <1>3, <1>4, <1>5, <1>6, <1>7, <1>8, <1>9, <1>10, <1>11, <1>12,
           <1>13, <1>14, <1>15, <1>16, <1>17, <1>18, <1>19, <1>20 DEF Next, RunLoop

\* A step of the task keeps the type of every variable.
LEMMA RunLoopTyped ==
  ASSUME TypeInv, RunLoop, Flags'
  PROVE  TypeInv'
<1> USE Orders DEF TypeInv, TypeOK, Flags, Awaits, Running
<1>1. CASE FirstStep        BY <1>1 DEF FirstStep
<1>2. CASE OpenNext         BY <1>2 DEF OpenNext
<1>3. CASE Opened           BY <1>3 DEF Opened
<1>4. CASE AllOpened        BY <1>4 DEF AllOpened
<1>5. CASE Poll             BY <1>5 DEF Poll
<1>6. CASE Tick             BY <1>6 DEF Tick, RunStatus
<1>7. CASE SleepOver        BY <1>7 DEF SleepOver
<1>8. CASE Except           BY <1>8 DEF Except
<1>9. CASE ForceStop
  <2>1. control' \in RunStatus /\ raised' \in {"none", "error"}
    BY <1>9, ForceEffect DEF RunStatus
  <2>2. /\ UNCHANGED <<failed, verdict, broke, cancelled, cut, portVars, stopVars>>
        /\ at' = "finally" /\ next' = 1
    BY <1>9, ForceEffect
  <2> QED BY <2>1, <2>2
<1>10. CASE CloseNext       BY <1>10 DEF CloseNext
<1>11. CASE Closed          BY <1>11 DEF Closed
<1>12. CASE Finalize        BY <1>12 DEF Finalize
<1>13. CASE SleepCancelled  BY <1>13 DEF SleepCancelled
<1>14. CASE OpeningCancelled
  BY <1>14 DEF OpeningCancelled, Abandon
<1>15. CASE ClosingCancelled
  BY <1>15 DEF ClosingCancelled, Abandon
<1> QED BY <1>1, <1>2, <1>3, <1>4, <1>5, <1>6, <1>7, <1>8, <1>9, <1>10, <1>11, <1>12,
           <1>13, <1>14, <1>15 DEF RunLoop

\* TypeOK is an invariant.
THEOREM TypeCorrect == Spec => []TypeInv
<1>1. Init => TypeInv
  <2> SUFFICES ASSUME Init PROVE TypeInv
    OBVIOUS
  <2>1. Flags
    BY DEF Init, Flags
  <2> QED BY <2>1 DEF Init, TypeInv, TypeOK, Flags, RunStatus
<1>2. TypeInv /\ [Next]_vars => TypeInv'
  <2> SUFFICES ASSUME TypeInv, [Next]_vars PROVE TypeInv'
    OBVIOUS
  <2>0. Flags'
    BY FlagsStep
  <2> USE <2>0 DEF TypeInv, TypeOK, Flags
  <2>1. CASE Start
    BY <2>1 DEF Start
  <2>2. CASE RunLoop
    BY <2>2, RunLoopTyped
  <2>3. ASSUME NEW p \in Ports, Pickup(p) PROVE TypeInv'
    BY <2>3 DEF Pickup
  <2>4. ASSUME NEW p \in Ports, Complete(p) PROVE TypeInv'
    BY <2>4 DEF Complete
  <2>5. ASSUME NEW a \in ControlAction, Client(a) PROVE TypeInv'
    BY <2>5 DEF Client, ControlAction, Target, RunStatus
  <2>6. ASSUME NEW s \in Stoppers, StopBegin(s) PROVE TypeInv'
    BY <2>6 DEF StopBegin, Waiting, Returned
  <2>7. ASSUME NEW s \in Stoppers, StopWake(s) PROVE TypeInv'
    BY <2>7 DEF StopWake, Waiting, Returned
  <2>8. ASSUME NEW s \in Stoppers, StopMirror(s) PROVE TypeInv'
    BY <2>8 DEF StopMirror, StopRequest, Waiting, Returned, RunStatus
  <2>9. CASE UNCHANGED vars
    BY <2>9 DEF vars
  <2> QED BY <2>1, <2>2, <2>3, <2>4, <2>5, <2>6, <2>7, <2>8, <2>9 DEF Next, Stop
<1> QED BY <1>1, <1>2, PTL DEF Spec, TypeInv

-------------------------------------------------------------------------------
(***************************************************************************)
(* The ports                                                               *)
(*                                                                         *)
(* What the driver believes of a port (`active`) and what the port is      *)
(* (`port`) differ only while a call is under way; a cancellation that     *)
(* abandons the call makes the difference last.                            *)
(***************************************************************************)

\* Places before the finally branch.
Before == {"none", "created", "open", "opening", "poll", "tick", "sleep"}

Starting == {"start_queued", "start_runs", "start_ok", "start_failed"}
Stopping == {"stop_queued", "stop_runs", "stop_done"}

\* The call of port p that the task awaits.
OpensNow(p) == at = "opening" /\ p = StartOrder[next] /\ job[p] \in Starting
ClosesNow(p) == at = "closing" /\ p = StopOrder[next] /\ job[p] \in Stopping

\* No cancellation has abandoned a call of a port.
Undisturbed == cut \cap {"opening", "closing"} = {}

PortInv ==
    /\ at \in Before => cut = {}
    /\ \A p \in Ports : job[p] = "start_ok" => port[p] = "open"
    /\ Undisturbed => \A p \in Ports :
          /\ job[p] # "none" => OpensNow(p) \/ ClosesNow(p)
          /\ port[p] = "open" =>
                \/ active[p]
                \/ OpensNow(p) /\ job[p] = "start_ok"
                \/ ClosesNow(p) /\ job[p] # "stop_done"

\* Ports are given up in the order of StopOrder, and all of them before the task ends.
GivenUp ==
    /\ at \in {"none", "created"} => \A p \in Ports : ~active[p]
    /\ at = "finally" => \A i \in 1..3 : i < next => ~active[StopOrder[i]]
    /\ at = "closing" => \A i \in 1..3 : i <= next => ~active[StopOrder[i]]
    /\ at = "ended" /\ Undisturbed => \A p \in Ports : ~active[p]

\* Once its turn is over, a configured device server is bound.
Bound ==
    /\ at \in {"none", "created"} => next = 1
    /\ "server" \in configured /\ (at \in {"poll", "tick", "sleep"} \/ (at = "open" /\ next = 4))
          => port["server"] = "open"

\* A step that leaves calls, ports and places alone.
LEMMA PortIdle ==
  ASSUME PortInv, UNCHANGED <<at, next, cut, job, port, active>>
  PROVE  PortInv'
BY DEF PortInv, Undisturbed, OpensNow, ClosesNow

\* A step from one place to another where no call is awaited.
LEMMA PortMove ==
  ASSUME PortInv, UNCHANGED <<job, port, active>>,
         at \notin {"opening", "closing"}, at' \notin {"opening", "closing"},
         at' \in Before => cut' = {}, Undisturbed' => Undisturbed
  PROVE  PortInv'
BY DEF PortInv, Undisturbed, OpensNow, ClosesNow

\* Every step keeps the account of what was opened and closed of each port.
LEMMA PortStep ==
  ASSUME TypeInv, PortInv, [Next]_vars
  PROVE  PortInv'
<1> USE DEF Before
<1>1. CASE Start \/ FirstStep \/ AllOpened \/ Poll \/ Tick \/ SleepOver \/ Except \/ ForceStop
           \/ Finalize \/ SleepCancelled
  <2>1. /\ UNCHANGED <<job, port, active>>
        /\ at \notin {"opening", "closing"} /\ at' \notin {"opening", "closing"}
    BY <1>1 DEF Start, FirstStep, AllOpened, Poll, Tick, SleepOver, Except, ForceStop,
       Finalize, SleepCancelled
  <2>2. \/ cut' = cut /\ (at' \in Before => at \in Before)
        \/ cut' = cut \cup {at} /\ at' \notin Before
    BY <1>1 DEF Start, FirstStep, AllOpened, Poll, Tick, SleepOver, Except, ForceStop,
       Finalize, SleepCancelled
  <2> QED BY <2>1, <2>2, PortMove DEF PortInv, Undisturbed
<1>2. CASE OpenNext
  BY <1>2, Orders DEF OpenNext, PortInv, TypeInv, TypeOK, Undisturbed, OpensNow, ClosesNow, Starting
<1>3. CASE Opened
  BY <1>3, Orders DEF Opened, PortInv, TypeInv, TypeOK, Undisturbed, OpensNow, ClosesNow, Starting
<1>4. CASE CloseNext
  BY <1>4, Orders DEF CloseNext, PortInv, TypeInv, TypeOK, Undisturbed, OpensNow, ClosesNow, Stopping
<1>5. CASE Closed
  BY <1>5, Orders DEF Closed, PortInv, TypeInv, TypeOK, Undisturbed, OpensNow, ClosesNow, Stopping
<1>6. CASE OpeningCancelled
  <2>1. ~Undisturbed' /\ at' \notin Before
    BY <1>6 DEF OpeningCancelled, Undisturbed
  <2>2. \A p \in Ports : job'[p] = "start_ok" => port'[p] = "open"
    BY <1>6, Orders DEF OpeningCancelled, Abandon, PortInv, TypeInv, TypeOK
  <2> QED BY <2>1, <2>2 DEF PortInv
<1>7. CASE ClosingCancelled
  <2>1. ~Undisturbed' /\ at' \notin Before
    BY <1>7 DEF ClosingCancelled, Undisturbed
  <2>2. \A p \in Ports : job'[p] = "start_ok" => port'[p] = "open"
    BY <1>7, Orders DEF ClosingCancelled, Abandon, PortInv, TypeInv, TypeOK
  <2> QED BY <2>1, <2>2 DEF PortInv
<1>8. ASSUME NEW p \in Ports, Pickup(p) PROVE PortInv'
  BY <1>8 DEF Pickup, PortInv, TypeInv, TypeOK, Undisturbed, OpensNow, ClosesNow, Starting, Stopping
<1>9. ASSUME NEW p \in Ports, Complete(p) PROVE PortInv'
  BY <1>9 DEF Complete, PortInv, TypeInv, TypeOK, Undisturbed, OpensNow, ClosesNow, Starting, Stopping
<1>10. CASE \E a \in ControlAction : Client(a)
  BY <1>10, PortIdle DEF Client
<1>11. CASE \E s \in Stoppers : Stop(s)
  BY <1>11, PortIdle DEF Stop, StopBegin, StopWake, StopMirror
<1>12. CASE UNCHANGED vars
  BY <1>12, PortIdle DEF vars
<1> QED BY <1>1, <1>2, <1>3, <1>4, <1>5, <1>6, <1>7, <1>8, <1>9, <1>10, <1>11, <1>12
        DEF Next, RunLoop

\* Every port is closed before the task ends, or a cancellation cut that short.
LEMMA GivenUpStep ==
  ASSUME TypeInv, GivenUp, [Next]_vars
  PROVE  GivenUp'
<1> USE Orders DEF GivenUp, TypeInv, TypeOK, Undisturbed
<1>1. CASE Start             BY <1>1 DEF Start
<1>2. CASE FirstStep         BY <1>2 DEF FirstStep
<1>3. CASE OpenNext          BY <1>3 DEF OpenNext
<1>4. CASE Opened            BY <1>4 DEF Opened
<1>5. CASE AllOpened         BY <1>5 DEF AllOpened
<1>6. CASE Poll              BY <1>6 DEF Poll
<1>7. CASE Tick              BY <1>7 DEF Tick
<1>8. CASE SleepOver         BY <1>8 DEF SleepOver
<1>9. CASE Except            BY <1>9 DEF Except
<1>10. CASE ForceStop        BY <1>10 DEF ForceStop
<1>11. CASE CloseNext        BY <1>11 DEF CloseNext
<1>12. CASE Closed           BY <1>12 DEF Closed
<1>13. CASE Finalize         BY <1>13 DEF Finalize
<1>14. CASE SleepCancelled   BY <1>14 DEF SleepCancelled
<1>15. CASE OpeningCancelled BY <1>15 DEF OpeningCancelled
<1>16. CASE ClosingCancelled BY <1>16 DEF ClosingCancelled
<1>17. ASSUME NEW p \in Ports, Pickup(p) \/ Complete(p) PROVE GivenUp'
  BY <1>17 DEF Pickup, Complete
<1>18. CASE \E a \in ControlAction : Client(a)
  BY <1>18 DEF Client
<1>19. CASE \E s \in Stoppers : Stop(s)
  BY <1>19 DEF Stop, StopBegin, StopWake, StopMirror
<1>20. CASE UNCHANGED vars
  BY <1>20 DEF vars
<1> QED BY <1>1, <1>2, <1>3, <1>4, <1>5, <1>6, <1>7, <1>8, <1>9, <1>10, <1>11, <1>12,
           <1>13, <1>14, <1>15, <1>16, <1>17, <1>18, <1>19, <1>20 DEF Next, RunLoop

\* Only the start of the device server opens it, and only the closing shuts it.
LEMMA BoundStep ==
  ASSUME TypeInv, PortInv, Bound, [Next]_vars
  PROVE  Bound'
<1> USE DEF Bound, TypeInv, TypeOK
<1>1. CASE Start \/ FirstStep \/ AllOpened \/ Poll \/ Tick \/ SleepOver \/ Except \/ ForceStop
           \/ Finalize \/ SleepCancelled
  <2>1. UNCHANGED <<configured, port>>
    BY <1>1 DEF Start, FirstStep, AllOpened, Poll, Tick, SleepOver, Except, ForceStop, Finalize,
       SleepCancelled
  <2>2. /\ at' \in {"poll", "tick", "sleep"} =>
              at \in {"poll", "tick", "sleep"} \/ (at = "open" /\ next = 4)
        /\ at' \in {"created", "open"} => at \in {"none", "created"} /\ next' = next
        /\ at' # "none"
    BY <1>1 DEF Start, FirstStep, AllOpened, Poll, Tick, SleepOver, Except, ForceStop, Finalize,
       SleepCancelled
  <2> QED BY <2>1, <2>2
<1>2. CASE OpenNext
  BY <1>2, Orders DEF OpenNext
<1>3. CASE Opened
  BY <1>3, Orders DEF Opened, PortInv, PushPorts
<1>4. CASE CloseNext \/ Closed \/ OpeningCancelled \/ ClosingCancelled
  BY <1>4 DEF CloseNext, Closed, OpeningCancelled, ClosingCancelled
<1>5. ASSUME NEW p \in Ports, Pickup(p) PROVE Bound'
  BY <1>5 DEF Pickup
<1>6. ASSUME NEW p \in Ports, Complete(p) PROVE Bound'
  <2>1. CASE at \in {"poll", "tick", "sleep", "open"}
    <3>1. job[p] = "none"
      BY <2>1, <1>6 DEF PortInv, Before, Undisturbed, OpensNow, ClosesNow
    <3> QED BY <1>6, <3>1 DEF Complete
  <2>2. CASE at \notin {"poll", "tick", "sleep", "open"}
    BY <1>6, <2>2 DEF Complete
  <2> QED BY <2>1, <2>2
<1>7. CASE \E a \in ControlAction : Client(a)
  BY <1>7 DEF Client
<1>8. CASE \E s \in Stoppers : Stop(s)
  BY <1>8 DEF Stop, StopBegin, StopWake, StopMirror
<1>9. CASE UNCHANGED vars
  BY <1>9 DEF vars
<1> QED BY <1>1, <1>2, <1>3, <1>4, <1>5, <1>6, <1>7, <1>8, <1>9 DEF Next, RunLoop

PortsInv == PortInv /\ GivenUp /\ Bound

\* The three invariants about ports hold in every state.
LEMMA PortsEver == Spec => []PortsInv
<1>1. Init => PortsInv
  BY DEF Init, PortsInv, PortInv, GivenUp, Bound, Undisturbed, Before
<1>2. TypeInv /\ PortsInv /\ [Next]_vars => PortsInv'
  BY PortStep, GivenUpStep, BoundStep DEF PortsInv
<1> QED BY <1>1, <1>2, TypeCorrect, PTL DEF Spec

\* A run whose Modbus server is configured ticks only while it serves.
THEOREM ServedEver == Spec => []ServedTicks
<1>1. PortsInv => ServedTicks
  BY DEF PortsInv, Bound, ServedTicks
<1> QED BY <1>1, PortsEver, PTL

\* finalize() is the last statement of the only way to the end that no cancellation
\* has taken before the first step or while a port was closed.
LEMMA FinalizedEver == Spec => []FinalizedUnlessCut
<1>1. Init => FinalizedUnlessCut
  BY DEF Init, FinalizedUnlessCut
<1>2. TypeInv /\ FinalizedUnlessCut /\ [Next]_vars => FinalizedUnlessCut'
  <2> SUFFICES ASSUME FinalizedUnlessCut, [Next]_vars PROVE FinalizedUnlessCut'
    OBVIOUS
  <2> USE DEF FinalizedUnlessCut
  <2>1. CASE Start \/ OpenNext \/ Opened \/ AllOpened \/ Poll \/ Tick \/ SleepOver \/ Except
             \/ ForceStop \/ CloseNext \/ Closed \/ SleepCancelled \/ OpeningCancelled
    <3>1. at' # "ended"
      BY <2>1 DEF Start, OpenNext, Opened, AllOpened, Poll, Tick, SleepOver, Except, ForceStop,
         CloseNext, Closed, SleepCancelled, OpeningCancelled
    <3> QED BY <3>1
  <2>2. CASE FirstStep
    BY <2>2 DEF FirstStep
  <2>3. CASE Finalize
    BY <2>3 DEF Finalize
  <2>4. CASE ClosingCancelled
    BY <2>4 DEF ClosingCancelled
  <2>5. CASE \E p \in Ports : Pickup(p) \/ Complete(p)
    BY <2>5 DEF Pickup, Complete
  <2>6. CASE \E a \in ControlAction : Client(a)
    BY <2>6 DEF Client
  <2>7. ASSUME NEW s \in Stoppers, Stop(s) PROVE FinalizedUnlessCut'
    <3>1. UNCHANGED <<at, cut, verdict>>
      BY <2>7, StopEffect DEF Stop, StopBegin, StopWake, StopMirror
    <3> QED BY <3>1
  <2>8. CASE UNCHANGED vars
    BY <2>8 DEF vars
  <2> QED BY <2>1, <2>2, <2>3, <2>4, <2>5, <2>6, <2>7, <2>8 DEF Next, RunLoop
<1> QED BY <1>1, <1>2, TypeCorrect, PTL DEF Spec

\* However the task ends, it leaves nothing behind, but for a cancellation in one of
\* the named moments.
THEOREM CleanEver == Spec => []CleanUnlessCut
<1>1. PortsInv /\ FinalizedUnlessCut => CleanUnlessCut
  BY DEF PortsInv, PortInv, GivenUp, CleanUnlessCut, ClosedUnlessCut, Undisturbed, Quiet,
     OpensNow, ClosesNow
<1> QED BY <1>1, PortsEver, FinalizedEver, PTL

-------------------------------------------------------------------------------
(***************************************************************************)
(* The end of the run                                                      *)
(***************************************************************************)

\* A defect is on its way to the mark, or marked; nothing breaks after the verdict.
BrokenInv ==
    /\ broke => failed \/ at = "except"
    /\ verdict # "none" => at = "ended" /\ (broke => verdict = "partial")

\* A task that is past its last tick leaves a terminal run, or one that the caller
\* who has cancelled it will stop; only an outage leaves it as it is.
EndInv ==
    /\ cancelled => at \in Awaits \cup {"created"} /\ \E s \in Stoppers : caller[s] = "await"
    /\ raised = "error" => outage
    /\ at \in {"finally", "closing", "ended"} =>
          \/ control \in Terminal \/ outage
          \/ \E s \in Stoppers : caller[s] \in Waiting

\* No step loses a defect on its way to the verdict, and none breaks after it.
LEMMA BrokenStep ==
  ASSUME TypeInv, BrokenInv, [Next]_vars
  PROVE  BrokenInv'
<1> USE DEF BrokenInv, TypeInv, TypeOK
<1>1. CASE Start             BY <1>1 DEF Start
<1>2. CASE FirstStep         BY <1>2 DEF FirstStep
<1>3. CASE OpenNext          BY <1>3 DEF OpenNext
<1>4. CASE Opened            BY <1>4 DEF Opened
<1>5. CASE AllOpened         BY <1>5 DEF AllOpened
<1>6. CASE Poll              BY <1>6 DEF Poll
<1>7. CASE Tick              BY <1>7 DEF Tick
<1>8. CASE SleepOver         BY <1>8 DEF SleepOver
<1>9. CASE Except            BY <1>9 DEF Except
<1>10. CASE ForceStop        BY <1>10, ForceEffect
<1>11. CASE CloseNext        BY <1>11 DEF CloseNext
<1>12. CASE Closed           BY <1>12 DEF Closed
<1>13. CASE Finalize         BY <1>13 DEF Finalize
<1>14. CASE SleepCancelled   BY <1>14 DEF SleepCancelled
<1>15. CASE OpeningCancelled BY <1>15 DEF OpeningCancelled
<1>16. CASE ClosingCancelled BY <1>16 DEF ClosingCancelled
<1>17. ASSUME NEW p \in Ports, Pickup(p) \/ Complete(p) PROVE BrokenInv'
  BY <1>17 DEF Pickup, Complete
<1>18. CASE \E a \in ControlAction : Client(a)
  BY <1>18 DEF Client
<1>19. ASSUME NEW s \in Stoppers, Stop(s) PROVE BrokenInv'
  BY <1>19, StopEffect DEF Stop, StopBegin, StopWake, StopMirror
<1>20. CASE UNCHANGED vars
  BY <1>20 DEF vars
<1> QED BY <1>1, <1>2, <1>3, <1>4, <1>5, <1>6, <1>7, <1>8, <1>9, <1>10, <1>11, <1>12,
           <1>13, <1>14, <1>15, <1>16, <1>17, <1>18, <1>19, <1>20 DEF Next, RunLoop

\* A step takes the task past its last tick only with a terminal run, an outage or a
\* caller of stop() who will see to it.
LEMMA EndStep ==
  ASSUME TypeInv, EndInv, [Next]_vars
  PROVE  EndInv'
<1> USE DEF EndInv, TypeInv, TypeOK, Awaits, Waiting
<1>1. CASE Start             BY <1>1 DEF Start
<1>2. CASE FirstStep         BY <1>2 DEF FirstStep
<1>3. CASE OpenNext          BY <1>3 DEF OpenNext
<1>4. CASE Opened            BY <1>4 DEF Opened
<1>5. CASE AllOpened         BY <1>5 DEF AllOpened
<1>6. CASE Poll              BY <1>6 DEF Poll
<1>7. CASE Tick              BY <1>7 DEF Tick
<1>8. CASE SleepOver         BY <1>8 DEF SleepOver
<1>9. CASE Except            BY <1>9 DEF Except
<1>10. CASE ForceStop
  <2>1. ~cancelled /\ ~cancelled'
    BY <1>10, ForceEffect
  <2>2. raised' = "error" => outage'
    BY <1>10, ForceEffect
  <2>3. control' \in Terminal \/ outage'
    BY <1>10, ForceEffect
  <2> QED BY <2>1, <2>2, <2>3
<1>11. CASE CloseNext        BY <1>11 DEF CloseNext
<1>12. CASE Closed           BY <1>12 DEF Closed
<1>13. CASE Finalize         BY <1>13 DEF Finalize
<1>14. CASE SleepCancelled   BY <1>14 DEF SleepCancelled
<1>15. CASE OpeningCancelled BY <1>15 DEF OpeningCancelled
<1>16. CASE ClosingCancelled BY <1>16 DEF ClosingCancelled
<1>17. ASSUME NEW p \in Ports, Pickup(p) \/ Complete(p) PROVE EndInv'
  BY <1>17 DEF Pickup, Complete
<1>18. ASSUME NEW a \in ControlAction, Client(a) PROVE EndInv'
  BY <1>18 DEF Client, AllowedFrom, Target, ControlAction, Terminal
<1>19. ASSUME NEW s \in Stoppers, StopBegin(s) PROVE EndInv'
  BY <1>19 DEF StopBegin
<1>20. ASSUME NEW s \in Stoppers, StopWake(s) PROVE EndInv'
  BY <1>20 DEF StopWake
<1>21. ASSUME NEW s \in Stoppers, StopMirror(s) PROVE EndInv'
  BY <1>21, StopEffect DEF StopMirror
<1>22. CASE UNCHANGED vars
  BY <1>22 DEF vars
<1> QED BY <1>1, <1>2, <1>3, <1>4, <1>5, <1>6, <1>7, <1>8, <1>9, <1>10, <1>11, <1>12,
           <1>13, <1>14, <1>15, <1>16, <1>17, <1>18, <1>19, <1>20, <1>21, <1>22
        DEF Next, RunLoop, Stop

\* Both invariants hold in every state.
LEMMA EndsEver == Spec => [](BrokenInv /\ EndInv)
<1>1. Init => BrokenInv /\ EndInv
  BY DEF Init, BrokenInv, EndInv
<1>2. TypeInv /\ BrokenInv /\ EndInv /\ [Next]_vars => BrokenInv' /\ EndInv'
  BY BrokenStep, EndStep
<1> QED BY <1>1, <1>2, TypeCorrect, PTL DEF Spec

\* A run that broke is never diffed, and a run whose task is gone is terminal unless
\* the repository refused it.
THEOREM HonestEver == Spec => []EndIsHonest
<1>1. BrokenInv /\ EndInv => EndIsHonest
  BY DEF BrokenInv, EndInv, EndIsHonest, BrokenIsPartial, EndIsTerminal, Quiet
<1> QED BY <1>1, EndsEver, PTL

-------------------------------------------------------------------------------
(***************************************************************************)
(* The contract of the task                                                *)
(***************************************************************************)

\* Places where the task is alive and no defect has been marked yet.
Unmarked == {"open", "opening", "poll", "tick", "sleep", "except"}

\* A defect is marked after the last tick, in one place, and once.
MarkedInv ==
    /\ at \in {"none", "created"} \cup Unmarked => ~failed
    /\ at = "force" => failed

\* No step but the mark itself enters or leaves a marked place with another mark.
LEMMA MarkedStep ==
  ASSUME TypeInv, MarkedInv, [Next]_vars
  PROVE  MarkedInv'
<1> USE DEF MarkedInv, Unmarked
<1>1. CASE Start \/ FirstStep \/ OpenNext \/ Opened \/ AllOpened \/ Poll \/ Tick \/ SleepOver
  <2>1. /\ failed' = failed /\ at' # "force"
        /\ at \in {"none", "created"} \cup Unmarked
    BY <1>1 DEF Start, FirstStep, OpenNext, Opened, AllOpened, Poll, Tick, SleepOver
  <2> QED BY <2>1
<1>2. CASE Except
  BY <1>2 DEF Except
<1>3. CASE ForceStop \/ CloseNext \/ Closed \/ Finalize \/ SleepCancelled \/ OpeningCancelled
           \/ ClosingCancelled
  <2>1. at' \in {"finally", "closing", "ended"}
    BY <1>3 DEF ForceStop, CloseNext, Closed, Finalize, SleepCancelled, OpeningCancelled,
       ClosingCancelled
  <2> QED BY <2>1
<1>4. ASSUME NEW p \in Ports, Pickup(p) \/ Complete(p) PROVE MarkedInv'
  BY <1>4 DEF Pickup, Complete
<1>5. CASE \E a \in ControlAction : Client(a)
  BY <1>5 DEF Client
<1>6. ASSUME NEW s \in Stoppers, Stop(s) PROVE MarkedInv'
  <2>1. UNCHANGED <<at, failed>>
    BY <1>6, StopEffect DEF Stop, StopBegin, StopWake, StopMirror
  <2> QED BY <2>1
<1>7. CASE UNCHANGED vars
  BY <1>7 DEF vars
<1> QED BY <1>1, <1>2, <1>3, <1>4, <1>5, <1>6, <1>7 DEF Next, RunLoop

\* The phase of every place, before a step ...
LEMMA PhaseOf ==
  /\ at = "none" => Phase = "unused"
  /\ at = "created" => Phase = "created"
  /\ at \in Unmarked \cup {"force"} => Phase = "live"
  /\ at \in {"finally", "closing"} => Phase = "closing"
  /\ at = "ended" => Phase = "ended"
BY DEF Phase, Unmarked

\* ... and after it.
LEMMA PhaseThen ==
  /\ at' = "none" => Phase' = "unused"
  /\ at' = "created" => Phase' = "created"
  /\ at' \in Unmarked \cup {"force"} => Phase' = "live"
  /\ at' \in {"finally", "closing"} => Phase' = "closing"
  /\ at' = "ended" => Phase' = "ended"
BY DEF Phase, Unmarked

\* A step that stays in its phase and leaves the run alone is none to the contract.
Stutter == UNCHANGED TaskView!vars

ContractInv == TypeInv /\ BrokenInv /\ EndInv /\ MarkedInv

\* A step of the task is a step of the contract, or none.
LEMMA RunLoopKeepsContract ==
  ASSUME ContractInv, RunLoop
  PROVE  TaskView!Next \/ Stutter
<1> USE DEF ContractInv, Stutter, TaskView!vars, TaskView!Next
<1>0. cancelled => at \in {"opening", "sleep", "closing", "created"}
  BY DEF EndInv, Awaits
<1>1. CASE FirstStep
  <2>1. TaskView!Begin
    BY <1>1, PhaseOf, PhaseThen DEF FirstStep, TaskView!Begin, Unmarked
  <2> QED BY <2>1
<1>2. CASE OpenNext \/ Opened \/ AllOpened \/ SleepOver
  <2>1. /\ at \in Unmarked /\ at' \in Unmarked
        /\ UNCHANGED <<cancelled, control, failed, verdict>>
    BY <1>2 DEF OpenNext, Opened, AllOpened, SleepOver, Unmarked
  <2> QED BY <2>1, PhaseOf, PhaseThen DEF Unmarked
<1>3. CASE Poll
  <2>1. at = "poll" /\ ~cancelled /\ UNCHANGED <<cancelled, control, failed, verdict>>
    BY <1>0, <1>3 DEF Poll
  <2>2. CASE control \in Terminal /\ at' = "finally"
    <3>1. TaskView!Leave
      BY <2>1, <2>2, PhaseOf, PhaseThen DEF TaskView!Leave, Unmarked, Terminal, TaskView!Terminal
    <3> QED BY <3>1
  <2>3. CASE at' \in {"sleep", "tick"}
    BY <2>1, <2>3, PhaseOf, PhaseThen DEF Unmarked
  <2> QED BY <1>3, <2>2, <2>3 DEF Poll
<1>4. CASE Tick
  <2>1. /\ at = "tick" /\ at' \in {"sleep", "except"} /\ ~cancelled
        /\ UNCHANGED <<cancelled, failed, verdict>>
    BY <1>0, <1>4 DEF Tick
  <2>2. Phase = "live" /\ Phase' = "live" /\ (failed' /\ at' # "force") = (failed /\ at # "force")
    BY <2>1, PhaseOf, PhaseThen DEF Unmarked
  <2>3. control' = control \/ (control \in {"pending", "running"} /\ control' = "running")
    BY <1>4 DEF Tick, TypeInv, TypeOK, RunStatus, Terminal
  <2>4. CASE control' = control
    BY <2>1, <2>2, <2>4
  <2>5. CASE control \in {"pending", "running"} /\ control' = "running"
    <3>1. TaskView!Tick
      BY <2>1, <2>2, <2>5 DEF TaskView!Tick
    <3> QED BY <3>1
  <2> QED BY <2>3, <2>4, <2>5
<1>5. CASE Except
  <2>1. /\ at = "except" /\ at' = "force" /\ ~failed
        /\ UNCHANGED <<cancelled, control, verdict>>
    BY <1>5 DEF Except, MarkedInv, Unmarked
  <2> QED BY <2>1, PhaseOf, PhaseThen DEF Unmarked
<1>6. CASE ForceStop
  <2>1. /\ at = "force" /\ at' = "finally" /\ failed /\ failed' /\ ~cancelled
        /\ UNCHANGED <<cancelled, verdict>>
    BY <1>0, <1>6, ForceEffect DEF MarkedInv
  <2>2. control' = control \/ (control \notin Terminal /\ control' = "stopped")
    BY <1>6, StopEffect DEF ForceStop
  <2>3. Phase = "live" /\ Phase' = "closing"
    BY <2>1, PhaseOf, PhaseThen
  <2>4. TaskView!Fail
    BY <2>1, <2>2, <2>3 DEF TaskView!Fail, Terminal, TaskView!Terminal
  <2> QED BY <2>4
<1>7. CASE CloseNext \/ Closed
  <2>1. /\ at \in {"finally", "closing"} /\ at' \in {"finally", "closing"}
        /\ UNCHANGED <<cancelled, control, failed, verdict>>
    BY <1>7 DEF CloseNext, Closed
  <2> QED BY <2>1, PhaseOf, PhaseThen
<1>8. CASE Finalize
  <2>1. /\ at = "finally" /\ at' = "ended" /\ ~cancelled
        /\ verdict' = (IF failed THEN "partial" ELSE "diffed")
        /\ UNCHANGED <<cancelled, control, failed>>
    BY <1>0, <1>8 DEF Finalize
  <2>2. Phase = "closing" /\ Phase' = "ended"
    BY <2>1, PhaseOf, PhaseThen
  <2>3. TaskView!End
    BY <2>1, <2>2 DEF TaskView!End
  <2> QED BY <2>3
<1>9. CASE SleepCancelled \/ OpeningCancelled
  <2>1. /\ at \in Unmarked /\ at' = "finally" /\ cancelled /\ ~cancelled'
        /\ UNCHANGED <<control, failed, verdict>>
    BY <1>9 DEF SleepCancelled, OpeningCancelled, Unmarked
  <2>2. Phase = "live" /\ Phase' = "closing" /\ at # "force"
    BY <2>1, PhaseOf, PhaseThen DEF Unmarked
  <2>3. cancelled' = FALSE
    BY <1>9 DEF SleepCancelled, OpeningCancelled
  <2>4. TaskView!Leave
    BY <2>1, <2>2, <2>3 DEF TaskView!Leave
  <2> QED BY <2>4
<1>10. CASE ClosingCancelled
  <2>1. /\ at = "closing" /\ at' = "ended" /\ cancelled /\ cancelled' = FALSE
        /\ UNCHANGED <<control, failed, verdict>>
    BY <1>10 DEF ClosingCancelled
  <2>2. Phase = "closing" /\ Phase' = "ended"
    BY <2>1, PhaseOf, PhaseThen
  <2>3. TaskView!End
    BY <2>1, <2>2 DEF TaskView!End
  <2> QED BY <2>3
<1> QED BY <1>1, <1>2, <1>3, <1>4, <1>5, <1>6, <1>7, <1>8, <1>9, <1>10 DEF RunLoop

\* A step of anybody is a step of the contract, or none.
LEMMA StepKeepsContract ==
  ASSUME ContractInv, [Next]_vars
  PROVE  TaskView!Next \/ Stutter
<1> USE DEF ContractInv, Stutter, TaskView!vars, TaskView!Next
<1>1. CASE Start
  <2>1. TaskView!Create
    BY <1>1, PhaseOf, PhaseThen DEF Start, TaskView!Create
  <2> QED BY <2>1
<1>2. CASE RunLoop
  BY <1>2, RunLoopKeepsContract
<1>3. CASE \E p \in Ports : Pickup(p) \/ Complete(p)
  BY <1>3 DEF Pickup, Complete, Phase
<1>4. ASSUME NEW a \in ControlAction, Client(a) PROVE TaskView!Next
  <2>1. UNCHANGED <<Phase, failed /\ at # "force">>
    BY <1>4 DEF Client, Phase
  <2>2. TaskView!Request(a)
    BY <1>4, <2>1 DEF Client, TaskView!Request, AllowedFrom, Target, TaskView!AllowedFrom,
       TaskView!Target
  <2> QED BY <2>2 DEF ControlAction, TaskView!ControlAction
<1>5. ASSUME NEW s \in Stoppers, StopBegin(s) PROVE TaskView!Next \/ Stutter
  <2>1. UNCHANGED <<at, Phase, failed /\ at # "force", control, verdict>>
    BY <1>5 DEF StopBegin, Phase
  <2>2. CASE held /\ at \in Awaits \cup {"created"}
    <3>1. Phase \in {"created", "live", "closing"}
      BY <2>2, PhaseOf DEF Awaits, Unmarked
    <3>2. cancelled' = TRUE
      BY <1>5, <2>2 DEF StopBegin
    <3>3. TaskView!Cancel
      BY <2>1, <3>1, <3>2 DEF TaskView!Cancel
    <3> QED BY <3>3
  <2>3. CASE ~(held /\ at \in Awaits \cup {"created"})
    <3>1. cancelled' = cancelled
      BY <1>5, <2>3 DEF StopBegin, TypeInv, TypeOK
    <3> QED BY <2>1, <3>1
  <2> QED BY <2>2, <2>3
<1>6. ASSUME NEW s \in Stoppers, StopWake(s) PROVE Stutter
  BY <1>6 DEF StopWake, Phase
<1>7. ASSUME NEW s \in Stoppers, StopMirror(s) PROVE TaskView!Next \/ Stutter
  <2>1. UNCHANGED <<at, Phase, cancelled, failed, verdict>>
    BY <1>7, StopEffect DEF StopMirror, Phase
  <2>2. control' = control \/ (control \notin Terminal /\ control' = "stopped")
    BY <1>7, StopEffect DEF StopMirror
  <2>3. CASE control' = control
    BY <2>1, <2>3
  <2>4. CASE control \notin Terminal /\ control' = "stopped"
    <3>1. TaskView!Request("stop")
      BY <2>1, <2>4 DEF TaskView!Request, TaskView!AllowedFrom, TaskView!Target, TypeInv, TypeOK,
         RunStatus, Terminal
    <3> QED BY <3>1 DEF TaskView!ControlAction
  <2> QED BY <2>2, <2>3, <2>4
<1>8. CASE UNCHANGED vars
  BY <1>8 DEF vars, Phase
<1> QED BY <1>1, <1>2, <1>3, <1>4, <1>5, <1>6, <1>7, <1>8 DEF Next, Stop

\* The task, with its ports, its worker threads and its cancellations, implements the
\* contract that module RunService counts on.
THEOREM ContractKept == Spec => TaskKeepsContract
<1>1. Init => MarkedInv /\ TaskView!Init
  BY DEF Init, MarkedInv, Unmarked, TaskView!Init, Phase
<1>2. TypeInv /\ MarkedInv /\ [Next]_vars => MarkedInv'
  BY MarkedStep
<1>3. TypeInv /\ BrokenInv /\ EndInv /\ MarkedInv /\ [Next]_vars => [TaskView!Next]_(TaskView!vars)
  BY StepKeepsContract DEF ContractInv, Stutter
<1> QED BY <1>1, <1>2, <1>3, TypeCorrect, EndsEver, PTL
        DEF Spec, TaskView!Spec, TaskKeepsContract
===============================================================================
