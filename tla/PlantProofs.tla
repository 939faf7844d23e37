------------------------------ MODULE PlantProofs ------------------------------
(***************************************************************************)
(* What a plant guarantees, for every list of devices that the code        *)
(* accepts, every overlay, order, fault and draw.                          *)
(***************************************************************************)
EXTENDS Plant, WellFoundedInduction, TLAPS

-------------------------------------------------------------------------------
(***************************************************************************)
(* The limits of the devices with a store, for every configuration that    *)
(* the code accepts, every order and every fault.  Each theorem says that  *)
(* a predicate holds after initialize() and that apply_command(), the      *)
(* fault port and tick() preserve it.                                      *)
(***************************************************************************)
\* max(lo, min(hi, v)) is within lo..hi, wherever v was.
LEMMA LimitInRange ==
    ASSUME NEW lo \in Int, NEW hi \in Int, lo <= hi, NEW v \in Int
    PROVE  LimitTo(lo, hi, v) \in lo..hi
BY DEF LimitTo

-------------------------------------------------------------------------------
(***************************************************************************)
(* Battery                                                                 *)
(***************************************************************************)
BatteryOK(c, d) ==
    /\ d \in [power : Int, pending : Int, soc : Int, fault : BOOLEAN, told : Int, q : Int]
    /\ d.soc \in c.minSoc..c.maxSoc
    /\ d.power \in -c.maxDischarge..c.maxCharge
    /\ d.pending \in -c.maxDischarge..c.maxCharge

\* The energy of a tick is an integer, whichever way the power flows.
LEMMA BatteryEnergyInt ==
    ASSUME NEW c, BatteryConfigOK(c), NEW p \in Int
    PROVE  BatteryEnergy(c, p) \in Int
BY DEF BatteryEnergy, BatteryConfigOK

\* Between two set points within the limits the ramp stays within them, and the
\* derating of a failed cell only takes from a discharge.
LEMMA BatteryPower ==
    ASSUME NEW c, BatteryConfigOK(c), NEW d, BatteryOK(c, d)
    PROVE  Derated(c, d, Ramped(d, c.ramp)) \in -c.maxDischarge..c.maxCharge
<1> DEFINE ramped == Ramped(d, c.ramp)
<1>1. ramped \in -c.maxDischarge..c.maxCharge
  BY DEF BatteryOK, BatteryConfigOK, Ramped, LimitTo
<1>2. c.maxDischarge \in Nat /\ c.maxCharge \in Nat
  BY DEF BatteryConfigOK
<1>3. -(c.maxDischarge \div 2) \in -c.maxDischarge..0
  BY <1>2
<1> HIDE DEF ramped
<1>4. Derated(c, d, ramped) \in -c.maxDischarge..c.maxCharge
  BY <1>1, <1>2, <1>3 DEF Derated
<1> QED BY <1>4 DEF ramped

\* The state of charge of a battery never leaves its limits and its power never
\* its rating (BatteryDevice, GG-BESS-004/005).
THEOREM BatteryKeepsLimits ==
    ASSUME NEW c, BatteryConfigOK(c)
    PROVE  /\ BatteryOK(c, BatteryInit(c))
           /\ \A d : BatteryOK(c, d) =>
                 /\ \A v \in Int : BatteryOK(c, BatteryCommand(c, d, v).device)
                 /\ \A f \in BOOLEAN : BatteryOK(c, WithFault(d, f))
                 /\ BatteryOK(c, BatteryTick(c, d))
<1> USE DEF BatteryConfigOK
<1>1. BatteryOK(c, BatteryInit(c))
  BY DEF BatteryOK, BatteryInit
<1> SUFFICES ASSUME NEW d, BatteryOK(c, d)
             PROVE  /\ \A v \in Int : BatteryOK(c, BatteryCommand(c, d, v).device)
                    /\ \A f \in BOOLEAN : BatteryOK(c, WithFault(d, f))
                    /\ BatteryOK(c, BatteryTick(c, d))
  BY <1>1
<1>2. ASSUME NEW v \in Int
      PROVE  BatteryOK(c, BatteryCommand(c, d, v).device)
  BY DEF BatteryOK, BatteryCommand, Answered, Ordered, LimitTo
<1>3. ASSUME NEW f \in BOOLEAN
      PROVE  BatteryOK(c, WithFault(d, f))
  BY DEF BatteryOK, WithFault
<1>4. BatteryOK(c, BatteryTick(c, d))
  <2> DEFINE power  == Derated(c, d, Ramped(d, c.ramp))
             target == d.soc + BatteryEnergy(c, power)
  <2>1. power \in -c.maxDischarge..c.maxCharge
    BY BatteryPower
  <2>2. power \in Int
    BY <2>1
  <2>3. target \in Int
    BY <2>2, BatteryEnergyInt DEF BatteryOK
  <2>4. Magnitude(power) * c.reactive \in Int
    BY <2>2 DEF Magnitude
  <2>5. BatteryTick(c, d) =
          IF BatterySaturates(c, target)
          THEN [Reports(d, 0) EXCEPT !.soc = LimitTo(c.minSoc, c.maxSoc, target),
                                     !.pending = 0, !.q = 0]
          ELSE [Reports(d, power) EXCEPT !.soc = target, !.q = Magnitude(power) * c.reactive]
    BY DEF BatteryTick
  <2>6. /\ c.minSoc \in Int /\ c.maxSoc \in Int /\ c.minSoc <= c.maxSoc
        /\ 0 \in -c.maxDischarge..c.maxCharge
    OBVIOUS
  <2> HIDE DEF power, target
  <2>7. ASSUME NEW e, BatteryOK(c, e), NEW p \in -c.maxDischarge..c.maxCharge
        PROVE  BatteryOK(c, Reports(e, p)) /\ BatteryOK(c, [e EXCEPT !.pending = p])
    <3>1. p \in Int
      BY <2>7
    <3>2. BatteryOK(c, [e EXCEPT !.pending = p])
      BY <2>7, <3>1 DEF BatteryOK
    <3>3. BatteryOK(c, [e EXCEPT !.power = p])
      BY <2>7, <3>1 DEF BatteryOK
    <3>4. BatteryOK(c, [[e EXCEPT !.power = p] EXCEPT !.told = p])
      BY <3>3, <3>1 DEF BatteryOK
    <3> QED BY <3>2, <3>4 DEF Reports
  <2>8. ASSUME NEW e, BatteryOK(c, e)
         PROVE  /\ \A x \in c.minSoc..c.maxSoc : BatteryOK(c, [e EXCEPT !.soc = x])
                /\ \A x \in Int : BatteryOK(c, [e EXCEPT !.q = x])
    BY <2>6, <2>8 DEF BatteryOK
  <2>9. CASE BatterySaturates(c, target)
    <3>1. LimitTo(c.minSoc, c.maxSoc, target) \in c.minSoc..c.maxSoc
      BY <2>3, <2>6, LimitInRange
    <3>2. BatteryOK(c, [Reports(d, 0) EXCEPT !.soc = LimitTo(c.minSoc, c.maxSoc, target)])
      BY <3>1, <2>6, <2>7, <2>8
    <3>3. BatteryOK(c, [Reports(d, 0) EXCEPT !.soc = LimitTo(c.minSoc, c.maxSoc, target),
                                             !.pending = 0])
      BY <3>2, <2>6, <2>7
    <3>4. 0 \in Int
      OBVIOUS
    <3>5. BatteryOK(c, [Reports(d, 0) EXCEPT !.soc = LimitTo(c.minSoc, c.maxSoc, target),
                                             !.pending = 0, !.q = 0])
      BY <3>3, <3>4, <2>8
    <3> QED BY <3>5, <2>5, <2>9
  <2>10. CASE ~BatterySaturates(c, target)
    <3>1. target \in c.minSoc..c.maxSoc
      BY <2>3, <2>6, <2>10 DEF BatterySaturates
    <3>2. BatteryOK(c, [Reports(d, power) EXCEPT !.soc = target])
      BY <3>1, <2>1, <2>7, <2>8
    <3>3. BatteryOK(c, [Reports(d, power) EXCEPT !.soc = target,
                                                 !.q = Magnitude(power) * c.reactive])
      BY <3>2, <2>4, <2>8
    <3> QED BY <3>3, <2>5, <2>10
  <2> QED BY <2>9, <2>10
<1> QED BY <1>2, <1>3, <1>4

-------------------------------------------------------------------------------
(***************************************************************************)
(* EV charger                                                              *)
(***************************************************************************)
EvOK(c, d) ==
    /\ d \in [power : Int, pending : Int, stored : Int, plugged : BOOLEAN, fault : BOOLEAN,
              told : Int, q : Int]
    /\ d.stored \in 0..c.capacity
    /\ d.power \in -c.maxDischarge..c.maxCharge
    /\ d.pending \in -c.maxDischarge..c.maxCharge

\* The taper only takes from the rated power.
LEMMA EvTaper ==
    ASSUME NEW c, EvConfigOK(c), NEW d, EvOK(c, d)
    PROVE  EvMaxCharge(c, d) \in 0..c.maxCharge
<1> DEFINE most == c.maxCharge
           left == c.capacity - d.stored
           span == c.capacity - c.taperFrom
<1>1. most \in Nat /\ left \in Nat /\ span \in Nat \ {0}
  BY DEF EvConfigOK, EvOK
<1>2. CASE d.stored < c.taperFrom
  BY <1>1, <1>2 DEF EvMaxCharge
<1>3. CASE ~(d.stored < c.taperFrom)
  <2>1. left <= span
    BY <1>3 DEF EvConfigOK, EvOK
  <2>2. EvMaxCharge(c, d) = (most * left) \div span
    BY <1>3 DEF EvMaxCharge
  <2> HIDE DEF most, left, span
  <2>3. most * left \in Nat /\ most * left <= most * span
    BY <1>1, <2>1
  <2>4. (most * left) \div span \in 0..most
    BY <1>1, <2>3
  <2> QED BY <2>2, <2>4 DEF most
<1> QED BY <1>2, <1>3

\* A vehicle is never charged beyond its capacity nor below nothing, and the power
\* never leaves the rating, whatever is plugged in and out (EvChargerDevice).
THEOREM EvKeepsLimits ==
    ASSUME NEW c, EvConfigOK(c)
    PROVE  /\ EvOK(c, EvInit(c))
           /\ \A d : EvOK(c, d) =>
                 /\ \A v \in Int : EvOK(c, EvCommand(c, d, v).device)
                 /\ \A f \in BOOLEAN : EvOK(c, EvPlug(d, f).device) /\ EvOK(c, WithFault(d, f))
                 /\ EvOK(c, EvTick(c, d))
<1>1. /\ c.maxCharge \in Nat /\ c.maxDischarge \in Nat /\ c.capacity \in Nat
      /\ c.stored0 \in 0..c.capacity /\ c.plugged0 \in BOOLEAN
  BY DEF EvConfigOK
<1>2. EvOK(c, EvInit(c))
  BY <1>1 DEF EvOK, EvInit
<1> SUFFICES ASSUME NEW d, EvOK(c, d)
             PROVE  /\ \A v \in Int : EvOK(c, EvCommand(c, d, v).device)
                    /\ \A f \in BOOLEAN :
                          EvOK(c, EvPlug(d, f).device) /\ EvOK(c, WithFault(d, f))
                    /\ EvOK(c, EvTick(c, d))
  BY <1>2
<1>3. ASSUME NEW v \in Int
      PROVE  EvOK(c, EvCommand(c, d, v).device)
  BY <1>1 DEF EvOK, EvCommand, Answered, Ordered, LimitTo
<1>4. ASSUME NEW f \in BOOLEAN
      PROVE  EvOK(c, EvPlug(d, f).device)
  <2>1. EvOK(c, [d EXCEPT !.plugged = f])
    BY <1>4 DEF EvOK
  <2>2. 0 \in -c.maxDischarge..c.maxCharge /\ d.pending \in -c.maxDischarge..c.maxCharge
    BY <1>1 DEF EvOK
  <2>3. ASSUME NEW e, EvOK(c, e), NEW x \in -c.maxDischarge..c.maxCharge
        PROVE  EvOK(c, [e EXCEPT !.pending = x])
    BY <1>1, <2>3 DEF EvOK
  <2>4. EvPlug(d, f).device
          = [d EXCEPT !.plugged = f, !.pending = IF f THEN d.pending ELSE 0]
    BY DEF EvPlug, Answered, EvOK
  <2> DEFINE pending == IF f THEN d.pending ELSE 0
  <2>5. pending \in -c.maxDischarge..c.maxCharge
    BY <2>2
  <2> HIDE DEF pending
  <2>6. EvOK(c, [d EXCEPT !.plugged = f, !.pending = pending])
    BY <2>1, <2>3, <2>5
  <2> QED BY <2>4, <2>6 DEF pending
<1>5. ASSUME NEW f \in BOOLEAN
      PROVE  EvOK(c, WithFault(d, f))
  BY DEF EvOK, WithFault
<1>6. EvOK(c, EvTick(c, d))
  <2> DEFINE wanted == IF ~d.plugged \/ d.fault
                       THEN 0
                       ELSE LimitTo(-c.maxDischarge, EvMaxCharge(c, d), d.pending)
             power  == LimitTo(-d.stored, c.capacity - d.stored, wanted)
  <2>1. EvMaxCharge(c, d) \in 0..c.maxCharge
    BY EvTaper
  <2>2. wanted \in -c.maxDischarge..c.maxCharge
    BY <1>1, <2>1 DEF EvOK, LimitTo
  <2>3. d.stored \in Nat /\ c.capacity - d.stored \in Nat
    BY <1>1 DEF EvOK
  <2>4. EvTick(c, d) = [Reports(d, power) EXCEPT !.stored = @ + power]
    BY DEF EvTick
  <2> HIDE DEF wanted
  <2>5. power \in -c.maxDischarge..c.maxCharge
    BY <1>1, <2>2, <2>3 DEF LimitTo
  <2>6. power \in -d.stored..(c.capacity - d.stored)
    BY <1>1, <2>2, <2>3 DEF LimitTo
  <2> HIDE DEF power
  <2>7. d.stored + power \in 0..c.capacity
    BY <1>1, <2>3, <2>6
  <2>8. power \in Int
    BY <1>1, <2>5
  <2>9. EvOK(c, [d EXCEPT !.power = power])
    BY <2>5, <2>8 DEF EvOK
  <2>10. EvOK(c, Reports(d, power)) /\ Reports(d, power).stored = d.stored
    BY <2>8, <2>9 DEF EvOK, Reports
  <2>11. EvOK(c, [Reports(d, power) EXCEPT !.stored = d.stored + power])
    BY <2>7, <2>10 DEF EvOK
  <2> QED BY <2>4, <2>10, <2>11
<1> QED BY <1>3, <1>4, <1>5, <1>6

-------------------------------------------------------------------------------
(***************************************************************************)
(* Diesel generator                                                        *)
(***************************************************************************)
DieselOK(c, d) ==
    /\ d \in [power : Int, pending : Int, fuel : Int, running : BOOLEAN, fault : BOOLEAN,
              told : Int, q : Int]
    /\ d.fuel \in Nat
    /\ d.power \in 0..c.maxPower
    /\ d.pending \in 0..c.maxPower

\* The tank is never overdrawn and the power never leaves the rating; a tick takes
\* no more fuel than there is (DieselGeneratorDevice._consume_fuel).
THEOREM DieselKeepsLimits ==
    ASSUME NEW c, DieselConfigOK(c)
    PROVE  /\ DieselOK(c, DieselInit(c))
           /\ \A d : DieselOK(c, d) =>
                 /\ \A v \in Int : DieselOK(c, Ordered(d, 0, c.maxPower, v).device)
                 /\ \A f \in BOOLEAN : DieselOK(c, WithFault(d, f))
                 /\ DieselOK(c, DieselTick(c, d))
                 /\ DieselTick(c, d).fuel <= d.fuel
<1>1. /\ c.maxPower \in Nat /\ c.rate \in Nat \ {0} /\ c.ramp \in Nat /\ c.fuel0 \in Nat
  BY DEF DieselConfigOK
<1>2. DieselOK(c, DieselInit(c))
  BY <1>1 DEF DieselOK, DieselInit
<1> SUFFICES ASSUME NEW d, DieselOK(c, d)
             PROVE  /\ \A v \in Int : DieselOK(c, Ordered(d, 0, c.maxPower, v).device)
                    /\ \A f \in BOOLEAN : DieselOK(c, WithFault(d, f))
                    /\ DieselOK(c, DieselTick(c, d))
                    /\ DieselTick(c, d).fuel <= d.fuel
  BY <1>2
<1>3. ASSUME NEW v \in Int
      PROVE  DieselOK(c, Ordered(d, 0, c.maxPower, v).device)
  BY <1>1 DEF DieselOK, Answered, Ordered, LimitTo
<1>4. ASSUME NEW f \in BOOLEAN
      PROVE  DieselOK(c, WithFault(d, f))
  BY DEF DieselOK, WithFault
<1>5. DieselOK(c, DieselTick(c, d)) /\ DieselTick(c, d).fuel <= d.fuel
  <2> DEFINE runs   == DieselRuns(c, d)
             wanted == IF runs THEN LimitTo(0, c.maxPower, Ramped(d, c.ramp)) ELSE 0
             enough == wanted * c.rate <= d.fuel
             power  == IF enough THEN wanted ELSE d.fuel \div c.rate
             fuel   == IF enough THEN d.fuel - wanted * c.rate ELSE 0
  <2>1. d.fuel \in Nat
    BY DEF DieselOK
  <2>2. Ramped(d, c.ramp) \in Int
    BY <1>1 DEF DieselOK, Ramped, LimitTo
  <2>3. wanted \in 0..c.maxPower
    BY <1>1, <2>2 DEF LimitTo
  <2>4. runs \in BOOLEAN
    BY DEF DieselRuns
  <2>5. DieselTick(c, d)
          = [Reports(d, power) EXCEPT !.running = runs, !.fuel = IF enough THEN @ - wanted * c.rate
                                                                 ELSE 0]
    BY DEF DieselTick
  <2> HIDE DEF runs, wanted
  <2>6. wanted * c.rate \in Nat
    BY <1>1, <2>3
  <2>7. fuel \in Nat /\ fuel <= d.fuel
    BY <2>1, <2>6
  <2>8. power \in 0..c.maxPower
    <3>1. CASE enough
      BY <3>1, <2>3
    <3>2. CASE ~enough
      <4>1. d.fuel < wanted * c.rate
        BY <3>2, <2>1, <2>6
      <4>2. d.fuel \div c.rate \in 0..wanted
        BY <4>1, <1>1, <2>1, <2>3
      <4> QED BY <4>2, <3>2, <1>1, <2>3
    <3> QED BY <3>1, <3>2
  <2>9. Reports(d, power).fuel = d.fuel
    BY DEF DieselOK, Reports
  <2>10. DieselTick(c, d) = [Reports(d, power) EXCEPT !.running = runs, !.fuel = fuel]
    BY <2>5, <2>9 DEF DieselOK, Reports
  <2> HIDE DEF enough, power, fuel
  <2>11. power \in Int
    BY <1>1, <2>8
  <2>12. DieselOK(c, [d EXCEPT !.power = power])
    BY <2>8, <2>11 DEF DieselOK
  <2>13. DieselOK(c, Reports(d, power))
    BY <2>11, <2>12 DEF DieselOK, Reports
  <2>14. DieselOK(c, [Reports(d, power) EXCEPT !.running = runs])
    BY <2>4, <2>13 DEF DieselOK
  <2>15. ASSUME NEW e, DieselOK(c, e)
         PROVE  DieselOK(c, [e EXCEPT !.fuel = fuel]) /\ [e EXCEPT !.fuel = fuel].fuel = fuel
    BY <2>7, <2>15 DEF DieselOK
  <2> QED BY <2>7, <2>10, <2>14, <2>15
<1> QED BY <1>3, <1>4, <1>5

-------------------------------------------------------------------------------
(***************************************************************************)
(* Sums over the devices.  A sum is a recursive function of the number of  *)
(* devices; what it does is an induction over that number, which is here   *)
(* the least number for which it would fail.                               *)
(***************************************************************************)

\* A set of natural numbers has a least element.
LEMMA Least ==
    ASSUME NEW T, T \subseteq Nat, T # {}
    PROVE  \E m \in T : \A k \in T : m <= k
<1>1. IsWellFoundedOn(OpToRel(<, Nat), Nat)
  BY NatLessThanWellFounded
<1>2. \E m \in T : \A k \in T : ~(<<k, m>> \in OpToRel(<, Nat))
  BY <1>1, WFMin
<1>3. ASSUME NEW k \in Nat, NEW m \in Nat, k < m
      PROVE  <<k, m>> \in OpToRel(<, Nat)
  BY <1>3 DEF OpToRel
<1>4. PICK m \in T : \A k \in T : ~(<<k, m>> \in OpToRel(<, Nat))
  BY <1>2
<1>5. ASSUME NEW k \in T PROVE m <= k
  <2>1. ~(k < m)
    BY <1>3, <1>4
  <2> QED
    BY <2>1
<1> QED
  BY <1>5

\* What holds of 0, and of k + 1 when it holds of k, holds of every number up to n.
LEMMA UpTo ==
    ASSUME NEW n \in Nat, NEW S, 0 \in S, \A k \in 0..(n - 1) : k \in S => k + 1 \in S
    PROVE  0..n \subseteq S
<1> DEFINE T == {k \in 0..n : k \notin S}
<1>1. ASSUME T # {} PROVE FALSE
  <2>1. T \subseteq Nat
    OBVIOUS
  <2>2. PICK m \in T : \A k \in T : m <= k
    BY <1>1, <2>1, Least
  <2>3. m # 0 /\ m - 1 \in 0..(n - 1) /\ (m - 1) + 1 = m
    BY <2>2
  <2>4. m - 1 \in S
    BY <2>2, <2>3
  <2> QED
    BY <2>2, <2>3, <2>4
<1> QED
  BY <1>1

\* The partial sums of f: u[0] = 0, u[i] = u[i - 1] + f[i].
PartialSums(f, n, u) == u = [i \in 0..n |-> IF i = 0 THEN 0 ELSE u[i - 1] + f[i]]

\* There are partial sums, so the recursive function has the values it is written with.
LEMMA SumUnfolds ==
    ASSUME NEW n \in Nat, NEW f
    PROVE  \E u : PartialSums(f, n, u) /\ SumTo(f, n) = u[n]
<1> DEFINE S == {k \in 0..n : \E u : PartialSums(f, k, u)}
<1>1. 0 \in S
  <2> DEFINE u == [i \in 0..0 |-> 0]
  <2>1. PartialSums(f, 0, u)
    BY DEF PartialSums
  <2> QED
    BY <2>1
<1>2. ASSUME NEW k \in 0..(n - 1), k \in S PROVE k + 1 \in S
  <2>1. PICK u : PartialSums(f, k, u)
    BY <1>2
  <2> DEFINE w == [i \in 0..(k + 1) |-> IF i = k + 1 THEN u[k] + f[k + 1] ELSE u[i]]
  <2>2. ASSUME NEW i \in 0..(k + 1)
        PROVE  w[i] = IF i = 0 THEN 0 ELSE w[i - 1] + f[i]
    BY <2>1 DEF PartialSums
  <2>3. PartialSums(f, k + 1, w)
    BY <2>2 DEF PartialSums
  <2> HIDE DEF w
  <2> QED
    BY <2>3
<1>3. \E u : PartialSums(f, n, u)
  <2>1. 0..n \subseteq S
    BY <1>1, <1>2, UpTo
  <2> QED
    BY <2>1
<1> DEFINE upTo == CHOOSE u : u = [i \in 0..n |-> IF i = 0 THEN 0 ELSE u[i - 1] + f[i]]
<1>4. PartialSums(f, n, upTo)
  BY <1>3 DEF PartialSums
<1>5. SumTo(f, n) = upTo[n]
  BY DEF SumTo
<1> HIDE DEF upTo
<1> QED
  BY <1>4, <1>5

\* A sum of integers is one, and so is each of its partial sums.
LEMMA SumTyped ==
    ASSUME NEW n \in Nat, NEW f \in [1..n -> Int], NEW u, PartialSums(f, n, u)
    PROVE  /\ u[0] = 0 /\ \A i \in 1..n : u[i] = u[i - 1] + f[i]
           /\ \A i \in 0..n : u[i] \in Int
<1>1. u[0] = 0 /\ \A i \in 1..n : u[i] = u[i - 1] + f[i]
  BY DEF PartialSums
<1> DEFINE S == {k \in 0..n : u[k] \in Int}
<1>2. 0 \in S
  BY <1>1
<1>3. ASSUME NEW k \in 0..(n - 1), k \in S PROVE k + 1 \in S
  <2>1. k + 1 \in 1..n /\ (k + 1) - 1 = k
    OBVIOUS
  <2> QED
    BY <1>1, <1>3, <2>1
<1>4. 0..n \subseteq S
  BY <1>2, <1>3, UpTo
<1> QED
  BY <1>1, <1>4

\* The sum over two disjoint sets of devices is the sum of both sums.
LEMMA SumAdds ==
    ASSUME NEW n \in Nat, NEW f \in [1..n -> Int], NEW g \in [1..n -> Int],
           NEW h \in [1..n -> Int], \A i \in 1..n : f[i] = g[i] + h[i]
    PROVE  /\ SumTo(f, n) \in Int /\ SumTo(g, n) \in Int /\ SumTo(h, n) \in Int
           /\ SumTo(f, n) = SumTo(g, n) + SumTo(h, n)
<1>1. PICK u : PartialSums(f, n, u) /\ SumTo(f, n) = u[n]
  BY SumUnfolds
<1>2. PICK v : PartialSums(g, n, v) /\ SumTo(g, n) = v[n]
  BY SumUnfolds
<1>3. PICK w : PartialSums(h, n, w) /\ SumTo(h, n) = w[n]
  BY SumUnfolds
<1>4. u[0] = 0 /\ (\A i \in 1..n : u[i] = u[i - 1] + f[i]) /\ \A i \in 0..n : u[i] \in Int
  BY <1>1, SumTyped
<1>5. v[0] = 0 /\ (\A i \in 1..n : v[i] = v[i - 1] + g[i]) /\ \A i \in 0..n : v[i] \in Int
  BY <1>2, SumTyped
<1>6. w[0] = 0 /\ (\A i \in 1..n : w[i] = w[i - 1] + h[i]) /\ \A i \in 0..n : w[i] \in Int
  BY <1>3, SumTyped
<1> DEFINE S == {k \in 0..n : u[k] = v[k] + w[k]}
<1>7. 0 \in S
  BY <1>4, <1>5, <1>6
<1>8. ASSUME NEW k \in 0..(n - 1), k \in S PROVE k + 1 \in S
  <2>1. k + 1 \in 1..n /\ (k + 1) - 1 = k /\ k \in 0..n
    OBVIOUS
  <2>2. /\ u[k + 1] = u[k] + f[k + 1] /\ v[k + 1] = v[k] + g[k + 1]
        /\ w[k + 1] = w[k] + h[k + 1]
    BY <1>4, <1>5, <1>6, <2>1
  <2>3. /\ u[k] \in Int /\ v[k] \in Int /\ w[k] \in Int
        /\ f[k + 1] \in Int /\ g[k + 1] \in Int /\ h[k + 1] \in Int
        /\ f[k + 1] = g[k + 1] + h[k + 1]
    BY <1>4, <1>5, <1>6, <2>1
  <2>4. u[k] = v[k] + w[k]
    BY <1>8
  <2>5. u[k + 1] = v[k + 1] + w[k + 1]
    BY <2>2, <2>3, <2>4
  <2> QED
    BY <2>1, <2>5
<1>9. n \in S /\ n \in 0..n
  <2>1. 0..n \subseteq S
    <3> HIDE DEF S
    <3> QED
      BY <1>7, <1>8, UpTo
  <2> QED
    BY <2>1
<1>10. u[n] = v[n] + w[n]
  BY <1>9
<1>11. u[n] \in Int /\ v[n] \in Int /\ w[n] \in Int
  BY <1>4, <1>5, <1>6, <1>9
<1> HIDE DEF S
<1> QED
  BY <1>1, <1>2, <1>3, <1>10, <1>11

\* The sum over one device is its value; over none it is nothing.
LEMMA SumOfOne ==
    ASSUME NEW n \in Nat, NEW j \in 1..n, NEW f \in [1..n -> Int],
           \A i \in 1..n : i # j => f[i] = 0
    PROVE  SumTo(f, n) = f[j]
<1>1. PICK u : PartialSums(f, n, u) /\ SumTo(f, n) = u[n]
  BY SumUnfolds
<1>2. u[0] = 0 /\ (\A i \in 1..n : u[i] = u[i - 1] + f[i]) /\ \A i \in 0..n : u[i] \in Int
  BY <1>1, SumTyped
<1> DEFINE S == {k \in 0..n : u[k] = IF k < j THEN 0 ELSE f[j]}
<1>3. 0 \in S
  BY <1>2
<1>4. ASSUME NEW k \in 0..(n - 1), k \in S PROVE k + 1 \in S
  <2>1. k + 1 \in 1..n /\ (k + 1) - 1 = k
    OBVIOUS
  <2>2. u[k + 1] = u[k] + f[k + 1]
    BY <1>2, <2>1
  <2>3. u[k] = IF k < j THEN 0 ELSE f[j]
    BY <1>4
  <2>4. k + 1 # j => f[k + 1] = 0
    BY <2>1
  <2>5. u[k + 1] = IF k + 1 < j THEN 0 ELSE f[j]
    BY <2>2, <2>3, <2>4
  <2> QED
    BY <2>1, <2>5
<1>5. n \in S
  <2>1. 0..n \subseteq S
    <3> HIDE DEF S
    <3> QED
      BY <1>3, <1>4, UpTo
  <2> QED
    BY <2>1
<1>6. u[n] = f[j]
  BY <1>5
<1> QED
  BY <1>1, <1>6

-------------------------------------------------------------------------------
(***************************************************************************)
(* One device: what its state is, and what its tick reports.  The stores   *)
(* have been the subject above.                                            *)
(***************************************************************************)
RatedOK(c, d) ==
    /\ d \in [power : Int, pending : Int, told : Int, q : Int]
    /\ d.pending \in 0..c.rated

ConnectionOK(c, d) ==
    /\ d \in [power : Int, pending : Int, pendingQ : Int, told : Int, q : Int]
    /\ d.pending \in -c.maxExport..c.maxImport

TransformerOK(d) == d \in [power : Int, pending : Int, fault : BOOLEAN, told : Int, q : Int]

WindOK(d) == d \in [power : Int, told : Int, q : Int]

MeterOK(d) == d \in [attached : BOOLEAN, told : Int, q : Int]

KindOK(c, d) ==
    /\ c.kind = "battery" => BatteryOK(c, d)
    /\ c.kind = "ev_charger" => EvOK(c, d)
    /\ c.kind = "diesel_generator" => DieselOK(c, d)
    /\ c.kind \in {"load", "pv"} => RatedOK(c, d)
    /\ c.kind = "grid_connection" => ConnectionOK(c, d)
    /\ c.kind = "transformer" => TransformerOK(d)
    /\ c.kind = "wind_turbine" => WindOK(d)
    /\ c.kind = "smart_meter" => MeterOK(d)

\* What DevicesWithinLimits says of a device, before the first tick as well.
InLimits(c, d) ==
    /\ c.kind = "battery" =>
          /\ d.soc \in c.minSoc..c.maxSoc
          /\ d.told <= c.maxCharge
          /\ -d.told <= IF d.fault THEN c.maxDischarge \div 2 ELSE c.maxDischarge
    /\ c.kind = "ev_charger" =>
          /\ d.stored \in 0..c.capacity
          /\ d.told \in -c.maxDischarge..c.maxCharge
          /\ (d.fault \/ ~d.plugged) => d.told = 0
    /\ c.kind = "diesel_generator" =>
          /\ d.told \in 0..c.maxPower
          /\ d.fault => d.told = 0
    /\ c.kind \in {"load", "pv", "wind_turbine"} => d.told \in 0..c.rated
    /\ c.kind = "grid_connection" => d.told \in -c.maxExport..c.maxImport

\* Every device reports an integer.
LEMMA KindTells ==
    ASSUME NEW c, c.kind \in Kinds, NEW d, KindOK(c, d)
    PROVE  d.told \in Int /\ d.q \in Int
<1> USE DEF KindOK
<1>1. CASE c.kind = "battery"
  BY <1>1 DEF BatteryOK
<1>2. CASE c.kind = "ev_charger"
  BY <1>2 DEF EvOK
<1>3. CASE c.kind = "diesel_generator"
  BY <1>3 DEF DieselOK
<1>4. CASE c.kind \in {"load", "pv"}
  BY <1>4 DEF RatedOK
<1>5. CASE c.kind = "grid_connection"
  BY <1>5 DEF ConnectionOK
<1>6. CASE c.kind = "transformer"
  BY <1>6 DEF TransformerOK
<1>7. CASE c.kind = "wind_turbine"
  BY <1>7 DEF WindOK
<1>8. CASE c.kind = "smart_meter"
  BY <1>8 DEF MeterOK
<1> QED
  BY <1>1, <1>2, <1>3, <1>4, <1>5, <1>6, <1>7, <1>8 DEF Kinds

\* A device that was just built.
LEMMA FreshOK ==
    ASSUME NEW c, DeviceConfigOK(c)
    PROVE  KindOK(c, Fresh(c)) /\ InLimits(c, Fresh(c))
<1>1. CASE c.kind = "battery"
  <2>1. Fresh(c) = BatteryInit(c) /\ BatteryConfigOK(c)
    BY <1>1 DEF Fresh, DeviceConfigOK
  <2>2. BatteryOK(c, Fresh(c))
    BY <2>1, BatteryKeepsLimits
  <2>3. InLimits(c, Fresh(c))
    BY <1>1, <2>1 DEF InLimits, BatteryInit, BatteryConfigOK
  <2> QED
    BY <1>1, <2>2, <2>3 DEF KindOK
<1>2. CASE c.kind = "ev_charger"
  <2>1. Fresh(c) = EvInit(c) /\ EvConfigOK(c)
    BY <1>2 DEF Fresh, DeviceConfigOK
  <2>2. EvOK(c, Fresh(c))
    BY <2>1, EvKeepsLimits
  <2>3. InLimits(c, Fresh(c))
    BY <1>2, <2>1 DEF InLimits, EvInit, EvConfigOK
  <2> QED
    BY <1>2, <2>2, <2>3 DEF KindOK
<1>3. CASE c.kind = "diesel_generator"
  <2>1. Fresh(c) = DieselInit(c) /\ DieselConfigOK(c)
    BY <1>3 DEF Fresh, DeviceConfigOK
  <2>2. DieselOK(c, Fresh(c))
    BY <2>1, DieselKeepsLimits
  <2>3. InLimits(c, Fresh(c))
    BY <1>3, <2>1 DEF InLimits, DieselInit, DieselConfigOK
  <2> QED
    BY <1>3, <2>2, <2>3 DEF KindOK
<1>4. CASE c.kind \in {"load", "pv"}
  <2>1. Fresh(c) = [power |-> c.rated, pending |-> c.rated, told |-> 0, q |-> 0] /\ c.rated \in Nat
    BY <1>4 DEF Fresh, RatedInit, DeviceConfigOK
  <2> QED
    BY <1>4, <2>1 DEF KindOK, InLimits, RatedOK
<1>5. CASE c.kind = "grid_connection"
  <2>1. /\ Fresh(c) = [power |-> 0, pending |-> 0, pendingQ |-> 0, told |-> 0, q |-> 0]
        /\ c.maxImport \in Nat /\ c.maxExport \in Nat
    BY <1>5 DEF Fresh, ConnectionInit, DeviceConfigOK
  <2> QED
    BY <1>5, <2>1 DEF KindOK, InLimits, ConnectionOK
<1>6. CASE c.kind = "transformer"
  BY <1>6 DEF Fresh, TransformerInit, KindOK, InLimits, TransformerOK
<1>7. CASE c.kind = "wind_turbine"
  BY <1>7 DEF Fresh, WindInit, DeviceConfigOK, KindOK, InLimits, WindOK
<1>8. CASE c.kind = "smart_meter"
  BY <1>8 DEF Fresh, MeterInit, KindOK, InLimits, MeterOK
<1> QED
  BY <1>1, <1>2, <1>3, <1>4, <1>5, <1>6, <1>7, <1>8 DEF DeviceConfigOK, Kinds

\* An order changes the set point within the limits; whatever it is, and whoever gives it.
LEMMA CommandOK ==
    ASSUME NEW c, DeviceConfigOK(c), NEW d, KindOK(c, d),
           NEW o, o.value \in Int, o.q \subseteq Int
    PROVE  KindOK(c, Command(c, d, o).device)
<1> DEFINE e == Command(c, d, o).device
<1>1. CASE c.kind = "battery"
  <2>1. BatteryConfigOK(c) /\ BatteryOK(c, d)
    BY <1>1 DEF DeviceConfigOK, KindOK
  <2>2. e = d \/ e = BatteryCommand(c, d, o.value).device
    BY <1>1 DEF Command, Answered
  <2>3. BatteryOK(c, e)
    BY <2>1, <2>2, BatteryKeepsLimits
  <2> QED
    BY <1>1, <2>3 DEF KindOK
<1>2. CASE c.kind = "ev_charger"
  <2>1. EvConfigOK(c) /\ EvOK(c, d)
    BY <1>2 DEF DeviceConfigOK, KindOK
  <2>2. \/ e = d \/ e = EvCommand(c, d, o.value).device
        \/ e = EvPlug(d, o.value = 1).device
    BY <1>2 DEF Command, Answered
  <2>3. EvOK(c, EvPlug(d, o.value = 1).device)
    <3>1. CASE o.value = 1
      <4>1. EvPlug(d, o.value = 1) = EvPlug(d, TRUE)
        BY <3>1
      <4> QED
        BY <2>1, <4>1, EvKeepsLimits
    <3>2. CASE o.value # 1
      <4>1. EvPlug(d, o.value = 1) = EvPlug(d, FALSE)
        BY <3>2
      <4> QED
        BY <2>1, <4>1, EvKeepsLimits
    <3> QED
      BY <3>1, <3>2
  <2>4. EvOK(c, e)
    BY <2>1, <2>2, <2>3, EvKeepsLimits
  <2> QED
    BY <1>2, <2>4 DEF KindOK
<1>3. CASE c.kind = "diesel_generator"
  <2>1. DieselConfigOK(c) /\ DieselOK(c, d)
    BY <1>3 DEF DeviceConfigOK, KindOK
  <2>2. e = d \/ e = Ordered(d, 0, c.maxPower, o.value).device
    BY <1>3 DEF Command, Answered
  <2>3. DieselOK(c, e)
    BY <2>1, <2>2, DieselKeepsLimits
  <2> QED
    BY <1>3, <2>3 DEF KindOK
<1>4. CASE c.kind \in {"load", "pv"}
  <2>1. c.rated \in Nat /\ RatedOK(c, d)
    BY <1>4 DEF DeviceConfigOK, KindOK
  <2>2. e = d \/ e = [d EXCEPT !.pending = LimitTo(0, c.rated, o.value)]
    BY <1>4 DEF Command, Answered, OrderedUpTo, Ordered
  <2>3. LimitTo(0, c.rated, o.value) \in 0..c.rated
    <3>1. 0 \in Int /\ c.rated \in Int /\ 0 <= c.rated
      BY <2>1
    <3> QED
      BY <3>1, LimitInRange
  <2>4. RatedOK(c, e)
    BY <2>1, <2>2, <2>3 DEF RatedOK
  <2> QED
    BY <1>4, <2>4 DEF KindOK
<1>5. CASE c.kind = "grid_connection"
  <2>1. c.maxImport \in Nat /\ c.maxExport \in Nat /\ ConnectionOK(c, d)
    BY <1>5 DEF DeviceConfigOK, KindOK
  <2> DEFINE set == LimitTo(-c.maxExport, c.maxImport, o.value)
  <2>2. set \in -c.maxExport..c.maxImport
    <3>1. -c.maxExport \in Int /\ c.maxImport \in Int /\ -c.maxExport <= c.maxImport
      BY <2>1
    <3> QED
      BY <3>1, LimitInRange
  <2>3. \/ e = d
        \/ e = [d EXCEPT !.pending = set]
        \/ \E x \in Int : e = [[d EXCEPT !.pending = set] EXCEPT !.pendingQ = x]
    <3>1. CASE o.type # "set_power_kw"
      BY <1>5, <3>1 DEF Command, Answered
    <3>2. CASE o.type = "set_power_kw" /\ o.q = {}
      BY <1>5, <3>2 DEF Command, ConnectionCommand, Ordered, Answered
    <3>3. CASE o.type = "set_power_kw" /\ o.q # {}
      <4>1. (CHOOSE x \in o.q : TRUE) \in Int
        BY <3>3
      <4>2. e = [[d EXCEPT !.pending = set] EXCEPT !.pendingQ = CHOOSE x \in o.q : TRUE]
        BY <1>5, <3>3 DEF Command, ConnectionCommand, Ordered, Answered
      <4> QED
        BY <4>1, <4>2
    <3> QED
      BY <3>1, <3>2, <3>3
  <2> HIDE DEF set, e
  <2>4. ConnectionOK(c, [d EXCEPT !.pending = set])
    BY <2>1, <2>2 DEF ConnectionOK
  <2>5. ASSUME NEW x \in Int
        PROVE  ConnectionOK(c, [[d EXCEPT !.pending = set] EXCEPT !.pendingQ = x])
    BY <2>4 DEF ConnectionOK
  <2>6. ConnectionOK(c, e)
    BY <2>1, <2>3, <2>4, <2>5
  <2> QED
    BY <1>5, <2>6 DEF KindOK, e
<1>6. CASE c.kind = "transformer"
  <2>1. c.rated \in Nat /\ TransformerOK(d)
    BY <1>6 DEF DeviceConfigOK, KindOK
  <2>2. e = d \/ e = [d EXCEPT !.pending = LimitTo(-c.rated, c.rated, o.value)]
    BY <1>6 DEF Command, Answered, Ordered
  <2>3. LimitTo(-c.rated, c.rated, o.value) \in Int
    <3>1. -c.rated \in Int /\ c.rated \in Int
      BY <2>1
    <3> QED
      BY <3>1 DEF LimitTo
  <2>4. TransformerOK(e)
    BY <2>1, <2>2, <2>3 DEF TransformerOK
  <2> QED
    BY <1>6, <2>4 DEF KindOK
<1>7. CASE c.kind \in {"wind_turbine", "smart_meter"}
  <2>1. e = d
    BY <1>7 DEF Command, Answered
  <2> QED
    BY <2>1
<1> QED
  BY <1>1, <1>2, <1>3, <1>4, <1>5, <1>6, <1>7 DEF DeviceConfigOK, Kinds

\* The fault port sets a flag.
LEMMA FaultOK ==
    ASSUME NEW c, DeviceConfigOK(c), c.kind \in Faultable, NEW d, KindOK(c, d),
           NEW i, NEW faults
    PROVE  KindOK(c, WithFault(d, i \in faults))
<1>1. ASSUME NEW f \in BOOLEAN PROVE KindOK(c, WithFault(d, f))
  <2>1. CASE c.kind = "battery"
    <3>1. BatteryConfigOK(c) /\ BatteryOK(c, d)
      BY <2>1 DEF DeviceConfigOK, KindOK
    <3>2. BatteryOK(c, WithFault(d, f))
      BY <3>1, BatteryKeepsLimits
    <3> QED
      BY <2>1, <3>2 DEF KindOK
  <2>2. CASE c.kind = "ev_charger"
    <3>1. EvConfigOK(c) /\ EvOK(c, d)
      BY <2>2 DEF DeviceConfigOK, KindOK
    <3>2. EvOK(c, WithFault(d, f))
      BY <3>1, EvKeepsLimits
    <3> QED
      BY <2>2, <3>2 DEF KindOK
  <2>3. CASE c.kind = "diesel_generator"
    <3>1. DieselConfigOK(c) /\ DieselOK(c, d)
      BY <2>3 DEF DeviceConfigOK, KindOK
    <3>2. DieselOK(c, WithFault(d, f))
      BY <3>1, DieselKeepsLimits
    <3> QED
      BY <2>3, <3>2 DEF KindOK
  <2>4. CASE c.kind = "transformer"
    BY <2>4 DEF KindOK, TransformerOK, WithFault
  <2> QED
    BY <2>1, <2>2, <2>3, <2>4 DEF Faultable
<1>2. CASE i \in faults
  <2>1. WithFault(d, i \in faults) = WithFault(d, TRUE)
    BY <1>2
  <2> QED
    BY <1>1, <2>1
<1>3. CASE ~(i \in faults)
  <2>1. (i \in faults) = FALSE
    BY <1>3
  <2>2. WithFault(d, i \in faults) = WithFault(d, FALSE)
    BY <2>1, Zenon
  <2> QED
    BY <1>1, <2>2
<1> QED
  BY <1>2, <1>3

\* What only a tick changes: what is stored.  Only the loader attaches a meter.
SameStore(c, d, e) ==
    /\ c.kind = "battery" => e.soc = d.soc
    /\ c.kind = "ev_charger" => e.stored = d.stored
    /\ c.kind = "diesel_generator" => e.fuel = d.fuel
    /\ c.kind = "smart_meter" => e.attached = d.attached

\* An order stores nothing.
LEMMA CommandStoresNothing ==
    ASSUME NEW c, DeviceConfigOK(c), NEW d, KindOK(c, d), NEW o
    PROVE  SameStore(c, d, Command(c, d, o).device)
<1> DEFINE e == Command(c, d, o).device
<1>1. CASE c.kind = "battery"
  <2>1. BatteryOK(c, d)
    BY <1>1 DEF KindOK
  <2>2. e = d \/ \E x : e = [d EXCEPT !.pending = x]
    BY <1>1 DEF Command, Answered, BatteryCommand, Ordered
  <2> HIDE DEF e
  <2>3. e.soc = d.soc
    BY <2>1, <2>2 DEF BatteryOK
  <2> QED
    BY <1>1, <2>3 DEF SameStore, e
<1>2. CASE c.kind = "ev_charger"
  <2>1. EvOK(c, d)
    BY <1>2 DEF KindOK
  <2>2. \/ e = d \/ \E x : e = [d EXCEPT !.pending = x]
        \/ e = [d EXCEPT !.plugged = (o.value = 1), !.pending = IF o.value = 1 THEN @ ELSE 0]
    BY <1>2 DEF Command, Answered, EvCommand, EvPlug, Ordered
  <2> HIDE DEF e
  <2>3. e.stored = d.stored
    BY <2>1, <2>2 DEF EvOK
  <2> QED
    BY <1>2, <2>3 DEF SameStore, e
<1>3. CASE c.kind = "diesel_generator"
  <2>1. DieselOK(c, d)
    BY <1>3 DEF KindOK
  <2>2. e = d \/ \E x : e = [d EXCEPT !.pending = x]
    BY <1>3 DEF Command, Answered, Ordered
  <2> HIDE DEF e
  <2>3. e.fuel = d.fuel
    BY <2>1, <2>2 DEF DieselOK
  <2> QED
    BY <1>3, <2>3 DEF SameStore, e
<1>4. CASE c.kind = "smart_meter"
  BY <1>4 DEF Command, Answered, SameStore
<1> QED
  BY <1>1, <1>2, <1>3, <1>4 DEF SameStore

\* Neither does a fault.
LEMMA FaultStoresNothing ==
    ASSUME NEW c, c.kind \in Faultable, NEW d, KindOK(c, d), NEW f
    PROVE  SameStore(c, d, WithFault(d, f))
<1>1. CASE c.kind = "battery"
  BY <1>1 DEF KindOK, BatteryOK, WithFault, SameStore
<1>2. CASE c.kind = "ev_charger"
  BY <1>2 DEF KindOK, EvOK, WithFault, SameStore
<1>3. CASE c.kind = "diesel_generator"
  BY <1>3 DEF KindOK, DieselOK, WithFault, SameStore
<1>4. CASE c.kind = "transformer"
  BY <1>4 DEF SameStore
<1> QED
  BY <1>1, <1>2, <1>3, <1>4 DEF Faultable

\* The tick of a battery: what it reports, and what that did to its store.  Unless it
\* stops at a limit it has stored what it reports.
LEMMA BatteryTells ==
    ASSUME NEW c, BatteryConfigOK(c), NEW d, BatteryOK(c, d)
    PROVE  LET e == BatteryTick(c, d)
               power == Derated(c, d, Ramped(d, c.ramp))
           IN  /\ e.told <= c.maxCharge
               /\ -e.told <= IF e.fault THEN c.maxDischarge \div 2 ELSE c.maxDischarge
               /\ power \in -c.maxDischarge..c.maxCharge
               /\ BatterySaturates(c, d.soc + BatteryEnergy(c, power)) =>
                     /\ e.told = 0
                     /\ e.soc = LimitTo(c.minSoc, c.maxSoc, d.soc + BatteryEnergy(c, power))
               /\ ~BatterySaturates(c, d.soc + BatteryEnergy(c, power)) =>
                     /\ e.told = power
                     /\ e.soc = d.soc + BatteryEnergy(c, power)
<1> DEFINE e == BatteryTick(c, d)
           power == Derated(c, d, Ramped(d, c.ramp))
           target == d.soc + BatteryEnergy(c, power)
<1>1. power \in -c.maxDischarge..c.maxCharge
  BY BatteryPower
<1>2. c.maxCharge \in Nat /\ c.maxDischarge \in Nat /\ c.maxDischarge \div 2 \in 0..c.maxDischarge
  <2>1. c.maxCharge \in Nat /\ c.maxDischarge \in Nat
    BY DEF BatteryConfigOK
  <2> QED
    BY <2>1
<1>3. Ramped(d, c.ramp) \in Int
  BY DEF BatteryOK, BatteryConfigOK, Ramped, LimitTo
<1>4. d.fault => -power <= c.maxDischarge \div 2
  BY <1>2, <1>3 DEF Derated
<1> HIDE DEF power
<1>5. e = IF BatterySaturates(c, target)
          THEN [Reports(d, 0) EXCEPT !.soc = LimitTo(c.minSoc, c.maxSoc, target),
                                     !.pending = 0, !.q = 0]
          ELSE [Reports(d, power) EXCEPT !.soc = target, !.q = Magnitude(power) * c.reactive]
  BY DEF BatteryTick, power
<1> HIDE DEF target, e
<1>6. CASE BatterySaturates(c, target)
  <2>1. e.told = 0 /\ e.fault = d.fault /\ e.soc = LimitTo(c.minSoc, c.maxSoc, target)
    BY <1>5, <1>6 DEF BatteryOK, Reports
  <2>2. -e.told <= IF e.fault THEN c.maxDischarge \div 2 ELSE c.maxDischarge
    BY <1>2, <2>1
  <2>3. e.told <= c.maxCharge
    BY <1>2, <2>1
  <2> QED
    BY <1>1, <1>6, <2>1, <2>2, <2>3 DEF e, power, target
<1>7. CASE ~BatterySaturates(c, target)
  <2>1. e.told = power /\ e.fault = d.fault /\ e.soc = target
    BY <1>5, <1>7 DEF BatteryOK, Reports
  <2>2. -e.told <= IF e.fault THEN c.maxDischarge \div 2 ELSE c.maxDischarge
    BY <1>1, <1>2, <1>4, <2>1
  <2>3. e.told <= c.maxCharge
    BY <1>1, <1>2, <2>1
  <2> QED
    BY <1>1, <1>7, <2>1, <2>2, <2>3 DEF e, power, target
<1> QED
  BY <1>6, <1>7

\* The tick of a charger: it has stored what it reports, and nothing flows into a
\* vehicle that is not there or out of a faulty charger.
LEMMA EvTells ==
    ASSUME NEW c, EvConfigOK(c), NEW d, EvOK(c, d)
    PROVE  LET e == EvTick(c, d)
           IN  /\ e.told \in -c.maxDischarge..c.maxCharge
               /\ (e.fault \/ ~e.plugged) => e.told = 0
               /\ e.stored = d.stored + e.told
<1> DEFINE e      == EvTick(c, d)
           wanted == IF ~d.plugged \/ d.fault
                     THEN 0
                     ELSE LimitTo(-c.maxDischarge, EvMaxCharge(c, d), d.pending)
           power  == LimitTo(-d.stored, c.capacity - d.stored, wanted)
<1>1. /\ c.maxCharge \in Nat /\ c.maxDischarge \in Nat /\ c.capacity \in Nat
      /\ d.stored \in Nat /\ c.capacity - d.stored \in Nat
  BY DEF EvConfigOK, EvOK
<1>2. EvMaxCharge(c, d) \in 0..c.maxCharge
  BY EvTaper
<1>3. wanted \in -c.maxDischarge..c.maxCharge
  BY <1>1, <1>2 DEF EvOK, LimitTo
<1>4. ~d.plugged \/ d.fault => wanted = 0
  OBVIOUS
<1>5. e = [Reports(d, power) EXCEPT !.stored = @ + power]
  BY DEF EvTick
<1> HIDE DEF wanted
<1>6. power \in -c.maxDischarge..c.maxCharge /\ (wanted = 0 => power = 0)
  BY <1>1, <1>3 DEF LimitTo
<1> HIDE DEF power, e
<1>7. /\ e.told = power /\ e.fault = d.fault /\ e.plugged = d.plugged
      /\ e.stored = d.stored + power
  BY <1>5 DEF EvOK, Reports
<1>8. (e.fault \/ ~e.plugged) => e.told = 0
  BY <1>4, <1>6, <1>7
<1> QED
  BY <1>6, <1>7, <1>8 DEF e

\* The tick of a generator: it has burnt what it reports, and less than the fuel of
\* one kW more when the tank runs dry.
LEMMA DieselTells ==
    ASSUME NEW c, DieselConfigOK(c), NEW d, DieselOK(c, d)
    PROVE  LET e == DieselTick(c, d)
           IN  /\ e.told \in 0..c.maxPower
               /\ e.fault => e.told = 0
               /\ d.fuel - e.fuel - e.told * c.rate \in 0..(c.rate - 1)
               /\ e.fuel > 0 => e.fuel = d.fuel - e.told * c.rate
               /\ d.fuel = 0 => e.told = 0 /\ e.fuel = 0
<1> DEFINE e      == DieselTick(c, d)
           wanted == IF DieselRuns(c, d) THEN LimitTo(0, c.maxPower, Ramped(d, c.ramp)) ELSE 0
           enough == wanted * c.rate <= d.fuel
           power  == IF enough THEN wanted ELSE d.fuel \div c.rate
           fuel   == IF enough THEN d.fuel - wanted * c.rate ELSE 0
<1>1. c.maxPower \in Nat /\ c.rate \in Nat \ {0} /\ c.ramp \in Nat /\ d.fuel \in Nat
  BY DEF DieselConfigOK, DieselOK
<1>2. Ramped(d, c.ramp) \in Int
  BY <1>1 DEF DieselOK, Ramped, LimitTo
<1>3. wanted \in 0..c.maxPower
  BY <1>1, <1>2 DEF LimitTo
<1>4. d.fault => wanted = 0
  BY DEF DieselRuns
<1>5. d.fuel = 0 => wanted = 0
  BY DEF DieselRuns
<1>6. /\ e.told = power /\ e.fault = d.fault /\ e.fuel = fuel
  BY DEF DieselTick, DieselOK, Reports
<1> DEFINE rate == c.rate
           tank == d.fuel
           all  == wanted * rate
<1>7. rate \in Nat \ {0} /\ tank \in Nat /\ all \in Nat /\ (wanted = 0 => all = 0)
  BY <1>1, <1>3
<1>8. CASE enough
  <2>1. power = wanted /\ fuel = tank - all /\ all <= tank
    BY <1>8
  <2> HIDE DEF wanted, power, fuel, e, rate, tank
  <2>2. /\ tank - fuel - power * rate = 0
        /\ fuel = tank - power * rate
    BY <1>7, <2>1, <1>3
  <2>3. tank - fuel - power * rate \in 0..(rate - 1)
    BY <1>7, <2>2
  <2>4. tank = 0 => power = 0 /\ fuel = 0
    BY <1>5, <1>7, <2>1 DEF tank
  <2>5. e.fault => power = 0
    BY <1>4, <1>6, <2>1
  <2> QED
    BY <1>3, <1>6, <2>1, <2>2, <2>3, <2>4, <2>5 DEF e, rate, tank
<1>9. CASE ~enough
  <2>1. power = tank \div rate /\ fuel = 0 /\ tank < all
    BY <1>9, <1>7
  <2> HIDE DEF wanted, power, fuel, e, rate, tank
  <2>2. power \in 0..wanted /\ tank - power * rate \in 0..(rate - 1)
    <3>1. tank \div rate \in 0..wanted
      BY <1>3, <1>7, <2>1
    <3>2. tank - (tank \div rate) * rate \in 0..(rate - 1)
      BY <1>7
    <3> QED
      BY <1>7, <2>1, <3>1, <3>2
  <2>3. wanted # 0 /\ tank # 0
    BY <1>5, <1>7, <2>1 DEF tank
  <2>4. ~e.fault
    BY <1>4, <1>6, <2>3
  <2>5. tank - fuel - power * rate \in 0..(rate - 1)
    BY <1>3, <1>7, <2>1, <2>2
  <2>6. power \in 0..c.maxPower
    BY <1>1, <1>3, <2>2
  <2> QED
    BY <1>6, <2>1, <2>3, <2>4, <2>5, <2>6 DEF e, rate, tank
<1> QED
  BY <1>8, <1>9

\* After its tick every device is one of its kind and within its limits.
LEMMA TickOK ==
    ASSUME NEW c, DeviceConfigOK(c), NEW d, KindOK(c, d),
           NEW volt \in Int, NEW draw \in Int, NEW total \in Int
    PROVE  KindOK(c, Tick(c, d, volt, draw, total)) /\ InLimits(c, Tick(c, d, volt, draw, total))
<1> DEFINE e == Tick(c, d, volt, draw, total)
<1>1. CASE c.kind = "battery"
  <2>1. e = BatteryTick(c, d) /\ BatteryConfigOK(c) /\ BatteryOK(c, d)
    BY <1>1 DEF Tick, DeviceConfigOK, KindOK
  <2> HIDE DEF e
  <2>2. BatteryOK(c, e)
    BY <2>1, BatteryKeepsLimits
  <2>3. /\ e.told <= c.maxCharge
        /\ -e.told <= IF e.fault THEN c.maxDischarge \div 2 ELSE c.maxDischarge
    BY <2>1, BatteryTells
  <2>4. KindOK(c, e)
    BY <1>1, <2>2 DEF KindOK
  <2>5. e.soc \in c.minSoc..c.maxSoc
    BY <2>2 DEF BatteryOK
  <2>6. InLimits(c, e)
    BY <1>1, <2>3, <2>5 DEF InLimits
  <2> QED
    BY <2>4, <2>6 DEF e
<1>2. CASE c.kind = "ev_charger"
  <2>1. e = EvTick(c, d) /\ EvConfigOK(c) /\ EvOK(c, d)
    BY <1>2 DEF Tick, DeviceConfigOK, KindOK
  <2> HIDE DEF e
  <2>2. EvOK(c, e)
    BY <2>1, EvKeepsLimits
  <2>3. e.told \in -c.maxDischarge..c.maxCharge /\ ((e.fault \/ ~e.plugged) => e.told = 0)
    BY <2>1, EvTells
  <2>4. KindOK(c, e)
    BY <1>2, <2>2 DEF KindOK
  <2>5. e.stored \in 0..c.capacity
    BY <2>2 DEF EvOK
  <2>6. InLimits(c, e)
    BY <1>2, <2>3, <2>5 DEF InLimits
  <2> QED
    BY <2>4, <2>6 DEF e
<1>3. CASE c.kind = "diesel_generator"
  <2>1. e = DieselTick(c, d) /\ DieselConfigOK(c) /\ DieselOK(c, d)
    BY <1>3 DEF Tick, DeviceConfigOK, KindOK
  <2> HIDE DEF e
  <2>2. DieselOK(c, e)
    BY <2>1, DieselKeepsLimits
  <2>3. e.told \in 0..c.maxPower /\ (e.fault => e.told = 0)
    BY <2>1, DieselTells
  <2>4. KindOK(c, e)
    BY <1>3, <2>2 DEF KindOK
  <2>5. InLimits(c, e)
    BY <1>3, <2>3 DEF InLimits
  <2> QED
    BY <2>4, <2>5 DEF e
<1>4. CASE c.kind = "load"
  <2>1. e = [d EXCEPT !.power = d.pending, !.told = d.pending] /\ RatedOK(c, d)
    BY <1>4 DEF Tick, LoadTick, Reports, KindOK
  <2>2. d.pending \in 0..c.rated /\ d.pending \in Int
    BY <2>1 DEF RatedOK
  <2> HIDE DEF e
  <2>3. RatedOK(c, e) /\ e.told \in 0..c.rated
    BY <2>1, <2>2 DEF RatedOK
  <2> QED
    BY <1>4, <2>3 DEF KindOK, InLimits, e
<1>5. CASE c.kind = "pv"
  <2> DEFINE q == VoltVar(c, volt)
  <2>1. /\ e = [[d EXCEPT !.power = d.pending, !.told = d.pending] EXCEPT !.q = q]
        /\ RatedOK(c, d)
    BY <1>5 DEF Tick, PvTick, Reports, KindOK
  <2>2. q \in Int
    <3>1. /\ c.droop \in Nat /\ c.maxQ \in Nat /\ c.deadband \in Int /\ c.reference \in Int
      BY <1>5 DEF DeviceConfigOK
    <3> DEFINE excess == Magnitude(volt - c.reference) - c.deadband
    <3>2. excess \in Int
      BY <3>1 DEF Magnitude
    <3> HIDE DEF excess
    <3>3. c.droop * excess \in Int
      BY <3>1, <3>2
    <3> DEFINE want == c.droop * excess
    <3> HIDE DEF want
    <3>4. LimitTo(0, c.maxQ, want) \in Int
      BY <3>1, <3>3 DEF LimitTo, want
    <3> QED
      BY <3>4 DEF VoltVar, excess, want
  <2>3. d.pending \in 0..c.rated /\ d.pending \in Int
    BY <2>1 DEF RatedOK
  <2> HIDE DEF e, q
  <2>4. RatedOK(c, [d EXCEPT !.power = d.pending, !.told = d.pending])
    BY <2>1, <2>3 DEF RatedOK
  <2>5. RatedOK(c, e) /\ e.told \in 0..c.rated
    BY <2>1, <2>2, <2>3, <2>4 DEF RatedOK
  <2> QED
    BY <1>5, <2>5 DEF KindOK, InLimits, e
<1>6. CASE c.kind = "grid_connection"
  <2>1. /\ e = [[d EXCEPT !.power = d.pending, !.told = d.pending] EXCEPT !.q = d.pendingQ]
        /\ ConnectionOK(c, d)
    BY <1>6 DEF Tick, ConnectionTick, Reports, KindOK
  <2>2. /\ d.pending \in -c.maxExport..c.maxImport /\ d.pending \in Int
        /\ d.pendingQ \in Int
    BY <2>1 DEF ConnectionOK
  <2> HIDE DEF e
  <2>3. ConnectionOK(c, [d EXCEPT !.power = d.pending, !.told = d.pending])
    BY <2>1, <2>2 DEF ConnectionOK
  <2>4. ConnectionOK(c, e) /\ e.told \in -c.maxExport..c.maxImport
    BY <2>1, <2>2, <2>3 DEF ConnectionOK
  <2> QED
    BY <1>6, <2>4 DEF KindOK, InLimits, e
<1>7. CASE c.kind = "transformer"
  <2> DEFINE power == IF d.fault THEN 0 ELSE LimitTo(-c.rated, c.rated, d.pending)
  <2>1. e = [d EXCEPT !.power = power, !.told = power] /\ TransformerOK(d) /\ c.rated \in Nat
    BY <1>7 DEF Tick, TransformerTick, Reports, KindOK, DeviceConfigOK
  <2>2. power \in Int
    BY <2>1 DEF TransformerOK, LimitTo
  <2> HIDE DEF e, power
  <2>3. TransformerOK(e)
    BY <2>1, <2>2 DEF TransformerOK
  <2> QED
    BY <1>7, <2>3 DEF KindOK, InLimits, e
<1>8. CASE c.kind = "wind_turbine"
  <2> DEFINE power == LimitTo(0, c.rated, draw)
  <2>1. e = [d EXCEPT !.power = power, !.told = power] /\ WindOK(d) /\ c.rated \in Nat
    BY <1>8 DEF Tick, WindTick, Reports, KindOK, DeviceConfigOK
  <2>2. power \in 0..c.rated /\ power \in Int
    BY <2>1 DEF LimitTo
  <2> HIDE DEF e, power
  <2>3. WindOK(e) /\ e.told \in 0..c.rated
    BY <2>1, <2>2 DEF WindOK
  <2> QED
    BY <1>8, <2>3 DEF KindOK, InLimits, e
<1>9. CASE c.kind = "smart_meter"
  <2>1. e = [d EXCEPT !.told = IF d.attached THEN total ELSE 0] /\ MeterOK(d)
    BY <1>9 DEF Tick, MeterTick, KindOK
  <2>2. MeterOK([d EXCEPT !.told = total]) /\ MeterOK([d EXCEPT !.told = 0])
    BY <2>1 DEF MeterOK
  <2>3. MeterOK(e)
    BY <2>1, <2>2
  <2> QED
    BY <1>9, <2>3 DEF KindOK, InLimits
<1> QED
  BY <1>1, <1>2, <1>3, <1>4, <1>5, <1>6, <1>7, <1>8, <1>9 DEF DeviceConfigOK, Kinds

-------------------------------------------------------------------------------
(***************************************************************************)
(* All devices: what reaches them before they tick, and the two passes.    *)
(***************************************************************************)
DevicesOK(s, dev) ==
    /\ dev = [i \in Indices(s) |-> dev[i]]
    /\ \A i \in Indices(s) : KindOK(s.devices[i], dev[i])

\* Each device has the store it had.
SameStores(s, dev, after) == \A i \in Indices(s) : SameStore(s.devices[i], dev[i], after[i])

\* A device that a step leaves alone has.
LEMMA SameIsSame == \A c, d : SameStore(c, d, d)
BY DEF SameStore

\* Two steps that leave it do so together.
LEMMA SameOfSame ==
    ASSUME NEW s, NEW a, NEW b, NEW c, SameStores(s, a, b), SameStores(s, b, c)
    PROVE  SameStores(s, a, c)
BY DEF SameStores, SameStore

\* The devices of a plant are numbered.
LEMMA Numbered ==
    ASSUME NEW s, ScenarioOK(s)
    PROVE  /\ Len(s.devices) \in Nat /\ Indices(s) = 1..Len(s.devices)
           /\ \A i \in Indices(s) : DeviceConfigOK(s.devices[i]) /\ s.devices[i].kind \in Kinds
           /\ Connections(s) \subseteq Indices(s)
           /\ LastPass(s) \subseteq Indices(s)
BY DEF ScenarioOK, IsList, DeviceConfigOK, Connections, LastPass, Indices

\* A sum over devices is an integer when each addend is one.
LEMMA SumInt ==
    ASSUME NEW s, ScenarioOK(s), NEW f \in [Indices(s) -> Int]
    PROVE  SumTo(f, Len(s.devices)) \in Int
<1> DEFINE n == Len(s.devices)
<1>1. n \in Nat /\ Indices(s) = 1..n /\ f \in [1..n -> Int]
  BY Numbered
<1> HIDE DEF n
<1>2. PICK u : PartialSums(f, n, u) /\ SumTo(f, n) = u[n]
  BY <1>1, SumUnfolds
<1>3. n \in 0..n
  BY <1>1
<1>4. u[n] \in Int
  BY <1>1, <1>2, <1>3, SumTyped
<1> QED
  BY <1>2, <1>4 DEF n

\* At most one order, of the plant's.
Given(s) == {{}} \cup {{o} : o \in s.orders}

\* The orders of a tick leave every device one of its kind.
LEMMA CommandedOK ==
    ASSUME NEW s, ScenarioOK(s), NEW dev, DevicesOK(s, dev), NEW given \in Given(s)
    PROVE  /\ DevicesOK(s, Commanded(s, dev, given))
           /\ SameStores(s, dev, Commanded(s, dev, given))
<1> DEFINE I == {o.target : o \in given}
           first == CHOOSE o \in given : TRUE
           after == Commanded(s, dev, given)
<1>1. DOMAIN dev = Indices(s)
  BY DEF DevicesOK
<1>2. after = [i \in Indices(s) |->
                  IF i \in I THEN Command(s.devices[i], dev[i], first).device ELSE dev[i]]
  BY <1>1 DEF Commanded, Each
<1>3. ASSUME NEW i \in Indices(s), i \in I
      PROVE  /\ KindOK(s.devices[i], Command(s.devices[i], dev[i], first).device)
             /\ SameStore(s.devices[i], dev[i], Command(s.devices[i], dev[i], first).device)
  <2>1. first \in given
    BY <1>3
  <2>2. given \subseteq s.orders
    BY DEF Given
  <2>3. first.value \in Int /\ first.q \subseteq Int
    BY <2>1, <2>2 DEF ScenarioOK
  <2>4. DeviceConfigOK(s.devices[i]) /\ KindOK(s.devices[i], dev[i])
    BY Numbered DEF DevicesOK
  <2> HIDE DEF first
  <2> QED
    BY <2>3, <2>4, CommandOK, CommandStoresNothing
<1> HIDE DEF I, first, after
<1>4. ASSUME NEW i \in Indices(s)
      PROVE  KindOK(s.devices[i], after[i]) /\ SameStore(s.devices[i], dev[i], after[i])
  <2>1. CASE i \in I
    BY <1>2, <1>3, <2>1
  <2>2. CASE i \notin I
    BY <1>2, <2>2, SameIsSame DEF DevicesOK
  <2> QED
    BY <2>1, <2>2
<1>5. after = [i \in Indices(s) |-> after[i]]
  BY <1>2
<1> QED
  BY <1>4, <1>5 DEF DevicesOK, SameStores, after

\* Of a set of numbers up to n that is not empty, Max is one.
LEMMA MaxIsOne ==
    ASSUME NEW n \in Nat, NEW T, T \subseteq 1..n, T # {}
    PROVE  Max(T) \in T
<1> DEFINE U == {n - k : k \in T}
<1>1. U \subseteq Nat /\ U # {}
  <2>1. \A k \in T : n - k \in Nat
    OBVIOUS
  <2>2. \A k \in T : n - k \in U
    OBVIOUS
  <2> QED
    BY <2>1, <2>2
<1>2. PICK m \in U : \A k \in U : m <= k
  <2> HIDE DEF U
  <2> QED
    BY <1>1, Least
<1>3. PICK x \in T : m = n - x
  BY <1>2
<1>4. ASSUME NEW y \in T PROVE x >= y
  <2>1. n - y \in U
    OBVIOUS
  <2>2. n - x <= n - y
    BY <1>2, <1>3, <2>1
  <2>3. x \in Int /\ y \in Int
    OBVIOUS
  <2> QED
    BY <2>2, <2>3
<1>5. \E z \in T : \A y \in T : z >= y
  BY <1>3, <1>4
<1> QED
  BY <1>5 DEF Max

\* The set points of the overlays are integers.
LEMMA IntentInt ==
    ASSUME NEW s, ScenarioOK(s), NEW i \in Indices(s), NEW t \in Nat
    PROVE  Intent(s, i, t) \subseteq Int
<1>1. CASE EventsOn(s, i, t) # {}
  <2>1. Len(s.events) \in Nat /\ EventsOn(s, i, t) \subseteq 1..Len(s.events)
    BY DEF ScenarioOK, IsList, EventsOn
  <2>2. Max(EventsOn(s, i, t)) \in EventsOn(s, i, t)
    BY <1>1, <2>1, MaxIsOne
  <2>3. Max(EventsOn(s, i, t)) \in DOMAIN s.events
    BY <2>2 DEF EventsOn
  <2>4. s.events[Max(EventsOn(s, i, t))].kw \in Int
    BY <2>3 DEF ScenarioOK
  <2> QED
    BY <1>1, <2>4 DEF Intent
<1>2. CASE EventsOn(s, i, t) = {} /\ ProfilesOn(s, i) # {}
  <2> DEFINE k == Max(ProfilesOn(s, i))
             p == s.profiles[k]
  <2>1. Len(s.profiles) \in Nat /\ ProfilesOn(s, i) \subseteq 1..Len(s.profiles)
    BY DEF ScenarioOK, IsList, ProfilesOn
  <2>2. k \in ProfilesOn(s, i)
    BY <1>2, <2>1, MaxIsOne
  <2>3. k \in DOMAIN s.profiles
    BY <2>2 DEF ProfilesOn
  <2>4. /\ p.every \in Nat \ {0}
        /\ Len(p.values) \in Nat \ {0} /\ DOMAIN p.values = 1..Len(p.values)
        /\ \A x \in DOMAIN p.values : p.values[x] \in Nat
    <3>1. /\ p.every \in Nat \ {0} /\ IsList(p.values) /\ Len(p.values) > 0
          /\ \A x \in DOMAIN p.values : p.values[x] \in Nat
      BY <2>3 DEF ScenarioOK
    <3> HIDE DEF p
    <3>2. DOMAIN p.values = 1..Len(p.values) /\ Len(p.values) \in Nat
      BY <3>1 DEF IsList
    <3> QED
      BY <3>1, <3>2
  <2> HIDE DEF k, p
  <2>5. (t * TickMs) \div p.every \in Nat
    <3>1. t * TickMs \in Nat
      BY PlantAssumption
    <3> QED
      BY <2>4, <3>1
  <2> DEFINE at == (t * TickMs) \div p.every
             last == Len(p.values) - 1
             least == Min({at, last})
  <2>6. at \in Nat /\ last \in Nat
    BY <2>4, <2>5
  <2> HIDE DEF at, last
  <2>7. least \in 0..last
    <3>1. \E x \in {at, last} : \A y \in {at, last} : x <= y
      BY <2>6
    <3>2. least \in {at, last} /\ \A y \in {at, last} : least <= y
      BY <3>1 DEF Min
    <3> HIDE DEF least
    <3> QED
      BY <2>6, <3>2
  <2> HIDE DEF least
  <2>8. least + 1 \in DOMAIN p.values
    BY <2>4, <2>7 DEF last
  <2>9. p.values[least + 1] \in Int
    BY <2>4, <2>8
  <2>10. ProfileValue(p, t) = p.values[least + 1]
    BY DEF ProfileValue, least, at, last
  <2>11. Intent(s, i, t) = {ProfileValue(p, t)}
    BY <1>2 DEF Intent, p, k
  <2> QED
    BY <2>9, <2>10, <2>11
<1>3. CASE EventsOn(s, i, t) = {} /\ ProfilesOn(s, i) = {}
  <2>1. s.devices[i].kind = "load" => s.devices[i].rated \in Int
    BY Numbered DEF DeviceConfigOK
  <2> QED
    BY <1>3, <2>1 DEF Intent
<1> QED
  BY <1>1, <1>2, <1>3

\* The set point of an overlay leaves every device one of its kind.
LEMMA LoadInputsOK ==
    ASSUME NEW s, ScenarioOK(s), NEW dev, DevicesOK(s, dev), NEW t \in Nat
    PROVE  DevicesOK(s, LoadInputs(s, dev, t)) /\ SameStores(s, dev, LoadInputs(s, dev, t))
<1> DEFINE set(i) == SetPower(CHOOSE v \in Intent(s, i, t) : TRUE, {})
           after == LoadInputs(s, dev, t)
<1>1. DOMAIN dev = Indices(s)
  BY DEF DevicesOK
<1>2. after = [i \in Indices(s) |->
                  IF Intent(s, i, t) # {} THEN Command(s.devices[i], dev[i], set(i)).device
                  ELSE dev[i]]
  BY <1>1 DEF LoadInputs, Each
<1>3. ASSUME NEW i \in Indices(s), Intent(s, i, t) # {}
      PROVE  /\ KindOK(s.devices[i], Command(s.devices[i], dev[i], set(i)).device)
             /\ SameStore(s.devices[i], dev[i], Command(s.devices[i], dev[i], set(i)).device)
  <2>1. set(i).value \in Int /\ set(i).q \subseteq Int
    <3>1. (CHOOSE v \in Intent(s, i, t) : TRUE) \in Intent(s, i, t)
      BY <1>3
    <3>2. Intent(s, i, t) \subseteq Int
      BY IntentInt
    <3> QED
      BY <3>1, <3>2 DEF SetPower
  <2>2. DeviceConfigOK(s.devices[i]) /\ KindOK(s.devices[i], dev[i])
    BY Numbered DEF DevicesOK
  <2> HIDE DEF set
  <2> QED
    BY <2>1, <2>2, CommandOK, CommandStoresNothing
<1> HIDE DEF set, after
<1>4. ASSUME NEW i \in Indices(s)
      PROVE  KindOK(s.devices[i], after[i]) /\ SameStore(s.devices[i], dev[i], after[i])
  <2>1. CASE Intent(s, i, t) # {}
    BY <1>2, <1>3, <2>1
  <2>2. CASE Intent(s, i, t) = {}
    BY <1>2, <2>2, SameIsSame DEF DevicesOK
  <2> QED
    BY <2>1, <2>2
<1>5. after = [i \in Indices(s) |-> after[i]]
  BY <1>2
<1> QED
  BY <1>4, <1>5 DEF DevicesOK, SameStores, after

\* The faults of a tick leave every device one of its kind.
LEMMA FaultedOK ==
    ASSUME NEW s, ScenarioOK(s), NEW dev, DevicesOK(s, dev), NEW faults
    PROVE  /\ DevicesOK(s, Faulted(s, dev, faults))
           /\ SameStores(s, dev, Faulted(s, dev, faults))
<1> DEFINE after == Faulted(s, dev, faults)
<1>1. DOMAIN dev = Indices(s)
  BY DEF DevicesOK
<1>2. after = [i \in Indices(s) |->
                  IF s.devices[i].kind \in Faultable THEN WithFault(dev[i], i \in faults)
                  ELSE dev[i]]
  BY <1>1 DEF Faulted, Each
<1>3. ASSUME NEW i \in Indices(s), s.devices[i].kind \in Faultable
      PROVE  /\ KindOK(s.devices[i], WithFault(dev[i], i \in faults))
             /\ SameStore(s.devices[i], dev[i], WithFault(dev[i], i \in faults))
  <2>1. DeviceConfigOK(s.devices[i]) /\ KindOK(s.devices[i], dev[i])
    BY Numbered DEF DevicesOK
  <2> QED
    BY <1>3, <2>1, FaultOK, FaultStoresNothing
<1> HIDE DEF after
<1>4. ASSUME NEW i \in Indices(s)
      PROVE  KindOK(s.devices[i], after[i]) /\ SameStore(s.devices[i], dev[i], after[i])
  <2>1. CASE s.devices[i].kind \in Faultable
    <3>1. after[i] = WithFault(dev[i], i \in faults)
      BY <1>2, <2>1
    <3> QED
      BY <1>3, <2>1, <3>1
  <2>2. CASE s.devices[i].kind \notin Faultable
    BY <1>2, <2>2, SameIsSame DEF DevicesOK
  <2> QED
    BY <2>1, <2>2
<1>5. after = [i \in Indices(s) |-> after[i]]
  BY <1>2
<1> QED
  BY <1>4, <1>5 DEF DevicesOK, SameStores, after

\* What a pass does: each of its devices ticks, a meter with some total, and is then
\* within its limits; the others stay as they are.
LEMMA PassOK ==
    ASSUME NEW s, ScenarioOK(s), NEW dev, DevicesOK(s, dev), NEW I,
           NEW volt \in Int, NEW draw \in Int
    PROVE  /\ DevicesOK(s, Pass(s, I, dev, volt, draw))
           /\ \A i \in Indices(s) \ I : Pass(s, I, dev, volt, draw)[i] = dev[i]
           /\ \A i \in Indices(s) \cap I :
                 /\ InLimits(s.devices[i], Pass(s, I, dev, volt, draw)[i])
                 /\ s.devices[i].kind # "smart_meter" =>
                       Pass(s, I, dev, volt, draw)[i] = Tick(s.devices[i], dev[i], volt, draw, 0)
<1> DEFINE Own(i) == Tick(s.devices[i], dev[i], volt, draw, 0)
           Sources(i) == {j \in s.devices[i].sources : Readable(s.devices[j].kind)}
           Total(i) == SumOver(s, Sources(i), LAMBDA j : Seen(I, i, dev, Own, j))
           after == Pass(s, I, dev, volt, draw)
<1>1. DOMAIN dev = Indices(s)
  BY DEF DevicesOK
<1>2. after = [i \in Indices(s) |->
                  IF i \in I
                  THEN IF s.devices[i].kind = "smart_meter" THEN MeterTick(dev[i], Total(i))
                       ELSE Own(i)
                  ELSE dev[i]]
  BY <1>1 DEF Pass, Each
<1>3. ASSUME NEW i \in Indices(s)
      PROVE  /\ DeviceConfigOK(s.devices[i]) /\ KindOK(s.devices[i], dev[i])
             /\ s.devices[i].kind \in Kinds /\ dev[i].told \in Int
  BY Numbered, KindTells DEF DevicesOK
<1>4. ASSUME NEW i \in Indices(s)
      PROVE  KindOK(s.devices[i], Own(i)) /\ InLimits(s.devices[i], Own(i)) /\ Own(i).told \in Int
  <2>1. 0 \in Int
    OBVIOUS
  <2>2. KindOK(s.devices[i], Own(i)) /\ InLimits(s.devices[i], Own(i))
    BY <1>3, <2>1, TickOK
  <2> HIDE DEF Own
  <2> QED
    BY <1>3, <2>2, KindTells
<1>5. ASSUME NEW i \in Indices(s)
      PROVE  Total(i) \in Int
  <2> DEFINE f == [j \in Indices(s) |->
                      IF j \in Sources(i) THEN Seen(I, i, dev, Own, j) ELSE 0]
  <2>1. Total(i) = SumTo(f, Len(s.devices))
    BY DEF SumOver
  <2>2. f \in [Indices(s) -> Int]
    <3> HIDE DEF Own, Sources
    <3> QED
      BY <1>3, <1>4 DEF Seen
  <2> HIDE DEF f, Total
  <2> QED
    BY <2>1, <2>2, SumInt
<1> HIDE DEF Own, Total
<1>6. ASSUME NEW i \in Indices(s), s.devices[i].kind = "smart_meter"
      PROVE  /\ KindOK(s.devices[i], MeterTick(dev[i], Total(i)))
             /\ InLimits(s.devices[i], MeterTick(dev[i], Total(i)))
  <2>1. /\ KindOK(s.devices[i], Tick(s.devices[i], dev[i], volt, draw, Total(i)))
        /\ InLimits(s.devices[i], Tick(s.devices[i], dev[i], volt, draw, Total(i)))
    BY <1>3, <1>5, TickOK
  <2>2. Tick(s.devices[i], dev[i], volt, draw, Total(i)) = MeterTick(dev[i], Total(i))
    BY <1>6 DEF Tick
  <2> QED
    BY <2>1, <2>2
<1> HIDE DEF after
<1>7. ASSUME NEW i \in Indices(s)
      PROVE  KindOK(s.devices[i], after[i])
  <2>1. CASE i \notin I
    BY <1>2, <1>3, <2>1
  <2>2. CASE i \in I /\ s.devices[i].kind = "smart_meter"
    BY <1>2, <1>6, <2>2
  <2>3. CASE i \in I /\ s.devices[i].kind # "smart_meter"
    BY <1>2, <1>4, <2>3
  <2> QED
    BY <2>1, <2>2, <2>3
<1>8. DevicesOK(s, after)
  <2>1. after = [i \in Indices(s) |-> after[i]]
    BY <1>2
  <2> QED
    BY <1>7, <2>1 DEF DevicesOK
<1>9. ASSUME NEW i \in Indices(s) \cap I
      PROVE  /\ InLimits(s.devices[i], after[i])
             /\ s.devices[i].kind # "smart_meter" =>
                   after[i] = Tick(s.devices[i], dev[i], volt, draw, 0)
  <2>1. CASE s.devices[i].kind = "smart_meter"
    BY <1>2, <1>6, <2>1
  <2>2. CASE s.devices[i].kind # "smart_meter"
    BY <1>2, <1>4, <2>2 DEF Own
  <2> QED
    BY <2>1, <2>2
<1>10. \A i \in Indices(s) \ I : after[i] = dev[i]
  BY <1>2
<1> QED
  BY <1>8, <1>9, <1>10 DEF after

\* What a meter finds at its sources when it ticks in a pass over I.
Metered(s, I, i, dev, volt, draw) ==
    [j \in Indices(s) |->
        IF j \in s.devices[i].sources /\ Readable(s.devices[j].kind)
        THEN IF j \in I /\ j < i THEN Tick(s.devices[j], dev[j], volt, draw, 0).told
             ELSE dev[j].told
        ELSE 0]

\* In a pass a meter sums that up.
LEMMA PassMeters ==
    ASSUME NEW s, ScenarioOK(s), NEW dev, DevicesOK(s, dev), NEW I, NEW volt, NEW draw,
           NEW i \in Indices(s) \cap I, s.devices[i].kind = "smart_meter"
    PROVE  Pass(s, I, dev, volt, draw)[i]
              = MeterTick(dev[i], SumTo(Metered(s, I, i, dev, volt, draw), Len(s.devices)))
<1> DEFINE Own(j) == Tick(s.devices[j], dev[j], volt, draw, 0)
           Sources == {j \in s.devices[i].sources : Readable(s.devices[j].kind)}
           f == [j \in Indices(s) |-> IF j \in Sources THEN Seen(I, i, dev, Own, j) ELSE 0]
<1>1. DOMAIN dev = Indices(s)
  BY DEF DevicesOK
<1>2. Pass(s, I, dev, volt, draw)[i] = MeterTick(dev[i], SumTo(f, Len(s.devices)))
  BY <1>1 DEF Pass, Each, SumOver
<1>3. f = Metered(s, I, i, dev, volt, draw)
  BY DEF Seen, Metered
<1> HIDE DEF f
<1> QED
  BY <1>2, <1>3

-------------------------------------------------------------------------------
(***************************************************************************)
(* A whole tick: the balance, and who closes it.                           *)
(***************************************************************************)

\* The sums that the balance and the grid are made of are integers.
LEMMA BalanceInt ==
    ASSUME NEW s, ScenarioOK(s), NEW dev, DevicesOK(s, dev), NEW I
    PROVE  Residual(s, dev, I) \in Int /\ Reactive(s, dev, I) \in Int
<1> DEFINE f == [i \in Indices(s) |->
                    IF i \in I THEN Sign(s.devices[i].kind) * dev[i].told ELSE 0]
           g == [i \in Indices(s) |-> IF i \in I THEN dev[i].q ELSE 0]
<1>1. \A i \in Indices(s) : dev[i].told \in Int /\ dev[i].q \in Int
  BY Numbered, KindTells DEF DevicesOK
<1>2. \A i \in Indices(s) : Sign(s.devices[i].kind) * dev[i].told \in Int
  <2>1. \A i \in Indices(s) : Sign(s.devices[i].kind) \in Int
    BY DEF Sign
  <2> QED
    BY <1>1, <2>1
<1>3. f \in [Indices(s) -> Int] /\ g \in [Indices(s) -> Int]
  BY <1>1, <1>2
<1>4. Residual(s, dev, I) = SumTo(f, Len(s.devices))
  BY DEF Residual, SumOver
<1>5. Reactive(s, dev, I) = SumTo(g, Len(s.devices))
  BY DEF Reactive, SumOver
<1> HIDE DEF f, g
<1> QED
  BY <1>3, <1>4, <1>5, SumInt

\* The set points that close the balance go to devices of the second pass.
LEMMA CloseOrdersOK ==
    ASSUME NEW s, ScenarioOK(s), NEW dev, DevicesOK(s, dev), NEW manual
    PROVE  LET orders == CloseOrders(s, dev, manual)
           IN  /\ DOMAIN orders \subseteq LastPass(s)
               /\ \A i \in DOMAIN orders :
                     /\ orders[i].type = "set_power_kw"
                     /\ orders[i].value \in Int /\ orders[i].q \subseteq Int
<1> DEFINE rest == Residual(s, dev, FirstPass(s))
           q    == Reactive(s, dev, FirstPass(s))
           orders == CloseOrders(s, dev, manual)
<1>1. rest \in Int /\ -rest \in Int /\ -q \in Int
  <2>1. rest \in Int /\ q \in Int
    BY BalanceInt
  <2> HIDE DEF rest, q
  <2> QED
    BY <2>1
<1>2. orders = IF s.forming = 0
               THEN [i \in Connections(s) \ manual |-> SetPower(-rest, {-q})]
               ELSE [i \in {s.forming} |->
                        SetPower(IF s.devices[i].kind \in Storage THEN rest ELSE -rest, {})]
  BY DEF CloseOrders
<1> HIDE DEF rest, q, orders
<1>3. /\ DOMAIN orders \subseteq LastPass(s)
      /\ \A i \in DOMAIN orders :
            /\ orders[i].type = "set_power_kw"
            /\ orders[i].value \in Int /\ orders[i].q \subseteq Int
  <2>1. CASE s.forming = 0
    BY <1>1, <1>2, <2>1 DEF LastPass, SetPower
  <2>2. CASE s.forming # 0
    BY <1>1, <1>2, <2>2 DEF LastPass, SetPower
  <2> QED
    BY <2>1, <2>2
<1> QED
  BY <1>3 DEF orders

\* The set points that close the balance leave every device one of its kind, and
\* reach only those they are for.
LEMMA ClosedOK ==
    ASSUME NEW s, ScenarioOK(s), NEW dev, DevicesOK(s, dev), NEW orders,
           \A i \in DOMAIN orders : orders[i].value \in Int /\ orders[i].q \subseteq Int
    PROVE  /\ DevicesOK(s, Closed(s, dev, orders)) /\ SameStores(s, dev, Closed(s, dev, orders))
           /\ \A i \in Indices(s) \ DOMAIN orders : Closed(s, dev, orders)[i] = dev[i]
           /\ \A i \in Indices(s) \cap DOMAIN orders :
                 Closed(s, dev, orders)[i] = Command(s.devices[i], dev[i], orders[i]).device
<1> DEFINE after == Closed(s, dev, orders)
<1>1. DOMAIN dev = Indices(s)
  BY DEF DevicesOK
<1>2. after = [i \in Indices(s) |->
                  IF i \in DOMAIN orders THEN Command(s.devices[i], dev[i], orders[i]).device
                  ELSE dev[i]]
  BY <1>1 DEF Closed, Each
<1>3. ASSUME NEW i \in Indices(s), i \in DOMAIN orders
      PROVE  /\ KindOK(s.devices[i], Command(s.devices[i], dev[i], orders[i]).device)
             /\ SameStore(s.devices[i], dev[i], Command(s.devices[i], dev[i], orders[i]).device)
  <2>1. DeviceConfigOK(s.devices[i]) /\ KindOK(s.devices[i], dev[i])
    BY Numbered DEF DevicesOK
  <2>2. orders[i].value \in Int /\ orders[i].q \subseteq Int
    BY <1>3
  <2> QED
    BY <2>1, <2>2, CommandOK, CommandStoresNothing
<1> HIDE DEF after
<1>4. ASSUME NEW i \in Indices(s)
      PROVE  KindOK(s.devices[i], after[i]) /\ SameStore(s.devices[i], dev[i], after[i])
  <2>1. CASE i \in DOMAIN orders
    BY <1>2, <1>3, <2>1
  <2>2. CASE i \notin DOMAIN orders
    BY <1>2, <2>2, SameIsSame DEF DevicesOK
  <2> QED
    BY <2>1, <2>2
<1>5. after = [i \in Indices(s) |-> after[i]]
  BY <1>2
<1>6. \A i \in Indices(s) : i \notin DOMAIN orders => after[i] = dev[i]
  BY <1>2
<1>7. \A i \in Indices(s) :
         i \in DOMAIN orders => after[i] = Command(s.devices[i], dev[i], orders[i]).device
  BY <1>2
<1> QED
  BY <1>4, <1>5, <1>6, <1>7 DEF DevicesOK, SameStores, after

\* The steps of a tick.
TickLoaded(s, t, p, given, faults) ==
    Faulted(s, LoadInputs(s, Commanded(s, p.device, given), t), faults)

TickFirst(s, t, p, given, faults, draw) ==
    Pass(s, FirstPass(s), TickLoaded(s, t, p, given, faults), p.grid.volt, draw)

TickOrders(s, t, p, given, faults, draw) ==
    CloseOrders(s, TickFirst(s, t, p, given, faults, draw), Manual(s, given, t))

TickClosed(s, t, p, given, faults, draw) ==
    Closed(s, TickFirst(s, t, p, given, faults, draw), TickOrders(s, t, p, given, faults, draw))

TickSecond(s, t, p, given, faults, draw) ==
    Pass(s, LastPass(s), TickClosed(s, t, p, given, faults, draw), p.grid.volt, draw)

\* A plant that a tick may start from.
PlantReady(s, p) == DevicesOK(s, p.device) /\ p.grid.volt \in Int

\* After each step of a tick every device is one of its kind; whatever reaches it before
\* its own tick leaves its store alone.
StepsTyped(s, t, p, given, faults, draw) ==
    /\ DevicesOK(s, TickLoaded(s, t, p, given, faults))
    /\ DevicesOK(s, TickFirst(s, t, p, given, faults, draw))
    /\ DevicesOK(s, TickClosed(s, t, p, given, faults, draw))
    /\ DevicesOK(s, TickSecond(s, t, p, given, faults, draw))
    /\ SameStores(s, p.device, TickLoaded(s, t, p, given, faults))
    /\ SameStores(s, TickFirst(s, t, p, given, faults, draw),
                  TickClosed(s, t, p, given, faults, draw))

\* The devices of the first pass tick with what was loaded, and the rest of the tick
\* leaves them alone.
FirstSteps(s, t, p, given, faults, draw) ==
    LET loaded == TickLoaded(s, t, p, given, faults)
        first  == TickFirst(s, t, p, given, faults, draw)
        second == TickSecond(s, t, p, given, faults, draw)
    IN  \A i \in FirstPass(s) :
           /\ second[i] = first[i] /\ InLimits(s.devices[i], first[i])
           /\ s.devices[i].kind # "smart_meter" =>
                 first[i] = Tick(s.devices[i], loaded[i], p.grid.volt, draw, 0)

\* Those of the second pass are left alone by the first, get the set points that close
\* the balance, nobody else does, and tick.
LastSteps(s, t, p, given, faults, draw) ==
    LET loaded == TickLoaded(s, t, p, given, faults)
        first  == TickFirst(s, t, p, given, faults, draw)
        orders == TickOrders(s, t, p, given, faults, draw)
        closed == TickClosed(s, t, p, given, faults, draw)
        second == TickSecond(s, t, p, given, faults, draw)
    IN  /\ DOMAIN orders \subseteq LastPass(s)
        /\ \A i \in LastPass(s) :
              /\ InLimits(s.devices[i], second[i])
              /\ first[i] = loaded[i]
              /\ i \notin DOMAIN orders => closed[i] = loaded[i]
              /\ i \in DOMAIN orders =>
                    closed[i] = Command(s.devices[i], loaded[i], orders[i]).device
              /\ s.devices[i].kind # "smart_meter" =>
                    second[i] = Tick(s.devices[i], closed[i], p.grid.volt, draw, 0)

\* A tick takes these steps, and they leave every device within its limits.
LEMMA StepsOK ==
    ASSUME NEW s, ScenarioOK(s), NEW t \in Nat, NEW p, PlantReady(s, p),
           NEW given \in Given(s), NEW faults, NEW draw \in Int
    PROVE  /\ StepsTyped(s, t, p, given, faults, draw)
           /\ FirstSteps(s, t, p, given, faults, draw)
           /\ LastSteps(s, t, p, given, faults, draw)
<1> DEFINE loaded == TickLoaded(s, t, p, given, faults)
           first  == TickFirst(s, t, p, given, faults, draw)
           orders == TickOrders(s, t, p, given, faults, draw)
           closed == TickClosed(s, t, p, given, faults, draw)
           second == TickSecond(s, t, p, given, faults, draw)
           volt   == p.grid.volt
<1>1. LastPass(s) \subseteq Indices(s) /\ FirstPass(s) = Indices(s) \ LastPass(s) /\ volt \in Int
  BY Numbered DEF FirstPass, PlantReady
<1>2. DevicesOK(s, loaded) /\ SameStores(s, p.device, loaded)
  <2> DEFINE ordered  == Commanded(s, p.device, given)
             overlaid == LoadInputs(s, ordered, t)
  <2>1. DevicesOK(s, ordered) /\ SameStores(s, p.device, ordered)
    BY CommandedOK DEF PlantReady
  <2>2. loaded = Faulted(s, overlaid, faults)
    BY DEF TickLoaded
  <2> HIDE DEF ordered, loaded
  <2>3. DevicesOK(s, overlaid) /\ SameStores(s, ordered, overlaid)
    BY <2>1, LoadInputsOK
  <2> HIDE DEF overlaid
  <2>4. DevicesOK(s, loaded) /\ SameStores(s, overlaid, loaded)
    BY <2>2, <2>3, FaultedOK
  <2>5. SameStores(s, p.device, overlaid)
    BY <2>1, <2>3, SameOfSame
  <2> QED
    BY <2>4, <2>5, SameOfSame
<1>3. first = Pass(s, FirstPass(s), loaded, volt, draw)
  BY DEF TickFirst
<1>4. orders = CloseOrders(s, first, Manual(s, given, t))
  BY DEF TickOrders
<1>5. closed = Closed(s, first, orders)
  BY DEF TickClosed
<1>6. second = Pass(s, LastPass(s), closed, volt, draw)
  BY DEF TickSecond
<1> HIDE DEF loaded, first, orders, closed, second, volt
<1>7. /\ DevicesOK(s, first)
      /\ \A i \in LastPass(s) : first[i] = loaded[i]
      /\ \A i \in FirstPass(s) :
            /\ InLimits(s.devices[i], first[i])
            /\ s.devices[i].kind # "smart_meter" =>
                  first[i] = Tick(s.devices[i], loaded[i], volt, draw, 0)
  <2>1. /\ DevicesOK(s, first)
        /\ \A i \in Indices(s) \ FirstPass(s) : first[i] = loaded[i]
        /\ \A i \in Indices(s) \cap FirstPass(s) :
              /\ InLimits(s.devices[i], first[i])
              /\ s.devices[i].kind # "smart_meter" =>
                    first[i] = Tick(s.devices[i], loaded[i], volt, draw, 0)
    BY <1>1, <1>2, <1>3, PassOK
  <2> QED
    BY <1>1, <2>1
<1>8. /\ DOMAIN orders \subseteq LastPass(s)
      /\ \A i \in DOMAIN orders :
            /\ orders[i].type = "set_power_kw"
            /\ orders[i].value \in Int /\ orders[i].q \subseteq Int
  BY <1>4, <1>7, CloseOrdersOK
<1>9. /\ DevicesOK(s, closed) /\ SameStores(s, first, closed)
      /\ \A i \in Indices(s) \ DOMAIN orders : closed[i] = first[i]
      /\ \A i \in Indices(s) \cap DOMAIN orders :
            closed[i] = Command(s.devices[i], first[i], orders[i]).device
  BY <1>5, <1>7, <1>8, ClosedOK
<1>10. /\ DevicesOK(s, second)
       /\ \A i \in FirstPass(s) : second[i] = closed[i]
       /\ \A i \in LastPass(s) :
             /\ InLimits(s.devices[i], second[i])
             /\ s.devices[i].kind # "smart_meter" =>
                   second[i] = Tick(s.devices[i], closed[i], volt, draw, 0)
  <2>1. /\ DevicesOK(s, second)
        /\ \A i \in Indices(s) \ LastPass(s) : second[i] = closed[i]
        /\ \A i \in Indices(s) \cap LastPass(s) :
              /\ InLimits(s.devices[i], second[i])
              /\ s.devices[i].kind # "smart_meter" =>
                    second[i] = Tick(s.devices[i], closed[i], volt, draw, 0)
    BY <1>1, <1>6, <1>9, PassOK
  <2> QED
    BY <1>1, <2>1
<1>11. \A i \in FirstPass(s) : closed[i] = first[i]
  BY <1>1, <1>8, <1>9
<1>12. \A i \in LastPass(s) :
          /\ i \notin DOMAIN orders => closed[i] = loaded[i]
          /\ i \in DOMAIN orders =>
                closed[i] = Command(s.devices[i], loaded[i], orders[i]).device
  BY <1>1, <1>7, <1>9
<1>13. \A i \in FirstPass(s) : second[i] = first[i]
  BY <1>10, <1>11
<1>14. StepsTyped(s, t, p, given, faults, draw)
  BY <1>2, <1>7, <1>9, <1>10 DEF StepsTyped, loaded, first, closed, second
<1>15. FirstSteps(s, t, p, given, faults, draw)
  BY <1>7, <1>13 DEF FirstSteps, loaded, first, second, volt
<1>16. LastSteps(s, t, p, given, faults, draw)
  BY <1>7, <1>8, <1>10, <1>12 DEF LastSteps, loaded, first, orders, closed, second, volt
<1> QED
  BY <1>14, <1>15, <1>16

\* What a tick makes of the plant, in terms of its steps.
LEMMA TickedIs ==
    ASSUME NEW s, NEW t, NEW p, NEW given, NEW faults, NEW draw
    PROVE  /\ Ticked(s, t, p, given, faults, draw).device
                = TickSecond(s, t, p, given, faults, draw)
           /\ Ticked(s, t, p, given, faults, draw).grid
                = GridUpdated(s, TickSecond(s, t, p, given, faults, draw), p.grid)
BY DEF Ticked, TickLoaded, TickFirst, TickOrders, TickClosed, TickSecond

\* The voltage stays a number.
LEMMA VoltInt ==
    ASSUME NEW s, ScenarioOK(s), NEW dev, DevicesOK(s, dev), NEW grid
    PROVE  GridUpdated(s, dev, grid).volt \in Int
<1> DEFINE kw   == Residual(s, dev, Indices(s))
           kvar == Reactive(s, dev, Indices(s))
           a    == s.grid.voltPerKw
           b    == s.grid.voltPerKvar
           most == s.grid.maxVolt
<1>1. kw \in Int /\ kvar \in Int
  BY BalanceInt
<1>2. a \in Int /\ b \in Int /\ most \in Int
  BY DEF ScenarioOK
<1>3. GridUpdated(s, dev, grid).volt = LimitTo(-most, most, a * kw + b * kvar)
  BY DEF GridUpdated
<1> HIDE DEF kw, kvar, a, b, most
<1>4. a * kw + b * kvar \in Int
  BY <1>1, <1>2
<1> DEFINE volt == a * kw + b * kvar
<1> HIDE DEF volt
<1>5. LimitTo(-most, most, volt) \in Int
  BY <1>2, <1>4 DEF LimitTo, volt
<1> QED
  BY <1>3, <1>5 DEF volt

-------------------------------------------------------------------------------
(***************************************************************************)
(* The runs of a plant                                                     *)
(***************************************************************************)

\* The inductive invariant: whatever has been ordered and has failed, every device is
\* one of its kind and has told a power within its limits.
PlantInv ==
    /\ scenario \in Scenarios /\ tick \in Nat
    /\ PlantReady(scenario, plant)
    /\ \A i \in Indices(scenario) : InLimits(scenario.devices[i], plant.device[i])

\* What is known of a tick: the plant it finds and what reaches it.
LEMMA TickContext ==
    ASSUME NEW given, NEW faults, NEW draw \in Draws, PlantInv,
           given \in {{}} \cup {{o} : o \in scenario.orders}
    PROVE  /\ ScenarioOK(scenario) /\ tick \in Nat /\ PlantReady(scenario, plant)
           /\ given \in Given(scenario) /\ draw \in Int
<1>1. ScenarioOK(scenario)
  BY PlantAssumption DEF PlantInv
<1>2. \A i \in OfKind(scenario, "wind_turbine") : scenario.devices[i].rated \in Int
  BY <1>1, Numbered DEF OfKind, DeviceConfigOK
<1>3. draw \in Int
  BY <1>2 DEF Draws
<1> QED
  BY <1>1, <1>3 DEF PlantInv, Given

\* The plant that was just built.
LEMMA BuiltOK ==
    ASSUME NEW s, ScenarioOK(s)
    PROVE  /\ PlantReady(s, BuiltPlant(s))
           /\ \A i \in Indices(s) : InLimits(s.devices[i], BuiltPlant(s).device[i])
           /\ \A i \in OfKind(s, "smart_meter") : BuiltPlant(s).device[i].attached = TRUE
<1> DEFINE dev == Built(s)
<1>1. dev = [i \in Indices(s) |->
                IF s.devices[i].kind = "smart_meter"
                THEN [Fresh(s.devices[i]) EXCEPT !.attached = TRUE]
                ELSE Fresh(s.devices[i])]
  BY DEF Built
<1> HIDE DEF dev
<1>2. ASSUME NEW i \in Indices(s)
      PROVE  KindOK(s.devices[i], dev[i]) /\ InLimits(s.devices[i], dev[i])
  <2>1. KindOK(s.devices[i], Fresh(s.devices[i])) /\ InLimits(s.devices[i], Fresh(s.devices[i]))
    BY Numbered, FreshOK
  <2>2. CASE s.devices[i].kind # "smart_meter"
    BY <1>1, <2>1, <2>2
  <2>3. CASE s.devices[i].kind = "smart_meter"
    <3>1. dev[i] = [MeterInit EXCEPT !.attached = TRUE]
      BY <1>1, <2>3 DEF Fresh
    <3>2. dev[i] = [attached |-> TRUE, told |-> 0, q |-> 0]
      BY <3>1 DEF MeterInit
    <3>3. MeterOK(dev[i])
      BY <3>2 DEF MeterOK
    <3> QED
      BY <2>3, <3>3 DEF KindOK, InLimits
  <2> QED
    BY <2>2, <2>3
<1>3. ASSUME NEW i \in OfKind(s, "smart_meter")
      PROVE  dev[i].attached = TRUE
  <2>1. dev[i] = [MeterInit EXCEPT !.attached = TRUE]
    BY <1>1 DEF OfKind, Fresh
  <2> QED
    BY <2>1 DEF MeterInit
<1>4. BuiltPlant(s).device = dev /\ BuiltPlant(s).grid.volt = 0
  BY DEF BuiltPlant, BuiltGrid, dev
<1>5. dev = [i \in Indices(s) |-> dev[i]]
  BY <1>1
<1>6. DevicesOK(s, dev)
  BY <1>2, <1>5 DEF DevicesOK
<1>7. PlantReady(s, BuiltPlant(s))
  BY <1>4, <1>6 DEF PlantReady
<1>8. \A i \in OfKind(s, "smart_meter") : BuiltPlant(s).device[i].attached = TRUE
  BY <1>3, <1>4
<1>9. \A i \in Indices(s) : InLimits(s.devices[i], BuiltPlant(s).device[i])
  BY <1>2, <1>4
<1> QED
  BY <1>7, <1>8, <1>9

\* A tick keeps the plant what it is.
LEMMA TickKeepsPlant ==
    ASSUME PlantInv, NEW given \in {{}} \cup {{o} : o \in scenario.orders}, NEW faults,
           NEW draw \in Draws, TickPlant(given, faults, draw)
    PROVE  PlantInv'
<1> DEFINE second == TickSecond(scenario, tick, plant, given, faults, draw)
<1>1. /\ ScenarioOK(scenario) /\ tick \in Nat /\ PlantReady(scenario, plant)
      /\ given \in Given(scenario) /\ draw \in Int
  BY TickContext
<1>steps. /\ StepsTyped(scenario, tick, plant, given, faults, draw)
      /\ FirstSteps(scenario, tick, plant, given, faults, draw)
      /\ LastSteps(scenario, tick, plant, given, faults, draw)
  BY <1>1, StepsOK
<1>2. /\ DevicesOK(scenario, second)
      /\ \A i \in FirstPass(scenario) :
            /\ second[i] = TickFirst(scenario, tick, plant, given, faults, draw)[i]
            /\ InLimits(scenario.devices[i],
                        TickFirst(scenario, tick, plant, given, faults, draw)[i])
      /\ \A i \in LastPass(scenario) : InLimits(scenario.devices[i], second[i])
  BY <1>steps DEF StepsTyped, FirstSteps, LastSteps
<1>3. /\ plant'.device = second
      /\ plant'.grid = GridUpdated(scenario, second, plant.grid)
      /\ scenario' = scenario /\ tick' = tick + 1
  <2> DEFINE r == Ticked(scenario, tick, plant, given, faults, draw)
  <2>1. plant' = State(r) /\ scenario' = scenario /\ tick' = tick + 1
    BY DEF TickPlant
  <2>2. r.device = second /\ r.grid = GridUpdated(scenario, second, plant.grid)
    BY TickedIs
  <2> HIDE DEF r, second
  <2> QED
    BY <2>1, <2>2 DEF State
<1> HIDE DEF second
<1>4. plant'.grid.volt \in Int
  BY <1>1, <1>2, <1>3, VoltInt
<1>5. \A i \in Indices(scenario) : InLimits(scenario.devices[i], second[i])
  BY <1>2 DEF FirstPass
<1>6. PlantReady(scenario, plant')
  BY <1>2, <1>3, <1>4 DEF PlantReady
<1> QED
  BY <1>1, <1>3, <1>5, <1>6 DEF PlantInv

\* The plant stays what it is in every run.
LEMMA PlantInvHolds == Spec => []PlantInv
<1>1. Init => PlantInv
  <2> SUFFICES ASSUME Init PROVE PlantInv
    OBVIOUS
  <2>1. scenario \in Scenarios /\ tick \in Nat /\ plant = BuiltPlant(scenario)
    BY DEF Init
  <2>2. ScenarioOK(scenario)
    BY <2>1, PlantAssumption
  <2> QED
    BY <2>1, <2>2, BuiltOK DEF PlantInv
<1>2. PlantInv /\ [Next]_vars => PlantInv'
  <2> SUFFICES ASSUME PlantInv, [Next]_vars PROVE PlantInv'
    OBVIOUS
  <2>1. ASSUME NEW given \in {{}} \cup {{o} : o \in scenario.orders},
               NEW faults \in FaultChoices, NEW draw \in Draws, TickPlant(given, faults, draw)
        PROVE  PlantInv'
    BY <2>1, TickKeepsPlant
  <2>2. ASSUME Resume \/ ResumeAnew
        PROVE  PlantInv'
    BY <2>2 DEF Resume, ResumeAnew, ResumeWith, PlantInv, PlantReady, DevicesOK
  <2>3. ASSUME UNCHANGED vars
        PROVE  PlantInv'
    BY <2>3 DEF vars, PlantInv, PlantReady, DevicesOK
  <2> QED
    BY <2>1, <2>2, <2>3 DEF Next
<1> QED
  BY <1>1, <1>2, PTL DEF Spec

\* Whatever is ordered, by whomever, and whatever fails, no store leaves its limits
\* and no device reports more than its rating, for every list of devices (GG-BESS-004/005,
\* the device models and TickLoop._run_tick_body).
THEOREM LimitsEver == Spec => []DevicesWithinLimits
<1>1. PlantInv => DevicesWithinLimits
  BY DEF PlantInv, DevicesWithinLimits, InLimits
<1> QED
  BY <1>1, PlantInvHolds, PTL

\* When one device makes up the second pass, what is left over in the end is what was
\* left over for it, and its own part.
LEMMA LeftOver ==
    ASSUME NEW s, ScenarioOK(s), NEW first, DevicesOK(s, first), NEW second,
           DevicesOK(s, second), NEW j \in Indices(s), LastPass(s) = {j},
           \A i \in FirstPass(s) : second[i] = first[i]
    PROVE  /\ Residual(s, second, Indices(s))
                = Residual(s, first, FirstPass(s)) + Sign(s.devices[j].kind) * second[j].told
           /\ Reactive(s, second, Indices(s)) = Reactive(s, first, FirstPass(s)) + second[j].q
<1> DEFINE n     == Len(s.devices)
           Kw(i) == Sign(s.devices[i].kind) * second[i].told
           kw    == [i \in Indices(s) |->
                       IF i \in Indices(s) THEN Sign(s.devices[i].kind) * second[i].told ELSE 0]
           rest  == [i \in Indices(s) |->
                       IF i \in FirstPass(s) THEN Sign(s.devices[i].kind) * first[i].told ELSE 0]
           own   == [i \in Indices(s) |-> IF i = j THEN Kw(j) ELSE 0]
           kvar  == [i \in Indices(s) |-> IF i \in Indices(s) THEN second[i].q ELSE 0]
           restQ == [i \in Indices(s) |-> IF i \in FirstPass(s) THEN first[i].q ELSE 0]
           ownQ  == [i \in Indices(s) |-> IF i = j THEN second[j].q ELSE 0]
<1>1. n \in Nat /\ Indices(s) = 1..n /\ j \in 1..n
  BY Numbered
<1>2. \A i \in Indices(s) : i \in FirstPass(s) <=> i # j
  BY DEF FirstPass
<1>3. \A i \in Indices(s) : second[i].told \in Int /\ second[i].q \in Int
  BY Numbered, KindTells DEF DevicesOK
<1>4. \A i \in Indices(s) : Kw(i) \in Int
  <2>1. \A i \in Indices(s) : Sign(s.devices[i].kind) \in Int
    BY DEF Sign
  <2> QED
    BY <1>3, <2>1
<1>5. /\ \A i \in Indices(s) : kw[i] = Kw(i)
      /\ \A i \in Indices(s) : rest[i] = IF i # j THEN Kw(i) ELSE 0
      /\ \A i \in Indices(s) : own[i] = IF i = j THEN Kw(i) ELSE 0
  BY <1>2
<1>6. /\ \A i \in Indices(s) : kvar[i] = second[i].q
      /\ \A i \in Indices(s) : restQ[i] = IF i # j THEN second[i].q ELSE 0
      /\ \A i \in Indices(s) : ownQ[i] = IF i = j THEN second[i].q ELSE 0
  BY <1>2
<1>7. /\ Residual(s, second, Indices(s)) = SumTo(kw, n)
      /\ Residual(s, first, FirstPass(s)) = SumTo(rest, n)
      /\ Reactive(s, second, Indices(s)) = SumTo(kvar, n)
      /\ Reactive(s, first, FirstPass(s)) = SumTo(restQ, n)
  BY DEF Residual, Reactive, SumOver
<1>8. /\ DOMAIN kw = 1..n /\ DOMAIN rest = 1..n /\ DOMAIN own = 1..n
      /\ kw = [i \in 1..n |-> kw[i]] /\ rest = [i \in 1..n |-> rest[i]]
      /\ own = [i \in 1..n |-> own[i]]
  BY <1>1
<1>9. /\ kvar = [i \in 1..n |-> kvar[i]] /\ restQ = [i \in 1..n |-> restQ[i]]
      /\ ownQ = [i \in 1..n |-> ownQ[i]]
  BY <1>1
<1> HIDE DEF n, Kw, kw, rest, own, kvar, restQ, ownQ
<1>10. kw \in [1..n -> Int] /\ rest \in [1..n -> Int] /\ own \in [1..n -> Int]
  BY <1>1, <1>4, <1>5, <1>8
<1>11. kvar \in [1..n -> Int] /\ restQ \in [1..n -> Int] /\ ownQ \in [1..n -> Int]
  <2>1. \A i \in 1..n : kvar[i] \in Int /\ restQ[i] \in Int /\ ownQ[i] \in Int
    BY <1>1, <1>3, <1>6
  <2>2. kvar \in [1..n -> Int]
    BY <1>9, <2>1
  <2>3. restQ \in [1..n -> Int]
    BY <1>9, <2>1
  <2>4. ownQ \in [1..n -> Int]
    BY <1>9, <2>1
  <2> QED
    BY <2>2, <2>3, <2>4
<1>12. SumTo(kw, n) = SumTo(rest, n) + SumTo(own, n)
  <2>1. \A i \in 1..n : kw[i] = rest[i] + own[i]
    BY <1>1, <1>4, <1>5
  <2> QED
    BY <1>1, <1>10, <2>1, SumAdds
<1>13. SumTo(own, n) = Kw(j)
  <2>1. \A i \in 1..n : i # j => own[i] = 0
    BY <1>1, <1>5
  <2>2. SumTo(own, n) = own[j]
    BY <1>1, <1>10, <2>1, SumOfOne
  <2> QED
    BY <1>1, <1>5, <2>2
<1>14. SumTo(kvar, n) = SumTo(restQ, n) + SumTo(ownQ, n)
  <2>1. \A i \in 1..n : kvar[i] = restQ[i] + ownQ[i]
    BY <1>1, <1>3, <1>6
  <2> QED
    BY <1>1, <1>11, <2>1, SumAdds
<1>15. SumTo(ownQ, n) = second[j].q
  <2>1. \A i \in 1..n : i # j => ownQ[i] = 0
    BY <1>1, <1>6
  <2>2. SumTo(ownQ, n) = ownQ[j]
    BY <1>1, <1>11, <2>1, SumOfOne
  <2> QED
    BY <1>1, <1>6, <2>2
<1> QED
  BY <1>7, <1>12, <1>13, <1>14, <1>15 DEF Kw

\* Of a set of one its element is chosen.
LEMMA ChosenOne == \A x : (CHOOSE y \in {x} : TRUE) = x
OBVIOUS

\* In a tick that one device closes, as it was told to, nothing is left over.
LEMMA TickBalances ==
    ASSUME NEW s, ScenarioOK(s), NEW t \in Nat, NEW p, PlantReady(s, p),
           NEW given \in Given(s), NEW faults, NEW draw \in Int,
           NEW j \in DOMAIN TickOrders(s, t, p, given, faults, draw), LastPass(s) = {j},
           s.devices[j].kind \notin {"load", "transformer"},
           Command(s.devices[j], TickFirst(s, t, p, given, faults, draw)[j],
                   TickOrders(s, t, p, given, faults, draw)[j]).result = "accepted",
           TickSecond(s, t, p, given, faults, draw)[j].told
              = TickOrders(s, t, p, given, faults, draw)[j].value
    PROVE  LET second == TickSecond(s, t, p, given, faults, draw)
           IN  /\ Residual(s, second, Indices(s)) = 0
               /\ s.forming = 0 => Reactive(s, second, Indices(s)) = 0
<1> DEFINE loaded == TickLoaded(s, t, p, given, faults)
           first  == TickFirst(s, t, p, given, faults, draw)
           orders == TickOrders(s, t, p, given, faults, draw)
           closed == TickClosed(s, t, p, given, faults, draw)
           second == TickSecond(s, t, p, given, faults, draw)
           rest   == Residual(s, first, FirstPass(s))
           restQ  == Reactive(s, first, FirstPass(s))
           c      == s.devices[j]
<1>steps. /\ StepsTyped(s, t, p, given, faults, draw)
      /\ FirstSteps(s, t, p, given, faults, draw)
      /\ LastSteps(s, t, p, given, faults, draw)
  BY StepsOK
<1>1. /\ DevicesOK(s, first) /\ DevicesOK(s, second)
      /\ \A i \in FirstPass(s) : second[i] = first[i]
      /\ first[j] = loaded[j]
      /\ closed[j] = Command(c, loaded[j], orders[j]).device
      /\ c.kind # "smart_meter" => second[j] = Tick(c, closed[j], p.grid.volt, draw, 0)
  BY <1>steps DEF StepsTyped, FirstSteps, LastSteps
<1>2. j \in Indices(s) /\ c.kind \in Kinds
  BY Numbered
<1>3. /\ Residual(s, second, Indices(s)) = rest + Sign(c.kind) * second[j].told
      /\ Reactive(s, second, Indices(s)) = restQ + second[j].q
  BY <1>1, <1>2, LeftOver
<1>4. rest \in Int /\ restQ \in Int
  BY <1>1, BalanceInt
<1>5. orders = IF s.forming = 0
               THEN [i \in Connections(s) \ Manual(s, given, t) |-> SetPower(-rest, {-restQ})]
               ELSE [i \in {s.forming} |->
                        SetPower(IF s.devices[i].kind \in Storage THEN rest ELSE -rest, {})]
  BY DEF TickOrders, CloseOrders
<1>6. second[j].told = orders[j].value /\ Command(c, first[j], orders[j]).result = "accepted"
  OBVIOUS
<1>7. j \in DOMAIN orders
  OBVIOUS
<1>8. c.kind \notin {"load", "transformer"}
  OBVIOUS
<1> HIDE DEF loaded, first, orders, closed, second, rest, restQ, c
<1>9. CASE s.forming = 0
  <2>1. j \in Connections(s) /\ orders[j] = SetPower(-rest, {-restQ})
    BY <1>5, <1>7, <1>9
  <2>2. c.kind = "grid_connection"
    BY <2>1 DEF Connections, c
  <2>3. Sign(c.kind) = 1
    BY <2>2 DEF Sign
  <2>4. second[j].told = -rest
    BY <1>6, <2>1 DEF SetPower
  <2>5. closed[j].pendingQ = -restQ
    <3> DEFINE d == loaded[j]
    <3>1. KindOK(c, d)
      <4>1. KindOK(c, first[j])
        BY <1>1, <1>2 DEF DevicesOK, c
      <4> QED
        BY <1>1, <4>1
    <3>2. ConnectionOK(c, d)
      BY <2>2, <3>1 DEF KindOK
    <3>3. closed[j] = ConnectionCommand(c, d, orders[j]).device
      BY <1>1, <2>1, <2>2 DEF Command, SetPower
    <3>4. orders[j].q = {-restQ}
      BY <2>1 DEF SetPower
    <3>5. (CHOOSE x \in orders[j].q : TRUE) = -restQ
      BY <3>4, ChosenOne
    <3> HIDE DEF d
    <3>6. closed[j] = [[d EXCEPT !.pending = LimitTo(-c.maxExport, c.maxImport, orders[j].value)]
                          EXCEPT !.pendingQ = -restQ]
      BY <3>3, <3>4, <3>5 DEF ConnectionCommand, Ordered, Answered
    <3> QED
      BY <3>2, <3>6 DEF ConnectionOK
  <2>6. second[j].q = -restQ
    <3>1. DevicesOK(s, TickClosed(s, t, p, given, faults, draw))
      BY <1>steps DEF StepsTyped, FirstSteps, LastSteps
    <3>2. ConnectionOK(c, closed[j])
      BY <1>2, <2>2, <3>1 DEF DevicesOK, KindOK, c, closed
    <3>3. second[j] = ConnectionTick(closed[j])
      BY <1>1, <2>2 DEF Tick
    <3> QED
      BY <2>5, <3>2, <3>3 DEF ConnectionTick, Reports, ConnectionOK
  <2> QED
    BY <1>3, <1>4, <2>3, <2>4, <2>6 DEF second
<1>10. CASE s.forming # 0
  <2>1. j = s.forming
    BY <1>5, <1>7, <1>10
  <2>2. orders[j] = SetPower(IF c.kind \in Storage THEN rest ELSE -rest, {})
    BY <1>5, <1>10, <2>1 DEF c
  <2>3. second[j].told = IF c.kind \in Storage THEN rest ELSE -rest
    BY <1>6, <2>2 DEF SetPower
  <2>4. c.kind # "smart_meter"
    <3> SUFFICES ASSUME c.kind = "smart_meter" PROVE FALSE
      OBVIOUS
    <3>1. Command(c, first[j], orders[j]).result = "ignored"
      BY DEF Command, Answered
    <3> QED
      BY <1>6, <3>1
  <2>5. Sign(c.kind) = IF c.kind \in Storage THEN -1 ELSE 1
    BY <1>2, <1>8, <2>4 DEF Kinds, Sign, Storage, Generation
  <2>6. Residual(s, second, Indices(s)) = 0
    BY <1>3, <1>4, <2>3, <2>5
  <2> QED
    BY <1>10, <2>6 DEF second
<1> QED
  BY <1>9, <1>10

\* When one device has closed the balance of a tick, took its set point as it was and
\* has reached it, nothing is left over, in a grid of the reactive power either, for
\* every list of devices (TickLoop._apply_grid_balance and the island's forming device).
THEOREM BalanceEver == Spec => []BalanceCloses
<1>1. Init => BalanceCloses
  BY DEF Init, BalanceCloses
<1>2. PlantInv /\ BalanceCloses /\ [Next]_vars => BalanceCloses'
  <2> SUFFICES ASSUME PlantInv, BalanceCloses, [Next]_vars PROVE BalanceCloses'
    OBVIOUS
  <2>1. ASSUME NEW given \in {{}} \cup {{o} : o \in scenario.orders},
               NEW faults \in FaultChoices, NEW draw \in Draws, TickPlant(given, faults, draw)
        PROVE  BalanceCloses'
    <3> DEFINE first  == TickFirst(scenario, tick, plant, given, faults, draw)
               orders == TickOrders(scenario, tick, plant, given, faults, draw)
               second == TickSecond(scenario, tick, plant, given, faults, draw)
               r      == Ticked(scenario, tick, plant, given, faults, draw)
    <3>1. /\ ScenarioOK(scenario) /\ tick \in Nat /\ PlantReady(scenario, plant)
          /\ given \in Given(scenario) /\ draw \in Int
      BY TickContext
    <3>2. plant' = State(r) /\ scenario' = scenario /\ closing' = r.closing
      BY <2>1 DEF TickPlant
    <3>3. r.device = second /\ r.grid = GridUpdated(scenario, second, plant.grid)
      BY TickedIs
    <3>4. r.closing = [i \in DOMAIN orders |->
                         [result |-> Command(scenario.devices[i], first[i], orders[i]).result,
                          value |-> orders[i].value]]
      BY DEF Ticked, TickLoaded, TickFirst, TickOrders
    <3> HIDE DEF r
    <3>5. ASSUME NEW j \in DOMAIN orders, LastPass(scenario) = {j},
                 scenario.devices[j].kind \notin {"load", "transformer"},
                 Command(scenario.devices[j], first[j], orders[j]).result = "accepted",
                 second[j].told = orders[j].value
          PROVE  /\ Residual(scenario, second, Indices(scenario)) = 0
                 /\ scenario.forming = 0 => Reactive(scenario, second, Indices(scenario)) = 0
      BY <3>1, <3>5, TickBalances
    <3> HIDE DEF first, orders, second
    <3>6. /\ plant'.device = second
          /\ plant'.grid.imbalance = Residual(scenario, second, Indices(scenario))
          /\ plant'.grid.kvar = Reactive(scenario, second, Indices(scenario))
      BY <3>2, <3>3 DEF State, GridUpdated
    <3>7. /\ DOMAIN closing' = DOMAIN orders
          /\ \A j \in DOMAIN orders :
                /\ closing'[j].result = Command(scenario.devices[j], first[j], orders[j]).result
                /\ closing'[j].value = orders[j].value
      BY <3>2, <3>4
    <3>8. ASSUME NEW j \in DOMAIN closing', LastPass(scenario) = {j},
                 scenario.devices[j].kind \notin {"load", "transformer"},
                 closing'[j].result = "accepted", plant'.device[j].told = closing'[j].value
          PROVE  /\ plant'.grid.imbalance = 0
                 /\ scenario.forming = 0 => plant'.grid.kvar = 0
      BY <3>5, <3>6, <3>7, <3>8
    <3> QED
      BY <3>2, <3>8 DEF BalanceCloses
  <2>2. ASSUME Resume \/ ResumeAnew \/ UNCHANGED vars
        PROVE  BalanceCloses'
    <3>1. UNCHANGED <<scenario, plant, closing>>
      BY <2>2 DEF Resume, ResumeAnew, ResumeWith, vars
    <3> QED
      BY <3>1 DEF BalanceCloses
  <2> QED
    BY <2>1, <2>2 DEF Next
<1> QED
  BY <1>1, <1>2, PlantInvHolds, PTL DEF Spec

-------------------------------------------------------------------------------
(***************************************************************************)
(* The books: what is stored is what was reported                          *)
(***************************************************************************)

\* Max of two numbers is one of them, and not less than either.
LEMMA MaxOfTwo ==
    ASSUME NEW a \in Int, NEW b \in Int
    PROVE  Max({a, b}) \in Int /\ a <= Max({a, b}) /\ b <= Max({a, b})
<1>1. \E x \in {a, b} : \A y \in {a, b} : x >= y
  OBVIOUS
<1> DEFINE m == Max({a, b})
<1>2. m \in {a, b} /\ \A y \in {a, b} : m >= y
  BY <1>1 DEF Max
<1> HIDE DEF m
<1>3. m \in Int /\ a <= m /\ b <= m
  BY <1>2
<1> QED
  BY <1>3 DEF m

\* The most energy that a tick moves in a battery.
TickEnergy(c) == Max({c.maxCharge * c.gain, c.maxDischarge * c.cost})

\* StoresMatchTelemetry of one device, with b booked and n stops.  While there is fuel
\* the books of a generator are exact: only the last unit can be lost.
Matches(c, d, b, n) ==
    /\ c.kind = "battery" => Magnitude(d.soc - c.soc0 - b) <= n * TickEnergy(c)
    /\ c.kind = "ev_charger" => d.stored = c.stored0 + b
    /\ c.kind = "diesel_generator" => c.fuel0 - d.fuel - b \in 0..(c.rate - 1)
    /\ (c.kind = "diesel_generator" /\ d.fuel > 0) => c.fuel0 - d.fuel - b = 0

\* A power within the rating moves no more than the energy of one tick.
LEMMA EnergyBound ==
    ASSUME NEW c, BatteryConfigOK(c), NEW p \in -c.maxDischarge..c.maxCharge
    PROVE  /\ TickEnergy(c) \in Int /\ TickEnergy(c) >= 0
           /\ BatteryEnergy(c, p) <= TickEnergy(c) /\ -BatteryEnergy(c, p) <= TickEnergy(c)
<1> DEFINE mc == c.maxCharge
           md == c.maxDischarge
           g  == c.gain
           k  == c.cost
           up == mc * g
           dn == md * k
<1>1. mc \in Nat /\ md \in Nat /\ g \in Nat /\ k \in Nat
  BY DEF BatteryConfigOK
<1>2. p \in Int /\ p <= mc /\ -p <= md
  BY <1>1
<1>3. BatteryEnergy(c, p) = IF p > 0 THEN p * g ELSE p * k
  BY DEF BatteryEnergy
<1>4. TickEnergy(c) = Max({up, dn})
  BY DEF TickEnergy
<1> HIDE DEF mc, md, g, k
<1>5. up \in Nat /\ dn \in Nat
  BY <1>1
<1>6. p > 0 => p * g <= up /\ p * g >= 0
  BY <1>1, <1>2
<1>7. ~(p > 0) => -(p * k) <= dn /\ p * k <= 0
  <2> SUFFICES ASSUME ~(p > 0) PROVE -(p * k) <= dn /\ p * k <= 0
    OBVIOUS
  <2> DEFINE q == -p
  <2>1. q \in Nat /\ q <= md /\ p = -q
    BY <1>2
  <2> HIDE DEF q
  <2>2. q * k <= md * k /\ q * k >= 0
    BY <1>1, <2>1
  <2>3. p * k = -(q * k)
    BY <1>1, <2>1
  <2> QED
    BY <1>1, <2>1, <2>2, <2>3
<1>8. p * g \in Int /\ p * k \in Int
  BY <1>1, <1>2
<1> DEFINE pg == p * g
           pk == p * k
<1> HIDE DEF up, dn, pg, pk
<1>9. Max({up, dn}) \in Int /\ up <= Max({up, dn}) /\ dn <= Max({up, dn})
  BY <1>5, MaxOfTwo
<1>10. TickEnergy(c) \in Int /\ up <= TickEnergy(c) /\ dn <= TickEnergy(c)
  BY <1>4, <1>9
<1>11. CASE p > 0
  <2>1. BatteryEnergy(c, p) = pg /\ pg <= up /\ pg >= 0 /\ pg \in Int
    BY <1>3, <1>6, <1>8, <1>11 DEF pg
  <2> QED
    BY <1>5, <1>10, <2>1
<1>12. CASE ~(p > 0)
  <2>1. BatteryEnergy(c, p) = pk /\ -pk <= dn /\ pk <= 0 /\ pk \in Int
    BY <1>3, <1>7, <1>8, <1>12 DEF pk
  <2> QED
    BY <1>5, <1>10, <2>1
<1> QED
  BY <1>11, <1>12

\* What a tick of a battery leaves off the books: nothing, or, when it stops at a
\* limit, less than the energy of one tick.
LEMMA BatteryBooks ==
    ASSUME NEW c, BatteryConfigOK(c), c.kind = "battery", NEW d, BatteryOK(c, d)
    PROVE  LET e   == BatteryTick(c, d)
               off == e.soc - d.soc - BatteryEnergy(c, e.told)
           IN  /\ off \in Int /\ BatteryEnergy(c, e.told) \in Int
               /\ e.soc \in Int
               /\ Stopped(c, d) => off <= TickEnergy(c) /\ -off <= TickEnergy(c)
               /\ ~Stopped(c, d) => off = 0
<1> DEFINE e      == BatteryTick(c, d)
           power  == Derated(c, d, Ramped(d, c.ramp))
           energy == BatteryEnergy(c, power)
           target == d.soc + energy
<1>1. /\ power \in -c.maxDischarge..c.maxCharge
      /\ BatterySaturates(c, target) =>
            e.told = 0 /\ e.soc = LimitTo(c.minSoc, c.maxSoc, target)
      /\ ~BatterySaturates(c, target) => e.told = power /\ e.soc = target
  BY BatteryTells
<1>2. /\ TickEnergy(c) \in Int /\ TickEnergy(c) >= 0
      /\ energy <= TickEnergy(c) /\ -energy <= TickEnergy(c)
  BY <1>1, EnergyBound
<1>3. c.maxDischarge \in Int /\ c.maxCharge \in Int /\ c.minSoc \in Int /\ c.maxSoc \in Int
  BY DEF BatteryConfigOK
<1>4. power \in Int
  BY <1>1, <1>3
<1>5. energy \in Int
  BY <1>4, BatteryEnergyInt
<1>6. d.soc \in c.minSoc..c.maxSoc
  BY DEF BatteryOK
<1>7. Stopped(c, d) <=> BatterySaturates(c, target)
  BY DEF Stopped
<1>8. BatteryEnergy(c, 0) = 0
  <2>1. c.cost \in Nat
    BY DEF BatteryConfigOK
  <2> QED
    BY <2>1 DEF BatteryEnergy
<1> HIDE DEF e, power, energy
<1>9. CASE BatterySaturates(c, target)
  <2>1. e.soc = LimitTo(c.minSoc, c.maxSoc, d.soc + energy) /\ e.told = 0
    BY <1>1, <1>9
  <2>2. /\ e.soc \in Int
        /\ e.soc - d.soc <= TickEnergy(c) /\ -(e.soc - d.soc) <= TickEnergy(c)
    BY <1>2, <1>3, <1>5, <1>6, <2>1 DEF LimitTo
  <2>3. BatteryEnergy(c, e.told) = 0
    BY <1>8, <2>1
  <2> DEFINE off == e.soc - d.soc - BatteryEnergy(c, e.told)
  <2>4. off \in Int /\ off <= TickEnergy(c) /\ -off <= TickEnergy(c)
    BY <1>3, <1>6, <2>2, <2>3
  <2>5. Stopped(c, d)
    BY <1>7, <1>9
  <2> QED
    BY <2>2, <2>3, <2>4, <2>5 DEF e
<1>10. CASE ~BatterySaturates(c, target)
  <2>1. e.soc = d.soc + energy /\ BatteryEnergy(c, e.told) = energy
    BY <1>1, <1>10 DEF energy
  <2> DEFINE off == e.soc - d.soc - BatteryEnergy(c, e.told)
  <2>2. off = 0 /\ e.soc \in Int
    BY <1>3, <1>5, <1>6, <2>1
  <2>3. ~Stopped(c, d)
    BY <1>7, <1>10
  <2> QED
    BY <1>5, <2>1, <2>2, <2>3 DEF e
<1> QED
  BY <1>9, <1>10

\* What a device has reported in a tick is an integer number of units.
LEMMA EnergyInt ==
    ASSUME NEW c, DeviceConfigOK(c), NEW p \in Int
    PROVE  Energy(c, p) \in Int
<1>1. CASE c.kind = "battery"
  BY <1>1, BatteryEnergyInt DEF Energy, DeviceConfigOK
<1>2. CASE c.kind = "diesel_generator"
  BY <1>2 DEF Energy, DeviceConfigOK, DieselConfigOK
<1>3. CASE c.kind \notin {"battery", "diesel_generator"}
  BY <1>3 DEF Energy
<1> QED
  BY <1>1, <1>2, <1>3

\* A tick books what it reports: a device whose books match before it, and whose
\* store nobody else has touched, has books that match after it.
LEMMA TickBooks ==
    ASSUME NEW c, DeviceConfigOK(c), NEW d, KindOK(c, d), NEW r, KindOK(c, r),
           SameStore(c, d, r), NEW b \in Int, NEW n \in Nat, Matches(c, d, b, n),
           NEW volt, NEW draw
    PROVE  LET e == Tick(c, r, volt, draw, 0)
           IN  Matches(c, e, b + Energy(c, e.told), IF Stopped(c, r) THEN n + 1 ELSE n)
<1> DEFINE e == Tick(c, r, volt, draw, 0)
           m == IF Stopped(c, r) THEN n + 1 ELSE n
<1>1. CASE c.kind = "battery"
  <2>1. /\ e = BatteryTick(c, r) /\ BatteryConfigOK(c) /\ BatteryOK(c, r) /\ r.soc = d.soc
        /\ Energy(c, e.told) = BatteryEnergy(c, e.told)
    BY <1>1 DEF Tick, DeviceConfigOK, KindOK, SameStore, Energy
  <2> HIDE DEF e
  <2> DEFINE off == e.soc - r.soc - BatteryEnergy(c, e.told)
             gap == d.soc - c.soc0 - b
             all == TickEnergy(c)
             new == e.soc - c.soc0 - (b + Energy(c, e.told))
  <2>2. /\ off \in Int /\ BatteryEnergy(c, e.told) \in Int /\ e.soc \in Int
        /\ Stopped(c, r) => off <= all /\ -off <= all
        /\ ~Stopped(c, r) => off = 0
    BY <1>1, <2>1, BatteryBooks
  <2>3. all \in Int /\ all >= 0
    <3>1. 0 \in -c.maxDischarge..c.maxCharge
      BY <2>1 DEF BatteryConfigOK
    <3> QED
      BY <2>1, <3>1, EnergyBound
  <2>4. Magnitude(gap) <= n * all
    BY <1>1 DEF Matches
  <2>5. d.soc \in Int /\ r.soc \in Int /\ c.soc0 \in Int
    BY <2>1 DEF BatteryOK, BatteryConfigOK
  <2>6. new = gap + off /\ gap \in Int
    BY <2>1, <2>2, <2>5
  <2>7. (n + 1) * all = n * all + all /\ n * all \in Int
    BY <2>3
  <2> DEFINE was == n * all
             now == (n + 1) * all
  <2> HIDE DEF off, gap, all, new, was, now
  <2>8. Magnitude(new) <= m * all
    <3>1. CASE Stopped(c, r)
      <4>1. m * all = now
        BY <3>1 DEF now
      <4>2. now = was + all /\ was \in Int /\ Magnitude(gap) <= was
        BY <2>4, <2>7 DEF was, now
      <4>3. off <= all /\ -off <= all
        BY <2>2, <3>1
      <4>4. Magnitude(new) <= now
        BY <2>2, <2>3, <2>6, <4>2, <4>3 DEF Magnitude
      <4> QED
        BY <4>1, <4>4
    <3>2. CASE ~Stopped(c, r)
      <4>1. m * all = was
        BY <3>2 DEF was
      <4>2. new = gap
        BY <2>2, <2>6, <3>2
      <4> QED
        BY <2>4, <4>1, <4>2 DEF was
    <3> QED
      BY <3>1, <3>2
  <2> QED
    BY <1>1, <2>8 DEF Matches, new, all, e
<1>2. CASE c.kind = "ev_charger"
  <2>1. /\ e = EvTick(c, r) /\ EvConfigOK(c) /\ EvOK(c, r) /\ r.stored = d.stored
        /\ Energy(c, e.told) = e.told
    BY <1>2 DEF Tick, DeviceConfigOK, KindOK, SameStore, Energy
  <2>2. d.stored = c.stored0 + b
    BY <1>2 DEF Matches
  <2> HIDE DEF e
  <2>3. e.told \in -c.maxDischarge..c.maxCharge /\ e.stored = r.stored + e.told
    BY <2>1, EvTells
  <2>4. e.told \in Int /\ c.stored0 \in Int
    BY <2>1, <2>3 DEF EvConfigOK
  <2>5. e.stored = c.stored0 + (b + Energy(c, e.told))
    BY <2>1, <2>2, <2>3, <2>4
  <2> QED
    BY <1>2, <2>5 DEF Matches, e
<1>3. CASE c.kind = "diesel_generator"
  <2>1. /\ e = DieselTick(c, r) /\ DieselConfigOK(c) /\ DieselOK(c, r) /\ r.fuel = d.fuel
        /\ Energy(c, e.told) = e.told * c.rate
    BY <1>3 DEF Tick, DeviceConfigOK, KindOK, SameStore, Energy
  <2> HIDE DEF e
  <2> DEFINE gap  == c.fuel0 - d.fuel - b
             burn == e.told * c.rate
             new  == c.fuel0 - e.fuel - (b + Energy(c, e.told))
  <2>2. gap \in 0..(c.rate - 1) /\ (d.fuel > 0 => gap = 0)
    BY <1>3 DEF Matches
  <2>3. /\ e.told \in 0..c.maxPower /\ r.fuel - e.fuel - burn \in 0..(c.rate - 1)
        /\ e.fuel > 0 => e.fuel = r.fuel - burn
        /\ r.fuel = 0 => e.told = 0 /\ e.fuel = 0
    BY <2>1, DieselTells
  <2>4. /\ c.rate \in Nat /\ c.fuel0 \in Nat /\ r.fuel \in Nat /\ c.maxPower \in Nat
    BY <2>1 DEF DieselConfigOK, DieselOK
  <2>5. e.told \in Int /\ burn \in Int /\ (e.told = 0 => burn = 0)
    <3>1. e.told \in Int
      BY <2>3, <2>4
    <3> QED
      BY <2>4, <3>1
  <2>6. e.fuel \in Nat
    <3>1. DieselOK(c, e)
      BY <2>1, DieselKeepsLimits
    <3> QED
      BY <3>1 DEF DieselOK
  <2>7. new = c.fuel0 - e.fuel - (b + burn)
    BY <2>1
  <2> HIDE DEF burn, new
  <2>8. new \in 0..(c.rate - 1) /\ (e.fuel > 0 => new = 0)
    <3>1. CASE r.fuel = 0
      BY <2>1, <2>2, <2>3, <2>4, <2>5, <2>6, <2>7, <3>1
    <3>2. CASE r.fuel > 0
      BY <2>1, <2>2, <2>3, <2>4, <2>5, <2>6, <2>7, <3>2
    <3> QED
      BY <2>4, <3>1, <3>2
  <2> QED
    BY <1>3, <2>8 DEF Matches, e, new
<1>4. CASE c.kind \notin {"battery", "ev_charger", "diesel_generator"}
  BY <1>4 DEF Matches
<1> QED
  BY <1>1, <1>2, <1>3, <1>4

\* Each device ticks once, from the state that `ready` holds, and until then nobody
\* has touched its store.
LEMMA ReadyOK ==
    ASSUME NEW s, ScenarioOK(s), NEW t \in Nat, NEW p, PlantReady(s, p),
           NEW given \in Given(s), NEW faults, NEW draw \in Int, NEW i \in Indices(s)
    PROVE  LET ready == Ticked(s, t, p, given, faults, draw).ready[i]
               c     == s.devices[i]
           IN  /\ KindOK(c, ready) /\ SameStore(c, p.device[i], ready)
               /\ c.kind # "smart_meter" =>
                     TickSecond(s, t, p, given, faults, draw)[i]
                        = Tick(c, ready, p.grid.volt, draw, 0)
<1> DEFINE loaded == TickLoaded(s, t, p, given, faults)
           first  == TickFirst(s, t, p, given, faults, draw)
           closed == TickClosed(s, t, p, given, faults, draw)
           second == TickSecond(s, t, p, given, faults, draw)
           ready  == Ticked(s, t, p, given, faults, draw).ready
           c      == s.devices[i]
<1>steps. /\ StepsTyped(s, t, p, given, faults, draw)
      /\ FirstSteps(s, t, p, given, faults, draw)
      /\ LastSteps(s, t, p, given, faults, draw)
  BY StepsOK
<1>1. /\ DevicesOK(s, loaded) /\ DevicesOK(s, closed)
      /\ SameStores(s, p.device, loaded) /\ SameStores(s, first, closed)
      /\ \A k \in FirstPass(s) : second[k] = first[k]
      /\ \A k \in FirstPass(s) :
            s.devices[k].kind # "smart_meter" =>
               first[k] = Tick(s.devices[k], loaded[k], p.grid.volt, draw, 0)
      /\ \A k \in LastPass(s) :
            /\ first[k] = loaded[k]
            /\ s.devices[k].kind # "smart_meter" =>
                  second[k] = Tick(s.devices[k], closed[k], p.grid.volt, draw, 0)
  BY <1>steps DEF StepsTyped, FirstSteps, LastSteps
<1>2. ready[i] = IF i \in LastPass(s) THEN closed[i] ELSE loaded[i]
  <2>1. DOMAIN loaded = Indices(s)
    BY <1>1 DEF DevicesOK
  <2> QED
    BY <2>1 DEF Ticked, Each, TickLoaded, TickFirst, TickOrders, TickClosed
<1> HIDE DEF loaded, first, closed, second, ready
<1>3. CASE i \in LastPass(s)
  <2>1. KindOK(c, closed[i])
    BY <1>1 DEF DevicesOK
  <2>2. SameStore(c, p.device[i], loaded[i]) /\ SameStore(c, loaded[i], closed[i])
    BY <1>1, <1>3 DEF SameStores
  <2>3. SameStore(c, p.device[i], closed[i])
    BY <2>2 DEF SameStore
  <2> QED
    BY <1>1, <1>2, <1>3, <2>1, <2>3 DEF ready, second
<1>4. CASE i \notin LastPass(s)
  <2>1. KindOK(c, loaded[i]) /\ SameStore(c, p.device[i], loaded[i])
    BY <1>1 DEF DevicesOK, SameStores
  <2>2. i \in FirstPass(s)
    BY <1>4 DEF FirstPass
  <2> QED
    BY <1>1, <1>2, <1>4, <2>1, <2>2 DEF ready, second
<1> QED
  BY <1>3, <1>4

\* MetersAddUp of one meter: its sources are read in the tick they report.
TicksBefore(s, i) ==
    \A j \in s.devices[i].sources :
        Readable(s.devices[j].kind) => j < i /\ j \notin Connections(s) \cup {s.forming}

\* What the sources of a meter report, as the addends of a sum.
SourcesTell(s, i, dev) ==
    [j \in Indices(s) |->
        IF j \in s.devices[i].sources /\ Readable(s.devices[j].kind) THEN dev[j].told ELSE 0]

\* A meter stays attached, and reports the sum of what its sources report in the same
\* tick when they all tick before it.
LEMMA MeterTells ==
    ASSUME NEW s, ScenarioOK(s), NEW t \in Nat, NEW p, PlantReady(s, p),
           NEW given \in Given(s), NEW faults, NEW draw \in Int, NEW i \in Indices(s),
           s.devices[i].kind = "smart_meter", p.device[i].attached = TRUE
    PROVE  LET second == TickSecond(s, t, p, given, faults, draw)
           IN  /\ second[i].attached = TRUE
               /\ TicksBefore(s, i) =>
                     second[i].told = SumTo(SourcesTell(s, i, second), Len(s.devices))
<1> DEFINE loaded == TickLoaded(s, t, p, given, faults)
           first  == TickFirst(s, t, p, given, faults, draw)
           orders == TickOrders(s, t, p, given, faults, draw)
           closed == TickClosed(s, t, p, given, faults, draw)
           second == TickSecond(s, t, p, given, faults, draw)
           volt   == p.grid.volt
           n      == Len(s.devices)
<1>steps. /\ StepsTyped(s, t, p, given, faults, draw)
      /\ FirstSteps(s, t, p, given, faults, draw)
      /\ LastSteps(s, t, p, given, faults, draw)
  BY StepsOK
<1>1. /\ DevicesOK(s, loaded) /\ DevicesOK(s, first) /\ DevicesOK(s, closed)
      /\ SameStores(s, p.device, loaded) /\ SameStores(s, first, closed)
      /\ DOMAIN orders \subseteq LastPass(s)
      /\ \A k \in FirstPass(s) : second[k] = first[k]
      /\ \A k \in FirstPass(s) :
            s.devices[k].kind # "smart_meter" =>
               first[k] = Tick(s.devices[k], loaded[k], volt, draw, 0)
      /\ \A k \in LastPass(s) : first[k] = loaded[k]
  <2>1. /\ DevicesOK(s, loaded) /\ DevicesOK(s, first) /\ DevicesOK(s, closed)
        /\ SameStores(s, p.device, loaded) /\ SameStores(s, first, closed)
        /\ DOMAIN orders \subseteq LastPass(s)
    BY <1>steps DEF StepsTyped, FirstSteps, LastSteps
  <2>2. /\ \A k \in FirstPass(s) : second[k] = first[k]
        /\ \A k \in FirstPass(s) :
              s.devices[k].kind # "smart_meter" =>
                 first[k] = Tick(s.devices[k], loaded[k], volt, draw, 0)
    BY <1>steps DEF StepsTyped, FirstSteps, LastSteps
  <2>3. \A k \in LastPass(s) : first[k] = loaded[k]
    BY <1>steps DEF StepsTyped, FirstSteps, LastSteps
  <2> QED
    BY <2>1, <2>2, <2>3
<1>2. /\ first = Pass(s, FirstPass(s), loaded, volt, draw)
      /\ closed = Closed(s, first, orders)
      /\ second = Pass(s, LastPass(s), closed, volt, draw)
  BY DEF TickFirst, TickClosed, TickSecond
<1>3. LastPass(s) \subseteq Indices(s) /\ FirstPass(s) = Indices(s) \ LastPass(s)
  BY Numbered DEF FirstPass
<1>4. loaded[i].attached = TRUE
  BY <1>1 DEF SameStores, SameStore
<1>5. \A k \in FirstPass(s) : closed[k] = first[k]
  <2>1. DOMAIN first = Indices(s)
    BY <1>1 DEF DevicesOK
  <2> HIDE DEF first, orders, closed
  <2>2. \A k \in Indices(s) : k \notin DOMAIN orders => closed[k] = first[k]
    BY <1>2, <2>1 DEF Closed, Each
  <2> QED
    BY <1>1, <1>3, <2>2
<1>6. ASSUME TicksBefore(s, i), NEW j \in Indices(s),
             j \in s.devices[i].sources, Readable(s.devices[j].kind)
      PROVE  j < i /\ j \in FirstPass(s) /\ s.devices[j].kind # "smart_meter"
  BY <1>3, <1>6 DEF TicksBefore, LastPass, Readable
<1> HIDE DEF loaded, first, orders, closed, second
<1>7. CASE i \in FirstPass(s)
  <2> DEFINE f == Metered(s, FirstPass(s), i, loaded, volt, draw)
  <2>1. first[i] = MeterTick(loaded[i], SumTo(f, n))
    BY <1>1, <1>2, <1>7, PassMeters
  <2>2. MeterOK(loaded[i])
    BY <1>1 DEF DevicesOK, KindOK
  <2>3. ASSUME TicksBefore(s, i) PROVE f = SourcesTell(s, i, second)
    <3>1. ASSUME NEW j \in Indices(s)
          PROVE  f[j] = SourcesTell(s, i, second)[j]
      <4>1. CASE j \in s.devices[i].sources /\ Readable(s.devices[j].kind)
        <5>1. j < i /\ j \in FirstPass(s) /\ s.devices[j].kind # "smart_meter"
          BY <1>6, <2>3, <4>1
        <5>2. second[j] = Tick(s.devices[j], loaded[j], volt, draw, 0)
          BY <1>1, <5>1
        <5> QED
          BY <4>1, <5>1, <5>2 DEF Metered, SourcesTell
      <4>2. CASE ~(j \in s.devices[i].sources /\ Readable(s.devices[j].kind))
        BY <4>2 DEF Metered, SourcesTell
      <4> QED
        BY <4>1, <4>2
    <3>2. f = [j \in Indices(s) |-> f[j]]
      BY DEF Metered
    <3>3. SourcesTell(s, i, second) = [j \in Indices(s) |-> SourcesTell(s, i, second)[j]]
      BY DEF SourcesTell
    <3> HIDE DEF f
    <3> QED
      BY <3>1, <3>2, <3>3
  <2> HIDE DEF f
  <2>4. first[i] = [loaded[i] EXCEPT !.told = SumTo(f, n)]
    BY <1>4, <2>1 DEF MeterTick
  <2>5. first[i].attached = TRUE
    BY <1>4, <2>2, <2>4 DEF MeterOK
  <2>6. first[i].told = SumTo(f, n)
    BY <2>2, <2>4 DEF MeterOK
  <2>7. second[i] = first[i]
    BY <1>1, <1>7
  <2> QED
    BY <2>3, <2>5, <2>6, <2>7 DEF second
<1>8. CASE i \in LastPass(s)
  <2> DEFINE f == Metered(s, LastPass(s), i, closed, volt, draw)
  <2>1. second[i] = MeterTick(closed[i], SumTo(f, n))
    BY <1>1, <1>2, <1>3, <1>8, PassMeters
  <2>2. closed[i].attached = TRUE
    <3>1. SameStore(s.devices[i], first[i], closed[i]) /\ first[i] = loaded[i]
      BY <1>1, <1>8 DEF SameStores
    <3> QED
      BY <1>4, <3>1 DEF SameStore
  <2>3. MeterOK(closed[i])
    BY <1>1 DEF DevicesOK, KindOK
  <2>4. ASSUME TicksBefore(s, i) PROVE f = SourcesTell(s, i, second)
    <3>1. ASSUME NEW j \in Indices(s)
          PROVE  f[j] = SourcesTell(s, i, second)[j]
      <4>1. CASE j \in s.devices[i].sources /\ Readable(s.devices[j].kind)
        <5>1. j \in FirstPass(s) /\ j \notin LastPass(s)
          BY <1>3, <1>6, <2>4, <4>1
        <5>2. closed[j] = second[j]
          BY <1>1, <1>5, <5>1
        <5> QED
          BY <4>1, <5>1, <5>2 DEF Metered, SourcesTell
      <4>2. CASE ~(j \in s.devices[i].sources /\ Readable(s.devices[j].kind))
        BY <4>2 DEF Metered, SourcesTell
      <4> QED
        BY <4>1, <4>2
    <3>2. f = [j \in Indices(s) |-> f[j]]
      BY DEF Metered
    <3>3. SourcesTell(s, i, second) = [j \in Indices(s) |-> SourcesTell(s, i, second)[j]]
      BY DEF SourcesTell
    <3> HIDE DEF f
    <3> QED
      BY <3>1, <3>2, <3>3
  <2> HIDE DEF f
  <2>5. second[i] = [closed[i] EXCEPT !.told = SumTo(f, n)]
    BY <2>1, <2>2 DEF MeterTick
  <2>6. second[i].attached = TRUE
    BY <2>2, <2>3, <2>5 DEF MeterOK
  <2>7. second[i].told = SumTo(f, n)
    BY <2>3, <2>5 DEF MeterOK
  <2> QED
    BY <2>4, <2>6, <2>7 DEF second
<1> QED
  BY <1>3, <1>7, <1>8

\* The inductive invariant of the books.
BooksInv ==
    /\ \A i \in Indices(scenario) :
          /\ booked[i] \in Int /\ saturations[i] \in Nat
          /\ Matches(scenario.devices[i], plant.device[i], booked[i], saturations[i])
    /\ \A i \in OfKind(scenario, "smart_meter") :
          /\ plant.device[i].attached = TRUE
          /\ tick > 0 /\ TicksBefore(scenario, i) =>
                plant.device[i].told
                   = SumTo(SourcesTell(scenario, i, plant.device), Len(scenario.devices))

\* The books of a plant that was just built are in order.
LEMMA BooksInit == Init => BooksInv
<1> SUFFICES ASSUME Init PROVE BooksInv
  OBVIOUS
<1>1. /\ ScenarioOK(scenario) /\ tick = 0
      /\ \A i \in Indices(scenario) : booked[i] = 0 /\ saturations[i] = 0
      /\ plant = BuiltPlant(scenario)
  BY PlantAssumption DEF Init
<1>2. \A i \in OfKind(scenario, "smart_meter") : plant.device[i].attached = TRUE
  BY <1>1, BuiltOK
<1>3. ASSUME NEW i \in Indices(scenario)
      PROVE  Matches(scenario.devices[i], plant.device[i], 0, 0)
  <2> DEFINE c == scenario.devices[i]
             d == plant.device[i]
  <2>1. DeviceConfigOK(c)
    BY <1>1, Numbered
  <2>2. c.kind # "smart_meter" => d = Fresh(c)
    BY <1>1 DEF BuiltPlant, Built
  <2> HIDE DEF c, d
  <2>3. CASE c.kind = "battery"
    <3>1. d.soc = c.soc0 /\ c.soc0 \in Int /\ BatteryConfigOK(c)
      BY <2>1, <2>2, <2>3 DEF Fresh, BatteryInit, DeviceConfigOK, BatteryConfigOK
    <3>2. 0 \in -c.maxDischarge..c.maxCharge
      BY <3>1 DEF BatteryConfigOK
    <3>3. TickEnergy(c) \in Int
      BY <3>1, <3>2, EnergyBound
    <3>4. Magnitude(d.soc - c.soc0 - 0) = 0 /\ 0 * TickEnergy(c) = 0
      BY <3>1, <3>3 DEF Magnitude
    <3> QED
      BY <2>3, <3>4 DEF Matches, c, d
  <2>4. CASE c.kind = "ev_charger"
    <3>1. d.stored = c.stored0 /\ c.stored0 \in Int
      BY <2>1, <2>2, <2>4 DEF Fresh, EvInit, DeviceConfigOK, EvConfigOK
    <3> QED
      BY <2>4, <3>1 DEF Matches, c, d
  <2>5. CASE c.kind = "diesel_generator"
    <3>1. d.fuel = c.fuel0 /\ c.fuel0 \in Int /\ c.rate \in Nat \ {0}
      BY <2>1, <2>2, <2>5 DEF Fresh, DieselInit, DeviceConfigOK, DieselConfigOK
    <3> QED
      BY <2>5, <3>1 DEF Matches, c, d
  <2>6. CASE c.kind \notin {"battery", "ev_charger", "diesel_generator"}
    BY <2>6 DEF Matches, c, d
  <2> QED
    BY <2>3, <2>4, <2>5, <2>6
<1>4. \A i \in Indices(scenario) :
         /\ booked[i] \in Int /\ saturations[i] \in Nat
         /\ Matches(scenario.devices[i], plant.device[i], booked[i], saturations[i])
  BY <1>1, <1>3
<1> QED
  BY <1>1, <1>2, <1>4 DEF BooksInv

\* A tick keeps them in order.
LEMMA TickKeepsBooks ==
    ASSUME PlantInv, BooksInv, NEW given \in {{}} \cup {{o} : o \in scenario.orders},
           NEW faults, NEW draw \in Draws, TickPlant(given, faults, draw)
    PROVE  BooksInv'
<1> DEFINE r      == Ticked(scenario, tick, plant, given, faults, draw)
           second == TickSecond(scenario, tick, plant, given, faults, draw)
<1>1. /\ ScenarioOK(scenario) /\ tick \in Nat /\ PlantReady(scenario, plant)
      /\ given \in Given(scenario) /\ draw \in Int
  BY TickContext
<1>steps. /\ StepsTyped(scenario, tick, plant, given, faults, draw)
      /\ FirstSteps(scenario, tick, plant, given, faults, draw)
      /\ LastSteps(scenario, tick, plant, given, faults, draw)
  BY <1>1, StepsOK
<1>2. plant' = State(r) /\ scenario' = scenario
  BY DEF TickPlant
<1>3. \A i \in Indices(scenario) :
         booked'[i] = booked[i] + Energy(scenario.devices[i], r.device[i].told)
  BY DEF TickPlant
<1>4. \A i \in Indices(scenario) :
         saturations'[i] = IF Stopped(scenario.devices[i], r.ready[i])
                           THEN saturations[i] + 1 ELSE saturations[i]
  BY DEF TickPlant
<1>5. r.device = second
  BY TickedIs
<1>6. \A i \in Indices(scenario) :
         /\ KindOK(scenario.devices[i], r.ready[i])
         /\ SameStore(scenario.devices[i], plant.device[i], r.ready[i])
         /\ scenario.devices[i].kind # "smart_meter" =>
               second[i] = Tick(scenario.devices[i], r.ready[i], plant.grid.volt, draw, 0)
  BY <1>1, ReadyOK
<1>7. plant'.device = second
  BY <1>2, <1>5 DEF State
<1>8. ASSUME NEW i \in Indices(scenario)
      PROVE  second[i].told \in Int
  <2>1. DevicesOK(scenario, second)
    BY <1>steps DEF StepsTyped, FirstSteps, LastSteps
  <2> HIDE DEF second
  <2> QED
    BY <1>1, <2>1, Numbered, KindTells DEF DevicesOK
<1>9. ASSUME NEW i \in OfKind(scenario, "smart_meter")
      PROVE  /\ second[i].attached = TRUE
             /\ TicksBefore(scenario, i) =>
                   second[i].told
                      = SumTo(SourcesTell(scenario, i, second), Len(scenario.devices))
  <2>1. /\ i \in Indices(scenario) /\ scenario.devices[i].kind = "smart_meter"
        /\ plant.device[i].attached = TRUE
    BY DEF OfKind, BooksInv
  <2> QED
    BY <1>1, <2>1, MeterTells
<1> HIDE DEF r, second
<1>10. ASSUME NEW i \in Indices(scenario)
       PROVE  /\ booked'[i] \in Int /\ saturations'[i] \in Nat
              /\ Matches(scenario.devices[i], second[i], booked'[i], saturations'[i])
  <2> DEFINE c == scenario.devices[i]
             b == booked[i]
             n == saturations[i]
             x == b + Energy(c, second[i].told)
             m == IF Stopped(c, r.ready[i]) THEN n + 1 ELSE n
  <2>1. DeviceConfigOK(c) /\ KindOK(c, plant.device[i])
    BY <1>1, Numbered DEF PlantReady, DevicesOK
  <2>2. b \in Int /\ n \in Nat /\ Matches(c, plant.device[i], b, n)
    BY DEF BooksInv
  <2>3. booked'[i] = x /\ saturations'[i] = m
    BY <1>3, <1>4, <1>5
  <2>4. Energy(c, second[i].told) \in Int
    BY <1>8, <2>1, EnergyInt
  <2>5. x \in Int /\ m \in Nat
    BY <2>2, <2>4
  <2>6. Matches(c, second[i], x, m)
    <3>1. CASE c.kind = "smart_meter"
      BY <3>1 DEF Matches
    <3>2. CASE c.kind # "smart_meter"
      <4> DEFINE e == Tick(c, r.ready[i], plant.grid.volt, draw, 0)
      <4>1. second[i] = e
        BY <1>6, <3>2
      <4>2. KindOK(c, r.ready[i]) /\ SameStore(c, plant.device[i], r.ready[i])
        BY <1>6
      <4>3. Matches(c, e, b + Energy(c, e.told), m)
        <5> HIDE DEF c, b, n
        <5> QED
          BY <2>1, <2>2, <4>2, TickBooks
      <4> QED
        BY <4>1, <4>3
    <3> QED
      BY <3>1, <3>2
  <2> QED
    BY <2>3, <2>5, <2>6
<1> QED
  BY <1>2, <1>7, <1>9, <1>10 DEF BooksInv, OfKind, TicksBefore

\* What is stored and what is metered is what was reported, for every list of devices
\* and every run (the device models' tick() and SmartMeterDevice.tick).
THEOREM TelemetryEver == Spec => []TelemetryAddsUp
<1>1. PlantInv /\ BooksInv /\ [Next]_vars => BooksInv'
  <2> SUFFICES ASSUME PlantInv, BooksInv, [Next]_vars PROVE BooksInv'
    OBVIOUS
  <2>1. ASSUME NEW given \in {{}} \cup {{o} : o \in scenario.orders},
               NEW faults \in FaultChoices, NEW draw \in Draws, TickPlant(given, faults, draw)
        PROVE  BooksInv'
    BY <2>1, TickKeepsBooks
  <2>2. ASSUME Resume \/ ResumeAnew \/ UNCHANGED vars
        PROVE  BooksInv'
    <3>1. UNCHANGED <<scenario, tick, plant, booked, saturations>>
      BY <2>2 DEF Resume, ResumeAnew, ResumeWith, vars
    <3> QED
      BY <3>1 DEF BooksInv, TicksBefore, SourcesTell
  <2> QED
    BY <2>1, <2>2 DEF Next
<1>2. PlantInv /\ BooksInv => StoresMatchTelemetry
  BY DEF PlantInv, BooksInv, StoresMatchTelemetry, Matches, TickEnergy
<1>3. PlantInv /\ BooksInv => MetersAddUp
  <2> SUFFICES ASSUME PlantInv, BooksInv, tick > 0,
                      NEW i \in OfKind(scenario, "smart_meter"),
                      \A j \in {j \in scenario.devices[i].sources :
                                   Readable(scenario.devices[j].kind)} :
                         j < i /\ j \notin Connections(scenario) \cup {scenario.forming}
               PROVE  plant.device[i].told
                         = SumOver(scenario, {j \in scenario.devices[i].sources :
                                                 Readable(scenario.devices[j].kind)},
                                   LAMBDA j : plant.device[j].told)
    BY DEF MetersAddUp
  <2>1. TicksBefore(scenario, i)
    BY DEF TicksBefore
  <2>2. plant.device[i].told
           = SumTo(SourcesTell(scenario, i, plant.device), Len(scenario.devices))
    BY <2>1 DEF BooksInv
  <2> QED
    BY <2>2 DEF SumOver, SourcesTell
<1> QED
  BY <1>1, <1>2, <1>3, BooksInit, PlantInvHolds, PTL DEF Spec, TelemetryAddsUp

-------------------------------------------------------------------------------
(***************************************************************************)
(* Overlays and orders                                                     *)
(***************************************************************************)

\* What a device finds that no fault touches: the order of the tick, and after it the
\* set point of the overlays.
LEMMA LoadedIs ==
    ASSUME NEW s, ScenarioOK(s), NEW t \in Nat, NEW p, PlantReady(s, p),
           NEW given \in Given(s), NEW faults, NEW i \in Indices(s),
           s.devices[i].kind \notin Faultable
    PROVE  LET c       == s.devices[i]
               ordered == Commanded(s, p.device, given)[i]
           IN  /\ KindOK(c, ordered) /\ KindOK(c, p.device[i])
               /\ \A o \in given :
                     o.target = i => ordered = Command(c, p.device[i], o).device
               /\ Intent(s, i, t) = {} => TickLoaded(s, t, p, given, faults)[i] = ordered
               /\ \A v \in Intent(s, i, t) :
                     TickLoaded(s, t, p, given, faults)[i]
                        = Command(c, ordered, SetPower(v, {})).device
<1> DEFINE c        == s.devices[i]
           ordered  == Commanded(s, p.device, given)
           overlaid == LoadInputs(s, ordered, t)
           loaded   == TickLoaded(s, t, p, given, faults)
           set      == SetPower(CHOOSE v \in Intent(s, i, t) : TRUE, {})
           some     == CHOOSE o \in given : TRUE
<1>1. DevicesOK(s, p.device) /\ DevicesOK(s, ordered)
  BY CommandedOK DEF PlantReady
<1>2. DevicesOK(s, overlaid)
  <2> HIDE DEF ordered
  <2> QED
    BY <1>1, LoadInputsOK
<1>3. DOMAIN p.device = Indices(s) /\ DOMAIN ordered = Indices(s) /\ DOMAIN overlaid = Indices(s)
  BY <1>1, <1>2 DEF DevicesOK
<1>4. ASSUME NEW o \in given, o.target = i
      PROVE  ordered[i] = Command(c, p.device[i], o).device
  <2>1. given = {o}
    BY DEF Given
  <2>2. some = o
    BY <2>1, ChosenOne
  <2>3. ordered[i] = Command(c, p.device[i], some).device
    BY <1>3, <1>4 DEF Commanded, Each
  <2> HIDE DEF some, ordered
  <2> QED
    BY <2>2, <2>3
<1> HIDE DEF ordered
<1>5. overlaid[i] = IF Intent(s, i, t) # {} THEN Command(c, ordered[i], set).device ELSE ordered[i]
  BY <1>3 DEF LoadInputs, Each
<1>6. loaded[i] = overlaid[i]
  <2>1. loaded = Faulted(s, overlaid, faults)
    BY DEF TickLoaded, ordered
  <2> HIDE DEF loaded, overlaid
  <2> QED
    BY <1>3, <2>1 DEF Faulted, Each
<1>7. KindOK(c, ordered[i]) /\ KindOK(c, p.device[i])
  BY <1>1 DEF DevicesOK
<1> HIDE DEF loaded, overlaid
<1>8. Intent(s, i, t) = {} => loaded[i] = ordered[i]
  BY <1>5, <1>6
<1>9. ASSUME NEW v \in Intent(s, i, t)
      PROVE  loaded[i] = Command(c, ordered[i], SetPower(v, {})).device
  <2>1. Intent(s, i, t) = {v}
    BY <1>9 DEF Intent
  <2>2. set = SetPower(v, {})
    BY <2>1, ChosenOne
  <2>3. loaded[i] = Command(c, ordered[i], set).device
    BY <1>5, <1>6, <2>1
  <2> HIDE DEF set
  <2> QED
    BY <2>2, <2>3
<1> QED
  BY <1>4, <1>7, <1>8, <1>9 DEF loaded, ordered

\* A set point is pending, within the limits, until the tick.
LEMMA ConnectionSet ==
    ASSUME NEW c, c.kind = "grid_connection", NEW d, KindOK(c, d), NEW o,
           o.type = "set_power_kw"
    PROVE  Command(c, d, o).device.pending = LimitTo(-c.maxExport, c.maxImport, o.value)
<1>1. ConnectionOK(c, d)
  BY DEF KindOK
<1> DEFINE v == LimitTo(-c.maxExport, c.maxImport, o.value)
<1>2. Command(c, d, o) = ConnectionCommand(c, d, o)
  BY DEF Command
<1>3. \/ ConnectionCommand(c, d, o).device = [d EXCEPT !.pending = v]
      \/ \E x : ConnectionCommand(c, d, o).device = [[d EXCEPT !.pending = v] EXCEPT !.pendingQ = x]
  BY DEF ConnectionCommand, Ordered, Answered
<1> HIDE DEF v
<1>4. ConnectionCommand(c, d, o).device.pending = v
  BY <1>1, <1>3 DEF ConnectionOK
<1> QED
  BY <1>2, <1>4 DEF v

\* What somebody has set in a tick is what the connection tells at its end.
LEMMA TickKeepsManual ==
    ASSUME NEW s, ScenarioOK(s), NEW t \in Nat, NEW p, PlantReady(s, p),
           NEW given \in Given(s), NEW faults, NEW draw \in Int,
           NEW i \in Connections(s), i # s.forming,
           NEW v, \/ v \in Intent(s, i, t)
                  \/ /\ Intent(s, i, t) = {}
                     /\ \E o \in given : o.target = i /\ o.type = "set_power_kw" /\ o.value = v
    PROVE  TickSecond(s, t, p, given, faults, draw)[i].told
              = LimitTo(-s.devices[i].maxExport, s.devices[i].maxImport, v)
<1> DEFINE c       == s.devices[i]
           loaded  == TickLoaded(s, t, p, given, faults)
           first   == TickFirst(s, t, p, given, faults, draw)
           orders  == TickOrders(s, t, p, given, faults, draw)
           closed  == TickClosed(s, t, p, given, faults, draw)
           second  == TickSecond(s, t, p, given, faults, draw)
           ordered == Commanded(s, p.device, given)[i]
           v0      == LimitTo(-c.maxExport, c.maxImport, v)
<1>steps. /\ StepsTyped(s, t, p, given, faults, draw)
      /\ FirstSteps(s, t, p, given, faults, draw)
      /\ LastSteps(s, t, p, given, faults, draw)
  BY StepsOK
<1>1. i \in Indices(s) /\ c.kind = "grid_connection" /\ c.kind \notin Faultable
  BY DEF Connections, Faultable
<1>2. /\ KindOK(c, ordered) /\ KindOK(c, p.device[i])
      /\ \A o \in given : o.target = i => ordered = Command(c, p.device[i], o).device
      /\ Intent(s, i, t) = {} => loaded[i] = ordered
      /\ \A w \in Intent(s, i, t) : loaded[i] = Command(c, ordered, SetPower(w, {})).device
  BY <1>1, LoadedIs
<1>3. /\ DevicesOK(s, loaded)
      /\ \A k \in FirstPass(s) : second[k] = first[k]
      /\ \A k \in FirstPass(s) :
            s.devices[k].kind # "smart_meter" =>
               first[k] = Tick(s.devices[k], loaded[k], p.grid.volt, draw, 0)
  BY <1>steps DEF StepsTyped, FirstSteps, LastSteps
<1>4. \A k \in LastPass(s) :
         /\ k \notin DOMAIN orders => closed[k] = loaded[k]
         /\ s.devices[k].kind # "smart_meter" =>
               second[k] = Tick(s.devices[k], closed[k], p.grid.volt, draw, 0)
  BY <1>steps DEF StepsTyped, FirstSteps, LastSteps
<1>5. s.forming = 0 => DOMAIN orders = Connections(s) \ Manual(s, given, t)
  BY DEF TickOrders, CloseOrders
<1> HIDE DEF loaded, first, orders, closed, second, ordered
<1>6. loaded[i].pending = v0 /\ i \in Manual(s, given, t)
  <2>1. CASE v \in Intent(s, i, t)
    <3> DEFINE o == SetPower(v, {})
    <3>3. o.type = "set_power_kw" /\ o.value = v
      BY DEF SetPower
    <3>4. loaded[i] = Command(c, ordered, o).device
      BY <1>2, <2>1
    <3> HIDE DEF o, c
    <3>5. loaded[i].pending = LimitTo(-c.maxExport, c.maxImport, o.value)
      BY <1>1, <1>2, <3>3, <3>4, ConnectionSet
    <3>6. EventsOn(s, i, t) # {} \/ ProfilesOn(s, i) # {}
      BY <1>1, <2>1 DEF Intent, c
    <3> QED
      BY <3>3, <3>5, <3>6 DEF Manual
  <2>2. CASE /\ Intent(s, i, t) = {}
             /\ \E o \in given : o.target = i /\ o.type = "set_power_kw" /\ o.value = v
    <3>1. PICK o \in given : o.target = i /\ o.type = "set_power_kw" /\ o.value = v
      BY <2>2
    <3>4. loaded[i] = Command(c, p.device[i], o).device
      BY <1>2, <2>2, <3>1
    <3> HIDE DEF c
    <3>5. loaded[i].pending = LimitTo(-c.maxExport, c.maxImport, o.value)
      BY <1>1, <1>2, <3>1, <3>4, ConnectionSet
    <3> QED
      BY <3>1, <3>5 DEF Manual
  <2> QED
    BY <2>1, <2>2
<1>7. Tick(c, loaded[i], p.grid.volt, draw, 0).told = loaded[i].pending
  <2>1. ConnectionOK(c, loaded[i])
    BY <1>1, <1>3 DEF DevicesOK, KindOK
  <2>2. Tick(c, loaded[i], p.grid.volt, draw, 0) = ConnectionTick(loaded[i])
    BY <1>1 DEF Tick
  <2> QED
    BY <2>1, <2>2 DEF ConnectionTick, Reports, ConnectionOK
<1>8. second[i] = Tick(c, loaded[i], p.grid.volt, draw, 0)
  <2>1. CASE s.forming = 0
    <3>1. i \in LastPass(s) /\ i \notin DOMAIN orders
      BY <1>5, <1>6, <2>1 DEF LastPass
    <3> QED
      BY <1>1, <1>4, <3>1
  <2>2. CASE s.forming # 0
    <3>1. i \in FirstPass(s)
      BY <1>1, <2>2 DEF LastPass, FirstPass
    <3> QED
      BY <1>1, <1>3, <3>1
  <2> QED
    BY <2>1, <2>2
<1> QED
  BY <1>6, <1>7, <1>8 DEF second

\* A load that no overlay covers takes its rated power.
LEMMA TickRestoresLoad ==
    ASSUME NEW s, ScenarioOK(s), NEW t \in Nat, NEW p, PlantReady(s, p),
           NEW given \in Given(s), NEW faults, NEW draw \in Int,
           NEW i \in OfKind(s, "load"), i # s.forming,
           EventsOn(s, i, t) = {}, ProfilesOn(s, i) = {}
    PROVE  TickSecond(s, t, p, given, faults, draw)[i].told = s.devices[i].rated
<1> DEFINE c       == s.devices[i]
           loaded  == TickLoaded(s, t, p, given, faults)
           first   == TickFirst(s, t, p, given, faults, draw)
           second  == TickSecond(s, t, p, given, faults, draw)
           ordered == Commanded(s, p.device, given)[i]
           o       == SetPower(c.rated, {})
<1>steps. /\ StepsTyped(s, t, p, given, faults, draw)
      /\ FirstSteps(s, t, p, given, faults, draw)
      /\ LastSteps(s, t, p, given, faults, draw)
  BY StepsOK
<1>1. i \in Indices(s) /\ c.kind = "load" /\ c.kind \notin Faultable /\ c.rated \in Nat
  BY Numbered DEF OfKind, Faultable, DeviceConfigOK
<1>2. Intent(s, i, t) = {c.rated}
  BY <1>1 DEF Intent
<1>4. KindOK(c, ordered) /\ loaded[i] = Command(c, ordered, o).device
  <2>1. /\ KindOK(c, ordered)
        /\ \A w \in Intent(s, i, t) : loaded[i] = Command(c, ordered, SetPower(w, {})).device
    BY <1>1, LoadedIs
  <2> QED
    BY <1>2, <2>1
<1>5. /\ DevicesOK(s, loaded)
      /\ \A k \in FirstPass(s) : second[k] = first[k]
      /\ \A k \in FirstPass(s) :
            s.devices[k].kind # "smart_meter" =>
               first[k] = Tick(s.devices[k], loaded[k], p.grid.volt, draw, 0)
  BY <1>steps DEF StepsTyped, FirstSteps, LastSteps
<1> HIDE DEF loaded, first, second, ordered
<1>6. loaded[i].pending = c.rated
  <2>1. RatedOK(c, ordered)
    BY <1>1, <1>4 DEF KindOK
  <2>2. loaded[i] = [ordered EXCEPT !.pending = LimitTo(0, c.rated, c.rated)]
    BY <1>1, <1>4 DEF Command, SetPower, OrderedUpTo, Ordered, Answered
  <2>3. LimitTo(0, c.rated, c.rated) = c.rated
    BY <1>1 DEF LimitTo
  <2> QED
    BY <2>1, <2>2, <2>3 DEF RatedOK
<1>7. i \in FirstPass(s)
  BY <1>1 DEF FirstPass, LastPass, Connections
<1>8. second[i] = LoadTick(loaded[i])
  BY <1>1, <1>5, <1>7 DEF Tick
<1>9. RatedOK(c, loaded[i])
  BY <1>1, <1>5 DEF DevicesOK, KindOK
<1> QED
  BY <1>6, <1>8, <1>9 DEF LoadTick, Reports, RatedOK, second

\* What somebody has set stays set, and what nobody has set leaves no trace, for
\* every list of devices and every overlay (TickLoop._run_tick_body: commands, load
\* inputs and the connections that the balance leaves alone).
THEOREM OverlaysEver == Spec => []OverlaysComeAndGo
<1>1. Init => OverlaysComeAndGo
  BY DEF Init, OverlaysComeAndGo, ManualConnectionStays, LoadRestored
<1>2. PlantInv /\ OverlaysComeAndGo /\ [Next]_vars => OverlaysComeAndGo'
  <2> SUFFICES ASSUME PlantInv, OverlaysComeAndGo, [Next]_vars PROVE OverlaysComeAndGo'
    OBVIOUS
  <2>1. ASSUME NEW given \in {{}} \cup {{o} : o \in scenario.orders},
               NEW faults \in FaultChoices, NEW draw \in Draws, TickPlant(given, faults, draw)
        PROVE  OverlaysComeAndGo'
    <3> DEFINE r      == Ticked(scenario, tick, plant, given, faults, draw)
               second == TickSecond(scenario, tick, plant, given, faults, draw)
    <3>1. /\ ScenarioOK(scenario) /\ tick \in Nat /\ PlantReady(scenario, plant)
          /\ given \in Given(scenario) /\ draw \in Int
      BY TickContext
    <3>2. /\ plant' = State(r) /\ scenario' = scenario /\ lastOrders' = given
          /\ tick' = tick + 1
      BY <2>1 DEF TickPlant
    <3>3. r.device = second
      BY TickedIs
    <3>4. plant'.device = second /\ tick' - 1 = tick
      BY <3>1, <3>2, <3>3 DEF State
    <3>5. ASSUME NEW i \in Connections(scenario), i # scenario.forming,
                 NEW v \in IF Intent(scenario, i, tick) # {} THEN Intent(scenario, i, tick)
                           ELSE {o.value : o \in {x \in given :
                                                     x.target = i /\ x.type = "set_power_kw"}}
          PROVE  second[i].told = LimitTo(-scenario.devices[i].maxExport,
                                          scenario.devices[i].maxImport, v)
      <4>1. \/ v \in Intent(scenario, i, tick)
            \/ /\ Intent(scenario, i, tick) = {}
               /\ \E o \in given : o.target = i /\ o.type = "set_power_kw" /\ o.value = v
        BY <3>5
      <4> QED
        BY <3>1, <3>5, <4>1, TickKeepsManual
    <3>6. ASSUME NEW i \in OfKind(scenario, "load"), i # scenario.forming,
                 EventsOn(scenario, i, tick) = {}, ProfilesOn(scenario, i) = {}
          PROVE  second[i].told = scenario.devices[i].rated
      BY <3>1, <3>6, TickRestoresLoad
    <3> HIDE DEF r, second
    <3>7. ManualConnectionStays'
      BY <3>2, <3>4, <3>5 DEF ManualConnectionStays
    <3>8. LoadRestored'
      BY <3>2, <3>4, <3>6 DEF LoadRestored
    <3> QED
      BY <3>7, <3>8 DEF OverlaysComeAndGo
  <2>2. ASSUME Resume \/ ResumeAnew \/ UNCHANGED vars
        PROVE  OverlaysComeAndGo'
    <3>1. UNCHANGED <<scenario, tick, plant, lastOrders>>
      BY <2>2 DEF Resume, ResumeAnew, ResumeWith, vars
    <3>2. ManualConnectionStays'
      BY <3>1 DEF OverlaysComeAndGo, ManualConnectionStays
    <3>3. LoadRestored'
      BY <3>1 DEF OverlaysComeAndGo, LoadRestored
    <3> QED
      BY <3>2, <3>3 DEF OverlaysComeAndGo
  <2> QED
    BY <2>1, <2>2 DEF Next
<1> QED
  BY <1>1, <1>2, PlantInvHolds, PTL DEF Spec

-------------------------------------------------------------------------------
(***************************************************************************)
(* Resuming.  Two devices that differ in nothing the snapshot of their     *)
(* kind keeps cannot be told apart by an order, a fault or a tick.         *)
(***************************************************************************)
Alike(c, d, e) ==
    /\ \A f \in SnapshotFields(c) : d[f] = e[f]
    /\ c.kind \notin {"battery", "pv", "grid_connection"} => d.q = 0 /\ e.q = 0

\* The fields a snapshot keeps are fields of the device.
LEMMA KeptFields ==
    ASSUME NEW c, c.kind \in Kinds, NEW d, KindOK(c, d)
    PROVE  SnapshotFields(c) \cup {"told", "q"} \subseteq DOMAIN d
<1> USE DEF KindOK, SnapshotFields
<1>1. CASE c.kind = "battery"
  BY <1>1 DEF BatteryOK, BatteryKeeps
<1>2. CASE c.kind = "ev_charger"
  BY <1>2 DEF EvOK, EvKeeps
<1>3. CASE c.kind = "diesel_generator"
  BY <1>3 DEF DieselOK, DieselKeeps
<1>4. CASE c.kind = "load"
  BY <1>4 DEF RatedOK, LoadKeeps
<1>5. CASE c.kind = "pv"
  BY <1>5 DEF RatedOK, PvKeeps
<1>6. CASE c.kind = "grid_connection"
  BY <1>6 DEF ConnectionOK, ConnectionKeeps
<1>7. CASE c.kind = "transformer"
  BY <1>7 DEF TransformerOK, TransformerKeeps
<1>8. CASE c.kind = "wind_turbine"
  BY <1>8 DEF WindOK, WindKeeps
<1>9. CASE c.kind = "smart_meter"
  BY <1>9 DEF MeterOK, MeterKeeps
<1> QED
  BY <1>1, <1>2, <1>3, <1>4, <1>5, <1>6, <1>7, <1>8, <1>9 DEF Kinds

\* Two devices of a kind that are alike.
Twins(c, d, e) == KindOK(c, d) /\ KindOK(c, e) /\ Alike(c, d, e)

\* They stay alike when one field of both is set to the same value.
LEMMA SetAlike ==
    ASSUME NEW c, c.kind \in Kinds, NEW d, NEW e, Twins(c, d, e), NEW v
    PROVE  /\ Alike(c, [d EXCEPT !.pending = v], [e EXCEPT !.pending = v])
           /\ Alike(c, [d EXCEPT !.fault = v], [e EXCEPT !.fault = v])
<1>1. /\ SnapshotFields(c) \cup {"told", "q"} \subseteq DOMAIN d
      /\ SnapshotFields(c) \cup {"told", "q"} \subseteq DOMAIN e
      /\ Alike(c, d, e)
  BY KeptFields DEF Twins
<1>2. \A f \in SnapshotFields(c) :
         [d EXCEPT !.pending = v][f] = [e EXCEPT !.pending = v][f]
  BY <1>1 DEF Alike
<1>3. \A f \in SnapshotFields(c) :
         [d EXCEPT !.fault = v][f] = [e EXCEPT !.fault = v][f]
  BY <1>1 DEF Alike
<1>4. /\ [d EXCEPT !.pending = v].q = d.q /\ [e EXCEPT !.pending = v].q = e.q
      /\ [d EXCEPT !.fault = v].q = d.q /\ [e EXCEPT !.fault = v].q = e.q
  BY <1>1
<1> QED
  BY <1>1, <1>2, <1>3, <1>4 DEF Alike

\* An order finds them alike, leaves them alike and is answered alike.
LEMMA CommandAlike ==
    ASSUME NEW c, c.kind \in Kinds, NEW d, NEW e, Twins(c, d, e), NEW o
    PROVE  /\ Alike(c, Command(c, d, o).device, Command(c, e, o).device)
           /\ Command(c, d, o).result = Command(c, e, o).result
<1> DEFINE v == o.value
           same(x, y) == Alike(c, x.device, y.device) /\ x.result = y.result
<1>1. Alike(c, d, e)
  BY DEF Twins
<1>2. ASSUME NEW a PROVE same(Answered(d, a), Answered(e, a))
  BY <1>1 DEF Answered
<1>3. ASSUME NEW lo, NEW hi PROVE same(Ordered(d, lo, hi, v), Ordered(e, lo, hi, v))
  BY SetAlike DEF Ordered, Answered
<1>4. same(OrderedUpTo(d, c.rated, v), OrderedUpTo(e, c.rated, v))
  BY <1>2, <1>3 DEF OrderedUpTo
<1>5. c.kind = "battery" => same(BatteryCommand(c, d, v), BatteryCommand(c, e, v))
  <2> SUFFICES ASSUME c.kind = "battery"
               PROVE  same(BatteryCommand(c, d, v), BatteryCommand(c, e, v))
    OBVIOUS
  <2>1. d.soc = e.soc
    BY <1>1 DEF Alike, SnapshotFields, BatteryKeeps
  <2> HIDE DEF same
  <2> QED
    BY <1>2, <1>3, <2>1 DEF BatteryCommand
<1>6. c.kind = "ev_charger" =>
         /\ same(EvCommand(c, d, v), EvCommand(c, e, v))
         /\ same(EvPlug(d, v = 1), EvPlug(e, v = 1))
  <2> SUFFICES ASSUME c.kind = "ev_charger"
               PROVE  /\ same(EvCommand(c, d, v), EvCommand(c, e, v))
                      /\ same(EvPlug(d, v = 1), EvPlug(e, v = 1))
    OBVIOUS
  <2>1. d.plugged = e.plugged /\ d.fault = e.fault /\ d.pending = e.pending
    BY <1>1 DEF Alike, SnapshotFields, EvKeeps
  <2>2. same(EvCommand(c, d, v), EvCommand(c, e, v))
    <3> HIDE DEF same
    <3> QED
      BY <1>2, <1>3, <2>1 DEF EvCommand
  <2>3. EvOK(c, d) /\ EvOK(c, e)
    BY DEF Twins, KindOK
  <2>4. ASSUME NEW x
        PROVE  /\ Alike(c, [d EXCEPT !.plugged = TRUE, !.pending = x],
                           [e EXCEPT !.plugged = TRUE, !.pending = x])
               /\ Alike(c, [d EXCEPT !.plugged = FALSE, !.pending = x],
                           [e EXCEPT !.plugged = FALSE, !.pending = x])
    BY <1>1, <2>3 DEF Alike, SnapshotFields, EvKeeps, EvOK
  <2> DEFINE x == EvPlug(d, v = 1)
             y == EvPlug(e, v = 1)
  <2>5. same(x, y)
    <3>1. CASE v = 1
      <4>1. (v = 1) = TRUE
        BY <3>1
      <4>2. x.device = [d EXCEPT !.plugged = TRUE, !.pending = d.pending] /\ x.result = "accepted"
        BY <4>1 DEF EvPlug, Answered
      <4>3. y.device = [e EXCEPT !.plugged = TRUE, !.pending = d.pending] /\ y.result = "accepted"
        BY <2>1, <4>1 DEF EvPlug, Answered
      <4> HIDE DEF x, y
      <4> QED
        BY <2>4, <4>2, <4>3
    <3>2. CASE v # 1
      <4>1. (v = 1) = FALSE
        BY <3>2
      <4>2. x.device = [d EXCEPT !.plugged = FALSE, !.pending = 0] /\ x.result = "accepted"
        BY <4>1 DEF EvPlug, Answered
      <4>3. y.device = [e EXCEPT !.plugged = FALSE, !.pending = 0] /\ y.result = "accepted"
        BY <4>1 DEF EvPlug, Answered
      <4> HIDE DEF x, y
      <4> QED
        BY <2>4, <4>2, <4>3
    <3> QED
      BY <3>1, <3>2
  <2> QED
    BY <2>2, <2>5
<1>7. c.kind = "grid_connection" => same(ConnectionCommand(c, d, o), ConnectionCommand(c, e, o))
  <2> SUFFICES ASSUME c.kind = "grid_connection"
               PROVE  same(ConnectionCommand(c, d, o), ConnectionCommand(c, e, o))
    OBVIOUS
  <2>1. ConnectionOK(c, d) /\ ConnectionOK(c, e)
    BY DEF Twins, KindOK
  <2> DEFINE x == Ordered(d, -c.maxExport, c.maxImport, v)
             y == Ordered(e, -c.maxExport, c.maxImport, v)
             most == LimitTo(-c.maxExport, c.maxImport, v)
             r == CHOOSE z \in o.q : TRUE
  <2>2. CASE o.q = {}
    BY <1>3, <2>2 DEF ConnectionCommand
  <2>3. CASE o.q # {}
    <3>1. x.result = y.result
      BY <1>3
    <3>2. /\ ConnectionCommand(c, d, o).device = [d EXCEPT !.pending = most, !.pendingQ = r]
          /\ ConnectionCommand(c, d, o).result = x.result
          /\ ConnectionCommand(c, e, o).device = [e EXCEPT !.pending = most, !.pendingQ = r]
          /\ ConnectionCommand(c, e, o).result = y.result
      BY <2>1, <2>3 DEF ConnectionCommand, Ordered, Answered, ConnectionOK
    <3> HIDE DEF most, r
    <3>3. Alike(c, [d EXCEPT !.pending = most, !.pendingQ = r],
                   [e EXCEPT !.pending = most, !.pendingQ = r])
      BY <1>1, <2>1 DEF Alike, SnapshotFields, ConnectionKeeps, ConnectionOK
    <3> QED
      BY <3>1, <3>2, <3>3
  <2> QED
    BY <2>2, <2>3
<1> HIDE DEF same
<1>8. same(Command(c, d, o), Command(c, e, o))
  BY <1>2, <1>3, <1>4, <1>5, <1>6, <1>7 DEF Command
<1> QED
  BY <1>8 DEF same

\* A fault leaves them alike as well.
LEMMA FaultAlike ==
    ASSUME NEW c, c.kind \in Kinds, NEW d, NEW e, Twins(c, d, e), NEW i, NEW faults
    PROVE  Alike(c, WithFault(d, i \in faults), WithFault(e, i \in faults))
<1>1. Alike(c, [d EXCEPT !.fault = TRUE], [e EXCEPT !.fault = TRUE])
  BY SetAlike
<1>2. Alike(c, [d EXCEPT !.fault = FALSE], [e EXCEPT !.fault = FALSE])
  BY SetAlike
<1>3. CASE i \in faults
  <2>1. (i \in faults) = TRUE
    BY <1>3
  <2>2. /\ WithFault(d, i \in faults) = [d EXCEPT !.fault = TRUE]
        /\ WithFault(e, i \in faults) = [e EXCEPT !.fault = TRUE]
    BY <2>1, Zenon DEF WithFault
  <2> QED
    BY <1>1, <2>2
<1>4. CASE ~(i \in faults)
  <2>1. (i \in faults) = FALSE
    BY <1>4
  <2>2. /\ WithFault(d, i \in faults) = [d EXCEPT !.fault = FALSE]
        /\ WithFault(e, i \in faults) = [e EXCEPT !.fault = FALSE]
    BY <2>1, Zenon DEF WithFault
  <2> QED
    BY <1>2, <2>2
<1> QED
  BY <1>3, <1>4

\* After a tick there is no difference left, but for a meter, and that has no part in
\* any balance.
LEMMA TickAlike ==
    ASSUME NEW c, c.kind \in Kinds, NEW d, NEW e, Twins(c, d, e), NEW volt, NEW draw
    PROVE  /\ c.kind # "smart_meter" =>
                 /\ Tick(c, d, volt, draw, 0) = Tick(c, e, volt, draw, 0)
                 /\ Alike(c, Tick(c, d, volt, draw, 0), Tick(c, e, volt, draw, 0))
           /\ \A x, y : c.kind = "smart_meter" => Alike(c, MeterTick(d, x), MeterTick(e, y))
<1> DEFINE t(z) == Tick(c, z, volt, draw, 0)
<1>1. Alike(c, d, e)
  BY DEF Twins
<1>2. c.kind = "battery" => t(d) = t(e)
  <2> SUFFICES ASSUME c.kind = "battery" PROVE BatteryTick(c, d) = BatteryTick(c, e)
    BY DEF Tick
  <2>1. BatteryOK(c, d) /\ BatteryOK(c, e)
    BY DEF Twins, KindOK
  <2>2. d.power = e.power /\ d.pending = e.pending /\ d.soc = e.soc
    BY <1>1 DEF Alike, SnapshotFields, BatteryKeeps
  <2>3. d.fault = e.fault
    BY <1>1 DEF Alike, SnapshotFields, BatteryKeeps
  <2>4. Ramped(d, c.ramp) = Ramped(e, c.ramp)
    BY <2>2 DEF Ramped
  <2> DEFINE power == Derated(c, d, Ramped(d, c.ramp))
             target == d.soc + BatteryEnergy(c, power)
  <2>5. power = Derated(c, e, Ramped(e, c.ramp))
    BY <2>3, <2>4 DEF Derated
  <2>6. target = e.soc + BatteryEnergy(c, power)
    BY <2>2
  <2> HIDE DEF power, target
  <2> DEFINE stop(z, s)     == [Reports(z, 0) EXCEPT !.soc = s, !.pending = 0, !.q = 0]
             go(z, p, s, y) == [Reports(z, p) EXCEPT !.soc = s, !.q = y]
  <2>7. \A s : stop(d, s) = stop(e, s)
    BY <2>1, <2>3 DEF BatteryOK, Reports
  <2>8. \A p, s, y : go(d, p, s, y) = go(e, p, s, y)
    BY <2>1, <2>2, <2>3 DEF BatteryOK, Reports
  <2>9. BatteryTick(c, d)
           = IF BatterySaturates(c, target) THEN stop(d, LimitTo(c.minSoc, c.maxSoc, target))
             ELSE go(d, power, target, Magnitude(power) * c.reactive)
    BY DEF BatteryTick, power, target
  <2>10. BatteryTick(c, e)
           = IF BatterySaturates(c, target) THEN stop(e, LimitTo(c.minSoc, c.maxSoc, target))
             ELSE go(e, power, target, Magnitude(power) * c.reactive)
    BY <2>5, <2>6 DEF BatteryTick
  <2> HIDE DEF stop, go
  <2> QED
    BY <2>7, <2>8, <2>9, <2>10
<1>3. c.kind = "ev_charger" => t(d) = t(e) /\ t(d).q = d.q
  <2> SUFFICES ASSUME c.kind = "ev_charger"
               PROVE  EvTick(c, d) = EvTick(c, e) /\ EvTick(c, d).q = d.q
    BY DEF Tick
  <2>1. EvOK(c, d) /\ EvOK(c, e)
    BY DEF Twins, KindOK
  <2>2. d.pending = e.pending /\ d.stored = e.stored /\ d.power = e.power
    BY <1>1 DEF Alike, SnapshotFields, EvKeeps
  <2>3. d.plugged = e.plugged /\ d.fault = e.fault
    BY <1>1 DEF Alike, SnapshotFields, EvKeeps
  <2>4. d.q = e.q
    BY <1>1 DEF Alike
  <2> DEFINE go(z, p, s) == [Reports(z, p) EXCEPT !.stored = s]
  <2>5. \A p, s : go(d, p, s) = go(e, p, s) /\ go(d, p, s).q = d.q
    BY <2>1, <2>2, <2>3, <2>4 DEF EvOK, Reports
  <2>6. EvMaxCharge(c, d) = EvMaxCharge(c, e)
    BY <2>2 DEF EvMaxCharge
  <2> DEFINE wanted == IF ~d.plugged \/ d.fault THEN 0
                       ELSE LimitTo(-c.maxDischarge, EvMaxCharge(c, d), d.pending)
             power  == LimitTo(-d.stored, c.capacity - d.stored, wanted)
  <2>7. wanted = IF ~e.plugged \/ e.fault THEN 0
                 ELSE LimitTo(-c.maxDischarge, EvMaxCharge(c, e), e.pending)
    BY <2>2, <2>3, <2>6
  <2> HIDE DEF wanted
  <2>8. power = LimitTo(-e.stored, c.capacity - e.stored, wanted)
    BY <2>2
  <2> HIDE DEF power
  <2>9. /\ EvTick(c, d) = go(d, power, d.stored + power)
        /\ EvTick(c, e) = go(e, power, d.stored + power)
    <3>1. EvTick(c, d) = go(d, power, d.stored + power)
      BY <2>1 DEF EvTick, EvOK, Reports, wanted, power
    <3>2. EvTick(c, e) = [Reports(e, power) EXCEPT !.stored = Reports(e, power).stored + power]
      BY <2>7, <2>8 DEF EvTick
    <3>3. Reports(e, power).stored = d.stored
      BY <2>1, <2>2 DEF Reports, EvOK
    <3> QED
      BY <3>1, <3>2, <3>3
  <2> HIDE DEF go
  <2> QED
    BY <2>5, <2>9
<1>4. c.kind = "diesel_generator" => t(d) = t(e) /\ t(d).q = d.q
  <2> SUFFICES ASSUME c.kind = "diesel_generator"
               PROVE  DieselTick(c, d) = DieselTick(c, e) /\ DieselTick(c, d).q = d.q
    BY DEF Tick
  <2>1. DieselOK(c, d) /\ DieselOK(c, e)
    BY DEF Twins, KindOK
  <2>2. d.pending = e.pending /\ d.fuel = e.fuel /\ d.power = e.power
    BY <1>1 DEF Alike, SnapshotFields, DieselKeeps
  <2>3. d.running = e.running /\ d.fault = e.fault
    BY <1>1 DEF Alike, SnapshotFields, DieselKeeps
  <2>4. d.q = e.q
    BY <1>1 DEF Alike
  <2> DEFINE on(z, p, s)  == [Reports(z, p) EXCEPT !.running = TRUE, !.fuel = s]
             off(z, p, s) == [Reports(z, p) EXCEPT !.running = FALSE, !.fuel = s]
  <2>5. \A p, s : /\ on(d, p, s) = on(e, p, s) /\ on(d, p, s).q = d.q
                  /\ off(d, p, s) = off(e, p, s) /\ off(d, p, s).q = d.q
    <3>0. d \in [power : Int, pending : Int, fuel : Int, running : BOOLEAN, fault : BOOLEAN,
                 told : Int, q : Int]
          /\ e \in [power : Int, pending : Int, fuel : Int, running : BOOLEAN, fault : BOOLEAN,
                    told : Int, q : Int]
      BY <2>1 DEF DieselOK
    <3> SUFFICES ASSUME NEW p, NEW s
                 PROVE  /\ on(d, p, s) = on(e, p, s) /\ on(d, p, s).q = d.q
                        /\ off(d, p, s) = off(e, p, s) /\ off(d, p, s).q = d.q
      OBVIOUS
    <3>1. on(d, p, s).q = d.q
      BY <3>0 DEF Reports
    <3>2. off(d, p, s).q = d.q
      BY <3>0 DEF Reports
    <3>3. on(d, p, s) = on(e, p, s)
      BY <3>0, <2>2, <2>3, <2>4 DEF Reports
    <3>4. off(d, p, s) = off(e, p, s)
      BY <3>0, <2>2, <2>3, <2>4 DEF Reports
    <3> QED
      BY <3>1, <3>2, <3>3, <3>4
  <2>6. \A p : Reports(d, p).fuel = d.fuel /\ Reports(e, p).fuel = d.fuel
    BY <2>1, <2>2 DEF DieselOK, Reports
  <2>7. LimitTo(0, c.maxPower, Ramped(d, c.ramp)) = LimitTo(0, c.maxPower, Ramped(e, c.ramp))
    BY <2>2 DEF Ramped
  <2> DEFINE told(w) == IF w * c.rate <= d.fuel THEN w ELSE d.fuel \div c.rate
             left(w) == IF w * c.rate <= d.fuel THEN d.fuel - w * c.rate ELSE 0
             most == LimitTo(0, c.maxPower, Ramped(d, c.ramp))
  <2>8. DieselRuns(c, d) <=> DieselRuns(c, e)
    BY <2>2, <2>3 DEF DieselRuns
  <2>9. CASE DieselRuns(c, d)
    <3>1. DieselRuns(c, d) = TRUE /\ DieselRuns(c, e) = TRUE
      BY <2>8, <2>9
    <3>2. DieselTick(c, d) = on(d, told(most), left(most))
      BY <2>1, <2>6, <3>1 DEF DieselTick, DieselOK, Reports
    <3>3. DieselTick(c, e) = on(e, told(most), left(most))
      BY <2>1, <2>2, <2>6, <2>7, <3>1 DEF DieselTick, DieselOK, Reports
    <3> HIDE DEF told, left, most, on, off
    <3> QED
      BY <2>5, <3>2, <3>3
  <2>10. CASE ~DieselRuns(c, d)
    <3>1. DieselRuns(c, d) = FALSE /\ DieselRuns(c, e) = FALSE
      BY <2>8, <2>10
    <3>2. DieselTick(c, d) = off(d, told(0), left(0))
      BY <2>1, <2>6, <3>1 DEF DieselTick, DieselOK, Reports
    <3>3. DieselTick(c, e) = off(e, told(0), left(0))
      BY <2>1, <2>2, <2>6, <3>1 DEF DieselTick, DieselOK, Reports
    <3> HIDE DEF told, left, on, off
    <3> QED
      BY <2>5, <3>2, <3>3
  <2> QED
    BY <2>9, <2>10
<1>5. c.kind = "load" => t(d) = t(e) /\ t(d).q = d.q
  <2> SUFFICES ASSUME c.kind = "load"
               PROVE  LoadTick(d) = LoadTick(e) /\ LoadTick(d).q = d.q
    BY DEF Tick
  <2>1. RatedOK(c, d) /\ RatedOK(c, e)
    BY DEF Twins, KindOK
  <2>2. d.pending = e.pending /\ d.q = e.q
    BY <1>1 DEF Alike, SnapshotFields, LoadKeeps
  <2> QED
    BY <2>1, <2>2 DEF RatedOK, LoadTick, Reports
<1>6. c.kind = "pv" => t(d) = t(e)
  BY <1>1 DEF Twins, KindOK, RatedOK, Alike, SnapshotFields, PvKeeps, Tick, PvTick, Reports
<1>7. c.kind = "grid_connection" => t(d) = t(e)
  BY <1>1 DEF Twins, KindOK, ConnectionOK, Alike, SnapshotFields, ConnectionKeeps, Tick,
              ConnectionTick, Reports
<1>8. c.kind = "transformer" => t(d) = t(e) /\ t(d).q = d.q
  <2> SUFFICES ASSUME c.kind = "transformer"
               PROVE  TransformerTick(c, d) = TransformerTick(c, e) /\ TransformerTick(c, d).q = d.q
    BY DEF Tick
  <2>1. TransformerOK(d) /\ TransformerOK(e)
    BY DEF Twins, KindOK
  <2>2. d.pending = e.pending
    BY <1>1 DEF Alike, SnapshotFields, TransformerKeeps
  <2>3. d.fault = e.fault
    BY <1>1 DEF Alike, SnapshotFields, TransformerKeeps
  <2>4. d.q = e.q
    BY <1>1 DEF Alike
  <2>5. \A p : Reports(d, p) = Reports(e, p) /\ Reports(d, p).q = d.q
    BY <2>1, <2>2, <2>3, <2>4 DEF TransformerOK, Reports
  <2>6. (IF d.fault THEN 0 ELSE LimitTo(-c.rated, c.rated, d.pending))
           = IF e.fault THEN 0 ELSE LimitTo(-c.rated, c.rated, e.pending)
    BY <2>2, <2>3
  <2> QED
    BY <2>5, <2>6 DEF TransformerTick
<1>9. c.kind = "wind_turbine" => t(d) = t(e) /\ t(d).q = d.q
  BY <1>1 DEF Twins, KindOK, WindOK, Alike, SnapshotFields, WindKeeps, Tick, WindTick, Reports
<1>10. ASSUME c.kind = "smart_meter", NEW x, NEW y
       PROVE  Alike(c, MeterTick(d, x), MeterTick(e, y))
  <2>1. MeterTick(d, x).q = d.q /\ MeterTick(e, y).q = e.q
    BY <1>10 DEF Twins, KindOK, MeterOK, MeterTick
  <2> QED
    BY <1>1, <1>10, <2>1 DEF Alike, SnapshotFields, MeterKeeps
<1>11. c.kind # "smart_meter" => t(d) = t(e)
  BY <1>2, <1>3, <1>4, <1>5, <1>6, <1>7, <1>8, <1>9 DEF Kinds
<1>12. c.kind \notin {"battery", "pv", "grid_connection", "smart_meter"} => t(d).q = 0
  BY <1>1, <1>3, <1>4, <1>5, <1>8, <1>9 DEF Kinds, Alike
<1> HIDE DEF t
<1>13. c.kind # "smart_meter" => Alike(c, t(d), t(e))
  BY <1>11, <1>12 DEF Alike
<1> QED
  BY <1>10, <1>11, <1>13 DEF t

\* All devices of two plants are alike.
AllAlike(s, dev, other) == \A i \in Indices(s) : Alike(s.devices[i], dev[i], other[i])

\* Those in I are the same, but for the meters.
SameIn(s, I, dev, other) == \A i \in I : s.devices[i].kind # "smart_meter" => dev[i] = other[i]

TwinDevices(s, dev, other) ==
    DevicesOK(s, dev) /\ DevicesOK(s, other) /\ AllAlike(s, dev, other)

\* Device by device.
LEMMA TwinsAre ==
    ASSUME NEW s, ScenarioOK(s), NEW dev, NEW other, TwinDevices(s, dev, other),
           NEW i \in Indices(s)
    PROVE  s.devices[i].kind \in Kinds /\ Twins(s.devices[i], dev[i], other[i])
BY Numbered DEF TwinDevices, DevicesOK, AllAlike, Twins

\* The orders, the overlays and the faults of a tick find two plants alike and leave
\* them alike.
LEMMA LoadedAlike ==
    ASSUME NEW s, ScenarioOK(s), NEW dev, NEW other, TwinDevices(s, dev, other),
           NEW given \in Given(s), NEW t \in Nat, NEW faults
    PROVE  TwinDevices(s, Faulted(s, LoadInputs(s, Commanded(s, dev, given), t), faults),
                          Faulted(s, LoadInputs(s, Commanded(s, other, given), t), faults))
<1>1. ASSUME NEW a, NEW b, TwinDevices(s, a, b)
      PROVE  TwinDevices(s, Commanded(s, a, given), Commanded(s, b, given))
  <2> DEFINE I == {o.target : o \in given}
             first == CHOOSE o \in given : TRUE
  <2>1. DOMAIN a = Indices(s) /\ DOMAIN b = Indices(s)
    BY <1>1 DEF TwinDevices, DevicesOK
  <2>2. /\ \A i \in Indices(s) : Commanded(s, a, given)[i]
              = IF i \in I THEN Command(s.devices[i], a[i], first).device ELSE a[i]
        /\ \A i \in Indices(s) : Commanded(s, b, given)[i]
              = IF i \in I THEN Command(s.devices[i], b[i], first).device ELSE b[i]
    BY <2>1 DEF Commanded, Each
  <2>3. \A i \in Indices(s) : s.devices[i].kind \in Kinds /\ Twins(s.devices[i], a[i], b[i])
    BY <1>1, TwinsAre
  <2>4. \A i \in Indices(s) :
           Alike(s.devices[i], Command(s.devices[i], a[i], first).device,
                               Command(s.devices[i], b[i], first).device)
    <3> HIDE DEF first
    <3> QED
      BY <2>3, CommandAlike
  <2> HIDE DEF I, first
  <2>5. AllAlike(s, Commanded(s, a, given), Commanded(s, b, given))
    BY <2>2, <2>3, <2>4 DEF AllAlike, Twins
  <2> QED
    BY <1>1, <2>5, CommandedOK DEF TwinDevices
<1>2. ASSUME NEW a, NEW b, TwinDevices(s, a, b)
      PROVE  TwinDevices(s, LoadInputs(s, a, t), LoadInputs(s, b, t))
  <2> DEFINE set(i) == SetPower(CHOOSE v \in Intent(s, i, t) : TRUE, {})
  <2>1. DOMAIN a = Indices(s) /\ DOMAIN b = Indices(s)
    BY <1>2 DEF TwinDevices, DevicesOK
  <2>2. /\ \A i \in Indices(s) : LoadInputs(s, a, t)[i]
              = IF Intent(s, i, t) # {} THEN Command(s.devices[i], a[i], set(i)).device ELSE a[i]
        /\ \A i \in Indices(s) : LoadInputs(s, b, t)[i]
              = IF Intent(s, i, t) # {} THEN Command(s.devices[i], b[i], set(i)).device ELSE b[i]
    BY <2>1 DEF LoadInputs, Each
  <2> HIDE DEF set
  <2>3. \A i \in Indices(s) : s.devices[i].kind \in Kinds /\ Twins(s.devices[i], a[i], b[i])
    BY <1>2, TwinsAre
  <2>4. \A i \in Indices(s) :
           Alike(s.devices[i], Command(s.devices[i], a[i], set(i)).device,
                               Command(s.devices[i], b[i], set(i)).device)
    BY <2>3, CommandAlike
  <2>5. AllAlike(s, LoadInputs(s, a, t), LoadInputs(s, b, t))
    BY <2>2, <2>3, <2>4 DEF AllAlike, Twins
  <2> QED
    BY <1>2, <2>5, LoadInputsOK DEF TwinDevices
<1>3. ASSUME NEW a, NEW b, TwinDevices(s, a, b)
      PROVE  TwinDevices(s, Faulted(s, a, faults), Faulted(s, b, faults))
  <2>1. DOMAIN a = Indices(s) /\ DOMAIN b = Indices(s)
    BY <1>3 DEF TwinDevices, DevicesOK
  <2>2. ASSUME NEW i \in Indices(s)
        PROVE  Alike(s.devices[i], Faulted(s, a, faults)[i], Faulted(s, b, faults)[i])
    <3>1. s.devices[i].kind \in Kinds /\ Twins(s.devices[i], a[i], b[i])
      BY <1>3, TwinsAre
    <3>2. CASE s.devices[i].kind \in Faultable
      <4>1. Faulted(s, a, faults)[i] = WithFault(a[i], i \in faults)
        BY <2>1, <3>2 DEF Faulted, Each
      <4>2. Faulted(s, b, faults)[i] = WithFault(b[i], i \in faults)
        BY <2>1, <3>2 DEF Faulted, Each
      <4>3. Alike(s.devices[i], WithFault(a[i], i \in faults), WithFault(b[i], i \in faults))
        BY <3>1, FaultAlike
      <4> QED
        BY <4>1, <4>2, <4>3
    <3>3. CASE s.devices[i].kind \notin Faultable
      <4>1. Faulted(s, a, faults)[i] = a[i] /\ Faulted(s, b, faults)[i] = b[i]
        BY <2>1, <3>3 DEF Faulted, Each
      <4> QED
        BY <3>1, <4>1 DEF Twins
    <3> QED
      BY <3>2, <3>3
  <2> QED
    BY <1>3, <2>2, FaultedOK DEF TwinDevices, AllAlike
<1>4. TwinDevices(s, Commanded(s, dev, given), Commanded(s, other, given))
  BY <1>1
<1>5. TwinDevices(s, LoadInputs(s, Commanded(s, dev, given), t),
                     LoadInputs(s, Commanded(s, other, given), t))
  BY <1>2, <1>4
<1> QED
  BY <1>3, <1>5

\* What a pass does to the devices that tick in it and to the others.
TickedIn(s, I, dev, volt, draw, p) ==
    /\ DevicesOK(s, p)
    /\ \A i \in Indices(s) \ I : p[i] = dev[i]
    /\ \A i \in I : s.devices[i].kind # "smart_meter" =>
          p[i] = Tick(s.devices[i], dev[i], volt, draw, 0)

\* Every device of a pass ticks by itself, its meters excepted.
LEMMA PassTicks ==
    ASSUME NEW s, ScenarioOK(s), NEW dev, DevicesOK(s, dev),
           NEW I, I \subseteq Indices(s), NEW volt \in Int, NEW draw \in Int
    PROVE  TickedIn(s, I, dev, volt, draw, Pass(s, I, dev, volt, draw))
<1> DEFINE p == Pass(s, I, dev, volt, draw)
<1>1. /\ DevicesOK(s, p)
      /\ \A i \in Indices(s) \ I : p[i] = dev[i]
      /\ \A i \in Indices(s) \cap I :
            /\ InLimits(s.devices[i], p[i])
            /\ s.devices[i].kind # "smart_meter" =>
                  p[i] = Tick(s.devices[i], dev[i], volt, draw, 0)
  BY PassOK
<1> HIDE DEF p
<1>2. \A i \in I : s.devices[i].kind # "smart_meter" =>
         p[i] = Tick(s.devices[i], dev[i], volt, draw, 0)
  <2> SUFFICES ASSUME NEW i \in I, s.devices[i].kind # "smart_meter"
               PROVE  p[i] = Tick(s.devices[i], dev[i], volt, draw, 0)
    OBVIOUS
  <2>1. i \in Indices(s) \cap I
    OBVIOUS
  <2> QED
    BY <1>1, <2>1
<1> QED
  <2>1. TickedIn(s, I, dev, volt, draw, p)
    BY <1>1, <1>2 DEF TickedIn
  <2> QED
    BY <2>1 DEF p

\* A pass leaves no difference between the devices that tick in it.
LEMMA PassAlike ==
    ASSUME NEW s, ScenarioOK(s), NEW dev, NEW other, TwinDevices(s, dev, other),
           NEW I, I \subseteq Indices(s), NEW volt \in Int, NEW draw \in Int
    PROVE  /\ TwinDevices(s, Pass(s, I, dev, volt, draw), Pass(s, I, other, volt, draw))
           /\ SameIn(s, I, Pass(s, I, dev, volt, draw), Pass(s, I, other, volt, draw))
           /\ \A i \in Indices(s) \ I : /\ Pass(s, I, dev, volt, draw)[i] = dev[i]
                                        /\ Pass(s, I, other, volt, draw)[i] = other[i]
<1> DEFINE p == Pass(s, I, dev, volt, draw)
           q == Pass(s, I, other, volt, draw)
<1>1. /\ DevicesOK(s, p) /\ DevicesOK(s, q)
      /\ \A i \in Indices(s) \ I : p[i] = dev[i] /\ q[i] = other[i]
      /\ \A i \in I : s.devices[i].kind # "smart_meter" =>
            /\ p[i] = Tick(s.devices[i], dev[i], volt, draw, 0)
            /\ q[i] = Tick(s.devices[i], other[i], volt, draw, 0)
  <2>1. DevicesOK(s, dev) /\ DevicesOK(s, other)
    BY DEF TwinDevices
  <2>2. TickedIn(s, I, dev, volt, draw, p)
    BY <2>1, PassTicks
  <2>3. TickedIn(s, I, other, volt, draw, q)
    BY <2>1, PassTicks
  <2> HIDE DEF p, q
  <2> QED
    BY <2>2, <2>3 DEF TickedIn
<1>2. \A i \in I : s.devices[i].kind = "smart_meter" =>
         /\ p[i] = MeterTick(dev[i], SumTo(Metered(s, I, i, dev, volt, draw), Len(s.devices)))
         /\ q[i] = MeterTick(other[i], SumTo(Metered(s, I, i, other, volt, draw), Len(s.devices)))
  BY PassMeters DEF TwinDevices
<1> HIDE DEF p, q
<1>3. ASSUME NEW i \in Indices(s)
      PROVE  /\ Alike(s.devices[i], p[i], q[i])
             /\ (i \in I /\ s.devices[i].kind # "smart_meter") => p[i] = q[i]
  <2>1. s.devices[i].kind \in Kinds /\ Twins(s.devices[i], dev[i], other[i])
    BY TwinsAre
  <2>2. CASE i \notin I
    BY <1>1, <2>1, <2>2 DEF Twins
  <2>3. CASE i \in I /\ s.devices[i].kind # "smart_meter"
    BY <1>1, <2>1, <2>3, TickAlike
  <2>4. CASE i \in I /\ s.devices[i].kind = "smart_meter"
    <3>1. \A x, y : Alike(s.devices[i], MeterTick(dev[i], x), MeterTick(other[i], y))
      BY <2>1, <2>4, TickAlike
    <3> QED
      BY <1>2, <2>4, <3>1
  <2> QED
    BY <2>2, <2>3, <2>4
<1>4. TwinDevices(s, p, q) /\ SameIn(s, I, p, q)
  BY <1>1, <1>3 DEF TwinDevices, AllAlike, SameIn
<1> QED
  BY <1>1, <1>4 DEF p, q

\* A meter has no part in a balance.
LEMMA BalanceAlike ==
    ASSUME NEW s, ScenarioOK(s), NEW dev, NEW other, TwinDevices(s, dev, other),
           NEW I, I \subseteq Indices(s), SameIn(s, I, dev, other)
    PROVE  /\ Residual(s, dev, I) = Residual(s, other, I)
           /\ Reactive(s, dev, I) = Reactive(s, other, I)
<1> DEFINE f(z) == [i \in Indices(s) |->
                       IF i \in I THEN Sign(s.devices[i].kind) * z[i].told ELSE 0]
           g(z) == [i \in Indices(s) |-> IF i \in I THEN z[i].q ELSE 0]
<1>1. \A i \in Indices(s) : dev[i].told \in Int /\ other[i].told \in Int
  BY Numbered, KindTells DEF TwinDevices, DevicesOK
<1>2. ASSUME NEW i \in I
      PROVE  /\ Sign(s.devices[i].kind) * dev[i].told = Sign(s.devices[i].kind) * other[i].told
             /\ dev[i].q = other[i].q
  <2>1. CASE s.devices[i].kind # "smart_meter"
    <3>1. dev[i] = other[i]
      BY <2>1 DEF SameIn
    <3> QED
      BY <3>1
  <2>2. CASE s.devices[i].kind = "smart_meter"
    <3>1. Sign(s.devices[i].kind) = 0
      BY <2>2 DEF Sign, Generation, Storage
    <3>2. dev[i].q = 0 /\ other[i].q = 0
      BY <2>2 DEF TwinDevices, AllAlike, Alike
    <3>3. dev[i].told \in Int /\ other[i].told \in Int
      BY <1>1
    <3>4. 0 * dev[i].told = 0 /\ 0 * other[i].told = 0
      BY <3>3
    <3> QED
      BY <3>1, <3>2, <3>4
  <2> QED
    BY <2>1, <2>2
<1>3. f(dev) = f(other) /\ g(dev) = g(other)
  BY <1>2
<1>4. \A z : /\ Residual(s, z, I) = SumTo(f(z), Len(s.devices))
             /\ Reactive(s, z, I) = SumTo(g(z), Len(s.devices))
  BY DEF Residual, Reactive, SumOver
<1> HIDE DEF f, g
<1> QED
  BY <1>3, <1>4

\* The tick of two plants that are alike gives the same devices, but for the meters, and
\* the same grid.
LEMMA TickAgrees ==
    ASSUME NEW s, ScenarioOK(s), NEW t \in Nat, NEW p, NEW r,
           TwinDevices(s, p.device, r.device), p.grid.volt \in Int,
           r.grid.volt = p.grid.volt, r.grid.oil = p.grid.oil,
           NEW given \in Given(s), NEW faults, NEW draw \in Int
    PROVE  /\ TwinDevices(s, Ticked(s, t, p, given, faults, draw).device,
                             Ticked(s, t, r, given, faults, draw).device)
           /\ SameIn(s, Indices(s), Ticked(s, t, p, given, faults, draw).device,
                                    Ticked(s, t, r, given, faults, draw).device)
           /\ Ticked(s, t, p, given, faults, draw).grid = Ticked(s, t, r, given, faults, draw).grid
<1> DEFINE volt == p.grid.volt
           F == FirstPass(s)
           L == LastPass(s)
           manual == Manual(s, given, t)
           loaded1 == Faulted(s, LoadInputs(s, Commanded(s, p.device, given), t), faults)
           loaded2 == Faulted(s, LoadInputs(s, Commanded(s, r.device, given), t), faults)
           first1  == Pass(s, F, loaded1, volt, draw)
           first2  == Pass(s, F, loaded2, volt, draw)
           orders  == CloseOrders(s, first1, manual)
           closed1 == Closed(s, first1, orders)
           closed2 == Closed(s, first2, orders)
           second1 == Pass(s, L, closed1, volt, draw)
           second2 == Pass(s, L, closed2, volt, draw)
<1>1. L \subseteq Indices(s) /\ F = Indices(s) \ L /\ volt \in Int
  BY Numbered DEF FirstPass
<1>2. TwinDevices(s, loaded1, loaded2)
  BY LoadedAlike
<1> HIDE DEF loaded1, loaded2, volt, F, L, manual
<1>3. TwinDevices(s, first1, first2) /\ SameIn(s, F, first1, first2)
  BY <1>1, <1>2, PassAlike
<1> HIDE DEF first1, first2
<1>4. /\ Residual(s, first1, F) = Residual(s, first2, F)
      /\ Reactive(s, first1, F) = Reactive(s, first2, F)
  BY <1>1, <1>3, BalanceAlike
<1>5. orders = CloseOrders(s, first2, manual)
  BY <1>4 DEF CloseOrders, F
<1>6. /\ DOMAIN orders \subseteq L
      /\ \A i \in DOMAIN orders : orders[i].value \in Int /\ orders[i].q \subseteq Int
  BY <1>3, CloseOrdersOK DEF TwinDevices, L
<1> HIDE DEF orders
<1>7. /\ DevicesOK(s, closed1) /\ DevicesOK(s, closed2)
      /\ \A i \in Indices(s) \ DOMAIN orders : closed1[i] = first1[i] /\ closed2[i] = first2[i]
      /\ \A i \in Indices(s) \cap DOMAIN orders :
            /\ closed1[i] = Command(s.devices[i], first1[i], orders[i]).device
            /\ closed2[i] = Command(s.devices[i], first2[i], orders[i]).device
  BY <1>3, <1>6, ClosedOK DEF TwinDevices
<1> HIDE DEF closed1, closed2
<1>8. TwinDevices(s, closed1, closed2)
  <2>1. ASSUME NEW i \in Indices(s)
        PROVE  Alike(s.devices[i], closed1[i], closed2[i])
    <3>1. s.devices[i].kind \in Kinds /\ Twins(s.devices[i], first1[i], first2[i])
      BY <1>3, TwinsAre
    <3>2. Alike(s.devices[i], Command(s.devices[i], first1[i], orders[i]).device,
                              Command(s.devices[i], first2[i], orders[i]).device)
      BY <3>1, CommandAlike
    <3>3. CASE i \in DOMAIN orders
      BY <1>7, <3>2, <3>3
    <3>4. CASE i \notin DOMAIN orders
      BY <1>7, <3>1, <3>4 DEF Twins
    <3> QED
      BY <3>3, <3>4
  <2> QED
    BY <1>7, <2>1 DEF TwinDevices, AllAlike
<1>9. /\ TwinDevices(s, second1, second2) /\ SameIn(s, L, second1, second2)
      /\ \A i \in Indices(s) \ L : second1[i] = closed1[i] /\ second2[i] = closed2[i]
  BY <1>1, <1>8, PassAlike
<1> HIDE DEF second1, second2
<1>10. SameIn(s, Indices(s), second1, second2)
  <2>1. \A i \in F : second1[i] = first1[i] /\ second2[i] = first2[i]
    BY <1>1, <1>6, <1>7, <1>9
  <2> QED
    BY <1>1, <1>3, <1>9, <2>1 DEF SameIn
<1>11. GridUpdated(s, second1, p.grid) = GridUpdated(s, second2, r.grid)
  <2>1. SameIn(s, F, second1, second2)
    BY <1>1, <1>10 DEF SameIn
  <2>2. /\ Residual(s, second1, Indices(s)) = Residual(s, second2, Indices(s))
        /\ Reactive(s, second1, Indices(s)) = Reactive(s, second2, Indices(s))
        /\ Reactive(s, second1, F) = Reactive(s, second2, F)
    BY <1>1, <1>9, <1>10, <2>1, BalanceAlike
  <2> DEFINE f(z) == [i \in Indices(s) |-> IF i \in Connections(s) THEN z[i].told ELSE 0]
  <2>3. \A i \in Connections(s) : second1[i] = second2[i]
    BY <1>10 DEF SameIn, Connections
  <2>4. f(second1) = f(second2)
    BY <2>3
  <2>5. \A z : SumOver(s, Connections(s), LAMBDA i : z[i].told) = SumTo(f(z), Len(s.devices))
    BY DEF SumOver
  <2>6. Apparent2(s, second1) = Apparent2(s, second2)
    <3> DEFINE kw(z) == SumOver(s, Connections(s), LAMBDA i : z[i].told)
    <3>1. kw(second1) = kw(second2)
      <4>1. kw(second1) = SumTo(f(second1), Len(s.devices))
        BY DEF SumOver
      <4>2. kw(second2) = SumTo(f(second2), Len(s.devices))
        BY DEF SumOver
      <4> HIDE DEF f, kw
      <4> QED
        BY <2>4, <4>1, <4>2
    <3>2. \A z : Apparent2(s, z)
             = LET kvar == IF s.forming = 0 THEN Reactive(s, z, F) ELSE 0
               IN  kw(z) * kw(z) + kvar * kvar
      BY DEF Apparent2, F
    <3> HIDE DEF kw
    <3> QED
      BY <2>2, <3>1, <3>2
  <2>7. Heated(s, second1, p.grid.oil) = Heated(s, second2, r.grid.oil)
    BY <2>6 DEF Heated
  <2> QED
    BY <2>2, <2>7 DEF GridUpdated
<1>12. /\ Ticked(s, t, p, given, faults, draw).device = second1
       /\ Ticked(s, t, p, given, faults, draw).grid = GridUpdated(s, second1, p.grid)
  BY DEF Ticked, loaded1, first1, orders, closed1, second1, volt, F, L, manual
<1>13. /\ Ticked(s, t, r, given, faults, draw).device = second2
       /\ Ticked(s, t, r, given, faults, draw).grid = GridUpdated(s, second2, r.grid)
  BY <1>5 DEF Ticked, loaded2, first2, closed2, second2, volt, F, L, manual
<1> QED
  BY <1>9, <1>10, <1>11, <1>12, <1>13

\* Of the plant it was given, a tick uses the devices, the forming device, the grid and what
\* the overlays want; a connection with an overlay is one they want something of.
LEMMA SamePlantSameTick ==
    ASSUME NEW s, ScenarioOK(s), NEW w, w.devices = s.devices, w.forming = s.forming,
           w.grid = s.grid, NEW t, \A i \in Indices(s) : Intent(w, i, t) = Intent(s, i, t),
           NEW p, NEW given, NEW faults, NEW draw
    PROVE  /\ Ticked(w, t, p, given, faults, draw).device
                = Ticked(s, t, p, given, faults, draw).device
           /\ Ticked(w, t, p, given, faults, draw).grid = Ticked(s, t, p, given, faults, draw).grid
<1>1. /\ Indices(w) = Indices(s) /\ Connections(w) = Connections(s)
      /\ FirstPass(w) = FirstPass(s) /\ LastPass(w) = LastPass(s)
  BY DEF Indices, Connections, FirstPass, LastPass
<1>2. ASSUME NEW dev PROVE Commanded(w, dev, given) = Commanded(s, dev, given)
  BY DEF Commanded, Each
<1>3. ASSUME NEW dev PROVE LoadInputs(w, dev, t) = LoadInputs(s, dev, t)
  <2> DEFINE I == {i \in Indices(s) : Intent(s, i, t) # {}}
  <2>1. {i \in Indices(w) : Intent(w, i, t) # {}} = I
    BY <1>1
  <2>2. ASSUME NEW i \in I
        PROVE  (CHOOSE v \in Intent(w, i, t) : TRUE) = CHOOSE v \in Intent(s, i, t) : TRUE
    BY Zenon
  <2>3. LoadInputs(s, dev, t)
           = [i \in DOMAIN dev |->
                IF i \in I
                THEN Command(s.devices[i], dev[i],
                             SetPower(CHOOSE v \in Intent(s, i, t) : TRUE, {})).device
                ELSE dev[i]]
    BY DEF LoadInputs, Each
  <2>4. LoadInputs(w, dev, t)
           = [i \in DOMAIN dev |->
                IF i \in I
                THEN Command(s.devices[i], dev[i],
                             SetPower(CHOOSE v \in Intent(w, i, t) : TRUE, {})).device
                ELSE dev[i]]
    BY <2>1 DEF LoadInputs, Each
  <2> HIDE DEF I
  <2> QED
    BY <2>2, <2>3, <2>4
<1>4. ASSUME NEW dev PROVE Faulted(w, dev, faults) = Faulted(s, dev, faults)
  BY DEF Faulted, Each, Indices
<1>5. ASSUME NEW I, NEW dev, NEW volt
      PROVE  Pass(w, I, dev, volt, draw) = Pass(s, I, dev, volt, draw)
  <2> DEFINE P(devs) ==
        [i \in DOMAIN dev |->
            IF i \in I
            THEN IF devs[i].kind = "smart_meter"
                 THEN MeterTick(dev[i],
                        SumTo([k \in DOMAIN devs |->
                                  IF k \in {j \in devs[i].sources : Readable(devs[j].kind)}
                                  THEN IF k \in I /\ k < i
                                       THEN Tick(devs[k], dev[k], volt, draw, 0).told
                                       ELSE dev[k].told
                                  ELSE 0], Len(devs)))
                 ELSE Tick(devs[i], dev[i], volt, draw, 0)
            ELSE dev[i]]
  <2>1. Pass(w, I, dev, volt, draw) = P(w.devices)
    BY DEF Pass, Each, SumOver, Seen, Indices
  <2>2. Pass(s, I, dev, volt, draw) = P(s.devices)
    BY DEF Pass, Each, SumOver, Seen, Indices
  <2> HIDE DEF P
  <2> QED
    BY <2>1, <2>2
<1>6. ASSUME NEW I, NEW dev
      PROVE  Residual(w, dev, I) = Residual(s, dev, I) /\ Reactive(w, dev, I) = Reactive(s, dev, I)
  BY DEF Residual, Reactive, SumOver, Indices
<1>7. ASSUME NEW dev, NEW manual PROVE CloseOrders(w, dev, manual) = CloseOrders(s, dev, manual)
  BY <1>1, <1>6 DEF CloseOrders
<1>8. ASSUME NEW dev, NEW orders PROVE Closed(w, dev, orders) = Closed(s, dev, orders)
  BY DEF Closed, Each
<1>9. Manual(w, given, t) = Manual(s, given, t)
  <2>2. \A i \in Connections(s) : i \in Indices(s) /\ s.devices[i].kind = "grid_connection"
    BY DEF Connections
  <2>3. ASSUME NEW i \in Connections(s)
        PROVE  (EventsOn(w, i, t) # {} \/ ProfilesOn(w, i) # {})
                  <=> (EventsOn(s, i, t) # {} \/ ProfilesOn(s, i) # {})
    <3>1. (EventsOn(w, i, t) # {} \/ ProfilesOn(w, i) # {}) <=> Intent(w, i, t) # {}
      BY <2>2 DEF Intent
    <3>2. (EventsOn(s, i, t) # {} \/ ProfilesOn(s, i) # {}) <=> Intent(s, i, t) # {}
      BY <2>2 DEF Intent
    <3>3. Intent(w, i, t) = Intent(s, i, t)
      BY <2>2
    <3> QED
      BY <3>1, <3>2, <3>3
  <2> QED
    BY <1>1, <2>3 DEF Manual
<1>10. ASSUME NEW dev, NEW grid PROVE GridUpdated(w, dev, grid) = GridUpdated(s, dev, grid)
  <2>1. SumOver(w, Connections(w), LAMBDA i : dev[i].told)
           = SumOver(s, Connections(s), LAMBDA i : dev[i].told)
    BY <1>1 DEF SumOver, Indices
  <2>2. Apparent2(w, dev) = Apparent2(s, dev)
    BY <1>1, <1>6, <2>1 DEF Apparent2
  <2>3. ASSUME NEW oil PROVE Heated(w, dev, oil) = Heated(s, dev, oil)
    BY <2>2 DEF Heated
  <2> DEFINE G(g, kw, kvar, heat) ==
        [imbalance |-> kw, kvar |-> kvar,
         hz |-> LimitTo(-g.maxHz, g.maxHz, g.hzPerKw * kw),
         volt |-> LimitTo(-g.maxVolt, g.maxVolt, g.voltPerKw * kw + g.voltPerKvar * kvar),
         oil |-> {h.oil : h \in heat}, violated |-> \E h \in heat : h.hot]
  <2>4. \A z : GridUpdated(z, dev, grid)
           = G(z.grid, Residual(z, dev, Indices(z)), Reactive(z, dev, Indices(z)),
               Heated(z, dev, grid.oil))
    BY DEF GridUpdated
  <2> HIDE DEF G
  <2> QED
    BY <1>1, <1>6, <2>3, <2>4
<1> DEFINE loaded == Faulted(s, LoadInputs(s, Commanded(s, p.device, given), t), faults)
           first  == Pass(s, FirstPass(s), loaded, p.grid.volt, draw)
           orders == CloseOrders(s, first, Manual(s, given, t))
           closed == Closed(s, first, orders)
           second == Pass(s, LastPass(s), closed, p.grid.volt, draw)
<1>11. /\ Ticked(s, t, p, given, faults, draw).device = second
       /\ Ticked(s, t, p, given, faults, draw).grid = GridUpdated(s, second, p.grid)
  BY DEF Ticked
<1>12. /\ Ticked(w, t, p, given, faults, draw).device = second
       /\ Ticked(w, t, p, given, faults, draw).grid = GridUpdated(s, second, p.grid)
  <2> DEFINE loaded2 == Faulted(w, LoadInputs(w, Commanded(w, p.device, given), t), faults)
             first2  == Pass(w, FirstPass(w), loaded2, p.grid.volt, draw)
             orders2 == CloseOrders(w, first2, Manual(w, given, t))
             closed2 == Closed(w, first2, orders2)
             second2 == Pass(w, LastPass(w), closed2, p.grid.volt, draw)
  <2>1. /\ Ticked(w, t, p, given, faults, draw).device = second2
        /\ Ticked(w, t, p, given, faults, draw).grid = GridUpdated(w, second2, p.grid)
    BY DEF Ticked
  <2>2. loaded2 = loaded
    BY <1>2, <1>3, <1>4
  <2> HIDE DEF loaded2, loaded
  <2>3. first2 = first
    BY <1>1, <1>5, <2>2
  <2> HIDE DEF first2, first
  <2>4. orders2 = orders
    BY <1>7, <1>9, <2>3
  <2> HIDE DEF orders2, orders
  <2>5. closed2 = closed
    BY <1>8, <2>3, <2>4
  <2> HIDE DEF closed2, closed
  <2>6. second2 = second
    BY <1>1, <1>5, <2>5
  <2> HIDE DEF second2, second
  <2> QED
    BY <1>10, <2>1, <2>6
<1> QED
  BY <1>11, <1>12

\* A device restored from its sub-snapshot is one of its kind.
LEMMA RestoredOK ==
    ASSUME NEW c, DeviceConfigOK(c), NEW d, KindOK(c, d)
    PROVE  KindOK(c, Restored(c, d))
<1> DEFINE e == Restored(c, d)
<1> USE DEF KindOK
<1>1. CASE c.kind = "battery"
  <2>1. BatteryOK(c, d) /\ BatteryConfigOK(c)
    BY <1>1 DEF DeviceConfigOK
  <2>2. e = [power |-> d.power, pending |-> d.pending, soc |-> d.soc, fault |-> d.fault,
             told |-> 0, q |-> 0]
    BY <1>1, <2>1 DEF Restored, SnapshotFields, BatteryKeeps, Fresh, BatteryInit, BatteryOK
  <2> HIDE DEF e
  <2>3. e \in [power : Int, pending : Int, soc : Int, fault : BOOLEAN, told : Int, q : Int]
    BY <2>1, <2>2 DEF BatteryOK
  <2>4. BatteryOK(c, e)
    BY <2>1, <2>2, <2>3 DEF BatteryOK
  <2> QED
    BY <1>1, <2>4 DEF e
<1>2. CASE c.kind = "ev_charger"
  <2>1. EvOK(c, d)
    BY <1>2
  <2>2. e = [power |-> d.power, pending |-> d.pending, stored |-> d.stored,
             plugged |-> d.plugged, fault |-> d.fault, told |-> 0, q |-> 0]
    BY <1>2, <2>1 DEF Restored, SnapshotFields, EvKeeps, Fresh, EvInit, EvOK
  <2> HIDE DEF e
  <2>3. e \in [power : Int, pending : Int, stored : Int, plugged : BOOLEAN, fault : BOOLEAN,
               told : Int, q : Int]
    BY <2>1, <2>2 DEF EvOK
  <2>4. EvOK(c, e)
    BY <2>1, <2>2, <2>3 DEF EvOK
  <2> QED
    BY <1>2, <2>4 DEF e
<1>3. CASE c.kind = "diesel_generator"
  <2>1. DieselOK(c, d)
    BY <1>3
  <2>2. e = [power |-> d.power, pending |-> d.pending, fuel |-> d.fuel,
             running |-> d.running, fault |-> d.fault, told |-> 0, q |-> 0]
    BY <1>3, <2>1 DEF Restored, SnapshotFields, DieselKeeps, Fresh, DieselInit, DieselOK
  <2> HIDE DEF e
  <2>3. e \in [power : Int, pending : Int, fuel : Int, running : BOOLEAN, fault : BOOLEAN,
               told : Int, q : Int]
    BY <2>1, <2>2 DEF DieselOK
  <2>4. DieselOK(c, e)
    BY <2>1, <2>2, <2>3 DEF DieselOK
  <2> QED
    BY <1>3, <2>4 DEF e
<1>4. CASE c.kind \in {"load", "pv"}
  <2>1. RatedOK(c, d)
    BY <1>4
  <2>2. SnapshotFields(c) = {"power", "pending"} /\ Fresh(c) = RatedInit(c)
    BY <1>4 DEF SnapshotFields, LoadKeeps, PvKeeps, Fresh
  <2>3. e = [power |-> d.power, pending |-> d.pending, told |-> 0, q |-> 0]
    BY <2>1, <2>2 DEF Restored, RatedInit, RatedOK
  <2> HIDE DEF e
  <2>4. RatedOK(c, e)
    BY <2>1, <2>3 DEF RatedOK
  <2> QED
    BY <1>4, <2>4 DEF e
<1>5. CASE c.kind = "grid_connection"
  <2>1. ConnectionOK(c, d)
    BY <1>5
  <2>2. e = [power |-> d.power, pending |-> d.pending, pendingQ |-> d.pendingQ, told |-> 0,
             q |-> d.q]
    BY <1>5, <2>1 DEF Restored, SnapshotFields, ConnectionKeeps, Fresh, ConnectionInit,
                      ConnectionOK
  <2> HIDE DEF e
  <2>3. ConnectionOK(c, e)
    BY <2>1, <2>2 DEF ConnectionOK
  <2> QED
    BY <1>5, <2>3 DEF e
<1>6. CASE c.kind = "transformer"
  <2>1. TransformerOK(d)
    BY <1>6
  <2>2. e = [power |-> d.power, pending |-> d.pending, fault |-> d.fault, told |-> 0, q |-> 0]
    BY <1>6, <2>1 DEF Restored, SnapshotFields, TransformerKeeps, Fresh, TransformerInit,
                      TransformerOK
  <2> HIDE DEF e
  <2>3. TransformerOK(e)
    BY <2>1, <2>2 DEF TransformerOK
  <2> QED
    BY <1>6, <2>3 DEF e
<1>7. CASE c.kind = "wind_turbine"
  <2>1. WindOK(d)
    BY <1>7
  <2>2. e = [power |-> d.power, told |-> 0, q |-> 0]
    BY <1>7, <2>1 DEF Restored, SnapshotFields, WindKeeps, Fresh, WindInit, WindOK
  <2> HIDE DEF e
  <2>3. WindOK(e)
    BY <2>1, <2>2 DEF WindOK
  <2> QED
    BY <1>7, <2>3 DEF e
<1>8. CASE c.kind = "smart_meter"
  <2>1. MeterOK(d)
    BY <1>8
  <2>2. e = [attached |-> FALSE, told |-> 0, q |-> 0]
    BY <1>8, <2>1 DEF Restored, SnapshotFields, MeterKeeps, Fresh, MeterInit, MeterOK
  <2> HIDE DEF e
  <2>3. MeterOK(e)
    BY <2>1, <2>2 DEF MeterOK
  <2> QED
    BY <1>8, <2>3 DEF e
<1> QED
  BY <1>1, <1>2, <1>3, <1>4, <1>5, <1>6, <1>7, <1>8 DEF DeviceConfigOK, Kinds

\* It reports no reactive power, and neither does a device that was just built, unless it
\* is a connection, whose snapshot holds it.
LEMMA QuietStart ==
    ASSUME NEW c, DeviceConfigOK(c), c.kind \notin {"battery", "pv", "grid_connection"},
           NEW d, KindOK(c, d)
    PROVE  /\ Restored(c, d).q = 0 /\ Fresh(c).q = 0
           /\ c.kind = "smart_meter" => [Fresh(c) EXCEPT !.attached = TRUE].q = 0
<1>1. "q" \in DOMAIN d
  BY KeptFields DEF DeviceConfigOK
<1>2. Fresh(c).q = 0
  BY DEF Fresh, EvInit, DieselInit, RatedInit, TransformerInit, WindInit, MeterInit,
         DeviceConfigOK, Kinds
<1>3. "q" \notin SnapshotFields(c)
  BY DEF SnapshotFields, EvKeeps, DieselKeeps, LoadKeeps, TransformerKeeps, WindKeeps, MeterKeeps,
         DeviceConfigOK, Kinds
<1>4. c.kind = "smart_meter" => [Fresh(c) EXCEPT !.attached = TRUE].q = 0
  BY DEF Fresh, MeterInit
<1> QED
  BY <1>1, <1>2, <1>3, <1>4 DEF Restored

\* A grid without what only the result of its last tick tells.
Untold(grid) == [grid EXCEPT !.violated = FALSE]

GridFields == {"imbalance", "kvar", "hz", "volt", "oil", "violated"}

\* What a second loop has from the first: the same devices, grid and forming device, whatever
\* was handed over, and, as long as it has heard of every overlay that acted, devices that
\* are alike and the same grid; from its first tick on, the same devices as well.
TwinInv ==
    /\ plant.grid = [f \in GridFields |-> plant.grid[f]]
    /\ AllAlike(scenario, plant.device, plant.device)
    /\ (resumed # Never /\ wired.devices # <<>> /\ scenario.devices # <<>>) =>
          /\ resumed \in Nat /\ resumed <= tick
          /\ wired.devices = scenario.devices /\ wired.forming = scenario.forming
          /\ wired.grid = scenario.grid
          /\ Unheard = {} =>
                /\ TwinDevices(scenario, plant.device, twin.device)
                /\ twin.grid = plant.grid \/ (tick = resumed /\ twin.grid = Untold(plant.grid))
                /\ tick > resumed =>
                      SameIn(scenario, Indices(scenario), plant.device, twin.device)

\* The built plant.
LEMMA BuiltTwin ==
    ASSUME NEW s, ScenarioOK(s)
    PROVE  /\ AllAlike(s, Built(s), Built(s))
           /\ BuiltGrid(s) = [f \in GridFields |-> BuiltGrid(s)[f]]
<1>1. ASSUME NEW i \in Indices(s)
      PROVE  Alike(s.devices[i], Built(s)[i], Built(s)[i])
  <2>1. DeviceConfigOK(s.devices[i]) /\ KindOK(s.devices[i], Fresh(s.devices[i]))
    BY Numbered, FreshOK
  <2>2. Built(s)[i] = IF s.devices[i].kind = "smart_meter"
                      THEN [Fresh(s.devices[i]) EXCEPT !.attached = TRUE]
                      ELSE Fresh(s.devices[i])
    BY DEF Built
  <2>3. s.devices[i].kind \notin {"battery", "pv", "grid_connection"} => Built(s)[i].q = 0
    BY <2>1, <2>2, QuietStart
  <2> QED
    BY <2>3 DEF Alike
<1>2. BuiltGrid(s) = [f \in GridFields |-> BuiltGrid(s)[f]]
  BY DEF BuiltGrid, GridFields
<1> QED
  BY <1>1, <1>2 DEF AllAlike

\* What is handed over with any devices, and accepted, is the plant of the snapshot.
LEMMA AcceptedDevices ==
    ASSUME PlantInv, NEW h \in Handed(scenario), NEW p, DevicesMatch(h, p), h.devices # <<>>,
           scenario.devices # <<>>
    PROVE  /\ h.devices = scenario.devices
           /\ \A i \in Indices(scenario) : \A f \in SnapshotFields(scenario.devices[i]) :
                 plant.device[i][f] = p.device[i][f]
<1>1. ScenarioOK(scenario) /\ HandedOK(h)
  BY PlantAssumption DEF PlantInv
<1>2. /\ Indices(h) = Indices(scenario)
      /\ \A i \in Indices(scenario) :
            DeviceSnapshot(h.devices[i], p.device[i])
               = DeviceSnapshot(scenario.devices[i], plant.device[i])
  BY DEF DevicesMatch
<1>3. ASSUME NEW i \in Indices(scenario)
      PROVE  /\ h.devices[i] = scenario.devices[i]
             /\ \A f \in SnapshotFields(scenario.devices[i]) :
                   plant.device[i][f] = p.device[i][f]
  <2> DEFINE c == scenario.devices[i]
             a == [f \in SnapshotFields(h.devices[i]) |-> p.device[i][f]]
             b == [f \in SnapshotFields(c) |-> plant.device[i][f]]
  <2>1. [config |-> h.devices[i], state |-> a] = [config |-> c, state |-> b]
    BY <1>2 DEF DeviceSnapshot
  <2> HIDE DEF a, b
  <2>2. h.devices[i] = c /\ a = b
    BY <2>1
  <2>3. \A f \in SnapshotFields(c) : a[f] = b[f]
    BY <2>2
  <2> QED
    BY <2>2, <2>3 DEF a, b
<1>4. /\ DOMAIN h.devices = DOMAIN scenario.devices
      /\ h.devices = [i \in DOMAIN h.devices |-> h.devices[i]]
      /\ scenario.devices = [i \in DOMAIN scenario.devices |-> scenario.devices[i]]
  <2>1. DOMAIN h.devices = DOMAIN scenario.devices
    BY <1>2 DEF Indices
  <2>2. \A q : IsList(q) => q = [i \in DOMAIN q |-> q[i]]
    BY DEF IsList
  <2>3. IsList(h.devices) /\ IsList(scenario.devices)
    BY <1>1 DEF ScenarioOK, HandedOK
  <2> QED
    BY <2>1, <2>2, <2>3
<1>5. h.devices = scenario.devices
  <2>1. \A i \in DOMAIN scenario.devices : h.devices[i] = scenario.devices[i]
    BY <1>3 DEF Indices
  <2> QED
    BY <1>4, <2>1
<1> QED
  BY <1>3, <1>5

\* A loop that accepts a snapshot starts as a twin.
LEMMA ResumeKeepsTwin ==
    ASSUME PlantInv, TwinInv, NEW h \in Handed(scenario), NEW m, NEW p, ResumeWith(h, m, p),
           h.devices # <<>> =>
              /\ m.forming = scenario.forming /\ m.grid = scenario.grid
              /\ p.grid = Untold(plant.grid)
              /\ h.devices = scenario.devices =>
                    /\ DevicesOK(scenario, p.device)
                    /\ \A i \in Indices(scenario) :
                          scenario.devices[i].kind \notin {"battery", "pv", "grid_connection"}
                          => p.device[i].q = 0
    PROVE  TwinInv'
<1>1. /\ resumed' = tick /\ twin' = p /\ UNCHANGED <<scenario, tick, plant>>
      /\ wired' = [h EXCEPT !.grid = m.grid, !.forming = m.forming]
      /\ DevicesMatch(h, p)
  BY DEF ResumeWith
<1>2. {"devices", "forming", "grid"} \subseteq DOMAIN h /\ ScenarioOK(scenario) /\ tick \in Nat
  BY PlantAssumption DEF PlantInv, HandedOK
<1>3. wired'.devices = h.devices /\ wired'.grid = m.grid /\ wired'.forming = m.forming
  BY <1>1, <1>2
<1>4. ASSUME h.devices # <<>>, scenario.devices # <<>>
      PROVE  /\ h.devices = scenario.devices
             /\ TwinDevices(scenario, plant.device, p.device)
  <2>1. /\ h.devices = scenario.devices
        /\ \A i \in Indices(scenario) : \A f \in SnapshotFields(scenario.devices[i]) :
              plant.device[i][f] = p.device[i][f]
    BY <1>1, <1>4, AcceptedDevices
  <2>2. DevicesOK(scenario, p.device) /\ DevicesOK(scenario, plant.device)
    BY <1>4, <2>1 DEF PlantInv, PlantReady
  <2>3. AllAlike(scenario, plant.device, p.device)
    BY <1>4, <2>1 DEF TwinInv, AllAlike, Alike
  <2> QED
    BY <2>1, <2>2, <2>3 DEF TwinDevices
<1>5. /\ plant'.grid = [f \in GridFields |-> plant'.grid[f]]
      /\ AllAlike(scenario', plant'.device, plant'.device)
  BY <1>1 DEF TwinInv, AllAlike, Indices
<1>6. ASSUME wired'.devices # <<>>, scenario'.devices # <<>>
      PROVE  /\ wired'.devices = scenario'.devices /\ wired'.forming = scenario'.forming
             /\ wired'.grid = scenario'.grid
             /\ TwinDevices(scenario', plant'.device, twin'.device)
             /\ twin'.grid = Untold(plant'.grid)
  <2>1. h.devices # <<>> /\ scenario.devices # <<>>
    BY <1>1, <1>3, <1>6
  <2> QED
    BY <1>1, <1>3, <1>4, <2>1 DEF Untold
<1> QED
  BY <1>1, <1>2, <1>5, <1>6 DEF TwinInv

\* Both ways to hand over a plant do that: restored from its sub-snapshots, or built anew.
LEMMA ResumesKeepTwin ==
    ASSUME PlantInv, TwinInv, Resume \/ ResumeAnew
    PROVE  TwinInv'
<1>1. ScenarioOK(scenario) /\ PlantReady(scenario, plant)
  BY PlantAssumption DEF PlantInv
<1>2. ASSUME NEW i \in Indices(scenario)
      PROVE  /\ DeviceConfigOK(scenario.devices[i])
             /\ KindOK(scenario.devices[i], plant.device[i])
  BY <1>1, Numbered DEF PlantReady, DevicesOK
<1>3. CASE Resume
  <2>1. PICK h \in Handed(scenario) : ResumeWith(h, scenario, RestoredPlant(h))
    BY <1>3 DEF Resume
  <2> DEFINE p == RestoredPlant(h)
  <2>2. p.grid = Untold(plant.grid)
    <3>1. plant.grid = [f \in GridFields |-> plant.grid[f]]
      BY DEF TwinInv
    <3>2. DOMAIN plant.grid = GridFields
      BY <3>1
    <3>3. GridSnapshot(scenario, plant.grid).state
             = [f \in GridFields \ {"violated"} |-> plant.grid[f]]
      BY <3>2 DEF GridSnapshot
    <3>4. p.grid = [f \in GridFields |-> IF f = "violated" THEN FALSE ELSE plant.grid[f]]
      <4> DEFINE g == [f \in GridFields \ {"violated"} |-> plant.grid[f]]
      <4>1. DOMAIN g = GridFields \ {"violated"} /\ \A f \in GridFields \ {"violated"} :
                 g[f] = plant.grid[f]
        OBVIOUS
      <4>2. p.grid = [f \in DOMAIN g \cup {"violated"} |-> IF f = "violated" THEN FALSE ELSE g[f]]
        BY <3>3 DEF RestoredPlant, GridRestored
      <4>3. DOMAIN g \cup {"violated"} = GridFields
        BY <4>1 DEF GridFields
      <4> HIDE DEF g, p
      <4>4. p.grid = [f \in GridFields |-> IF f = "violated" THEN FALSE ELSE g[f]]
        BY <4>2, <4>3
      <4>5. ASSUME NEW f \in GridFields
            PROVE  (IF f = "violated" THEN FALSE ELSE g[f])
                      = IF f = "violated" THEN FALSE ELSE plant.grid[f]
        <5>1. CASE f = "violated"
          BY <5>1
        <5>2. CASE f # "violated"
          BY <4>1, <5>2
        <5> QED
          BY <5>1, <5>2
      <4> QED
        BY <4>4, <4>5
    <3>5. Untold(plant.grid)
             = [f \in GridFields |-> IF f = "violated" THEN FALSE ELSE plant.grid[f]]
      BY <3>2 DEF Untold
    <3> QED
      BY <3>4, <3>5
  <2>3. ASSUME h.devices = scenario.devices
        PROVE  /\ DevicesOK(scenario, p.device)
               /\ \A i \in Indices(scenario) :
                     scenario.devices[i].kind \notin {"battery", "pv", "grid_connection"}
                     => p.device[i].q = 0
    <3>1. p.device = [i \in Indices(scenario) |->
                         Restored(scenario.devices[i], plant.device[i])]
      BY <2>3 DEF RestoredPlant, Indices
    <3> HIDE DEF p
    <3>2. ASSUME NEW i \in Indices(scenario)
          PROVE  /\ KindOK(scenario.devices[i], p.device[i])
                 /\ scenario.devices[i].kind \notin {"battery", "pv", "grid_connection"}
                    => p.device[i].q = 0
      BY <1>2, <3>1, RestoredOK, QuietStart
    <3>3. p.device = [i \in Indices(scenario) |-> p.device[i]]
      BY <3>1
    <3> QED
      BY <3>2, <3>3 DEF DevicesOK
  <2> HIDE DEF p
  <2>4. ResumeWith(h, scenario, p)
    BY <2>1 DEF p
  <2> QED
    BY <2>2, <2>3, <2>4, ResumeKeepsTwin
<1>4. CASE ResumeAnew
  <2>1. PICK h \in Handed(scenario) : ResumeWith(h, h, BuiltPlant(h))
    BY <1>4 DEF ResumeAnew
  <2> DEFINE p == BuiltPlant(h)
             b == BuiltGrid(h)
  <2>2. h.forming = scenario.forming /\ h.grid = scenario.grid /\ p.grid = Untold(plant.grid)
    <3>1. GridSnapshot(h, b) = GridSnapshot(scenario, plant.grid)
      BY <2>1 DEF ResumeWith, GridMatches, BuiltPlant
    <3>2. /\ plant.grid = [f \in GridFields |-> plant.grid[f]]
          /\ b = [f \in GridFields |-> b[f]] /\ b.violated = FALSE
      BY DEF TwinInv, BuiltGrid, GridFields
    <3>3. DOMAIN plant.grid = GridFields /\ DOMAIN b = GridFields
      BY <3>2
    <3> HIDE DEF b
    <3> DEFINE x == [f \in GridFields \ {"violated"} |-> b[f]]
               y == [f \in GridFields \ {"violated"} |-> plant.grid[f]]
    <3>4. /\ GridSnapshot(h, b).config = h.grid /\ GridSnapshot(h, b).forming = h.forming
          /\ GridSnapshot(h, b).state = x
          /\ GridSnapshot(scenario, plant.grid).config = scenario.grid
          /\ GridSnapshot(scenario, plant.grid).forming = scenario.forming
          /\ GridSnapshot(scenario, plant.grid).state = y
      BY <3>3 DEF GridSnapshot
    <3> HIDE DEF x, y
    <3>5. h.grid = scenario.grid /\ h.forming = scenario.forming /\ x = y
      BY <3>1, <3>4
    <3>6. \A f \in GridFields \ {"violated"} : b[f] = plant.grid[f]
      <4>1. \A f \in GridFields \ {"violated"} : x[f] = b[f] /\ y[f] = plant.grid[f]
        BY DEF x, y
      <4> QED
        BY <3>5, <4>1
    <3>7. b = Untold(plant.grid)
      <4>1. Untold(plant.grid)
               = [f \in GridFields |-> IF f = "violated" THEN FALSE ELSE plant.grid[f]]
        BY <3>3 DEF Untold
      <4>2. ASSUME NEW f \in GridFields
            PROVE  b[f] = IF f = "violated" THEN FALSE ELSE plant.grid[f]
        <5>1. CASE f = "violated"
          BY <3>2, <5>1
        <5>2. CASE f # "violated"
          BY <3>6, <5>2
        <5> QED
          BY <5>1, <5>2
      <4> QED
        BY <3>2, <4>1, <4>2
    <3>8. p.grid = b
      BY DEF BuiltPlant, b
    <3> QED
      BY <3>5, <3>7, <3>8
  <2>3. ASSUME h.devices = scenario.devices
        PROVE  /\ DevicesOK(scenario, p.device)
               /\ \A i \in Indices(scenario) :
                     scenario.devices[i].kind \notin {"battery", "pv", "grid_connection"}
                     => p.device[i].q = 0
    <3>1. p.device = Built(scenario)
      BY <2>3 DEF BuiltPlant, Built, Indices
    <3>2. DevicesOK(scenario, p.device)
      BY <1>1, <3>1, BuiltOK DEF PlantReady, BuiltPlant
    <3>3. AllAlike(scenario, p.device, p.device)
      BY <1>1, <3>1, BuiltTwin
    <3> QED
      BY <3>2, <3>3 DEF AllAlike, Alike
  <2> HIDE DEF p
  <2>4. ResumeWith(h, h, p)
    BY <2>1 DEF p
  <2> QED
    BY <2>2, <2>3, <2>4, ResumeKeepsTwin
<1> QED
  BY <1>3, <1>4

\* A tick keeps what the two have in common.
LEMMA TickKeepsTwin ==
    ASSUME PlantInv, TwinInv, NEW given \in {{}} \cup {{o} : o \in scenario.orders}, NEW faults,
           NEW draw \in Draws, TickPlant(given, faults, draw)
    PROVE  TwinInv'
<1> DEFINE result == Ticked(scenario, tick, plant, given, faults, draw)
           heard  == {o \in given : o.target \in Indices(wired)}
           again  == Ticked(wired, tick, twin, heard, faults, draw)
           same   == Ticked(scenario, tick, twin, given, faults, draw)
<1>1. /\ ScenarioOK(scenario) /\ tick \in Nat /\ PlantReady(scenario, plant)
      /\ given \in Given(scenario) /\ draw \in Int
  BY TickContext
<1>2. /\ plant'.device = result.device /\ plant'.grid = result.grid
      /\ tick' = tick + 1 /\ scenario' = scenario /\ resumed' = resumed /\ wired' = wired
      /\ resumed # Never => twin'.device = again.device /\ twin'.grid = again.grid
  <2>1. /\ plant' = State(result) /\ tick' = tick + 1 /\ UNCHANGED <<scenario, resumed, wired>>
        /\ resumed # Never => twin' = State(again)
    BY DEF TickPlant
  <2> HIDE DEF result, again
  <2> QED
    BY <2>1 DEF State
<1>3. result.grid = [f \in GridFields |-> result.grid[f]]
  <2>1. \A dev, grid : GridUpdated(scenario, dev, grid)
                          = [f \in GridFields |-> GridUpdated(scenario, dev, grid)[f]]
    BY DEF GridUpdated, GridFields
  <2> QED
    BY <2>1, TickedIs
<1>4. TwinDevices(scenario, result.device, result.device)
  <2>1. TwinDevices(scenario, plant.device, plant.device)
    BY <1>1 DEF TwinInv, TwinDevices, PlantReady
  <2> QED
    BY <1>1, <2>1, TickAgrees DEF PlantReady
<1>5. ASSUME resumed # Never, wired.devices # <<>>, scenario.devices # <<>>
      PROVE  /\ resumed \in Nat /\ resumed <= tick
             /\ wired.devices = scenario.devices /\ wired.forming = scenario.forming
             /\ wired.grid = scenario.grid
  BY <1>5 DEF TwinInv
<1>6. ASSUME resumed # Never, wired.devices # <<>>, scenario.devices # <<>>, Unheard' = {}
      PROVE  /\ TwinDevices(scenario, result.device, again.device)
             /\ again.grid = result.grid
             /\ SameIn(scenario, Indices(scenario), result.device, again.device)
  <2>1. Unheard' = {t \in resumed..tick :
                       \E i \in Indices(scenario) : Intent(wired, i, t) # Intent(scenario, i, t)}
    <3>1. tick' - 1 = tick
      BY <1>1, <1>2
    <3> QED
      BY <1>2, <3>1 DEF Unheard
  <2>2. Unheard \subseteq Unheard'
    BY <1>1, <1>5, <1>6, <2>1 DEF Unheard
  <2>3. \A i \in Indices(scenario) : Intent(wired, i, tick) = Intent(scenario, i, tick)
    BY <1>1, <1>5, <1>6, <2>1
  <2>4. /\ TwinDevices(scenario, plant.device, twin.device)
        /\ twin.grid = plant.grid \/ twin.grid = Untold(plant.grid)
    BY <1>6, <2>2 DEF TwinInv
  <2>5. twin.grid.volt = plant.grid.volt /\ twin.grid.oil = plant.grid.oil
    <3>1. {"volt", "oil"} \subseteq DOMAIN plant.grid
      BY DEF TwinInv, GridFields
    <3> QED
      BY <2>4, <3>1 DEF Untold
  <2>6. heard = given
    <3>1. \A o \in given : o.target \in Indices(scenario)
      BY <1>1 DEF Given, ScenarioOK
    <3>2. Indices(wired) = Indices(scenario)
      BY <1>5, <1>6 DEF Indices
    <3> QED
      BY <3>1, <3>2
  <2>7. again.device = same.device /\ again.grid = same.grid
    <3>1. again = Ticked(wired, tick, twin, given, faults, draw)
      BY <2>6
    <3> HIDE DEF again
    <3> QED
      BY <1>1, <1>5, <1>6, <2>3, <3>1, SamePlantSameTick
  <2>8. /\ TwinDevices(scenario, result.device, same.device)
        /\ SameIn(scenario, Indices(scenario), result.device, same.device)
        /\ result.grid = same.grid
    BY <1>1, <2>4, <2>5, TickAgrees DEF PlantReady
  <2> HIDE DEF result, again, same
  <2> QED
    BY <2>7, <2>8
<1> HIDE DEF result, again, same
<1>7. /\ plant'.grid = [f \in GridFields |-> plant'.grid[f]]
      /\ AllAlike(scenario', plant'.device, plant'.device)
  BY <1>2, <1>3, <1>4 DEF TwinDevices
<1>8. ASSUME resumed' # Never, wired'.devices # <<>>, scenario'.devices # <<>>
      PROVE  /\ resumed' \in Nat /\ resumed' <= tick'
             /\ wired'.devices = scenario'.devices /\ wired'.forming = scenario'.forming
             /\ wired'.grid = scenario'.grid
  BY <1>1, <1>2, <1>5, <1>8
<1>9. ASSUME resumed' # Never, wired'.devices # <<>>, scenario'.devices # <<>>, Unheard' = {}
      PROVE  /\ TwinDevices(scenario', plant'.device, twin'.device)
             /\ twin'.grid = plant'.grid
             /\ SameIn(scenario', Indices(scenario'), plant'.device, twin'.device)
  BY <1>2, <1>6, <1>9
<1> QED
  BY <1>7, <1>8, <1>9 DEF TwinInv

\* Whatever is handed over with a snapshot, a loop that accepts it goes on as the first one
\* does, for every list of devices and every later order, overlay and fault, but for the
\* reasons named in the property (TickLoop.snapshot, from_snapshot and the devices' own).
THEOREM ResumeEver == Spec => []ResumedPlantAgrees
<1>1. Init => TwinInv
  <2> SUFFICES ASSUME Init PROVE TwinInv
    OBVIOUS
  <2>1. scenario \in Scenarios /\ plant = BuiltPlant(scenario) /\ resumed = Never
    BY DEF Init
  <2>2. ScenarioOK(scenario)
    BY <2>1, PlantAssumption
  <2>3. plant.device = Built(scenario) /\ plant.grid = BuiltGrid(scenario)
    BY <2>1 DEF BuiltPlant
  <2> QED
    BY <2>1, <2>2, <2>3, BuiltTwin DEF TwinInv
<1>2. PlantInv /\ TwinInv /\ [Next]_vars => TwinInv'
  <2> SUFFICES ASSUME PlantInv, TwinInv, [Next]_vars PROVE TwinInv'
    OBVIOUS
  <2>1. ASSUME NEW given \in {{}} \cup {{o} : o \in scenario.orders},
               NEW faults \in FaultChoices, NEW draw \in Draws, TickPlant(given, faults, draw)
        PROVE  TwinInv'
    BY <2>1, TickKeepsTwin
  <2>2. ASSUME Resume \/ ResumeAnew
        PROVE  TwinInv'
    BY <2>2, ResumesKeepTwin
  <2>3. ASSUME UNCHANGED vars
        PROVE  TwinInv'
    BY <2>3 DEF vars, TwinInv, AllAlike, Alike, TwinDevices, DevicesOK, SameIn, Unheard
  <2> QED
    BY <2>1, <2>2, <2>3 DEF Next
<1>3. PlantInv /\ TwinInv => ResumedPlantAgrees
  <2> SUFFICES ASSUME PlantInv, TwinInv, resumed # Never, wired.devices # <<>>,
                      scenario.devices # <<>>, Unheard = {}
               PROVE  /\ Untold(twin.grid) = Untold(plant.grid)
                      /\ Indices(wired) = Indices(scenario)
                      /\ tick > resumed =>
                            /\ twin.grid = plant.grid
                            /\ \A i \in Indices(scenario) \ OfKind(scenario, "smart_meter") :
                                  twin.device[i] = plant.device[i]
    BY DEF ResumedPlantAgrees, Untold
  <2>1. Untold(Untold(plant.grid)) = Untold(plant.grid)
    BY DEF Untold
  <2>2. twin.grid = plant.grid \/ (tick = resumed /\ twin.grid = Untold(plant.grid))
    BY DEF TwinInv
  <2>3. wired.devices = scenario.devices
    BY DEF TwinInv
  <2>4. tick \in Nat /\ resumed \in Nat
    BY DEF TwinInv, PlantInv
  <2>5. tick > resumed => SameIn(scenario, Indices(scenario), plant.device, twin.device)
    BY DEF TwinInv
  <2>6. tick > resumed => twin.grid = plant.grid
    BY <2>2, <2>4
  <2>7. tick > resumed => \A i \in Indices(scenario) \ OfKind(scenario, "smart_meter") :
                             twin.device[i] = plant.device[i]
    BY <2>5 DEF SameIn, OfKind
  <2> QED
    BY <2>1, <2>2, <2>3, <2>6, <2>7 DEF Indices
<1> QED
  BY <1>1, <1>2, <1>3, PlantInvHolds, PTL DEF Spec
===============================================================================
