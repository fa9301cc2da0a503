-------------------------- MODULE RateRequestProofs -------------------------
(***************************************************************************)
(* What the schedules of RequestPolicy compute, and proofs about           *)
(* RateRequest: its safety properties, and that it implements              *)
(* AdmissionDecision, for every membership and every policy, however many  *)
(* servers, endpoints and replays there are.                               *)
(***************************************************************************)
EXTENDS RateRequest, RecursionLemmas

-----------------------------------------------------------------------------
(* The schedules. *)

\* The loop of an exponential schedule, one iteration at a time.
LEMMA GrownUnfolds ==
  ASSUME NEW s, ValidSchedule(s)
  PROVE  /\ Grown(s) \in [Nat -> Nat]
         /\ Grown(s)[0] = s.initialUnits
         /\ \A i \in Nat : Grown(s)[i + 1] = IF Grown(s)[i] >= s.maxUnits THEN Grown(s)[i]
                                             ELSE AtMost(Grown(s)[i] * s.growth, s.maxUnits)
  <1> DEFINE next(v) == IF v >= s.maxUnits THEN v ELSE AtMost(v * s.growth, s.maxUnits)
             step == [x \in Nat \X Nat |-> next(x[2])]
             IsGrown(f) == f = [i \in Nat |-> IF i = 0 THEN s.initialUnits ELSE next(f[i - 1])]
  <1>1. s.initialUnits \in Nat /\ s.maxUnits \in Nat /\ s.growth \in Nat
    BY DEF ValidSchedule
  <1>2. Grown(s) = CHOOSE g : IsGrown(g)
    BY DEF Grown
  <1>3. \A v \in Nat : next(v) \in Nat
    BY <1>1 DEF AtMost
  <1> HIDE DEF next
  <1>4. step \in [Nat \X Nat -> Nat]
    BY <1>3
  <1> HIDE DEF step
  <1>5. PICK f \in [Nat -> Nat] : IsRecursive(f, s.initialUnits, step)
    BY <1>1, <1>4, RecursionExists
  <1>6. IsGrown(f)
    <2>1. \A i \in Nat \ {0} : step[<<i, f[i - 1]>>] = next(f[i - 1])
      BY <1>5 DEF step
    <2> QED BY <1>5, <2>1 DEF IsRecursive
  <1>7. IsGrown(Grown(s))
    BY <1>2, <1>6
  <1> DEFINE S == {i \in Nat : Grown(s)[i] \in Nat}
  <1>8. Grown(s)[0] = s.initialUnits
    BY <1>7
  <1>9. \A i \in Nat : Grown(s)[i + 1] = next(Grown(s)[i])
    BY <1>7
  <1>10. Nat \subseteq S
    <2>1. 0 \in S
      BY <1>1, <1>8
    <2>2. \A i \in Nat : i \in S => i + 1 \in S
      BY <1>3, <1>9
    <2> HIDE DEF S
    <2> QED BY <2>1, <2>2, Induction
  <1>11. Grown(s) \in [Nat -> Nat]
    BY <1>7, <1>10
  <1> QED
    BY <1>8, <1>9, <1>11 DEF next

\* The loop of a schedule stays between the first wait and the longest one.
LEMMA GrownWithin ==
  ASSUME NEW s, ValidSchedule(s), s.kind = "exponential", NEW k \in Nat
  PROVE  /\ Grown(s)[k] \in s.initialUnits..s.maxUnits
         /\ Grown(s)[k] <= Grown(s)[k + 1]
  <1> DEFINE S == {i \in Nat : Grown(s)[i] \in s.initialUnits..s.maxUnits}
  <1>1. /\ s.initialUnits \in Nat /\ s.maxUnits \in Nat /\ s.growth \in Nat
        /\ s.initialUnits <= s.maxUnits /\ s.growth >= 2
    BY DEF ValidSchedule
  <1>2. ASSUME NEW v \in s.initialUnits..s.maxUnits
        PROVE  v \in Nat /\ v * s.growth \in Nat /\ v <= v * s.growth
    <2>1. v \in Nat
      BY <1>1
    <2>2. \A m, n \in Nat : n >= 2 => m * n \in Nat /\ m <= m * n
      BY SMT
    <2> QED BY <1>1, <2>1, <2>2
  <1>3. ASSUME NEW i \in Nat, i \in S
        PROVE  Grown(s)[i + 1] \in s.initialUnits..s.maxUnits /\ Grown(s)[i] <= Grown(s)[i + 1]
    <2> DEFINE v == Grown(s)[i]
    <2>1. v \in s.initialUnits..s.maxUnits
      BY <1>3
    <2>2. Grown(s)[i + 1] = IF v >= s.maxUnits THEN v ELSE AtMost(v * s.growth, s.maxUnits)
      BY GrownUnfolds
    <2>3. v \in Nat /\ v * s.growth \in Nat /\ v <= v * s.growth
      BY <1>2, <2>1
    <2> HIDE DEF v
    <2>4. Grown(s)[i + 1] \in s.initialUnits..s.maxUnits /\ v <= Grown(s)[i + 1]
      BY <1>1, <2>1, <2>2, <2>3 DEF AtMost
    <2> QED BY <2>4 DEF v
  <1>4. Nat \subseteq S
    <2>1. 0 \in S
      BY <1>1, GrownUnfolds
    <2>2. \A i \in Nat : i \in S => i + 1 \in S
      BY <1>3
    <2> HIDE DEF S
    <2> QED BY <2>1, <2>2, Induction
  <1> QED
    BY <1>3, <1>4

\* The first wait is the initial one, whatever the kind of the schedule.
LEMMA FirstWait ==
  ASSUME NEW s, ValidSchedule(s)
  PROVE  Units(s, 0) = s.initialUnits
  BY GrownUnfolds DEF Units, ValidSchedule, AtMost

\* HaSchedule.units(): every wait is at least the first one and at most
\* maxUnits, so none is zero, and a round never waits less than the last.
THEOREM WaitsGrowWithinBounds ==
  ASSUME NEW s, ValidSchedule(s), NEW k \in Nat
  PROVE  /\ Units(s, k) \in s.initialUnits..s.maxUnits
         /\ Units(s, k) \in Nat \ {0}
         /\ Units(s, k) <= Units(s, k + 1)
  <1>1. /\ s.initialUnits \in Nat /\ s.maxUnits \in Nat /\ s.growth \in Nat
        /\ 1 <= s.initialUnits /\ s.initialUnits <= s.maxUnits
    BY DEF ValidSchedule
  <1>2. CASE s.kind = "fixed"
    BY <1>1, <1>2 DEF Units
  <1>3. CASE s.kind = "linear"
    <2>1. k * s.growth \in Nat /\ (k + 1) * s.growth = k * s.growth + s.growth
      BY <1>1
    <2> QED BY <1>1, <1>3, <2>1 DEF Units, AtMost
  <1>4. CASE s.kind = "exponential"
    <2>1. Grown(s)[k] \in s.initialUnits..s.maxUnits /\ Grown(s)[k] <= Grown(s)[k + 1]
      BY <1>4, GrownWithin
    <2>2. Grown(s)[k + 1] \in s.initialUnits..s.maxUnits
      BY <1>4, GrownWithin
    <2> QED BY <1>1, <1>4, <2>1, <2>2 DEF Units, AtMost
  <1> QED
    BY <1>2, <1>3, <1>4 DEF ValidSchedule

-----------------------------------------------------------------------------

\* The powers of a factor, for reference.
Power(b) == LET power[i \in Nat] == IF i = 0 THEN 1 ELSE power[i - 1] * b IN power

LEMMA PowerUnfolds ==
  ASSUME NEW b \in Nat
  PROVE  /\ Power(b) \in [Nat -> Nat]
         /\ Power(b)[0] = 1
         /\ \A i \in Nat : Power(b)[i + 1] = Power(b)[i] * b
  <1> DEFINE step == [x \in Nat \X Nat |-> x[2] * b]
             IsPower(f) == f = [i \in Nat |-> IF i = 0 THEN 1 ELSE f[i - 1] * b]
  <1>1. \A v \in Nat : v * b \in Nat
    OBVIOUS
  <1>2. step \in [Nat \X Nat -> Nat]
    BY <1>1
  <1> HIDE DEF step
  <1>3. PICK f \in [Nat -> Nat] : IsRecursive(f, 1, step)
    BY <1>2, RecursionExists
  <1>4. IsPower(f)
    <2>1. \A i \in Nat \ {0} : step[<<i, f[i - 1]>>] = f[i - 1] * b
      BY <1>3 DEF step
    <2> QED BY <1>3, <2>1 DEF IsRecursive
  <1>5. IsPower(Power(b))
    BY <1>4 DEF Power
  <1> DEFINE S == {i \in Nat : Power(b)[i] \in Nat}
  <1>6. Power(b)[0] = 1
    BY <1>5
  <1>7. \A i \in Nat : Power(b)[i + 1] = Power(b)[i] * b
    BY <1>5
  <1>8. Nat \subseteq S
    <2>1. 0 \in S
      BY <1>6
    <2>2. \A i \in Nat : i \in S => i + 1 \in S
      BY <1>1, <1>7
    <2> HIDE DEF S
    <2> QED BY <2>1, <2>2, Induction
  <1> QED
    BY <1>5, <1>6, <1>7, <1>8

\* The loop of HaSchedule.units() stops early and caps as it goes, so that its
\* product does not overflow; what it computes is still the initial wait times
\* the power of the factor, capped once.
THEOREM EarlyStopIsExact ==
  ASSUME NEW s, ValidSchedule(s), s.kind = "exponential", NEW k \in Nat
  PROVE  Units(s, k) = AtMost(s.initialUnits * Power(s.growth)[k], s.maxUnits)
  <1> DEFINE pow == Power(s.growth)
             S == {i \in Nat : Grown(s)[i] = AtMost(s.initialUnits * pow[i], s.maxUnits)}
  <1>1. /\ s.initialUnits \in Nat /\ s.maxUnits \in Nat /\ s.growth \in Nat
        /\ s.initialUnits <= s.maxUnits /\ s.growth >= 2
    BY DEF ValidSchedule
  <1>2. pow \in [Nat -> Nat] /\ pow[0] = 1 /\ \A i \in Nat : pow[i + 1] = pow[i] * s.growth
    BY <1>1, PowerUnfolds
  <1> HIDE DEF pow
  <1>3. ASSUME NEW i \in Nat, i \in S PROVE i + 1 \in S
    <2> DEFINE x == s.initialUnits * pow[i]
               v == Grown(s)[i]
    <2>1. x \in Nat /\ s.initialUnits * pow[i + 1] = x * s.growth
      BY <1>1, <1>2
    <2>2. v = AtMost(x, s.maxUnits)
      BY <1>3
    <2>3. Grown(s)[i + 1] = IF v >= s.maxUnits THEN v ELSE AtMost(v * s.growth, s.maxUnits)
      BY GrownUnfolds
    <2>4. x * s.growth \in Nat /\ x <= x * s.growth
      <3>1. \A m, n \in Nat : n >= 2 => m * n \in Nat /\ m <= m * n
        BY SMT
      <3> QED BY <1>1, <2>1, <3>1
    <2> HIDE DEF x, v
    <2>5. Grown(s)[i + 1] = AtMost(x * s.growth, s.maxUnits)
      BY <1>1, <2>1, <2>2, <2>3, <2>4 DEF AtMost
    <2> QED BY <2>1, <2>5
  <1>4. Nat \subseteq S
    <2>1. 0 \in S
      BY <1>1, <1>2, GrownUnfolds DEF AtMost
    <2>2. \A i \in Nat : i \in S => i + 1 \in S
      BY <1>3
    <2> HIDE DEF S
    <2> QED BY <2>1, <2>2, Induction
  <1>5. Units(s, k) = AtMost(Grown(s)[k], s.maxUnits)
    BY DEF Units
  <1>6. Grown(s)[k] \in Nat /\ Grown(s)[k] <= s.maxUnits
    BY <1>1, GrownWithin
  <1>7. Units(s, k) = Grown(s)[k]
    BY <1>1, <1>5, <1>6 DEF AtMost
  <1> QED
    BY <1>4, <1>7 DEF pow

-----------------------------------------------------------------------------

\* The loop of horizonMs(), one round at a time.
LEMMA UnitsBeforeUnfolds ==
  ASSUME NEW p, ValidSchedule(p.replayGap)
  PROVE  /\ UnitsBefore(p, 0) = 0
         /\ \A n \in Nat : /\ UnitsBefore(p, n) \in Nat
                           /\ UnitsBefore(p, n + 1) = UnitsBefore(p, n) + Units(p.replayGap, n)
  <1> DEFINE gap(k) == Units(p.replayGap, k)
             IsTotal(f) == f = [k \in Nat |-> IF k = 0 THEN 0 ELSE f[k - 1] + gap(k - 1)]
             total == CHOOSE g : IsTotal(g)
             start == [x \in Nat \X Nat |-> IF x[1] = 0 THEN 0 ELSE x[2] + gap(x[1] - 1)]
  <1>1. \A k \in Nat : gap(k) \in Nat
    BY WaitsGrowWithinBounds
  <1>2. \A n : UnitsBefore(p, n) = total[n]
    BY DEF UnitsBefore
  <1> HIDE DEF gap
  <1>3. start \in [Nat \X Nat -> Nat]
    BY <1>1
  <1> HIDE DEF start
  <1>4. PICK f \in [Nat -> Nat] : IsRecursive(f, 0, start)
    BY <1>3, RecursionExists
  <1>5. IsTotal(f)
    <2>1. \A k \in Nat \ {0} : start[<<k, f[k - 1]>>] = f[k - 1] + gap(k - 1)
      BY <1>4 DEF start
    <2> QED BY <1>4, <2>1 DEF IsRecursive
  <1>6. IsTotal(total)
    BY <1>5
  <1> DEFINE S == {k \in Nat : total[k] \in Nat}
  <1> HIDE DEF total
  <1>7. total[0] = 0
    BY <1>6
  <1>8. \A k \in Nat : total[k + 1] = total[k] + gap(k)
    BY <1>6
  <1>9. Nat \subseteq S
    <2>1. 0 \in S
      BY <1>7
    <2>2. \A k \in Nat : k \in S => k + 1 \in S
      BY <1>1, <1>8
    <2> HIDE DEF S
    <2> QED BY <2>1, <2>2, Induction
  <1> QED
    BY <1>2, <1>7, <1>8, <1>9 DEF gap

\* The more rounds, the longer they wait.
LEMMA UnitsBeforeGrows ==
  ASSUME NEW p, ValidSchedule(p.replayGap), NEW i \in Nat, NEW j \in Nat, i <= j
  PROVE  UnitsBefore(p, i) <= UnitsBefore(p, j)
  <1> DEFINE before(n) == UnitsBefore(p, n)
             S == {d \in Nat : before(i) <= before(i + d)}
  <1>1. \A n \in Nat : before(n) \in Nat /\ before(n + 1) = before(n) + Units(p.replayGap, n)
    BY UnitsBeforeUnfolds
  <1>2. \A n \in Nat : Units(p.replayGap, n) \in Nat
    BY WaitsGrowWithinBounds
  <1> HIDE DEF before
  <1>3. Nat \subseteq S
    <2>1. 0 \in S
      BY <1>1
    <2>2. ASSUME NEW d \in Nat, d \in S PROVE d + 1 \in S
      <3>1. i + d \in Nat /\ i + (d + 1) = (i + d) + 1
        OBVIOUS
      <3>2. before(i + d) <= before((i + d) + 1)
        BY <1>1, <1>2, <3>1
      <3>3. before(i) <= before((i + d) + 1)
        BY <1>1, <2>2, <3>1, <3>2
      <3> QED BY <3>1, <3>3
    <2> HIDE DEF S
    <2> QED BY <2>1, <2>2, Induction
  <1>4. j - i \in S /\ i + (j - i) = j
    BY <1>3
  <1> QED
    BY <1>4 DEF before

\* The horizon that a packet announces as its dedup TTL covers the rounds
\* before any round, that round's own wait and the last wait.
THEOREM HorizonCoversRounds ==
  ASSUME NEW p, ValidPolicy(p), NEW k \in 0..p.replayCount
  PROVE  /\ HorizonUnits(p) \in Nat \ {0}
         /\ UnitsBefore(p, k) + Units(p.replayGap, k) + p.finalReceiveUnits <= HorizonUnits(p)
  <1> DEFINE before == UnitsBefore(p, k)
             gap == Units(p.replayGap, k)
             all == UnitsBefore(p, p.replayCount + 1)
  <1>1. p.replayCount \in Nat /\ p.finalReceiveUnits \in Nat /\ ValidSchedule(p.replayGap)
    BY DEF ValidPolicy
  <1>2. /\ before \in Nat /\ all \in Nat /\ gap \in Nat \ {0}
        /\ UnitsBefore(p, k + 1) = before + gap
    BY <1>1, UnitsBeforeUnfolds, WaitsGrowWithinBounds
  <1>3. UnitsBefore(p, k + 1) <= all
    BY <1>1, UnitsBeforeGrows
  <1>4. HorizonUnits(p) = p.finalReceiveUnits + all
    BY DEF HorizonUnits
  <1> HIDE DEF before, gap, all
  <1>5. HorizonUnits(p) \in Nat \ {0} /\ before + gap + p.finalReceiveUnits <= HorizonUnits(p)
    BY <1>1, <1>2, <1>3, <1>4
  <1> QED
    BY <1>5 DEF before, gap

-----------------------------------------------------------------------------
(* The inductive invariant. *)

\* The one timer runs exactly while the request does, and before the first
\* round nothing has happened.
TimerIsSane ==
  /\ terminal <=> timer = "none"
  /\ timer = "unarmed" =>
       /\ round = 0 /\ ~finalReceive /\ waited = 0
       /\ seen = {} /\ reached = {} /\ \A k \in Rounds : pending[k] = {}

\* The time waited is that of the rounds before the one whose timer runs.
ClockIsSane ==
  /\ timer = "round" => ~finalReceive /\ waited = UnitsBefore(Policy, round)
  /\ timer = "final" => finalReceive /\ waited = UnitsBefore(Policy, Policy.replayCount + 1)

\* Sends of a round to come have not been started; a round of which none has
\* been told delivered was refused, or is yet to be answered for, by every
\* endpoint; who was heard was reached; and if the first round reached anybody,
\* one of its callbacks tells so.
SendsAreSane ==
  /\ \A k \in Rounds : k > round => pending[k] = {}
  /\ \A k \in Rounds : pending[k] # {} /\ ~delivered[k] =>
                        Endpoints \ unsendable \subseteq pending[k] \union failing[k]
  /\ seen # {} => reached # {}
  /\ (outcome = "none" /\ round = 0 /\ reached # {}) =>
       delivered[0] \/ ~ (pending[0] \subseteq failing[0])

IInv ==
  /\ TypeOK
  /\ TimerIsSane
  /\ ClockIsSane
  /\ SendsAreSane
  /\ CandidateIsOldestSeen
  /\ HeardMeansFirstRound
  /\ TimeoutAtHorizon
  /\ UndeliveredMeansWholeRound

-----------------------------------------------------------------------------
(* Facts about the request, which does not change. *)

LEMMA RequestFacts ==
  ASSUME request \in Requests
  PROVE  /\ ValidPolicy(Policy) /\ ValidSchedule(Policy.replayGap)
         /\ Policy.replayCount \in Nat /\ Policy.finalReceiveUnits \in Nat
         /\ Policy.completionDelivery \in BOOLEAN
         /\ Endpoints # {} /\ ServerOf \in [Endpoints -> Nat \ Strangers]
         /\ 0 \in Rounds /\ Rounds \subseteq Nat
  <1>1. ValidPolicy(Policy) /\ Policy.completionDelivery \in BOOLEAN
    BY PolicyAssumption DEF Policy
  <1>2. Policy.replayCount \in Nat /\ Policy.finalReceiveUnits \in Nat /\ ValidSchedule(Policy.replayGap)
    BY <1>1 DEF ValidPolicy
  <1>3. Endpoints # {} /\ ServerOf \in [Endpoints -> Nat \ Strangers]
    BY MembershipAssumption DEF Endpoints, ServerOf
  <1> QED
    BY <1>1, <1>2, <1>3 DEF Rounds

\* The definitions that depend on the request alone.
LEMMA Captured ==
  ASSUME request' = request
  PROVE  /\ Policy' = Policy /\ Endpoints' = Endpoints /\ ServerOf' = ServerOf
         /\ ServerIds' = ServerIds /\ Rounds' = Rounds
         /\ OldestServerId' = OldestServerId
  BY DEF Policy, Endpoints, ServerOf, ServerIds, Rounds, OldestServerId

LEMMA GapFacts ==
  ASSUME request \in Requests, NEW k \in Rounds
  PROVE  /\ Gap(k) \in Nat \ {0} /\ UnitsBefore(Policy, k) \in Nat
         /\ UnitsBefore(Policy, k + 1) = UnitsBefore(Policy, k) + Gap(k)
         /\ UnitsBefore(Policy, 0) = 0
         /\ HorizonUnits(Policy) = Policy.finalReceiveUnits + UnitsBefore(Policy, Policy.replayCount + 1)
  <1>1. ValidSchedule(Policy.replayGap) /\ k \in Nat
    BY RequestFacts
  <1> QED
    BY <1>1, WaitsGrowWithinBounds, UnitsBeforeUnfolds DEF Gap, HorizonUnits

LEMMA IdsAreNumbers ==
  ASSUME request \in Requests
  PROVE  ServerIds \subseteq Nat /\ ServerIds # {} /\ None \notin ServerIds
  BY RequestFacts, MembershipAssumption DEF ServerIds

LEMMA HorizonStays ==
  ASSUME Policy' = Policy
  PROVE  HorizonUnits(Policy)' = HorizonUnits(Policy)
  BY DEF HorizonUnits, UnitsBefore

-----------------------------------------------------------------------------
(* Each action preserves the invariant. *)

LEMMA InitInv == Init => IInv
  <1> SUFFICES ASSUME Init PROVE IInv
    OBVIOUS
  <1>1. TypeOK
    BY RequestFacts DEF Init, TypeOK, Outcomes
  <1>2. TimerIsSane /\ ClockIsSane /\ SendsAreSane
    BY RequestFacts DEF Init, TimerIsSane, ClockIsSane, SendsAreSane, terminal
  <1>3. CandidateIsOldestSeen /\ HeardMeansFirstRound /\ TimeoutAtHorizon /\ UndeliveredMeansWholeRound
    BY DEF Init, CandidateIsOldestSeen, HeardMeansFirstRound, TimeoutAtHorizon, UndeliveredMeansWholeRound
  <1> QED
    BY <1>1, <1>2, <1>3 DEF IInv

\* Arming a round while nobody has been heard: what is left to the caller is
\* the clock.
LEMMA ArmRoundInv ==
  ASSUME IInv, ~terminal, seen = {}, NEW k \in Rounds,
         (k = 0 /\ timer = "unarmed") \/ k = round + 1,
         ArmRound(k),
         finalReceive = FALSE, finalReceive' = FALSE,
         UNCHANGED <<seen, candidate, rejected>>,
         waited' = UnitsBefore(Policy, k)
  PROVE  IInv'
  <1> USE DEF IInv, ArmRound, Finish, Wait
  <1>1. request' = request /\ request \in Requests
    BY DEF TypeOK
  <1>2. Policy' = Policy /\ Endpoints' = Endpoints /\ ServerOf' = ServerOf /\ ServerIds' = ServerIds
        /\ Rounds' = Rounds
    BY <1>1, Captured
  <1> DEFINE started == Missing(seen) \ unsendable
  <1>3. started \subseteq Endpoints
    BY DEF Missing
  <1>4. PICK fails \in SUBSET started :
          /\ round' = k
          /\ pending' = [pending EXCEPT ![k] = started]
          /\ failing' = [failing EXCEPT ![k] = fails]
          /\ reached' = reached \union (started \ fails)
          /\ UNCHANGED <<request, unsendable, delivered>>
    OBVIOUS
  <1>5. \/ outcome' = "undelivered" /\ timer' = "none" /\ completed' = {} /\ started = {}
        \/ timer' = "round" /\ UNCHANGED <<outcome, completed>>
    OBVIOUS
  <1>6. waited' \in Nat
    BY <1>1, GapFacts
  <1>12. started = Endpoints \ unsendable
    BY DEF Missing
  <1> HIDE DEF started, ArmRound
  <1>7. TypeOK'
    BY <1>1, <1>2, <1>3, <1>4, <1>5, <1>6 DEF TypeOK, Outcomes
  <1>8. TimerIsSane'
    BY <1>2, <1>4, <1>5 DEF TimerIsSane, terminal
  <1>9. ClockIsSane'
    BY <1>2, <1>4, <1>5 DEF ClockIsSane
  <1>10. SendsAreSane'
    <2>1. \A i \in Rounds : i > k => pending'[i] = {}
      BY <1>4, RequestFacts, <1>1 DEF SendsAreSane, TypeOK, TimerIsSane
    <2>2. ASSUME k = 0, reached' # {} PROVE ~ (pending'[0] \subseteq failing'[0])
      BY <2>2, <1>1, <1>4, RequestFacts DEF TypeOK, TimerIsSane
    <2>3. \A i \in Rounds : pending'[i] # {} /\ ~delivered'[i] =>
                              Endpoints \ unsendable \subseteq pending'[i] \union failing'[i]
      BY <1>1, <1>4, <1>12 DEF SendsAreSane, TypeOK
    <2> QED BY <1>2, <1>4, <2>1, <2>2, <2>3 DEF SendsAreSane
  <1>11. CandidateIsOldestSeen' /\ HeardMeansFirstRound' /\ TimeoutAtHorizon'
    BY <1>2, <1>5 DEF CandidateIsOldestSeen, HeardMeansFirstRound, TimeoutAtHorizon, terminal
  <1>13. UndeliveredMeansWholeRound'
    <2>1. CASE started = {}
      <3>1. pending'[k] = {} /\ Endpoints \ unsendable \subseteq failing'[k]
        BY <1>4, <1>12, <2>1 DEF TypeOK
      <3> QED BY <1>2, <1>4, <3>1 DEF UndeliveredMeansWholeRound
    <2>2. CASE outcome' = outcome
      BY <2>2 DEF UndeliveredMeansWholeRound, terminal
    <2> QED BY <1>5, <2>1, <2>2
  <1> QED
    BY <1>7, <1>8, <1>9, <1>10, <1>11, <1>13

LEMMA StartInv == ASSUME IInv, Start PROVE IInv'
  <1>1. request \in Requests /\ timer = "unarmed" /\ ~terminal /\ seen = {} /\ finalReceive = FALSE
        /\ waited = 0
    BY DEF IInv, TypeOK, TimerIsSane, Start
  <1>2. 0 \in Rounds /\ UnitsBefore(Policy, 0) = 0
    BY <1>1, RequestFacts, GapFacts
  <1>3. ArmRound(0) /\ UNCHANGED <<finalReceive, seen, candidate, waited, rejected>>
    BY DEF Start
  <1> QED
    BY <1>1, <1>2, <1>3, ArmRoundInv

\* Finishing without an answer: only the reason is left to the caller.
LEMMA FinishInv ==
  ASSUME IInv, ~terminal, timer # "unarmed",
         NEW why \in Outcomes \ {"none", "answer", "undelivered"}, Finish(why, seen),
         UNCHANGED <<round, finalReceive, seen, candidate, sendVars, rejected>>,
         waited' \in Nat,
         why = "timeout" => seen = {} /\ waited' = HorizonUnits(Policy)
  PROVE  IInv'
  <1>1. request' = request /\ request \in Requests
    BY DEF sendVars, IInv, TypeOK
  <1>2. Policy' = Policy /\ Endpoints' = Endpoints /\ ServerOf' = ServerOf /\ ServerIds' = ServerIds
        /\ Rounds' = Rounds
    BY <1>1, Captured
  <1>3. outcome' = why /\ timer' = "none" /\ completed' = {}
    BY DEF Finish
  <1>4. UNCHANGED <<round, finalReceive, seen, candidate, unsendable, pending, failing, delivered,
                    reached, rejected>>
    BY DEF sendVars
  <1>5. TypeOK'
    BY <1>1, <1>2, <1>3, <1>4 DEF IInv, TypeOK
  <1>6. TimerIsSane' /\ ClockIsSane'
    BY <1>3 DEF Outcomes, TimerIsSane, ClockIsSane, terminal
  <1>7. SendsAreSane'
    BY <1>2, <1>3, <1>4 DEF IInv, SendsAreSane, Outcomes
  <1>8. CandidateIsOldestSeen' /\ HeardMeansFirstRound' /\ TimeoutAtHorizon' /\ UndeliveredMeansWholeRound'
    BY <1>2, <1>3, <1>4, HorizonStays DEF IInv, CandidateIsOldestSeen, HeardMeansFirstRound, TimeoutAtHorizon,
                             UndeliveredMeansWholeRound, Outcomes
  <1> QED
    BY <1>5, <1>6, <1>7, <1>8 DEF IInv

LEMMA SendCallbackInv ==
  ASSUME IInv, NEW k \in Rounds, NEW e \in Endpoints, SendCallback(k, e)
  PROVE  IInv'
  <1>1. request' = request /\ request \in Requests
    BY DEF SendCallback, IInv, TypeOK
  <1>2. Policy' = Policy /\ Endpoints' = Endpoints /\ ServerOf' = ServerOf /\ ServerIds' = ServerIds
        /\ Rounds' = Rounds
    BY <1>1, Captured
  <1>3. /\ e \in pending[k]
        /\ pending' = [pending EXCEPT ![k] = @ \ {e}]
        /\ delivered' = [delivered EXCEPT ![k] = Told(k, e)]
        /\ UNCHANGED <<request, unsendable, round, finalReceive, seen, candidate, failing, reached,
                       waited, rejected>>
    BY DEF SendCallback
  <1>4. \/ FailsRound(k, e) /\ outcome' = "undelivered" /\ timer' = "none" /\ completed' = {}
        \/ UNCHANGED <<outcome, timer, completed>>
    BY DEF SendCallback, Finish
  <1>5. Told(k, e) \in BOOLEAN /\ (e \notin failing[k] => Told(k, e)) /\ (delivered[k] => Told(k, e))
    BY DEF Told, IInv, TypeOK
  <1>6. timer # "unarmed"
    BY <1>3 DEF IInv, TimerIsSane
  <1>7. TypeOK'
    BY <1>1, <1>2, <1>3, <1>4, <1>5 DEF IInv, TypeOK, Outcomes
  <1>8. TimerIsSane' /\ ClockIsSane'
    BY <1>2, <1>3, <1>4, <1>6 DEF IInv, TimerIsSane, ClockIsSane, FailsRound, terminal
  <1>9. SendsAreSane'
    <2>1. \A i \in Rounds : i > round => pending'[i] = {}
      BY <1>3 DEF IInv, TypeOK, SendsAreSane
    <2>2. ASSUME outcome' = "none", round = 0, reached # {}
          PROVE  delivered'[0] \/ ~ (pending'[0] \subseteq failing[0])
      <3>1. outcome = "none"
        BY <1>4, <2>2 DEF FailsRound, terminal
      <3>2. k = 0
        BY <1>1, <1>3, <2>2, RequestFacts DEF IInv, SendsAreSane
      <3>3. delivered[0] \/ ~ (pending[0] \subseteq failing[0])
        BY <2>2, <3>1 DEF IInv, SendsAreSane
      <3>4. delivered'[0] = Told(0, e) /\ pending'[0] = pending[0] \ {e}
        BY <1>1, <1>3, <3>2, RequestFacts DEF IInv, TypeOK
      <3> QED BY <1>5, <3>2, <3>3, <3>4
    <2>3. \A i \in Rounds : pending'[i] # {} /\ ~delivered'[i] =>
                              Endpoints \ unsendable \subseteq pending'[i] \union failing[i]
      <3> SUFFICES ASSUME NEW i \in Rounds, pending'[i] # {}, ~delivered'[i]
                   PROVE  Endpoints \ unsendable \subseteq pending'[i] \union failing[i]
        OBVIOUS
      <3>1. CASE i # k
        <4>1. pending'[i] = pending[i] /\ delivered'[i] = delivered[i]
          BY <1>3, <3>1 DEF IInv, TypeOK
        <4> QED BY <4>1 DEF IInv, SendsAreSane
      <3>2. CASE i = k
        <4>1. pending'[k] = pending[k] \ {e} /\ ~Told(k, e)
          BY <1>3, <3>2 DEF IInv, TypeOK
        <4>2. Endpoints \ unsendable \subseteq pending[k] \union failing[k] /\ e \in failing[k]
          BY <1>3, <1>5, <4>1 DEF IInv, SendsAreSane
        <4> QED BY <3>2, <4>1, <4>2
      <3> QED BY <3>1, <3>2
    <2> QED BY <1>2, <1>3, <2>1, <2>2, <2>3 DEF IInv, SendsAreSane
  <1>10. CandidateIsOldestSeen' /\ HeardMeansFirstRound'
    BY <1>2, <1>3, <1>4 DEF IInv, CandidateIsOldestSeen, HeardMeansFirstRound, FailsRound, terminal
  <1>11. TimeoutAtHorizon'
    BY <1>2, <1>3, <1>4, HorizonStays DEF IInv, TimeoutAtHorizon
  <1>12. UndeliveredMeansWholeRound'
    <2>1. CASE FailsRound(k, e)
      <3>1. pending[k] = {e} /\ ~Told(k, e)
        BY <2>1 DEF FailsRound
      <3>2. Endpoints \ unsendable \subseteq pending[k] \union failing[k] /\ e \in failing[k]
        BY <1>3, <1>5, <3>1 DEF IInv, SendsAreSane
      <3>3. pending'[k] = {} /\ Endpoints \ unsendable \subseteq failing[k]
        BY <1>3, <3>1, <3>2 DEF IInv, TypeOK
      <3> QED BY <1>2, <1>3, <3>3 DEF UndeliveredMeansWholeRound
    <2>2. CASE outcome' = outcome
      <3> SUFFICES ASSUME outcome = "undelivered"
                   PROVE  \E i \in Rounds : pending'[i] = {} /\ Endpoints \ unsendable \subseteq failing[i]
        BY <1>2, <1>3, <2>2 DEF UndeliveredMeansWholeRound
      <3>1. PICK i \in Rounds : pending[i] = {} /\ Endpoints \ unsendable \subseteq failing[i]
        BY DEF IInv, UndeliveredMeansWholeRound
      <3>2. pending'[i] = {}
        BY <1>3, <3>1 DEF IInv, TypeOK
      <3> QED BY <3>1, <3>2
    <2> QED BY <1>4, <2>1, <2>2
  <1> QED
    BY <1>7, <1>8, <1>9, <1>10, <1>11, <1>12 DEF IInv

LEMMA OnMessageInv ==
  ASSUME IInv, NEW id \in ServerIds \union Strangers, OnMessage(id)
  PROVE  IInv'
  <1>1. request' = request /\ request \in Requests
    BY DEF OnMessage, sendVars, IInv, TypeOK
  <1>2. Policy' = Policy /\ Endpoints' = Endpoints /\ ServerOf' = ServerOf /\ ServerIds' = ServerIds
        /\ Rounds' = Rounds
    BY <1>1, Captured
  <1>3. /\ ~terminal /\ id \in ServerIds
        /\ seen' = seen \union {id}
        /\ candidate' = IF candidate = None \/ id < candidate THEN id ELSE candidate
        /\ UNCHANGED <<round, finalReceive, unsendable, pending, failing, delivered, reached, waited, rejected>>
    BY DEF OnMessage, Trusted, Better, sendVars
  <1>4. \/ /\ Decides(id) /\ outcome' = "answer" /\ timer' = "none"
           /\ completed' = CompletionTargets(seen')
        \/ ~Decides(id) /\ UNCHANGED <<outcome, timer, completed>>
    BY DEF OnMessage, Finish
  <1>5. reached # {}
    BY DEF OnMessage, Heard
  <1>6. timer # "unarmed"
    BY <1>5 DEF IInv, TimerIsSane
  <1>7. CompletionTargets(seen') \subseteq Endpoints
    BY DEF CompletionTargets, Missing
  <1>8. TypeOK'
    BY <1>1, <1>2, <1>3, <1>4, <1>7 DEF IInv, TypeOK, Outcomes
  <1>9. TimerIsSane' /\ ClockIsSane'
    BY <1>2, <1>3, <1>4, <1>6 DEF IInv, TimerIsSane, ClockIsSane, terminal
  <1>10. SendsAreSane'
    BY <1>2, <1>3, <1>4, <1>5 DEF IInv, SendsAreSane
  <1>11. CandidateIsOldestSeen'
    <2>1. seen \subseteq Nat /\ id \in Nat /\ None \notin Nat /\ (candidate = None \/ candidate \in Nat)
      BY <1>1, <1>3, IdsAreNumbers, MembershipAssumption DEF IInv, TypeOK
    <2>2. CASE seen = {}
      BY <1>3, <2>1, <2>2 DEF IInv, CandidateIsOldestSeen
    <2>3. CASE seen # {}
      <3>1. candidate \in seen /\ \A other \in seen : candidate <= other
        BY <2>3 DEF IInv, CandidateIsOldestSeen
      <3>2. CASE id < candidate
        BY <1>3, <2>1, <3>1, <3>2 DEF CandidateIsOldestSeen
      <3>3. CASE ~ (id < candidate)
        <4>1. candidate' = candidate /\ candidate <= id
          BY <1>3, <2>1, <3>1, <3>3
        <4> QED BY <1>3, <3>1, <4>1 DEF CandidateIsOldestSeen
      <3> QED BY <3>2, <3>3
    <2> QED BY <2>2, <2>3
  <1>12. HeardMeansFirstRound'
    BY <1>1, <1>3, <1>4, RequestFacts DEF IInv, TypeOK, HeardMeansFirstRound, Decides
  <1>13. TimeoutAtHorizon'
    BY <1>3, <1>4 DEF TimeoutAtHorizon, terminal
  <1>14. UndeliveredMeansWholeRound'
    BY <1>3, <1>4 DEF UndeliveredMeansWholeRound, terminal
  <1> QED
    BY <1>8, <1>9, <1>10, <1>11, <1>12, <1>13, <1>14 DEF IInv

LEMMA RoundTimerInv == ASSUME IInv, RoundTimer PROVE IInv'
  <1>1. request' = request /\ request \in Requests
    BY DEF RoundTimer, ArmRound, sendVars, IInv, TypeOK
  <1>2. Policy' = Policy /\ Endpoints' = Endpoints /\ ServerOf' = ServerOf /\ ServerIds' = ServerIds
        /\ Rounds' = Rounds
    BY <1>1, Captured
  <1>3. /\ timer = "round" /\ ~terminal /\ finalReceive = FALSE
        /\ waited = UnitsBefore(Policy, round)
        /\ waited' = waited + Gap(round)
        /\ UNCHANGED <<seen, candidate, rejected>>
    BY DEF RoundTimer, IInv, TypeOK, TimerIsSane, ClockIsSane
  <1>4. /\ round \in Rounds /\ round \in Nat /\ round <= Policy.replayCount
        /\ Policy.replayCount \in Nat /\ Policy.finalReceiveUnits \in Nat
    BY <1>1, RequestFacts DEF IInv, TypeOK, Rounds
  <1>5. waited' = UnitsBefore(Policy, round + 1) /\ waited' \in Nat
    BY <1>1, <1>3, <1>4, GapFacts
  <1>6. ASSUME Settles, Finish("answer", seen), UNCHANGED <<round, finalReceive, sendVars>>
        PROVE  IInv'
    <2>1. outcome' = "answer" /\ timer' = "none" /\ completed' = CompletionTargets(seen)
      BY <1>6 DEF Finish
    <2>2. UNCHANGED <<round, finalReceive, unsendable, pending, failing, delivered, reached>>
      BY <1>6 DEF sendVars
    <2>3. CompletionTargets(seen) \subseteq Endpoints
      BY DEF CompletionTargets, Missing
    <2>4. TypeOK'
      BY <1>1, <1>2, <1>3, <1>5, <2>1, <2>2, <2>3 DEF IInv, TypeOK, Outcomes
    <2>5. TimerIsSane' /\ ClockIsSane'
      BY <2>1 DEF TimerIsSane, ClockIsSane, terminal
    <2>6. SendsAreSane'
      BY <1>2, <1>3, <2>1, <2>2 DEF IInv, SendsAreSane
    <2>7. CandidateIsOldestSeen' /\ HeardMeansFirstRound' /\ TimeoutAtHorizon' /\ UndeliveredMeansWholeRound'
      BY <1>2, <1>3, <2>1 DEF IInv, CandidateIsOldestSeen, HeardMeansFirstRound, TimeoutAtHorizon,
                                    UndeliveredMeansWholeRound
    <2> QED BY <2>4, <2>5, <2>6, <2>7 DEF IInv
  <1>7. ASSUME ~Settles PROVE seen = {}
    <2>1. seen \subseteq Nat
      BY <1>1, IdsAreNumbers DEF IInv, TypeOK
    <2> QED BY <1>7, <2>1, MembershipAssumption DEF Settles, IInv, CandidateIsOldestSeen
  <1>8. ASSUME ~Settles, MayReplay, ArmRound(round + 1), UNCHANGED finalReceive
        PROVE  IInv'
    <2>1. round + 1 \in Rounds
      BY <1>4, <1>8 DEF MayReplay, Rounds
    <2> QED BY <1>3, <1>5, <1>7, <1>8, <2>1, ArmRoundInv
  <1>9. ASSUME ~Settles, ~MayReplay, UNCHANGED <<round, sendVars>>,
               Policy.finalReceiveUnits > 0, finalReceive' = TRUE, Wait("final")
        PROVE  IInv'
    <2>1. timer' = "final" /\ UNCHANGED <<outcome, completed>>
      BY <1>9 DEF Wait
    <2>2. UNCHANGED <<round, unsendable, pending, failing, delivered, reached>>
      BY <1>9 DEF sendVars
    <2>3. round = Policy.replayCount
      BY <1>4, <1>9 DEF MayReplay
    <2>4. TypeOK'
      BY <1>1, <1>2, <1>3, <1>5, <1>9, <2>1, <2>2 DEF IInv, TypeOK
    <2>5. TimerIsSane' /\ ClockIsSane'
      BY <1>2, <1>3, <1>5, <1>9, <2>1, <2>3 DEF TimerIsSane, ClockIsSane, terminal
    <2>6. SendsAreSane'
      BY <1>2, <1>3, <2>1, <2>2 DEF IInv, SendsAreSane
    <2>7. CandidateIsOldestSeen' /\ HeardMeansFirstRound' /\ TimeoutAtHorizon' /\ UndeliveredMeansWholeRound'
      BY <1>2, <1>3, <1>7, <1>9, <2>1 DEF IInv, CandidateIsOldestSeen, HeardMeansFirstRound,
                                          TimeoutAtHorizon, UndeliveredMeansWholeRound, terminal
    <2> QED BY <2>4, <2>5, <2>6, <2>7 DEF IInv
  <1>10. ASSUME ~Settles, ~MayReplay, UNCHANGED <<round, sendVars>>,
                ~ (Policy.finalReceiveUnits > 0), Finish("timeout", seen), UNCHANGED finalReceive
         PROVE  IInv'
    <2>1. round = Policy.replayCount /\ Policy.finalReceiveUnits = 0
      BY <1>4, <1>10 DEF MayReplay
    <2>2. waited' = HorizonUnits(Policy)
      BY <1>1, <1>4, <1>5, <2>1, GapFacts
    <2>3. "timeout" \in Outcomes \ {"none", "answer", "undelivered"}
      BY DEF Outcomes
    <2> QED BY <1>3, <1>5, <1>7, <1>10, <2>2, <2>3, FinishInv
  <1> QED
    BY <1>6, <1>8, <1>9, <1>10 DEF RoundTimer

LEMMA FinalTimerInv == ASSUME IInv, FinalTimer PROVE IInv'
  <1>1. request \in Requests
    BY DEF IInv, TypeOK
  <1>2. /\ timer = "final" /\ ~terminal /\ seen = {}
        /\ waited = UnitsBefore(Policy, Policy.replayCount + 1)
    BY DEF FinalTimer, IInv, TimerIsSane, ClockIsSane, HeardMeansFirstRound, terminal
  <1>3. waited' = HorizonUnits(Policy) /\ waited' \in Nat
    <2>1. waited' = waited + Policy.finalReceiveUnits
      BY DEF FinalTimer
    <2>2. waited \in Nat /\ Policy.finalReceiveUnits \in Nat
      BY <1>1, RequestFacts DEF IInv, TypeOK
    <2> QED BY <1>2, <2>1, <2>2 DEF HorizonUnits
  <1>4. "timeout" \in Outcomes \ {"none", "answer", "undelivered"}
    BY DEF Outcomes
  <1> QED
    BY <1>2, <1>3, <1>4, FinishInv DEF FinalTimer

LEMMA AbortInv == ASSUME IInv, OnError \/ Cancel PROVE IInv'
  <1>1. {"socketError", "destroyed"} \subseteq Outcomes \ {"none", "answer", "undelivered"}
    BY DEF Outcomes
  <1>2. waited' \in Nat
    BY DEF OnError, Cancel, IInv, TypeOK
  <1>3. CASE OnError
    BY <1>1, <1>2, <1>3, FinishInv DEF OnError
  <1>4. CASE Cancel
    BY <1>1, <1>2, <1>4, FinishInv DEF Cancel
  <1> QED
    BY <1>3, <1>4

LEMMA QuietInv == ASSUME IInv, OnInvalidMessage \/ UNCHANGED vars PROVE IInv'
  <1>1. /\ UNCHANGED <<outcome, timer, round, finalReceive, seen, candidate, request, unsendable, pending,
                       failing, delivered, reached, completed, waited>>
        /\ rejected' \in BOOLEAN
    BY DEF OnInvalidMessage, sendVars, vars, IInv, TypeOK
  <1>2. Policy' = Policy /\ Endpoints' = Endpoints /\ ServerOf' = ServerOf /\ ServerIds' = ServerIds
        /\ Rounds' = Rounds
    BY <1>1, Captured
  <1>3. TypeOK'
    BY <1>1, <1>2 DEF IInv, TypeOK
  <1>4. TimerIsSane' /\ ClockIsSane' /\ SendsAreSane'
    BY <1>1, <1>2 DEF IInv, TimerIsSane, ClockIsSane, SendsAreSane, terminal, UnitsBefore
  <1>5. CandidateIsOldestSeen' /\ HeardMeansFirstRound' /\ TimeoutAtHorizon' /\ UndeliveredMeansWholeRound'
    BY <1>1, <1>2, HorizonStays DEF IInv, CandidateIsOldestSeen, HeardMeansFirstRound, TimeoutAtHorizon,
                                    UndeliveredMeansWholeRound
  <1> QED
    BY <1>3, <1>4, <1>5 DEF IInv

LEMMA StepInv == ASSUME IInv, [Next]_vars PROVE IInv'
  BY StartInv, SendCallbackInv, OnMessageInv, RoundTimerInv, FinalTimerInv, AbortInv, QuietInv DEF Next

\* The invariant holds in every reachable state, for every membership and
\* every policy that the constructors accept.
THEOREM RequestInvariance == Spec => []IInv
  BY InitInv, StepInv, PTL DEF Spec

-----------------------------------------------------------------------------
(* The properties that run "request" checks. *)

\* The variables keep to their types; waited stays a number however long the
\* schedule grows.
THEOREM RequestTypeCorrect == Spec => []TypeOK
  BY RequestInvariance, PTL DEF IInv

\* The candidate is the oldest server heard, in whatever order and however
\* often onMessage gets the answers.
THEOREM CandidateIsOldest == Spec => []CandidateIsOldestSeen
  BY RequestInvariance, PTL DEF IInv

\* A request that replays, or listens for the last time, has heard nobody.
THEOREM NobodyHeardInLaterRounds == Spec => []HeardMeansFirstRound
  BY RequestInvariance, PTL DEF IInv

\* The timers of armRound add up to the horizon that horizonMs() computes: a
\* request times out neither before nor after the TTL its packet announced.
THEOREM TimesOutAtHorizon == Spec => []TimeoutAtHorizon
  BY RequestInvariance, PTL DEF IInv

\* The counters of sendMissing, one pair for each round, never take failures of
\* several rounds, or of a part of one, for a round that reached nobody.
THEOREM UndeliveredIsAWholeRound == Spec => []UndeliveredMeansWholeRound
  BY RequestInvariance, PTL DEF IInv

\* After finish() no message, callback or timer changes what was decided.
THEOREM DecidedOnce == Spec => DecisionIsFinal
  <1>1. ASSUME IInv, [Next]_vars, terminal
        PROVE  UNCHANGED <<outcome, candidate, seen, reached, completed, timer>>
    <2>1. timer = "none"
      BY <1>1 DEF IInv, TimerIsSane
    <2>2. ~ Start /\ ~ RoundTimer /\ ~ FinalTimer
      BY <2>1 DEF Start, RoundTimer, FinalTimer
    <2>3. (\A id \in ServerIds \union Strangers : ~ OnMessage(id)) /\ ~ OnInvalidMessage /\ ~ OnError /\ ~ Cancel
      BY <1>1 DEF OnMessage, OnInvalidMessage, OnError, Cancel
    <2>4. ASSUME NEW k \in Rounds, NEW e \in Endpoints, SendCallback(k, e)
          PROVE  UNCHANGED <<outcome, candidate, seen, reached, completed, timer>>
      BY <1>1, <2>4 DEF SendCallback, FailsRound
    <2> QED BY <1>1, <2>2, <2>3, <2>4 DEF Next, vars
  <1>2. IInv /\ [Next]_vars
          => [terminal => UNCHANGED <<outcome, candidate, seen, reached, completed, timer>>]_vars
    BY <1>1
  <1> QED
    BY <1>2, RequestInvariance, PTL DEF Spec, DecisionIsFinal

-----------------------------------------------------------------------------
(* RateRequest implements AdmissionDecision. *)

\* The part of AdmissionDecision's state that is not a variable here.
WaitOver == waited >= Gap(0)
Decider == IF outcome = "answer" THEN candidate ELSE None

\* While a request is undecided, the first wait is over exactly if it replays
\* or listens for the last time.
LEMMA WaitOverMeans ==
  ASSUME IInv, ~terminal
  PROVE  WaitOver <=> round > 0 \/ finalReceive
  <1>1. request \in Requests /\ round \in Rounds /\ round \in Nat
    BY RequestFacts DEF IInv, TypeOK
  <1>2. Gap(0) \in Nat \ {0} /\ UnitsBefore(Policy, 0) = 0 /\ UnitsBefore(Policy, 1) = Gap(0)
    BY <1>1, RequestFacts, GapFacts
  <1>3. \A k \in Nat \ {0} : UnitsBefore(Policy, k) \in Nat /\ Gap(0) <= UnitsBefore(Policy, k)
    BY <1>1, <1>2, RequestFacts, UnitsBeforeUnfolds, UnitsBeforeGrows
  <1>4. CASE timer = "unarmed"
    BY <1>2, <1>4 DEF IInv, TimerIsSane, WaitOver
  <1>5. CASE timer = "round"
    BY <1>1, <1>2, <1>3, <1>5 DEF IInv, ClockIsSane, WaitOver
  <1>6. CASE timer = "final"
    BY <1>1, <1>3, <1>6, RequestFacts DEF IInv, ClockIsSane, WaitOver
  <1> QED
    BY <1>4, <1>5, <1>6 DEF IInv, TypeOK, TimerIsSane

\* Time does not run backwards.
LEMMA WaitStaysOver ==
  ASSUME IInv, [Next]_vars, WaitOver
  PROVE  WaitOver'
  <1>1. request \in Requests /\ waited \in Nat /\ round \in Rounds
    BY DEF IInv, TypeOK
  <1>2. request' = request
    BY DEF Next, vars, Start, SendCallback, OnMessage, OnInvalidMessage, RoundTimer, FinalTimer, OnError,
           Cancel, ArmRound, sendVars
  <1>3. Gap(0)' = Gap(0) /\ Gap(0) \in Nat /\ Gap(round) \in Nat /\ Policy.finalReceiveUnits \in Nat
    BY <1>1, <1>2, RequestFacts, GapFacts DEF Gap, Policy
  <1>4. waited' \in {waited, waited + Gap(round), waited + Policy.finalReceiveUnits}
    BY DEF Next, vars, Start, SendCallback, OnMessage, OnInvalidMessage, RoundTimer, FinalTimer, OnError,
           Cancel
  <1> QED
    BY <1>1, <1>3, <1>4 DEF WaitOver

\* A set of ids has one oldest.
LEMMA OldestIs ==
  ASSUME NEW ids, ids \subseteq Nat, NEW id \in ids, \A other \in ids : id <= other
  PROVE  Decision!Oldest(ids) = id
  <1>1. \A other \in ids : other <= id /\ id <= other => other = id
    OBVIOUS
  <1> QED
    BY <1>1 DEF Decision!Oldest

LEMMA DecisionInit == ASSUME Init PROVE Decision!Init
  <1>1. request \in Requests /\ 0 \in Rounds
    BY RequestFacts DEF Init
  <1>2. Gap(0) \in Nat \ {0} /\ ServerIds # {}
    BY <1>1, GapFacts, IdsAreNumbers
  <1>3. ~ (waited >= Gap(0))
    BY <1>2 DEF Init
  <1> QED
    BY <1>2, <1>3 DEF Init, Decision!Init

\* An answer decides, or is kept for later: Hear.
LEMMA OnMessageDecides ==
  ASSUME IInv, IInv', NEW id \in ServerIds \union Strangers, OnMessage(id)
  PROVE  Decision!Hear(id) /\ id \in ServerIds
  <1>1. /\ ~terminal /\ id \in ServerIds /\ seen' = seen \union {id}
        /\ UNCHANGED <<request, waited>>
    BY DEF OnMessage, Trusted, sendVars
  <1>2. \/ Decides(id) /\ outcome' = "answer"
        \/ ~Decides(id) /\ outcome' = outcome
    BY DEF OnMessage, Finish
  <1>3. ServerIds' = ServerIds /\ WaitOver' = WaitOver
    BY <1>1, Captured DEF WaitOver, Gap, Policy
  <1>4. Decides(id) <=> WaitOver \/ id = Decision!Oldest(ServerIds)
    BY <1>1, WaitOverMeans DEF Decides, OldestServerId, Decision!Oldest
  <1>5. candidate' = Decision!Oldest(seen')
    <2>1. candidate' \in seen' /\ \A other \in seen' : candidate' <= other
      BY <1>1 DEF IInv, CandidateIsOldestSeen
    <2>2. seen' \subseteq Nat
      BY <1>3, IdsAreNumbers DEF IInv, TypeOK
    <2> QED BY <2>1, <2>2, OldestIs
  <1>6. CASE Decides(id)
    <2>1. Decider' = Decision!Oldest(seen')
      BY <1>2, <1>5, <1>6 DEF Decider
    <2> QED BY <1>1, <1>2, <1>3, <1>4, <1>6, <2>1
            DEF Decision!Hear, Decision!Decide, WaitOver, Decider, terminal
  <1>7. CASE ~Decides(id)
    <2>1. outcome' = outcome /\ Decider' = Decider
      BY <1>1, <1>2, <1>7 DEF Decider, terminal
    <2> QED BY <1>1, <1>3, <1>4, <1>7, <2>1
            DEF Decision!Hear, Decision!Undecided, WaitOver, Decider, terminal
  <1> QED
    BY <1>1, <1>6, <1>7

\* Giving up while nobody has been heard: Unanswered.
LEMMA GivesUpUnheard ==
  ASSUME IInv, ~terminal, seen = {}, UNCHANGED <<request, seen>>, WaitOver' = WaitOver,
         \/ outcome' = "undelivered"
         \/ WaitOver /\ outcome' = "timeout"
  PROVE  Decision!Unanswered
  <1>1. ServerIds' = ServerIds
    BY Captured
  <1>2. Decider' = Decider
    BY DEF Decider, terminal
  <1> QED
    BY <1>1, <1>2 DEF Decision!Unanswered, Decision!GiveUp, WaitOver, Decider, terminal

\* The end of the first wait: settle for the candidate, go on, or give up.
LEMMA FirstWaitEnds ==
  ASSUME IInv, ~terminal, ~WaitOver, WaitOver', UNCHANGED <<request, seen, candidate>>,
         IF Settles THEN outcome' = "answer" ELSE outcome' \in {"none", "timeout", "undelivered"}
  PROVE  Decision!WaitEnds
  <1>1. ServerIds' = ServerIds /\ request \in Requests
    BY Captured DEF IInv, TypeOK
  <1>2. seen \subseteq Nat /\ (Settles <=> seen # {})
    BY <1>1, IdsAreNumbers, MembershipAssumption DEF IInv, TypeOK, CandidateIsOldestSeen, Settles
  <1>3. CASE Settles
    <2>1. Decider' = Decision!Oldest(seen)
      BY <1>2, <1>3, OldestIs DEF IInv, CandidateIsOldestSeen, Decider
    <2> QED BY <1>1, <1>2, <1>3, <2>1
            DEF Decision!WaitEnds, Decision!Decide, WaitOver, Decider, terminal
  <1>4. CASE ~Settles
    <2>1. Decider' = Decider
      BY <1>4 DEF Decider, terminal
    <2> QED BY <1>1, <1>2, <1>4, <2>1
            DEF Decision!WaitEnds, Decision!Undecided, Decision!GiveUp, WaitOver, Decider, terminal
  <1> QED
    BY <1>3, <1>4

LEMMA RoundTimerDecides ==
  ASSUME IInv, IInv', RoundTimer
  PROVE  Decision!WaitEnds \/ Decision!Unanswered \/ UNCHANGED Decision!vars
  <1>1. request' = request /\ UNCHANGED <<seen, candidate>>
    BY DEF RoundTimer, ArmRound, sendVars
  <1>2. /\ ~terminal /\ finalReceive = FALSE /\ round \in Nat /\ round \in Rounds /\ request \in Requests
        /\ waited' = waited + Gap(round) /\ waited \in Nat
    BY RequestFacts DEF IInv, TypeOK, TimerIsSane, ClockIsSane, RoundTimer, terminal
  <1>3. IF Settles THEN outcome' = "answer" ELSE outcome' \in {"none", "timeout", "undelivered"}
    BY <1>2 DEF RoundTimer, ArmRound, Finish, Wait, terminal
  <1>4. Gap(0)' = Gap(0) /\ Gap(0) \in Nat /\ Gap(round) \in Nat
    BY <1>1, <1>2, RequestFacts, GapFacts DEF Gap, Policy
  <1>5. CASE round = 0
    <2>1. ~WaitOver /\ WaitOver'
      BY <1>2, <1>4, <1>5, WaitOverMeans DEF WaitOver
    <2> QED BY <1>1, <1>2, <1>3, <2>1, FirstWaitEnds
  <1>6. CASE round > 0
    <2>1. WaitOver /\ WaitOver'
      BY <1>2, <1>4, <1>6, WaitOverMeans DEF WaitOver
    <2>2. seen = {} /\ ~Settles
      BY <1>2, <1>6 DEF IInv, HeardMeansFirstRound, CandidateIsOldestSeen, Settles, terminal
    <2>3. CASE outcome' = "none"
      <3>1. ServerIds' = ServerIds
        BY <1>1, Captured
      <3>2. outcome' = outcome /\ Decider' = Decider
        BY <1>2, <2>3 DEF Decider, terminal
      <3> QED BY <1>1, <2>1, <3>1, <3>2 DEF Decision!vars, WaitOver, Decider
    <2>4. CASE outcome' \in {"timeout", "undelivered"}
      BY <1>1, <1>2, <2>1, <2>2, <2>4, GivesUpUnheard
    <2> QED BY <1>3, <2>2, <2>3, <2>4
  <1> QED
    BY <1>2, <1>5, <1>6

LEMMA DecisionStep ==
  ASSUME IInv, IInv', [Next]_vars
  PROVE  [Decision!Next]_Decision!vars
  <1>1. CASE Start
    <2>1. /\ ~terminal /\ seen = {} /\ UNCHANGED <<request, seen, candidate, waited>>
          /\ outcome' \in {"none", "undelivered"}
      BY <1>1 DEF Start, ArmRound, Finish, Wait, sendVars, IInv, TimerIsSane, terminal
    <2>2. ServerIds' = ServerIds /\ WaitOver' = WaitOver
      BY <2>1, Captured DEF WaitOver, Gap, Policy
    <2>3. CASE outcome' = "undelivered"
      BY <2>1, <2>2, <2>3, GivesUpUnheard DEF Decision!Next
    <2>4. CASE outcome' = "none"
      <3>1. outcome' = outcome /\ Decider' = Decider
        BY <2>1, <2>4 DEF Decider, terminal
      <3> QED BY <2>1, <2>2, <3>1 DEF Decision!vars, WaitOver, Decider
    <2> QED BY <2>1, <2>3, <2>4
  <1>2. ASSUME NEW k \in Rounds, NEW e \in Endpoints, SendCallback(k, e)
        PROVE  [Decision!Next]_Decision!vars
    <2>1. UNCHANGED <<request, round, finalReceive, seen, candidate, waited>> /\ e \in pending[k]
      BY <1>2 DEF SendCallback
    <2>2. ServerIds' = ServerIds /\ WaitOver' = WaitOver
      BY <2>1, Captured DEF WaitOver, Gap, Policy
    <2>3. CASE FailsRound(k, e)
      <3>1. ~terminal /\ pending[k] = {e} /\ e \in failing[k] /\ delivered[k] = FALSE
        BY <2>3 DEF FailsRound, Told, IInv, TypeOK
      <3>2. outcome' = "undelivered"
        BY <1>2, <2>3 DEF SendCallback, Finish
      <3>3. seen = {}
        <4>1. CASE round > 0
          BY <3>1, <4>1 DEF IInv, HeardMeansFirstRound, terminal
        <4>2. CASE round = 0
          <5>1. k = 0
            <6>1. k \in Nat /\ (k > round => pending[k] = {})
              BY RequestFacts DEF IInv, TypeOK, SendsAreSane
            <6> QED BY <2>1, <4>2, <6>1
          <5> QED BY <3>1, <4>2, <5>1 DEF IInv, SendsAreSane, terminal
        <4> QED BY <4>1, <4>2, RequestFacts DEF IInv, TypeOK
      <3> QED BY <2>1, <2>2, <3>1, <3>2, <3>3, GivesUpUnheard DEF Decision!Next
    <2>4. CASE ~FailsRound(k, e)
      <3>1. outcome' = outcome /\ Decider' = Decider
        BY <1>2, <2>1, <2>4 DEF SendCallback, Decider
      <3> QED BY <2>1, <2>2, <3>1 DEF Decision!vars, WaitOver, Decider
    <2> QED BY <2>3, <2>4
  <1>3. ASSUME NEW id \in ServerIds \union Strangers, OnMessage(id)
        PROVE  [Decision!Next]_Decision!vars
    BY <1>3, OnMessageDecides DEF Decision!Next
  <1>4. CASE OnInvalidMessage \/ UNCHANGED vars
    <2>1. UNCHANGED <<request, seen, candidate, waited, outcome>>
      BY <1>4 DEF OnInvalidMessage, sendVars, vars
    <2>2. ServerIds' = ServerIds /\ WaitOver' = WaitOver /\ Decider' = Decider
      BY <2>1, Captured DEF WaitOver, Gap, Policy, Decider
    <2> QED BY <2>1, <2>2 DEF Decision!vars, WaitOver, Decider
  <1>5. CASE RoundTimer
    BY <1>5, RoundTimerDecides DEF Decision!Next
  <1>6. CASE FinalTimer
    <2>1. /\ ~terminal /\ finalReceive = TRUE /\ outcome' = "timeout"
          /\ UNCHANGED <<request, seen, candidate>>
      BY <1>6 DEF FinalTimer, Finish, sendVars, IInv, TimerIsSane, ClockIsSane, TypeOK
    <2>2. seen = {} /\ WaitOver /\ WaitOver'
      BY <2>1, WaitOverMeans, WaitStaysOver DEF IInv, HeardMeansFirstRound, terminal
    <2> QED BY <2>1, <2>2, GivesUpUnheard DEF Decision!Next
  <1>7. CASE OnError \/ Cancel
    <2>1. /\ ~terminal /\ outcome' \in {"socketError", "destroyed"}
          /\ UNCHANGED <<request, seen, candidate, waited>>
      BY <1>7 DEF OnError, Cancel, Finish, sendVars
    <2>2. ServerIds' = ServerIds /\ WaitOver' = WaitOver /\ Decider' = Decider
      BY <2>1, Captured DEF WaitOver, Gap, Policy, Decider, terminal
    <2>3. Decision!Abort
      BY <2>1, <2>2 DEF Decision!Abort, Decision!GiveUp, WaitOver, Decider, terminal
    <2> QED BY <2>3 DEF Decision!Next
  <1> QED
    BY <1>1, <1>2, <1>3, <1>4, <1>5, <1>6, <1>7 DEF Next

\* Every behaviour of the request is one of AdmissionDecision: whatever races,
\* the oldest server heard in time decides, nobody younger before the first
\* wait is over, and no timeout or delivery failure throws an answer away.
THEOREM DecidesAsPromised == Spec => ImplementsDecision
  BY RequestInvariance, DecisionInit, DecisionStep, PTL DEF Spec, ImplementsDecision, Decision!Spec
=============================================================================
