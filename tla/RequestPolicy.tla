--------------------------- MODULE RequestPolicy ---------------------------
(***************************************************************************)
(* HaSchedule and RequestPolicy of src/client.js: how long each round of a *)
(* rate request waits, in units, and the horizon that results.             *)
(***************************************************************************)
EXTENDS Integers

\* The arguments the constructor of HaSchedule accepts.
ValidSchedule(s) ==
  /\ s.kind \in {"fixed", "linear", "exponential"}
  /\ {s.initialUnits, s.maxUnits, s.growth} \subseteq Nat
  /\ s.initialUnits >= 1
  /\ s.maxUnits >= s.initialUnits
  /\ s.kind = "fixed" => s.maxUnits = s.initialUnits /\ s.growth = 0
  /\ s.kind = "linear" => s.growth >= 1
  /\ s.kind = "exponential" => s.growth >= 2

Fixed(units) ==
  [kind |-> "fixed", initialUnits |-> units, maxUnits |-> units, growth |-> 0]
Linear(initial, step, max) ==
  [kind |-> "linear", initialUnits |-> initial, maxUnits |-> max, growth |-> step]
Exponential(initial, factor, max) ==
  [kind |-> "exponential", initialUnits |-> initial, maxUnits |-> max, growth |-> factor]

AtMost(v, max) == IF v > max THEN max ELSE v

\* The loop of units() for an exponential schedule.  It stops at maxUnits, so
\* its product never grows beyond maxUnits * growth.
Grown(s) ==
  LET value[i \in Nat] ==
        IF i = 0 THEN s.initialUnits
        ELSE IF value[i - 1] >= s.maxUnits THEN value[i - 1]
        ELSE AtMost(value[i - 1] * s.growth, s.maxUnits)
  IN  value

\* units(): the wait of a round.
Units(s, round) ==
  CASE s.kind = "fixed" -> s.initialUnits
    [] s.kind = "linear" -> AtMost(s.initialUnits + round * s.growth, s.maxUnits)
    [] s.kind = "exponential" -> AtMost(Grown(s)[round], s.maxUnits)

\* The loop of horizonMs(): the units the first n rounds wait.
UnitsBefore(p, n) ==
  LET total[k \in Nat] == IF k = 0 THEN 0 ELSE total[k - 1] + Units(p.replayGap, k - 1)
  IN  total[n]

\* horizonMs() before it is multiplied by unitMs.
HorizonUnits(p) == p.finalReceiveUnits + UnitsBefore(p, p.replayCount + 1)

MaxReplays == 65535

\* The arguments the constructor of RequestPolicy accepts.
ValidPolicy(p) ==
  /\ p.unitMs \in Nat \ {0}
  /\ p.replayCount \in 0..MaxReplays
  /\ ValidSchedule(p.replayGap)
  /\ p.finalReceiveUnits \in Nat

HorizonMs(p) == HorizonUnits(p) * p.unitMs

\* horizonMs() throws for a policy that is longer than the quota.
WithinQuota(p, dedupTtlMsMax) == HorizonMs(p) <= dedupTtlMsMax
=============================================================================
