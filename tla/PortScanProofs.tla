--------------------------- MODULE PortScanProofs ---------------------------
(***************************************************************************)
(* Proofs about PortScan: its safety properties, for every range of ports  *)
(* and every number of clients and of other programs.                      *)
(***************************************************************************)
EXTENDS PortScan, FiniteSetTheorems, TLAPS

-----------------------------------------------------------------------------
(* The inductive invariant. *)

\* Where p lies in the ring as seen from port s.
Offset(s, p) == IF p >= s THEN p - s ELSE p - s + PortCount

\* A scan that started at s has tried the ports from s on, one after the
\* other, and is at the next; after a whole turn it is at s again.
TurnFrom(c, s) ==
  /\ tried[c] = {p \in Ports : Offset(s, p) < tries[c]}
  /\ candidate[c] \in Ports
  /\ tries[c] < PortCount => Offset(s, candidate[c]) = tries[c]
  /\ tries[c] = PortCount => candidate[c] = s

\* A client that has a port scans from the port after it.
ScansInOrder ==
  \A c \in scanning :
    \E s \in Ports : /\ TurnFrom(c, s)
                     /\ held[c] # None => s = NextSteeringPort(held[c])

CountsTries == \A c \in scanning : Cardinality(tried[c]) = tries[c]

\* The next scan starts after the port the client holds.
NextIsAfterHeld == \A c \in Clients : held[c] # None => nextPorts[c] = NextSteeringPort(held[c])

IInv == TypeOK /\ ScansInOrder /\ CountsTries /\ NextIsAfterHeld

-----------------------------------------------------------------------------
(* The ring. *)

LEMMA PortFacts ==
  /\ PortMin \in Nat /\ PortMax \in Nat /\ 1 <= PortMin /\ PortMin <= PortMax
  /\ PortCount \in Nat \ {0} /\ PortCount = PortMax - PortMin + 1
  /\ Ports \subseteq Nat /\ None \notin Ports
  /\ \A p \in Int : p \in Ports <=> PortMin <= p /\ p <= PortMax
  BY PortsAssumption DEF Ports, PortCount

\* nextSteeringPort() goes round the ring: it stays in the range, and it is the
\* port one further on from wherever one looks, until a whole turn is done.
THEOREM NextPortTurns ==
  ASSUME NEW s \in Ports, NEW p \in Ports
  PROVE  /\ NextSteeringPort(p) \in Ports
         /\ Offset(s, p) \in 0..(PortCount - 1)
         /\ Offset(s, p) < PortCount - 1 => Offset(s, NextSteeringPort(p)) = Offset(s, p) + 1
         /\ Offset(s, p) = PortCount - 1 => NextSteeringPort(p) = s
         /\ Offset(NextSteeringPort(p), p) = PortCount - 1
  BY PortFacts DEF NextSteeringPort, Offset

LEMMA OffsetIsOneToOne ==
  ASSUME NEW s \in Ports, NEW p \in Ports, NEW q \in Ports, Offset(s, p) = Offset(s, q)
  PROVE  p = q
  BY PortFacts DEF Offset

-----------------------------------------------------------------------------
(* Each action preserves the invariant. *)

LEMMA InitInv == Init => IInv
  BY PortFacts DEF Init, IInv, TypeOK, ScansInOrder, CountsTries, NextIsAfterHeld

LEMMA StartScanInv == ASSUME IInv, NEW c \in Clients, StartScan(c) PROVE IInv'
  <1>1. /\ scanning' = scanning \union {c}
        /\ candidate' = [candidate EXCEPT ![c] = FirstCandidate(StartPort(c))]
        /\ tries' = [tries EXCEPT ![c] = 0]
        /\ tried' = [tried EXCEPT ![c] = {}]
        /\ UNCHANGED <<taken, held, nextPorts, gone>>
    BY DEF StartScan
  <1>2. PICK s \in Ports : /\ s = FirstCandidate(StartPort(c))
                           /\ held[c] # None => s = NextSteeringPort(held[c])
    <2>1. FirstCandidate(StartPort(c)) \in Ports
      BY PortFacts DEF FirstCandidate
    <2>2. ASSUME held[c] # None PROVE FirstCandidate(StartPort(c)) = NextSteeringPort(held[c])
      <3>1. held[c] \in Ports /\ nextPorts[c] = NextSteeringPort(held[c])
        BY <2>2 DEF IInv, TypeOK, NextIsAfterHeld
      <3>2. NextSteeringPort(held[c]) \in Ports
        BY <3>1, NextPortTurns
      <3> QED BY <3>1, <3>2, PortFacts DEF FirstCandidate, StartPort
    <2> QED BY <2>1, <2>2
  <1>3. TypeOK'
    BY <1>1, <1>2, PortFacts DEF IInv, TypeOK
  <1>4. candidate'[c] = s /\ tries'[c] = 0 /\ tried'[c] = {}
    BY <1>1, <1>2 DEF IInv, TypeOK
  <1>5. TurnFrom(c, s)'
    <2>1. \A p \in Ports : ~ (Offset(s, p) < 0)
      BY PortFacts, NextPortTurns
    <2>2. Offset(s, s) = 0 /\ 0 # PortCount
      BY PortFacts DEF Offset
    <2>3. tried'[c] = {p \in Ports : Offset(s, p) < 0}
      BY <1>4, <2>1
    <2> QED BY <1>4, <2>2, <2>3 DEF TurnFrom, Offset
  <1>6. ScansInOrder'
    <2>1. ASSUME NEW d \in scanning, d # c, NEW t \in Ports, TurnFrom(d, t) PROVE TurnFrom(d, t)'
      BY <1>1, <2>1 DEF IInv, TypeOK, TurnFrom, Offset
    <2> QED BY <1>1, <1>2, <1>5, <2>1 DEF IInv, ScansInOrder
  <1>7. CountsTries'
    BY <1>1, <1>4, FS_EmptySet DEF IInv, TypeOK, CountsTries
  <1>8. NextIsAfterHeld'
    BY <1>1 DEF IInv, NextIsAfterHeld
  <1> QED
    BY <1>3, <1>6, <1>7, <1>8 DEF IInv

\* A scan that goes on is not touched by the end of another.
LEMMA OthersGoOn ==
  ASSUME IInv, NEW c \in Clients, scanning' = scanning \ {c},
         candidate' = [candidate EXCEPT ![c] = None],
         UNCHANGED <<tries, tried>>,
         \A d \in Clients \ {c} : held'[d] = held[d]
  PROVE  ScansInOrder' /\ CountsTries'
  <1>1. ASSUME NEW d \in scanning \ {c}, NEW s \in Ports, TurnFrom(d, s)
        PROVE  TurnFrom(d, s)'
    BY <1>1 DEF IInv, TypeOK, TurnFrom, Offset
  <1>2. ScansInOrder'
    BY <1>1 DEF IInv, TypeOK, ScansInOrder
  <1>3. CountsTries'
    BY DEF IInv, CountsTries
  <1> QED
    BY <1>2, <1>3

LEMMA BoundInv == ASSUME IInv, NEW c \in Clients, Bound(c) PROVE IInv'
  <1>1. /\ c \in scanning
        /\ scanning' = scanning \ {c}
        /\ candidate' = [candidate EXCEPT ![c] = None]
        /\ UNCHANGED <<tries, tried, taken, gone>>
    BY DEF Bound, EndScan
  <1>2. \/ UNCHANGED <<held, nextPorts>>
        \/ /\ held' = [held EXCEPT ![c] = candidate[c]]
           /\ nextPorts' = [nextPorts EXCEPT ![c] = NextSteeringPort(candidate[c])]
    BY DEF Bound, NextPortAfter
  <1>3. candidate[c] \in Ports /\ NextSteeringPort(candidate[c]) \in Ports
    BY <1>1, NextPortTurns DEF IInv, ScansInOrder, TurnFrom
  <1>4. TypeOK' /\ NextIsAfterHeld'
    BY <1>1, <1>2, <1>3 DEF IInv, TypeOK, NextIsAfterHeld
  <1>5. \A d \in Clients \ {c} : held'[d] = held[d]
    BY <1>2 DEF IInv, TypeOK
  <1> QED
    BY <1>1, <1>4, <1>5, OthersGoOn DEF IInv

LEMMA SkipInv == ASSUME IInv, NEW c \in Clients, Skip(c) PROVE IInv'
  <1>1. /\ c \in scanning /\ tries[c] < PortCount
        /\ tried' = [tried EXCEPT ![c] = @ \union {candidate[c]}]
        /\ tries' = [tries EXCEPT ![c] = @ + 1]
        /\ candidate' = [candidate EXCEPT ![c] = NextSteeringPort(@)]
        /\ UNCHANGED <<taken, held, nextPorts, scanning, gone>>
    BY DEF Skip
  <1>2. PICK s \in Ports : TurnFrom(c, s) /\ (held[c] # None => s = NextSteeringPort(held[c]))
    BY <1>1 DEF IInv, ScansInOrder
  <1> DEFINE p == candidate[c]
             n == tries[c]
  <1>3. p \in Ports /\ Offset(s, p) = n /\ n \in Nat /\ n < PortCount
    BY <1>1, <1>2 DEF IInv, TypeOK, TurnFrom
  <1>4. candidate'[c] = NextSteeringPort(p) /\ tries'[c] = n + 1 /\ tried'[c] = tried[c] \union {p}
    BY <1>1 DEF IInv, TypeOK
  <1> HIDE DEF p, n
  <1>5. TypeOK'
    <2>1. NextSteeringPort(p) \in Ports /\ n + 1 \in 0..PortCount
      BY <1>3, NextPortTurns, PortFacts
    <2> QED BY <1>1, <1>3, <2>1 DEF IInv, TypeOK, p, n
  <1>6. tried'[c] = {q \in Ports : Offset(s, q) < n + 1}
    <2>1. tried[c] = {q \in Ports : Offset(s, q) < n}
      BY <1>2 DEF TurnFrom, n
    <2>2. \A q \in Ports : Offset(s, q) \in Nat
      BY NextPortTurns, PortFacts
    <2>3. \A q \in Ports : Offset(s, q) < n + 1 <=> Offset(s, q) < n \/ q = p
      BY <1>3, <2>2, OffsetIsOneToOne
    <2> QED BY <1>3, <1>4, <2>1, <2>3
  <1>7. TurnFrom(c, s)'
    <2>1. NextSteeringPort(p) \in Ports
      BY <1>3, NextPortTurns
    <2>2. n + 1 < PortCount => Offset(s, NextSteeringPort(p)) = n + 1
      BY <1>3, NextPortTurns, PortFacts
    <2>3. n + 1 = PortCount => NextSteeringPort(p) = s
      BY <1>3, NextPortTurns, PortFacts
    <2> QED BY <1>4, <1>6, <2>1, <2>2, <2>3 DEF TurnFrom, Offset
  <1>8. ScansInOrder'
    <2>1. ASSUME NEW d \in scanning, d # c, NEW t \in Ports, TurnFrom(d, t) PROVE TurnFrom(d, t)'
      BY <1>1, <2>1 DEF IInv, TypeOK, TurnFrom, Offset
    <2> QED BY <1>1, <1>2, <1>7, <2>1 DEF IInv, ScansInOrder
  <1>9. CountsTries'
    <2>1. p \notin tried[c] /\ tried[c] \subseteq Ports
      BY <1>2, <1>3 DEF TurnFrom, n
    <2>2. IsFiniteSet(tried[c])
      BY <2>1, PortFacts, FS_Interval, FS_Subset DEF Ports
    <2>3. Cardinality(tried[c]) = n
      BY <1>1 DEF IInv, CountsTries, n
    <2>4. Cardinality(tried'[c]) = n + 1
      BY <1>4, <2>1, <2>2, <2>3, FS_AddElement
    <2> QED BY <1>1, <1>4, <2>4 DEF IInv, TypeOK, CountsTries
  <1>10. NextIsAfterHeld'
    BY <1>1 DEF IInv, NextIsAfterHeld
  <1> QED
    BY <1>5, <1>8, <1>9, <1>10 DEF IInv

LEMMA EndOfScanInv == ASSUME IInv, NEW c \in Clients, BindError(c) \/ ScanFails(c) PROVE IInv'
  <1>1. /\ scanning' = scanning \ {c}
        /\ candidate' = [candidate EXCEPT ![c] = None]
        /\ UNCHANGED <<tries, tried, taken, held, nextPorts, gone>>
    BY DEF BindError, ScanFails, EndScan
  <1>2. TypeOK' /\ NextIsAfterHeld'
    BY <1>1 DEF IInv, TypeOK, NextIsAfterHeld
  <1> QED
    BY <1>1, <1>2, OthersGoOn DEF IInv

\* What other programs do, and destroy(), leaves the scans where they are.
LEMMA BystanderInv ==
  ASSUME IInv, UNCHANGED <<nextPorts, scanning, scanVars>>,
         \/ taken' \subseteq Ports /\ UNCHANGED <<held, gone>>
         \/ \E c \in Clients : Destroy(c)
  PROVE  IInv'
  <1>1. UNCHANGED <<nextPorts, scanning, candidate, tries, tried>>
    BY DEF scanVars
  <1>2. TypeOK'
    BY <1>1 DEF IInv, TypeOK, Destroy
  <1>3. \A c \in Clients : held'[c] \in {held[c], None}
    BY DEF IInv, TypeOK, Destroy
  <1>4. ASSUME NEW c \in scanning, NEW s \in Ports, TurnFrom(c, s) PROVE TurnFrom(c, s)'
    BY <1>1, <1>4 DEF TurnFrom, Offset
  <1>5. ScansInOrder'
    BY <1>1, <1>3, <1>4 DEF IInv, TypeOK, ScansInOrder
  <1>6. CountsTries' /\ NextIsAfterHeld'
    BY <1>1, <1>3 DEF IInv, CountsTries, NextIsAfterHeld
  <1> QED
    BY <1>2, <1>5, <1>6 DEF IInv

LEMMA StepInv == ASSUME IInv, [Next]_vars PROVE IInv'
  <1>1. ASSUME NEW c \in Clients, Destroy(c) PROVE IInv'
    BY <1>1, BystanderInv DEF Destroy
  <1>2. ASSUME NEW p \in Ports, OthersTake(p) \/ OthersFree(p) PROVE IInv'
    <2>1. taken' \subseteq Ports /\ UNCHANGED <<nextPorts, scanning, scanVars, held, gone>>
      BY <1>2 DEF OthersTake, OthersFree, IInv, TypeOK
    <2> QED BY <2>1, BystanderInv
  <1>3. CASE UNCHANGED vars
    <2>1. taken' \subseteq Ports /\ UNCHANGED <<nextPorts, scanning, scanVars, held, gone>>
      BY <1>3 DEF vars, scanVars, IInv, TypeOK
    <2> QED BY <2>1, BystanderInv
  <1> QED
    BY <1>1, <1>2, <1>3, StartScanInv, BoundInv, SkipInv, EndOfScanInv DEF Next, Scan

\* Every scan goes round the ring from where it began, for every range of
\* ports, whatever other clients and programs do meanwhile.
THEOREM ScanInvariance == Spec => []IInv
  BY InitInv, StepInv, PTL DEF Spec

-----------------------------------------------------------------------------
(* The properties that run "portscan" checks. *)

\* The variables keep to their types; no scan makes more attempts than there
\* are ports, nor one outside the range.
THEOREM ScanTypeCorrect == Spec => []TypeOK
  BY ScanInvariance, PTL DEF IInv

\* bindNextSteeringSocket throws "no port available" only if it has found each
\* port of the range occupied, once.
THEOREM LeavesNoPortOut == Spec => []NoneIsLeftOut
  <1>1. ASSUME IInv PROVE NoneIsLeftOut
    <2>1. ASSUME NEW c \in scanning, Exhausted(c) PROVE tried[c] = Ports
      <3>1. PICK s \in Ports : TurnFrom(c, s)
        BY <1>1 DEF IInv, ScansInOrder
      <3>2. \A p \in Ports : Offset(s, p) < PortCount
        BY NextPortTurns, PortFacts
      <3>3. tries[c] = PortCount
        BY <1>1, <2>1, PortFacts DEF IInv, TypeOK, Exhausted
      <3> QED BY <3>1, <3>2, <3>3 DEF TurnFrom
    <2> QED BY <1>1, <2>1 DEF IInv, CountsTries, NoneIsLeftOut
  <1> QED
    BY <1>1, ScanInvariance, PTL

\* A rebind comes back to the port in use only after a whole turn.
THEOREM TriesOwnPortLast == Spec => []OwnPortLast
  <1>1. ASSUME IInv PROVE OwnPortLast
    <2>1. ASSUME NEW c \in scanning, held[c] \in tried[c] PROVE tried[c] = Ports
      <3>1. held[c] \in Ports
        BY <1>1, <2>1 DEF IInv, TypeOK
      <3>2. PICK s \in Ports : TurnFrom(c, s) /\ s = NextSteeringPort(held[c])
        BY <1>1, <3>1, PortFacts DEF IInv, ScansInOrder
      <3>3. PortCount - 1 < tries[c]
        BY <2>1, <3>1, <3>2, NextPortTurns DEF TurnFrom
      <3>4. \A p \in Ports : Offset(s, p) < tries[c]
        BY <1>1, <3>3, NextPortTurns, PortFacts DEF IInv, TypeOK
      <3> QED BY <3>2, <3>4 DEF TurnFrom
    <2> QED BY <2>1 DEF OwnPortLast
  <1> QED
    BY <1>1, ScanInvariance, PTL
=============================================================================
