---------------------------- MODULE RClientProofs ---------------------------
(***************************************************************************)
(* Proofs about RClient, for any set of calls and any set of sockets: its  *)
(* safety properties, that it implements CallContract and keeps within     *)
(* LookupContract, that destroy() silences what was on its way, and that   *)
(* no call waits in vain for a transport.                                  *)
(***************************************************************************)
EXTENDS RClient, FiniteSetTheorems, TLAPS

\* The pieces of IInv, for the steps that take it apart.
LEMMA IInvParts ==
  ASSUME TypeOK, CalledOnce, CountsCalls, HoldsInFlight, InFlightOnCurrent,
         LookupsAreAwaited, LoopIsSane, GrantsCurrent, QueueIsSane,
         OnlyCurrentIsOpen, OneBind, SteeringIsSane, DrainBeforeRebind,
         PendingIsWoken, DestroyedIsQuiet
  PROVE  IInv
  BY DEF IInv

LEMMA InitInv == Init => IInv
  <1> SUFFICES ASSUME Init PROVE IInv
    OBVIOUS
  <1> USE DEF Init
  <1>1. TypeOK
    BY OpsAssumption, SocketsAssumption DEF TypeOK, Stages, Results, SocketStates, NoLoop, LoopKinds
  <1>2. CalledOnce
    BY DEF CalledOnce
  <1>3. CountsCalls
    <2> SUFFICES ASSUME NEW s \in Sockets PROVE inFlightCount[s] = Cardinality(InFlight(s))
      BY DEF CountsCalls
    <2>1. InFlight(s) = {}
      BY DEF InFlight
    <2> QED
      BY <2>1, FS_EmptySet
  <1>4. HoldsInFlight /\ InFlightOnCurrent /\ LookupsAreAwaited
    BY DEF HoldsInFlight, InFlightOnCurrent, LookupsAreAwaited
  <1>5. LoopIsSane /\ GrantsCurrent
    BY DEF LoopIsSane, GrantsCurrent, NoLoop
  <1>6. QueueIsSane /\ OnlyCurrentIsOpen /\ OneBind
    BY SocketsAssumption DEF QueueIsSane, OnlyCurrentIsOpen, OneBind, Binding
  <1>7. SteeringIsSane /\ DrainBeforeRebind /\ PendingIsWoken /\ DestroyedIsQuiet
    BY DEF SteeringIsSane, DrainBeforeRebind, PendingIsWoken, DestroyedIsQuiet
  <1> QED
    BY <1>1, <1>2, <1>3, <1>4, <1>5, <1>6, <1>7, IInvParts

\* A report, or a request whose sends all throw, leaves the transport as it
\* found it: with no other call in flight there is no drain callback to run.
LEMMA LeaveAsFound ==
  ASSUME IInv, NEW s \in Sockets, Leave(s, inFlightCount[s], FALSE)
  PROVE  UNCHANGED <<socket, inFlightCount, drain, retired, steeringVars>>
  <1> DEFINE drained == IF DrainsAt(inFlightCount[s]) THEN drain[s] ELSE {}
  <1>1. drained = {}
    <2>1. CASE inFlightCount[s] = 0 /\ drain[s] # {}
      BY <2>1 DEF IInv, SteeringIsSane, PendingIsWoken, TypeOK
    <2> QED
      BY <2>1 DEF DrainsAt
  <1>2. /\ inFlightCount' = [inFlightCount EXCEPT ![s] = inFlightCount[s]]
        /\ drain' = [t \in Sockets |-> drain[t]]
        /\ retired' = retired
        /\ steeringPending' = steeringPending
        /\ rebindOf' = rebindOf
        /\ StartRebind(FALSE, socket)
    BY <1>1 DEF Leave, AcceptsAdvice, IInv, TypeOK
  <1> QED
    BY <1>2 DEF StartRebind, IInv, TypeOK, steeringVars

\* What a call that leaves transport s may do to the steering: nothing ...
NoSteering == UNCHANGED <<socket, drain, steeringVars>>

\* ... make advice wait for the calls that stay ...
AdviceWaits(s) ==
  /\ ~steeringPending
  /\ socket' = socket
  /\ drain' = [drain EXCEPT ![s] = {"executeRebind"}]
  /\ steeringPending' = TRUE
  /\ steeringApplying' = FALSE
  /\ rebindOf' = s

\* ... or, as the last one, start the rebind.
RebindStarts(s) ==
  /\ drain' = [t \in Sockets |-> {}]
  /\ steeringPending' = TRUE
  /\ steeringApplying' = TRUE
  /\ rebindOf' = s
  /\ \E n \in Sockets : /\ socket[n] = "closed"
                        /\ socket' = [socket EXCEPT ![n] = "rebinding"]

\* The three ways a call in flight can leave its transport.
LEMMA LeaveOne ==
  ASSUME IInv, ~steeringApplying, ~destroyed, current \in Sockets,
         NEW left \in Nat, NEW advised \in BOOLEAN,
         Leave(current, left, advised)
  PROVE  /\ inFlightCount' = [inFlightCount EXCEPT ![current] = left]
         /\ retired' = retired
         /\ \/ NoSteering /\ (steeringPending => left > 0)
            \/ AdviceWaits(current) /\ left > 0
            \/ RebindStarts(current) /\ left = 0
  <1> DEFINE drained == IF DrainsAt(left) THEN drain[current] ELSE {}
             accepts == AcceptsAdvice(advised)
             count == [inFlightCount EXCEPT ![current] = left]
             waits == accepts /\ MustWait(current, count)
  <1>1. /\ drain \in [Sockets -> SUBSET DrainCallbacks]
        /\ count[current] = left
        /\ \A t \in Sockets : drain[t] # {} =>
             drain[t] = {"executeRebind"} /\ t = current /\ steeringPending /\ ~steeringApplying
        /\ steeringPending => drain[current] = {"executeRebind"} /\ rebindOf = current
        /\ steeringPending \in BOOLEAN /\ steeringApplying = FALSE /\ current # None
    BY SocketsAssumption DEF IInv, TypeOK, SteeringIsSane, PendingIsWoken
  <1>2. /\ inFlightCount' = count
        /\ drain' = [t \in Sockets |->
                       (drain[t] \ (IF t = current THEN drained ELSE {}))
                         \union (IF waits /\ t = current THEN {"executeRebind"} ELSE {})]
        /\ steeringPending' = (steeringPending \/ accepts)
        /\ rebindOf' = IF accepts THEN current ELSE rebindOf
        /\ retired' = retired
        /\ StartRebind(\/ "executeRebind" \in drained /\ ~steeringApplying
                       \/ accepts /\ ~waits, socket)
    <2>1. "closeRetiringSocket" \notin drained
      BY <1>1
    <2> QED
      BY <2>1 DEF Leave
  <1>3. waits <=> accepts /\ left > 0
    BY <1>1 DEF MustWait
  <1>4. accepts <=> advised /\ ~steeringPending
    BY DEF AcceptsAdvice
  <1>5. DrainsAt(left) <=> left = 0
    BY DEF DrainsAt
  <1> HIDE DEF count, waits, accepts
  <1>6. CASE ~accepts /\ (steeringPending => left > 0)
    <2>1. drained = {}
      BY <1>1, <1>5, <1>6
    <2>2. drain' = drain
      BY <1>1, <1>2, <1>3, <1>6, <2>1
    <2>3. UNCHANGED <<socket, steeringApplying>>
      BY <1>2, <1>6, <2>1 DEF StartRebind
    <2> QED
      BY <1>1, <1>2, <1>6, <2>2, <2>3 DEF NoSteering, steeringVars, count
  <1>7. CASE accepts /\ left > 0
    <2>1. drained = {}
      BY <1>5, <1>7
    <2>2. drain' = [drain EXCEPT ![current] = {"executeRebind"}]
      BY <1>1, <1>2, <1>3, <1>4, <1>7, <2>1
    <2>3. UNCHANGED <<socket, steeringApplying>>
      BY <1>2, <1>3, <1>7, <2>1 DEF StartRebind
    <2> QED
      BY <1>1, <1>2, <1>4, <1>7, <2>2, <2>3 DEF AdviceWaits, count
  <1>8. CASE left = 0 /\ (accepts \/ steeringPending)
    <2>1. drain' = [t \in Sockets |-> {}]
      BY <1>1, <1>2, <1>3, <1>5, <1>8
    <2>2. \/ "executeRebind" \in drained /\ ~steeringApplying
          \/ accepts /\ ~waits
      BY <1>1, <1>3, <1>5, <1>8
    <2>3. /\ steeringApplying' = TRUE
          /\ \E n \in Sockets : /\ socket[n] = "closed"
                                /\ socket' = [socket EXCEPT ![n] = "rebinding"]
      BY <1>2, <2>2 DEF StartRebind
    <2>4. rebindOf' = current
      BY <1>1, <1>2, <1>8
    <2> QED
      BY <1>2, <1>8, <2>1, <2>3, <2>4 DEF RebindStarts, count
  <1> QED
    BY <1>6, <1>7, <1>8

-----------------------------------------------------------------------------
(* Counting. *)

LEMMA CountsSame ==
  ASSUME CountsCalls, inFlightCount' = inFlightCount,
         \A s \in Sockets : InFlight(s)' = InFlight(s)
  PROVE  CountsCalls'
  BY DEF CountsCalls

LEMMA InFlightIsFinite == \A s : IsFiniteSet(InFlight(s))
  BY OpsAssumption, FS_Subset DEF InFlight

\* A call that is settled leaves the transport it held.
LEMMA CountsOneLess ==
  ASSUME TypeOK, CountsCalls, NEW o \in Ops, NEW s \in Sockets, NEW r,
         stage[o] = "inflight", transport[o] = s, Settle(o, r),
         inFlightCount' = [inFlightCount EXCEPT ![s] = inFlightCount[s] - 1]
  PROVE  CountsCalls'
  <1> SUFFICES ASSUME NEW t \in Sockets PROVE inFlightCount'[t] = Cardinality(InFlight(t)')
    BY DEF CountsCalls
  <1>1. InFlight(t)' = InFlight(t) \ {o}
    BY SocketsAssumption DEF InFlight, Settle, TypeOK
  <1>2. IsFiniteSet(InFlight(t)) /\ inFlightCount[t] = Cardinality(InFlight(t))
    BY InFlightIsFinite DEF CountsCalls
  <1>3. Cardinality(InFlight(t) \ {o}) = IF o \in InFlight(t) THEN inFlightCount[t] - 1 ELSE inFlightCount[t]
    BY <1>2, FS_RemoveElement
  <1>4. o \in InFlight(t) <=> t = s
    BY DEF InFlight
  <1> QED
    BY <1>1, <1>3, <1>4 DEF TypeOK

\* A call in flight is counted.
LEMMA CountIsPositive ==
  ASSUME TypeOK, CountsCalls, NEW o \in Ops, NEW s \in Sockets,
         stage[o] = "inflight", transport[o] = s
  PROVE  inFlightCount[s] \in Nat /\ inFlightCount[s] - 1 \in Nat
  <1>1. IsFiniteSet(InFlight(s)) /\ inFlightCount[s] = Cardinality(InFlight(s))
    BY InFlightIsFinite DEF CountsCalls
  <1>2. o \in InFlight(s)
    BY DEF InFlight
  <1>3. inFlightCount[s] # 0
    BY <1>1, <1>2, FS_EmptySet
  <1> QED
    BY <1>3 DEF TypeOK

\* No call is in flight on a transport that counts none.
LEMMA ZeroMeansNone ==
  ASSUME CountsCalls, NEW s \in Sockets, inFlightCount[s] = 0
  PROVE  InFlight(s) = {}
  BY InFlightIsFinite, FS_EmptySet DEF CountsCalls

\* A call that takes the transport is counted.
LEMMA CountsOneMore ==
  ASSUME TypeOK, CountsCalls, NEW o \in Ops, NEW s \in Sockets,
         stage[o] # "inflight", MoveTo(o, "inflight", s),
         inFlightCount' = [inFlightCount EXCEPT ![s] = inFlightCount[s] + 1]
  PROVE  CountsCalls'
  <1> SUFFICES ASSUME NEW t \in Sockets PROVE inFlightCount'[t] = Cardinality(InFlight(t)')
    BY DEF CountsCalls
  <1>1. InFlight(t)' = IF t = s THEN InFlight(t) \union {o} ELSE InFlight(t)
    BY DEF InFlight, MoveTo, TypeOK
  <1>2. IsFiniteSet(InFlight(t)) /\ inFlightCount[t] = Cardinality(InFlight(t))
    BY InFlightIsFinite DEF CountsCalls
  <1>3. o \notin InFlight(t)
    BY DEF InFlight
  <1>4. Cardinality(InFlight(t) \union {o}) = inFlightCount[t] + 1
    BY <1>2, <1>3, FS_AddElement
  <1> QED
    BY <1>1, <1>2, <1>4 DEF TypeOK

-----------------------------------------------------------------------------
(***************************************************************************)
(* What a handler does to one call, whichever handler does it.  The loop   *)
(* that may be running stays as it is or goes on without the calls "over". *)
(***************************************************************************)
LoopGoesOn(over) ==
  /\ loop' \in [does : LoopKinds, on : Sockets \union {None}, rest : SUBSET Ops]
  /\ inUser' \in BOOLEAN
  /\ loop'.rest \subseteq loop.rest \ over
  /\ loop'.rest # {} => loop'.does = loop.does /\ loop'.on = loop.on
  /\ loop'.rest # {} <=> loop'.does # "none"

DnsMovesOn ==
  /\ lookups' \subseteq lookups
  /\ known' \in BOOLEAN /\ fresh' \in BOOLEAN

\* Nothing happens to the calls and the transport.
LEMMA NothingHappens ==
  ASSUME IInv, LoopGoesOn({}), DnsMovesOn,
         UNCHANGED <<destroyed, callVars, netVars, initQueue, steeringVars>>
  PROVE  IInv'
  <1> USE DEF callVars, netVars, steeringVars
  <1>1. TypeOK'
    BY DEF IInv, TypeOK, LoopGoesOn, DnsMovesOn
  <1>2. CalledOnce' /\ HoldsInFlight' /\ InFlightOnCurrent'
    BY DEF IInv, CalledOnce, HoldsInFlight, InFlightOnCurrent
  <1>3. CountsCalls'
    BY CountsSame DEF IInv, InFlight
  <1>4. LookupsAreAwaited'
    BY DEF IInv, LookupsAreAwaited, DnsMovesOn
  <1>5. LoopIsSane' /\ GrantsCurrent'
    BY DEF IInv, LoopIsSane, GrantsCurrent, LoopGoesOn
  <1>6. QueueIsSane'
    BY DEF IInv, QueueIsSane, Binding, LoopGoesOn
  <1>7. OnlyCurrentIsOpen' /\ OneBind' /\ SteeringIsSane' /\ DrainBeforeRebind'
    BY DEF IInv, OnlyCurrentIsOpen, OneBind, Binding, SteeringIsSane, DrainBeforeRebind
  <1>8. PendingIsWoken' /\ DestroyedIsQuiet'
    BY DEF IInv, PendingIsWoken, DestroyedIsQuiet
  <1> QED
    BY <1>1, <1>2, <1>3, <1>4, <1>5, <1>6, <1>7, <1>8 DEF IInv

\* A call that holds no transport is settled.
LEMMA SettledWithoutTransport ==
  ASSUME IInv, NEW o \in Ops, stage[o] \in {"idle", "resolving", "queued"}, o \notin initQueue,
         NEW r \in Results \ {"none"}, Settle(o, r),
         LoopGoesOn({o}), DnsMovesOn,
         UNCHANGED <<destroyed, netVars, initQueue, steeringVars>>
  PROVE  IInv'
  <1> USE DEF netVars, steeringVars
  <1>0. /\ stage' = [stage EXCEPT ![o] = "settled"]
        /\ transport' = [transport EXCEPT ![o] = None]
        /\ transport[o] = None
        /\ stage \in [Ops -> Stages] /\ transport \in [Ops -> Sockets \union {None}]
    BY DEF Settle, IInv, HoldsInFlight, TypeOK
  <1>1. TypeOK'
    BY DEF IInv, TypeOK, LoopGoesOn, DnsMovesOn, Settle, Stages
  <1>2. CalledOnce'
    BY DEF IInv, TypeOK, CalledOnce, Settle
  <1>3. HoldsInFlight' /\ InFlightOnCurrent'
    BY <1>0 DEF IInv, HoldsInFlight, InFlightOnCurrent
  <1>4. CountsCalls'
    BY <1>0, CountsSame, SocketsAssumption DEF IInv, InFlight
  <1>5. LookupsAreAwaited'
    BY <1>0 DEF IInv, LookupsAreAwaited, DnsMovesOn, TypeOK
  <1>6. LoopIsSane' /\ GrantsCurrent'
    BY <1>0 DEF IInv, LoopIsSane, GrantsCurrent, LoopGoesOn, TypeOK
  <1>7. QueueIsSane'
    BY <1>0 DEF IInv, QueueIsSane, Binding, LoopGoesOn, TypeOK
  <1>8. OnlyCurrentIsOpen' /\ OneBind' /\ SteeringIsSane'
    BY DEF IInv, OnlyCurrentIsOpen, OneBind, Binding, SteeringIsSane
  <1>9. DrainBeforeRebind' /\ PendingIsWoken' /\ DestroyedIsQuiet'
    BY <1>0 DEF IInv, DrainBeforeRebind, PendingIsWoken, DestroyedIsQuiet, Active
  <1> QED
    BY <1>1, <1>2, <1>3, <1>4, <1>5, <1>6, <1>7, <1>8, <1>9 DEF IInv

\* A call takes the current transport.
LEMMA TakesTransport ==
  ASSUME IInv, NEW o \in Ops, stage[o] \in {"idle", "resolving", "queued"}, o \notin initQueue,
         ~destroyed, current \in Sockets, ~steeringApplying,
         MoveTo(o, "inflight", current),
         inFlightCount' = [inFlightCount EXCEPT ![current] = inFlightCount[current] + 1],
         lookups' \subseteq lookups \ {o}, DnsMovesOn, LoopGoesOn({o}),
         UNCHANGED <<destroyed, socket, drain, retired, current, initQueue, steeringVars>>
  PROVE  IInv'
  <1> USE DEF steeringVars
  <1>0. /\ stage' = [stage EXCEPT ![o] = "inflight"]
        /\ transport' = [transport EXCEPT ![o] = current]
        /\ transport[o] = None /\ current # None
        /\ stage \in [Ops -> Stages] /\ transport \in [Ops -> Sockets \union {None}]
    BY SocketsAssumption DEF MoveTo, IInv, HoldsInFlight, TypeOK
  <1>1. TypeOK'
    BY <1>0 DEF IInv, TypeOK, LoopGoesOn, DnsMovesOn, MoveTo, Stages
  <1>2. CalledOnce'
    BY <1>0 DEF IInv, TypeOK, CalledOnce, MoveTo
  <1>3. HoldsInFlight' /\ InFlightOnCurrent'
    BY <1>0 DEF IInv, HoldsInFlight, InFlightOnCurrent, OnlyCurrentIsOpen
  <1>4. CountsCalls'
    BY CountsOneMore DEF IInv
  <1>5. LookupsAreAwaited'
    BY <1>0 DEF IInv, LookupsAreAwaited, TypeOK
  <1>6. LoopIsSane' /\ GrantsCurrent'
    BY <1>0 DEF IInv, LoopIsSane, GrantsCurrent, LoopGoesOn, TypeOK
  <1>7. QueueIsSane'
    BY <1>0 DEF IInv, QueueIsSane, Binding, LoopGoesOn, TypeOK
  <1>8. OnlyCurrentIsOpen' /\ OneBind' /\ SteeringIsSane'
    BY DEF IInv, OnlyCurrentIsOpen, OneBind, Binding, SteeringIsSane
  <1>9. DrainBeforeRebind' /\ DestroyedIsQuiet'
    BY <1>0 DEF IInv, DrainBeforeRebind, DestroyedIsQuiet, TypeOK
  <1>10. PendingIsWoken'
    BY DEF IInv, PendingIsWoken, TypeOK
  <1> QED
    BY <1>1, <1>2, <1>3, <1>4, <1>5, <1>6, <1>7, <1>8, <1>9, <1>10 DEF IInv

\* A call waits for a transport; the first to wait starts the bind.
LEMMA WaitsForTransport ==
  ASSUME IInv, NEW o \in Ops, stage[o] \in {"idle", "resolving"}, o \notin loop.rest,
         ~destroyed, ~CanUseCurrent,
         MoveTo(o, "queued", None),
         initQueue' = initQueue \union {o},
         IF FlushIsComing
         THEN UNCHANGED socket
         ELSE \E n \in Sockets : /\ socket[n] = "closed"
                                 /\ socket' = [socket EXCEPT ![n] = "binding"],
         lookups' \subseteq lookups \ {o}, DnsMovesOn,
         UNCHANGED <<destroyed, inFlightCount, drain, retired, current, steeringVars, loopVars>>
  PROVE  IInv'
  <1> USE DEF steeringVars, loopVars
  <1>0. /\ stage' = [stage EXCEPT ![o] = "queued"]
        /\ transport' = [transport EXCEPT ![o] = None]
        /\ transport[o] = None
        /\ stage \in [Ops -> Stages] /\ transport \in [Ops -> Sockets \union {None}]
        /\ socket \in [Sockets -> SocketStates] /\ None \notin Sockets
    BY SocketsAssumption DEF MoveTo, IInv, HoldsInFlight, TypeOK
  <1>1. ASSUME FlushIsComing
        PROVE  /\ socket' = socket
               /\ QueueIsSane' /\ OneBind' /\ OnlyCurrentIsOpen' /\ InFlightOnCurrent' /\ GrantsCurrent'
    <2>1. socket' = socket /\ Binding # {}
      <3>1. initQueue # {} \/ steeringApplying
        BY <1>1 DEF FlushIsComing, CanUseCurrent, IInv, SteeringIsSane, DrainBeforeRebind
      <3> QED
        BY <1>1, <3>1 DEF IInv, QueueIsSane, OneBind, Binding
    <2>2. QueueIsSane'
      BY <1>0, <2>1 DEF IInv, QueueIsSane, Binding, CanUseCurrent, SteeringIsSane, DrainBeforeRebind
    <2>3. OneBind' /\ OnlyCurrentIsOpen' /\ InFlightOnCurrent' /\ GrantsCurrent'
      BY <1>0, <2>1 DEF IInv, OneBind, Binding, OnlyCurrentIsOpen, InFlightOnCurrent, GrantsCurrent
    <2> QED
      BY <2>1, <2>2, <2>3
  <1>2. ASSUME ~FlushIsComing
        PROVE  /\ socket' \in [Sockets -> SocketStates]
               /\ QueueIsSane' /\ OneBind' /\ OnlyCurrentIsOpen' /\ InFlightOnCurrent' /\ GrantsCurrent'
    <2>1. PICK n \in Sockets : socket[n] = "closed" /\ socket' = [socket EXCEPT ![n] = "binding"]
      BY <1>2
    <2>2. /\ initQueue = {} /\ ~steeringPending /\ ~steeringApplying /\ current = None
          /\ Binding = {}
      BY <1>2 DEF FlushIsComing, CanUseCurrent, IInv, DrainBeforeRebind, QueueIsSane, OneBind, Binding
    <2>3. Binding' = {n}
      BY <1>0, <2>1, <2>2 DEF Binding
    <2>4. QueueIsSane'
      BY <1>0, <2>1, <2>2, <2>3 DEF IInv, QueueIsSane
    <2>5. OneBind'
      BY <1>0, <2>1, <2>2, <2>3 DEF IInv, OneBind
    <2>6. OnlyCurrentIsOpen' /\ InFlightOnCurrent' /\ GrantsCurrent'
      BY <1>0, <2>1, <2>2 DEF IInv, OnlyCurrentIsOpen, InFlightOnCurrent, GrantsCurrent
    <2>7. socket' \in [Sockets -> SocketStates]
      BY <1>0, <2>1 DEF SocketStates
    <2> QED
      BY <2>4, <2>5, <2>6, <2>7
  <1>3. /\ QueueIsSane' /\ OneBind' /\ OnlyCurrentIsOpen' /\ InFlightOnCurrent' /\ GrantsCurrent'
        /\ socket' \in [Sockets -> SocketStates]
    BY <1>0, <1>1, <1>2
  <1>4. TypeOK'
    BY <1>0, <1>3 DEF IInv, TypeOK, DnsMovesOn, MoveTo, Stages
  <1>5. CalledOnce'
    BY <1>0 DEF IInv, TypeOK, CalledOnce, MoveTo
  <1>6. HoldsInFlight' /\ CountsCalls'
    <2>1. \A s \in Sockets : InFlight(s)' = InFlight(s)
      BY <1>0 DEF InFlight
    <2> QED
      BY <1>0, <2>1, CountsSame DEF IInv, HoldsInFlight
  <1>7. LookupsAreAwaited' /\ LoopIsSane'
    BY <1>0 DEF IInv, LookupsAreAwaited, LoopIsSane, TypeOK
  <1>8. SteeringIsSane' /\ DrainBeforeRebind' /\ PendingIsWoken' /\ DestroyedIsQuiet'
    BY <1>0 DEF IInv, SteeringIsSane, DrainBeforeRebind, PendingIsWoken, DestroyedIsQuiet
  <1> QED
    BY <1>3, <1>4, <1>5, <1>6, <1>7, <1>8 DEF IInv

\* A call waits for its lookup.
LEMMA WaitsForLookup ==
  ASSUME IInv, NEW o \in Ops, stage[o] = "idle", ~destroyed,
         MoveTo(o, "resolving", None), lookups' = lookups \union {o},
         UNCHANGED <<destroyed, known, fresh, netVars, initQueue, steeringVars, loopVars>>
  PROVE  IInv'
  <1> USE DEF netVars, steeringVars, loopVars
  <1>0. /\ stage' = [stage EXCEPT ![o] = "resolving"]
        /\ transport' = [transport EXCEPT ![o] = None]
        /\ transport[o] = None
        /\ stage \in [Ops -> Stages] /\ transport \in [Ops -> Sockets \union {None}]
    BY DEF MoveTo, IInv, HoldsInFlight, TypeOK
  <1>1. TypeOK' /\ CalledOnce'
    BY <1>0 DEF IInv, TypeOK, MoveTo, Stages, CalledOnce
  <1>2. HoldsInFlight' /\ InFlightOnCurrent' /\ LookupsAreAwaited' /\ LoopIsSane' /\ GrantsCurrent'
    BY <1>0 DEF IInv, HoldsInFlight, InFlightOnCurrent, LookupsAreAwaited, LoopIsSane, GrantsCurrent
  <1>3. CountsCalls'
    BY <1>0, CountsSame, SocketsAssumption DEF IInv, InFlight
  <1>4. QueueIsSane' /\ OnlyCurrentIsOpen' /\ OneBind' /\ SteeringIsSane'
    BY <1>0 DEF IInv, QueueIsSane, OnlyCurrentIsOpen, OneBind, Binding, SteeringIsSane
  <1>5. DrainBeforeRebind' /\ PendingIsWoken' /\ DestroyedIsQuiet'
    BY <1>0 DEF IInv, DrainBeforeRebind, PendingIsWoken, DestroyedIsQuiet
  <1> QED
    BY <1>1, <1>2, <1>3, <1>4, <1>5 DEF IInv

\* A call in flight is settled and leaves the transport.
LEMMA LeavesTransport ==
  ASSUME IInv, NEW o \in Ops, stage[o] = "inflight", NEW advised \in BOOLEAN,
         NEW r \in Results \ {"none"}, Settle(o, r),
         Leave(current, inFlightCount[current] - 1, advised),
         loop.does # "grant" \/ loop.rest = {},
         LoopGoesOn({o}),
         UNCHANGED <<destroyed, dnsVars, current, initQueue>>
  PROVE  IInv'
  <1> USE DEF dnsVars
  <1> DEFINE left == inFlightCount[current] - 1
  <1>0. /\ stage' = [stage EXCEPT ![o] = "settled"]
        /\ transport' = [transport EXCEPT ![o] = None]
        /\ stage \in [Ops -> Stages] /\ transport \in [Ops -> Sockets \union {None}]
        /\ transport[o] = current /\ current # None /\ current \in Sockets
        /\ socket[current] = "open"
        /\ socket \in [Sockets -> SocketStates]
        /\ drain \in [Sockets -> SUBSET DrainCallbacks]
        /\ ~destroyed /\ ~steeringApplying /\ None \notin Sockets
        /\ o \notin initQueue
    BY SocketsAssumption DEF Settle, IInv, TypeOK, InFlightOnCurrent, DestroyedIsQuiet,
                             Active, DrainBeforeRebind, QueueIsSane
  <1>1. left \in Nat
    BY <1>0, CountIsPositive DEF IInv
  <1>2. /\ inFlightCount' = [inFlightCount EXCEPT ![current] = left]
        /\ retired' = retired
        /\ \/ NoSteering /\ (steeringPending => left > 0)
           \/ AdviceWaits(current) /\ left > 0
           \/ RebindStarts(current) /\ left = 0
    BY <1>0, <1>1, LeaveOne
  <1>3. CountsCalls'
    BY <1>0, <1>2, CountsOneLess DEF IInv
  <1>4. inFlightCount'[current] = left
    BY <1>0, <1>2 DEF IInv, TypeOK
  <1>5. CalledOnce'
    BY DEF IInv, TypeOK, CalledOnce, Settle
  <1>6. HoldsInFlight' /\ LookupsAreAwaited' /\ DestroyedIsQuiet'
    BY <1>0 DEF IInv, HoldsInFlight, LookupsAreAwaited, DestroyedIsQuiet, Active
  <1>7. LoopIsSane' /\ GrantsCurrent'
    BY <1>0 DEF IInv, LoopIsSane, GrantsCurrent, LoopGoesOn
  <1>8. CASE NoSteering /\ (steeringPending => left > 0)
    <2> USE DEF NoSteering, steeringVars
    <2>1. TypeOK'
      BY <1>0, <1>1, <1>2, <1>8 DEF IInv, TypeOK, LoopGoesOn, Settle, Stages
    <2>2. InFlightOnCurrent' /\ DrainBeforeRebind'
      BY <1>0, <1>2, <1>8 DEF IInv, InFlightOnCurrent, DrainBeforeRebind
    <2>3. QueueIsSane' /\ OnlyCurrentIsOpen' /\ OneBind' /\ SteeringIsSane'
      BY <1>0, <1>8 DEF IInv, QueueIsSane, LoopGoesOn, OnlyCurrentIsOpen, OneBind, Binding, SteeringIsSane
    <2>4. PendingIsWoken'
      BY <1>4, <1>8 DEF IInv, PendingIsWoken
    <2> QED
      BY <2>1, <2>2, <2>3, <2>4, <1>3, <1>5, <1>6, <1>7 DEF IInv
  <1>9. CASE AdviceWaits(current) /\ left > 0
    <2> USE DEF AdviceWaits
    <2>0. drain' \in [Sockets -> SUBSET DrainCallbacks]
      BY <1>0, <1>9 DEF DrainCallbacks
    <2>1. TypeOK'
      <3>1. /\ stage' \in [Ops -> Stages] /\ transport' \in [Ops -> Sockets \union {None}]
            /\ result' \in [Ops -> Results] /\ calls' \in [Ops -> Nat]
        BY <1>0 DEF IInv, TypeOK, Settle, Stages
      <3>2. inFlightCount' \in [Sockets -> Nat] /\ retired' \subseteq Sockets
        BY <1>0, <1>1, <1>2 DEF IInv, TypeOK
      <3> QED
        BY <1>0, <1>9, <2>0, <3>1, <3>2 DEF IInv, TypeOK, LoopGoesOn
    <2>2. InFlightOnCurrent' /\ DrainBeforeRebind'
      BY <1>0, <1>2, <1>9 DEF IInv, InFlightOnCurrent, DrainBeforeRebind
    <2>3. QueueIsSane' /\ OnlyCurrentIsOpen' /\ OneBind'
      BY <1>0, <1>9 DEF IInv, QueueIsSane, LoopGoesOn, OnlyCurrentIsOpen, OneBind, Binding
    <2>4. SteeringIsSane'
      BY <1>0, <1>9 DEF IInv, SteeringIsSane
    <2>5. PendingIsWoken'
      BY <1>0, <1>4, <1>9 DEF PendingIsWoken
    <2> QED
      BY <2>1, <2>2, <2>3, <2>4, <2>5, <1>3, <1>5, <1>6, <1>7 DEF IInv
  <1>10. CASE RebindStarts(current) /\ left = 0
    <2>1. PICK n \in Sockets : /\ socket[n] = "closed"
                               /\ socket' = [socket EXCEPT ![n] = "rebinding"]
      BY <1>10 DEF RebindStarts
    <2> USE DEF RebindStarts
    <2>2. TypeOK'
      BY <1>0, <1>1, <1>2, <1>10, <2>1 DEF IInv, TypeOK, LoopGoesOn, Settle, Stages, SocketStates
    <2>3. Binding = {} /\ initQueue = {}
      <3>1. \A s \in Sockets : socket[s] # "rebinding" /\ socket[s] # "binding"
        BY <1>0 DEF IInv, OneBind, QueueIsSane
      <3> QED
        BY <3>1 DEF Binding, IInv, QueueIsSane
    <2>4. Binding' = {n}
      BY <1>0, <2>1, <2>3 DEF Binding
    <2>5. OneBind'
      BY <1>0, <1>10, <2>1, <2>4 DEF OneBind
    <2>6. QueueIsSane'
      BY <1>0, <2>1, <2>3 DEF IInv, QueueIsSane, OneBind, Binding
    <2>7. OnlyCurrentIsOpen'
      BY <1>0, <2>1 DEF IInv, OnlyCurrentIsOpen
    <2>8. \A p \in Ops : stage'[p] # "inflight"
      <3>1. InFlight(current)' = {}
        <4>1. IsFiniteSet(InFlight(current)')
          BY OpsAssumption, FS_Subset DEF InFlight
        <4>2. Cardinality(InFlight(current)') = 0
          BY <1>0, <1>3, <1>4, <1>10 DEF CountsCalls
        <4> QED
          BY <4>1, <4>2, FS_EmptySet
      <3> QED
        BY <1>0, <3>1 DEF InFlight, IInv, InFlightOnCurrent
    <2>9. InFlightOnCurrent' /\ DrainBeforeRebind' /\ SteeringIsSane' /\ PendingIsWoken'
      BY <1>0, <1>2, <1>10, <2>8 DEF IInv, InFlightOnCurrent, DrainBeforeRebind, SteeringIsSane, PendingIsWoken
    <2> QED
      BY <2>2, <2>5, <2>6, <2>7, <2>9, <1>3, <1>5, <1>6, <1>7 DEF IInv
  <1> QED
    BY <1>2, <1>8, <1>9, <1>10

-----------------------------------------------------------------------------
(* The handlers. *)

LEMMA LoopStays ==
  ASSUME IInv, UNCHANGED loopVars
  PROVE  LoopGoesOn({})
  BY DEF IInv, TypeOK, LoopIsSane, LoopGoesOn, loopVars

LEMMA UseInv ==
  ASSUME IInv, NEW o \in Ops, stage[o] \in {"idle", "resolving", "queued"}, o \notin initQueue,
         ~destroyed, current \in Sockets, ~steeringApplying,
         Use(o, current),
         lookups' \subseteq lookups \ {o}, DnsMovesOn, LoopGoesOn({o}),
         UNCHANGED <<destroyed, current, initQueue>>
  PROVE  IInv'
  <1>1. CASE /\ MoveTo(o, "inflight", current)
             /\ inFlightCount' = [inFlightCount EXCEPT ![current] = inFlightCount[current] + 1]
             /\ UNCHANGED <<socket, drain, retired, steeringVars>>
    BY <1>1, TakesTransport
  <1>2. CASE /\ Settle(o, IF o \in Reports THEN "result" ELSE "error")
             /\ Leave(current, inFlightCount[current], FALSE)
    <2>1. UNCHANGED <<socket, inFlightCount, drain, retired, steeringVars>>
      BY <1>2, LeaveAsFound
    <2>2. (IF o \in Reports THEN "result" ELSE "error") \in Results \ {"none"}
      BY DEF Results
    <2> QED
      BY <1>2, <2>1, <2>2, SettledWithoutTransport DEF netVars
  <1> QED
    BY <1>1, <1>2 DEF Use

LEMMA ResolvedInv ==
  ASSUME IInv, NEW o \in Ops, stage[o] \in {"idle", "resolving"}, NEW haveServers \in BOOLEAN,
         ~destroyed,
         Resolved(o, haveServers),
         lookups' \subseteq lookups \ {o}, DnsMovesOn,
         UNCHANGED <<destroyed, loopVars>>
  PROVE  IInv'
  <1>1. o \notin initQueue /\ o \notin loop.rest
    BY DEF IInv, QueueIsSane, LoopIsSane
  <1>2. LoopGoesOn({o})
    BY <1>1, LoopStays DEF LoopGoesOn
  <1>3. CASE ~haveServers
    <2>1. Settle(o, "error") /\ UNCHANGED <<netVars, initQueue, steeringVars>>
      BY <1>3 DEF Resolved
    <2>2. "error" \in Results \ {"none"}
      BY DEF Results
    <2> QED
      BY <1>1, <1>2, <2>1, <2>2, SettledWithoutTransport
  <1>4. CASE haveServers /\ CanUseCurrent
    <2>1. Use(o, current) /\ UNCHANGED <<current, initQueue>>
      BY <1>4 DEF Resolved, GetTransport
    <2>2. current \in Sockets /\ ~steeringApplying
      BY <1>4 DEF CanUseCurrent, IInv, TypeOK
    <2> QED
      BY <1>1, <1>2, <2>1, <2>2, UseInv
  <1>5. CASE haveServers /\ ~CanUseCurrent
    BY <1>1, <1>5, WaitsForTransport DEF Resolved, GetTransport
  <1> QED
    BY <1>3, <1>4, <1>5

LEMMA CallInv ==
  ASSUME IInv, NEW o \in Ops, Call(o)
  PROVE  IInv'
  <1>1. stage[o] = "idle" /\ UNCHANGED <<destroyed, known, fresh, loopVars>>
    BY DEF Call
  <1>2. o \notin lookups /\ o \notin initQueue /\ o \notin loop.rest
    BY <1>1 DEF IInv, LookupsAreAwaited, QueueIsSane, LoopIsSane
  <1>3. LoopGoesOn({o})
    BY <1>1, <1>2, LoopStays DEF LoopGoesOn
  <1>4. ASSUME NEW r \in Results \ {"none"}, Settle(o, r),
               UNCHANGED <<lookups, netVars, initQueue, steeringVars>>
        PROVE  IInv'
    BY <1>1, <1>2, <1>3, <1>4, SettledWithoutTransport DEF DnsMovesOn, IInv, TypeOK
  <1>5. CASE /\ ~destroyed
             /\ MoveTo(o, "resolving", None)
             /\ lookups' = lookups \union {o}
             /\ UNCHANGED <<netVars, initQueue, steeringVars>>
    BY <1>1, <1>5, WaitsForLookup
  <1>6. CASE ~destroyed /\ Resolved(o, known) /\ UNCHANGED lookups
    BY <1>1, <1>2, <1>6, ResolvedInv DEF DnsMovesOn, IInv, TypeOK
  <1> QED
    BY <1>4, <1>5, <1>6 DEF Call, Results

LEMMA ReuseInv ==
  ASSUME IInv, NEW o \in Ops, Reuse(o)
  PROVE  IInv'
  <1> USE DEF dnsVars, netVars, steeringVars, loopVars
  <1>0. /\ stage[o] = "settled" /\ o \notin loop.rest /\ o \notin lookups
        /\ stage' = [stage EXCEPT ![o] = "idle"]
        /\ result' = [result EXCEPT ![o] = "none"]
        /\ calls' = [calls EXCEPT ![o] = 0]
        /\ UNCHANGED <<destroyed, transport, dnsVars, netVars, initQueue, steeringVars, loopVars>>
        /\ stage \in [Ops -> Stages]
    BY DEF Reuse, IInv, TypeOK
  <1>1. TypeOK' /\ CalledOnce'
    BY <1>0 DEF IInv, TypeOK, Stages, Results, CalledOnce
  <1>2. CountsCalls'
    BY <1>0, CountsSame DEF IInv, InFlight
  <1>3. HoldsInFlight' /\ InFlightOnCurrent' /\ LookupsAreAwaited' /\ LoopIsSane' /\ GrantsCurrent'
    BY <1>0 DEF IInv, HoldsInFlight, InFlightOnCurrent, LookupsAreAwaited, LoopIsSane, GrantsCurrent
  <1>4. QueueIsSane' /\ OnlyCurrentIsOpen' /\ OneBind' /\ SteeringIsSane'
    BY <1>0 DEF IInv, QueueIsSane, OnlyCurrentIsOpen, OneBind, Binding, SteeringIsSane
  <1>5. DrainBeforeRebind' /\ PendingIsWoken' /\ DestroyedIsQuiet'
    BY <1>0 DEF IInv, DrainBeforeRebind, PendingIsWoken, DestroyedIsQuiet, Active
  <1> QED
    BY <1>1, <1>2, <1>3, <1>4, <1>5 DEF IInv

LEMMA LookupDoneInv ==
  ASSUME IInv, NEW o \in Ops, LookupDone(o)
  PROVE  IInv'
  <1>1. /\ o \in lookups /\ lookups' = lookups \ {o}
        /\ UNCHANGED <<destroyed, loopVars>>
    BY DEF LookupDone
  <1>2. CASE destroyed \/ Terminal(o)
    BY <1>1, <1>2, LoopStays, NothingHappens DEF LookupDone, DnsMovesOn, IInv, TypeOK
  <1>3. CASE ~destroyed /\ ~Terminal(o)
    <2>1. stage[o] = "resolving"
      BY <1>1, <1>3 DEF IInv, LookupsAreAwaited, Terminal
    <2>2. PICK haveServers \in BOOLEAN : Resolved(o, haveServers) /\ DnsMovesOn
      BY <1>1, <1>3 DEF LookupDone, DnsMovesOn, IInv, TypeOK
    <2> QED
      BY <1>1, <1>3, <2>1, <2>2, ResolvedInv
  <1> QED
    BY <1>2, <1>3

LEMMA ExpireInv ==
  ASSUME IInv, Expire
  PROVE  IInv'
  BY LoopStays, NothingHappens DEF Expire, DnsMovesOn, IInv, TypeOK

LEMMA AnsweredInv ==
  ASSUME IInv, NEW o \in Ops, NEW advised \in BOOLEAN, Answered(o, advised)
  PROVE  IInv'
  <1>1. transport[o] = current /\ loop.rest = {} /\ stage[o] = "inflight"
    BY DEF Answered, EventLoopIdle, IInv, InFlightOnCurrent
  <1>2. LoopGoesOn({o})
    BY <1>1, LoopStays DEF Answered, LoopGoesOn
  <1>3. "result" \in Results \ {"none"}
    BY DEF Results
  <1> QED
    BY <1>1, <1>2, <1>3, LeavesTransport DEF Answered

LEMMA GivesUpInv ==
  ASSUME IInv, NEW o \in Ops, GivesUp(o)
  PROVE  IInv'
  <1>1. transport[o] = current /\ loop.rest = {} /\ stage[o] = "inflight"
    BY DEF GivesUp, EventLoopIdle, IInv, InFlightOnCurrent
  <1>2. LoopGoesOn({o})
    BY <1>1, LoopStays DEF GivesUp, LoopGoesOn
  <1>3. "error" \in Results \ {"none"}
    BY DEF Results
  <1> QED
    BY <1>1, <1>2, <1>3, LeavesTransport DEF GivesUp

LEMMA SocketErrorInv ==
  ASSUME IInv, NEW s \in Sockets, SocketError(s)
  PROVE  IInv'
  <1> USE DEF callVars, dnsVars, netVars, steeringVars
  <1>0. PICK handlers : /\ handlers = {o \in Ops : stage[o] = "inflight" /\ transport[o] = s}
                        /\ handlers # {}
                        /\ loop' = [does |-> "fail", on |-> s, rest |-> handlers]
                        /\ inUser' = FALSE
                        /\ UNCHANGED <<destroyed, callVars, dnsVars, netVars, initQueue, steeringVars>>
                        /\ loop.rest = {} /\ s = current
    BY DEF SocketError, EventLoopIdle, IInv, OnlyCurrentIsOpen
  <1>1. TypeOK'
    BY <1>0 DEF IInv, TypeOK, LoopKinds
  <1>2. CalledOnce' /\ HoldsInFlight' /\ InFlightOnCurrent'
    BY <1>0 DEF IInv, CalledOnce, HoldsInFlight, InFlightOnCurrent
  <1>3. CountsCalls'
    BY <1>0, CountsSame DEF IInv, InFlight
  <1>4. LookupsAreAwaited' /\ LoopIsSane' /\ GrantsCurrent'
    BY <1>0 DEF IInv, LookupsAreAwaited, LoopIsSane, GrantsCurrent
  <1>5. QueueIsSane'
    BY <1>0 DEF IInv, QueueIsSane, Binding
  <1>6. OnlyCurrentIsOpen' /\ OneBind' /\ SteeringIsSane' /\ DrainBeforeRebind'
    BY <1>0 DEF IInv, OnlyCurrentIsOpen, OneBind, Binding, SteeringIsSane, DrainBeforeRebind
  <1>7. PendingIsWoken' /\ DestroyedIsQuiet'
    BY <1>0 DEF IInv, PendingIsWoken, DestroyedIsQuiet
  <1> QED
    BY <1>1, <1>2, <1>3, <1>4, <1>5, <1>6, <1>7 DEF IInv

LEMMA LoopStepInv ==
  ASSUME IInv, NEW o \in Ops, LoopStep(o)
  PROVE  IInv'
  <1>1. LoopGoesOn({o})
    <2> DEFINE ran == calls'[o] # calls[o]
               rest == IF ran /\ Throws(o, result'[o]) THEN {} ELSE loop.rest \ {o}
    <2>1. /\ loop' = IF rest = {} THEN NoLoop ELSE [loop EXCEPT !.rest = rest]
          /\ inUser' = (ran /\ rest # {})
      BY DEF LoopStep
    <2>2. rest \subseteq loop.rest \ {o}
      OBVIOUS
    <2>3. o \in loop.rest /\ loop.does # "none"
          /\ loop \in [does : LoopKinds, on : Sockets \union {None}, rest : SUBSET Ops]
      BY DEF LoopStep, IInv, LoopIsSane, TypeOK
    <2>4. inUser' \in BOOLEAN
      BY <2>1
    <2> HIDE DEF rest, ran
    <2> QED
      BY <2>1, <2>2, <2>3, <2>4 DEF LoopGoesOn, NoLoop, LoopKinds
  <1>2. o \in loop.rest /\ UNCHANGED <<destroyed, dnsVars, current, initQueue>>
    BY DEF LoopStep
  <1>3. DnsMovesOn
    BY <1>2 DEF DnsMovesOn, dnsVars, IInv, TypeOK
  <1>4. CASE Terminal(o)
    <2>1. LoopGoesOn({})
      BY <1>1 DEF LoopGoesOn
    <2> QED
      BY <1>2, <1>3, <1>4, <2>1, NothingHappens DEF LoopStep, netVars
  <1>5. ASSUME ~Terminal(o) PROVE IInv'
    <2>0. Iterate(o) /\ stage[o] # "settled"
      BY <1>5 DEF LoopStep, Terminal
    <2>1. loop.does \in {"grant", "refuse", "fail"}
      BY <1>2 DEF IInv, LoopIsSane, TypeOK, LoopKinds
    <2>2. "error" \in Results \ {"none"}
      BY DEF Results
    <2>3. CASE loop.does = "grant"
      <3>1. Use(o, current)
        BY <1>2, <2>0, <2>3 DEF Iterate, IInv, GrantsCurrent
      <3>2. stage[o] = "queued" /\ o \notin initQueue /\ ~steeringApplying
        BY <1>2, <2>0, <2>3 DEF IInv, LoopIsSane, QueueIsSane, SteeringIsSane
      <3>3. ~destroyed /\ current \in Sockets
        BY <1>2, <2>0, <2>3, <3>2 DEF IInv, DestroyedIsQuiet, Active, GrantsCurrent, TypeOK
      <3>4. o \notin lookups
        BY <3>2 DEF IInv, LookupsAreAwaited
      <3> QED
        BY <1>1, <1>2, <1>3, <3>1, <3>2, <3>3, <3>4, UseInv DEF dnsVars
    <2>4. CASE loop.does = "refuse"
      <3>1. stage[o] = "queued" /\ o \notin initQueue
        BY <1>2, <2>0, <2>4 DEF IInv, LoopIsSane, QueueIsSane
      <3>2. Settle(o, "error") /\ UNCHANGED <<socket, inFlightCount, drain, retired, steeringVars>>
        BY <2>0, <2>4 DEF Iterate
      <3> QED
        BY <1>1, <1>2, <1>3, <2>2, <3>1, <3>2, SettledWithoutTransport DEF netVars
    <2>5. CASE loop.does = "fail"
      <3>1. stage[o] = "inflight" /\ loop.on = current
        BY <1>2, <2>0, <2>5 DEF IInv, LoopIsSane
      <3>2. Settle(o, "error") /\ Leave(current, inFlightCount[current] - 1, FALSE)
        BY <2>0, <2>5, <3>1 DEF Iterate
      <3> QED
        BY <1>1, <1>2, <2>2, <2>5, <3>1, <3>2, LeavesTransport
    <2> QED
      BY <2>1, <2>3, <2>4, <2>5
  <1> QED
    BY <1>4, <1>5

LEMMA DestroyInv ==
  ASSUME IInv, Destroy
  PROVE  IInv'
  <1> USE DEF dnsVars, loopVars
  <1>0. /\ destroyed' = TRUE /\ ~destroyed
        /\ stage' = [o \in Ops |-> IF stage[o] \in Active THEN "settled" ELSE stage[o]]
        /\ result' = [o \in Ops |-> IF stage[o] \in Active THEN "destroyed" ELSE result[o]]
        /\ calls' = [o \in Ops |-> IF stage[o] \in Active THEN calls[o] + 1 ELSE calls[o]]
        /\ transport' = [o \in Ops |-> IF stage[o] \in Active THEN None ELSE transport[o]]
        /\ socket' = [s \in Sockets |-> IF s = current \/ s \in retired THEN "closed" ELSE socket[s]]
        /\ inFlightCount' = [s \in Sockets |-> 0]
        /\ drain' = [s \in Sockets |-> {}]
        /\ retired' = {} /\ current' = None /\ initQueue' = {}
        /\ steeringPending' = (steeringPending /\ ~AdviceDropped)
        /\ steeringApplying' = (steeringApplying /\ ~AdviceDropped)
        /\ UNCHANGED <<dnsVars, rebindOf, loopVars>>
    BY DEF Destroy, CancelledByDestroy
  <1>1. TypeOK'
    <2>1. /\ stage' \in [Ops -> Stages] /\ result' \in [Ops -> Results]
          /\ calls' \in [Ops -> Nat] /\ transport' \in [Ops -> Sockets \union {None}]
      BY <1>0 DEF IInv, TypeOK, Stages, Results
    <2>2. /\ socket' \in [Sockets -> SocketStates]
          /\ inFlightCount' \in [Sockets -> Nat]
          /\ drain' \in [Sockets -> SUBSET DrainCallbacks]
      BY <1>0 DEF IInv, TypeOK, SocketStates
    <2> QED
      BY <1>0, <2>1, <2>2 DEF IInv, TypeOK
  <1>2. \A o \in Ops : stage'[o] \in {"idle", "settled"}
    BY <1>0 DEF IInv, TypeOK, Stages, Active
  <1>3. CalledOnce'
    BY <1>0 DEF IInv, TypeOK, Stages, CalledOnce, Active
  <1>4. CountsCalls'
    <2>1. \A s \in Sockets : InFlight(s)' = {}
      BY <1>2 DEF InFlight
    <2> QED
      BY <1>0, <2>1, FS_EmptySet DEF CountsCalls
  <1>5. HoldsInFlight'
    BY <1>0, <1>2 DEF IInv, HoldsInFlight, Active
  <1>6. LookupsAreAwaited' /\ DestroyedIsQuiet' /\ InFlightOnCurrent'
    BY <1>0, <1>2 DEF IInv, LookupsAreAwaited, DestroyedIsQuiet, Active, InFlightOnCurrent, TypeOK
  <1>7. LoopIsSane' /\ GrantsCurrent'
    BY <1>0, <1>2 DEF IInv, LoopIsSane, GrantsCurrent, TypeOK, Stages, Active
  <1>8. QueueIsSane'
    BY <1>0 DEF QueueIsSane
  <1>9. OnlyCurrentIsOpen'
    BY <1>0, SocketsAssumption DEF IInv, OnlyCurrentIsOpen
  <1>10. OneBind' /\ SteeringIsSane' /\ PendingIsWoken' /\ DrainBeforeRebind'
    <2>1. \A s \in Sockets : /\ socket'[s] = "rebinding" <=> socket[s] = "rebinding"
                             /\ socket'[s] = "binding" <=> socket[s] = "binding"
      BY <1>0 DEF IInv, OnlyCurrentIsOpen, DrainBeforeRebind
    <2>2. Binding' = Binding
      BY <2>1 DEF Binding, IInv, TypeOK
    <2>3. AdviceDropped <=> steeringPending /\ ~steeringApplying
      BY <1>0 DEF AdviceDropped, IInv, SteeringIsSane, PendingIsWoken, TypeOK
    <2>4. OneBind'
      BY <1>0, <2>1, <2>2, <2>3 DEF IInv, OneBind
    <2>5. SteeringIsSane' /\ PendingIsWoken' /\ DrainBeforeRebind'
      BY <1>0, <1>2, <2>3 DEF IInv, SteeringIsSane, PendingIsWoken, DrainBeforeRebind, TypeOK
    <2> QED
      BY <2>4, <2>5
  <1> QED
    BY <1>1, <1>3, <1>4, <1>5, <1>6, <1>7, <1>8, <1>9, <1>10 DEF IInv

\* The loop that serves the queue after a bind, lazy bind or rebind.
LEMMA FlushInv ==
  ASSUME IInv, NEW does \in {"grant", "refuse"}, NEW on \in Sockets \union {None},
         Flush(does, on), UNCHANGED callVars, ~steeringPending',
         (does = "grant" /\ initQueue # {}) =>
           on = current' /\ current' # None /\ socket'[current'] = "open"
  PROVE  /\ loop' \in [does : LoopKinds, on : Sockets \union {None}, rest : SUBSET Ops]
         /\ inUser' \in BOOLEAN /\ initQueue' = {}
         /\ LoopIsSane' /\ GrantsCurrent'
  <1> USE DEF callVars
  <1>1. CASE initQueue = {}
    BY <1>1 DEF Flush, NoLoop, LoopKinds, LoopIsSane, GrantsCurrent
  <1>2. CASE initQueue # {}
    <2>1. loop' = [does |-> does, on |-> on, rest |-> initQueue]
      BY <1>2 DEF Flush
    <2>2. \A o \in initQueue : stage[o] = "queued" /\ o \in Ops
      BY DEF IInv, QueueIsSane, TypeOK
    <2>3. does # "fail" /\ does # "none" /\ does \in LoopKinds
      BY DEF LoopKinds
    <2>4. LoopIsSane'
      BY <1>2, <2>1, <2>2, <2>3 DEF LoopIsSane
    <2>5. GrantsCurrent'
      BY <1>2, <2>1 DEF GrantsCurrent
    <2>6. initQueue \in SUBSET Ops
      BY <2>2
    <2>7. loop' \in [does : LoopKinds, on : Sockets \union {None}, rest : SUBSET Ops]
      BY <2>1, <2>3, <2>6
    <2>8. inUser' \in BOOLEAN /\ initQueue' = {}
      BY DEF Flush
    <2> QED
      BY <2>4, <2>5, <2>7, <2>8
  <1> QED
    BY <1>1, <1>2

\* Only the bind that ends was under way.
LEMMA OnlyOneBinds ==
  ASSUME OneBind, NEW n \in Sockets, socket[n] \in {"binding", "rebinding"}
  PROVE  /\ \A s \in Sockets \ {n} : socket[s] # "binding" /\ socket[s] # "rebinding"
         /\ steeringApplying <=> socket[n] = "rebinding"
  BY DEF OneBind, Binding

LEMMA BindDoneInv ==
  ASSUME IInv, NEW n \in Sockets, BindDone(n)
  PROVE  IInv'
  <1> USE DEF callVars, dnsVars, steeringVars, loopVars
  <1>0. /\ socket[n] = "binding" /\ loop.rest = {}
        /\ UNCHANGED <<destroyed, callVars, dnsVars, inFlightCount, drain, retired, steeringVars>>
        /\ ~steeringApplying
        /\ \A s \in Sockets \ {n} : socket[s] # "binding" /\ socket[s] # "rebinding"
        /\ socket \in [Sockets -> SocketStates] /\ n # None
    BY OnlyOneBinds, SocketsAssumption DEF BindDone, EventLoopIdle, IInv, TypeOK
  <1>1. CalledOnce' /\ HoldsInFlight' /\ LookupsAreAwaited'
    BY <1>0 DEF IInv, CalledOnce, HoldsInFlight, LookupsAreAwaited
  <1>2. CountsCalls'
    BY <1>0, CountsSame DEF IInv, InFlight
  <1>3. CASE destroyed
    <2>1. /\ socket' = [socket EXCEPT ![n] = "closed"]
          /\ UNCHANGED <<current, initQueue, loopVars>>
          /\ initQueue = {} /\ current = None
      BY <1>3 DEF BindDone, IInv, DestroyedIsQuiet, OnlyCurrentIsOpen
    <2>2. Binding' = {}
      BY <1>0, <2>1 DEF Binding
    <2>3. TypeOK'
      BY <1>0, <2>1 DEF IInv, TypeOK, SocketStates
    <2>4. InFlightOnCurrent' /\ LoopIsSane' /\ GrantsCurrent' /\ DestroyedIsQuiet'
      BY <1>0, <1>3, <2>1 DEF IInv, InFlightOnCurrent, LoopIsSane, GrantsCurrent, DestroyedIsQuiet
    <2>5. QueueIsSane' /\ OneBind' /\ OnlyCurrentIsOpen'
      BY <1>0, <1>3, <2>1, <2>2 DEF IInv, QueueIsSane, OneBind, OnlyCurrentIsOpen
    <2>6. SteeringIsSane' /\ DrainBeforeRebind' /\ PendingIsWoken'
      BY <1>0, <2>1 DEF IInv, SteeringIsSane, DrainBeforeRebind, PendingIsWoken
    <2> QED
      BY <1>1, <1>2, <2>3, <2>4, <2>5, <2>6 DEF IInv
  <1>4. CASE ~destroyed
    <2>1. /\ socket' = [socket EXCEPT ![n] = "open"]
          /\ current' = n /\ Flush("grant", n)
          /\ current = None /\ ~steeringPending
      BY <1>0, <1>4 DEF BindDone, IInv, QueueIsSane, SteeringIsSane
    <2>2. /\ loop' \in [does : LoopKinds, on : Sockets \union {None}, rest : SUBSET Ops]
          /\ inUser' \in BOOLEAN /\ initQueue' = {}
          /\ LoopIsSane' /\ GrantsCurrent'
      BY <1>0, <2>1, FlushInv
    <2>3. Binding' = {}
      BY <1>0, <2>1 DEF Binding
    <2>4. TypeOK'
      BY <1>0, <2>1, <2>2 DEF IInv, TypeOK, SocketStates
    <2>5. InFlightOnCurrent' /\ DestroyedIsQuiet'
      BY <1>0, <1>4, <2>1 DEF IInv, InFlightOnCurrent, DestroyedIsQuiet
    <2>6. QueueIsSane'
      <3>1. \A s \in Sockets : socket'[s] # "binding"
        BY <1>0, <2>1
      <3> QED
        BY <2>2, <3>1 DEF QueueIsSane
    <2>7. OneBind'
      BY <1>0, <2>1, <2>3 DEF OneBind
    <2>8. OnlyCurrentIsOpen'
      BY <1>0, <1>4, <2>1, SocketsAssumption DEF IInv, OnlyCurrentIsOpen
    <2>9. SteeringIsSane' /\ DrainBeforeRebind' /\ PendingIsWoken'
      BY <1>0, <2>1 DEF IInv, SteeringIsSane, DrainBeforeRebind, PendingIsWoken
    <2> QED
      BY <1>1, <1>2, <2>2, <2>4, <2>5, <2>6, <2>7, <2>8, <2>9 DEF IInv
  <1> QED
    BY <1>3, <1>4

LEMMA BindFailsInv ==
  ASSUME IInv, NEW n \in Sockets, BindFails(n)
  PROVE  IInv'
  <1> USE DEF callVars, dnsVars, steeringVars
  <1>0. /\ socket[n] = "binding" /\ loop.rest = {} /\ Flush("refuse", None)
        /\ socket' = [socket EXCEPT ![n] = "closed"]
        /\ UNCHANGED <<destroyed, callVars, dnsVars, inFlightCount, drain, retired, current, steeringVars>>
        /\ ~steeringApplying
        /\ \A s \in Sockets \ {n} : socket[s] # "binding" /\ socket[s] # "rebinding"
        /\ socket \in [Sockets -> SocketStates]
    BY OnlyOneBinds DEF BindFails, EventLoopIdle, IInv, TypeOK
  <1>1. CalledOnce' /\ HoldsInFlight' /\ LookupsAreAwaited'
    BY <1>0 DEF IInv, CalledOnce, HoldsInFlight, LookupsAreAwaited
  <1>2. CountsCalls'
    BY <1>0, CountsSame DEF IInv, InFlight
  <1>3. Binding' = {}
    BY <1>0 DEF Binding
  <1>4. current # n
    BY <1>0 DEF IInv, OnlyCurrentIsOpen
  <1>5. CASE initQueue = {}
    <2>1. destroyed /\ loop' = NoLoop /\ inUser' = FALSE /\ initQueue' = {}
      BY <1>0, <1>5 DEF IInv, QueueIsSane, Flush
    <2>2. TypeOK'
      BY <1>0, <2>1 DEF IInv, TypeOK, SocketStates, NoLoop, LoopKinds
    <2>3. InFlightOnCurrent' /\ LoopIsSane' /\ GrantsCurrent' /\ DestroyedIsQuiet'
      BY <1>0, <1>4, <2>1 DEF IInv, InFlightOnCurrent, LoopIsSane, GrantsCurrent, DestroyedIsQuiet, NoLoop
    <2>4. QueueIsSane' /\ OneBind' /\ OnlyCurrentIsOpen'
      BY <1>0, <1>3, <1>4, <2>1 DEF IInv, QueueIsSane, OneBind, OnlyCurrentIsOpen
    <2>5. SteeringIsSane' /\ DrainBeforeRebind' /\ PendingIsWoken'
      BY <1>0 DEF IInv, SteeringIsSane, DrainBeforeRebind, PendingIsWoken
    <2> QED
      BY <1>1, <1>2, <2>2, <2>3, <2>4, <2>5 DEF IInv
  <1>6. CASE initQueue # {}
    <2>1. ~destroyed /\ current = None /\ ~steeringPending
      BY <1>0, <1>6 DEF IInv, QueueIsSane, DestroyedIsQuiet, SteeringIsSane
    <2>2. /\ loop' \in [does : LoopKinds, on : Sockets \union {None}, rest : SUBSET Ops]
          /\ inUser' \in BOOLEAN /\ initQueue' = {}
          /\ LoopIsSane' /\ GrantsCurrent'
      BY <1>0, <2>1, FlushInv
    <2>3. TypeOK'
      BY <1>0, <2>2 DEF IInv, TypeOK, SocketStates
    <2>4. InFlightOnCurrent' /\ DestroyedIsQuiet'
      BY <1>0, <2>1 DEF IInv, InFlightOnCurrent, DestroyedIsQuiet
    <2>5. QueueIsSane' /\ OneBind' /\ OnlyCurrentIsOpen'
      BY <1>0, <1>3, <1>4, <2>1, <2>2 DEF IInv, QueueIsSane, OneBind, OnlyCurrentIsOpen
    <2>6. SteeringIsSane' /\ DrainBeforeRebind' /\ PendingIsWoken'
      BY <1>0, <2>1 DEF IInv, SteeringIsSane, DrainBeforeRebind, PendingIsWoken
    <2> QED
      BY <1>1, <1>2, <2>2, <2>3, <2>4, <2>5, <2>6 DEF IInv
  <1> QED
    BY <1>5, <1>6

\* The state in which a rebind ends, well or not.
LEMMA RebindEnds ==
  ASSUME IInv, NEW n \in Sockets, socket[n] = "rebinding"
  PROVE  /\ \A s \in Sockets \ {n} : socket[s] # "binding" /\ socket[s] # "rebinding"
         /\ steeringApplying /\ steeringPending
         /\ \A o \in Ops : stage[o] # "inflight"
         /\ \A s \in Sockets : drain[s] = {} /\ inFlightCount[s] = 0
         /\ retired = {}
         /\ current # n /\ n # None
         /\ ~destroyed => /\ current \in Sockets /\ rebindOf = current
                          /\ socket[current] = "open"
         /\ destroyed => current = None /\ initQueue = {}
  <1>1. /\ \A s \in Sockets \ {n} : socket[s] # "binding" /\ socket[s] # "rebinding"
        /\ steeringApplying /\ steeringPending
    BY OnlyOneBinds DEF IInv, SteeringIsSane
  <1>2. /\ \A o \in Ops : stage[o] # "inflight"
        /\ retired = {}
        /\ \A s \in Sockets : drain[s] = {}
    BY <1>1 DEF IInv, DrainBeforeRebind, SteeringIsSane
  <1>3. ASSUME NEW s \in Sockets PROVE inFlightCount[s] = 0
    <2>1. InFlight(s) = {}
      BY <1>2 DEF InFlight
    <2> QED
      BY <2>1, FS_EmptySet DEF IInv, CountsCalls
  <1>4. current # n /\ n # None
    BY SocketsAssumption DEF IInv, OnlyCurrentIsOpen
  <1>5. /\ ~destroyed => /\ current \in Sockets /\ rebindOf = current
                         /\ socket[current] = "open"
        /\ destroyed => current = None /\ initQueue = {}
    BY <1>1 DEF IInv, SteeringIsSane, OnlyCurrentIsOpen, DestroyedIsQuiet, TypeOK
  <1> QED
    BY <1>1, <1>2, <1>3, <1>4, <1>5

\* A rebind that has ended leaves the invariant, given where it leaves the
\* sockets: the current one open, no other.
LEMMA PublishInv ==
  ASSUME IInv, NEW n \in Sockets, socket[n] = "rebinding", loop.rest = {},
         NEW does \in {"grant", "refuse"}, NEW on \in Sockets \union {None},
         Publish(does, on),
         (does = "grant" /\ initQueue # {}) => on = current' /\ current' # None,
         current' \in Sockets \union {None},
         socket' \in [Sockets -> {"open", "closed"}],
         OnlyCurrentIsOpen',
         UNCHANGED <<destroyed, callVars, dnsVars, inFlightCount, drain, retired>>
  PROVE  IInv'
  <1> USE DEF callVars, dnsVars
  <1>0. /\ \A o \in Ops : stage[o] # "inflight"
        /\ \A s \in Sockets : drain[s] = {}
        /\ retired = {}
    BY RebindEnds
  <1>1. /\ ~steeringPending' /\ ~steeringApplying' /\ rebindOf' = None
        /\ Flush(does, on)
    BY DEF Publish
  <1>2. current' # None => socket'[current'] = "open"
    BY DEF OnlyCurrentIsOpen
  <1>3. /\ loop' \in [does : LoopKinds, on : Sockets \union {None}, rest : SUBSET Ops]
        /\ inUser' \in BOOLEAN /\ initQueue' = {}
        /\ LoopIsSane' /\ GrantsCurrent'
    BY <1>1, <1>2, FlushInv
  <1>4. TypeOK'
    <2>1. socket' \in [Sockets -> SocketStates]
      BY DEF SocketStates
    <2>2. steeringPending' \in BOOLEAN /\ steeringApplying' \in BOOLEAN
      BY DEF Publish
    <2> QED
      BY <1>1, <1>3, <2>1, <2>2 DEF IInv, TypeOK
  <1>5. CalledOnce' /\ HoldsInFlight' /\ LookupsAreAwaited'
    BY DEF IInv, CalledOnce, HoldsInFlight, LookupsAreAwaited
  <1>6. CountsCalls'
    BY CountsSame DEF IInv, InFlight
  <1>7. InFlightOnCurrent' /\ DestroyedIsQuiet'
    BY <1>0, <1>3 DEF InFlightOnCurrent, IInv, DestroyedIsQuiet
  <1>8. \A s \in Sockets : socket'[s] # "binding" /\ socket'[s] # "rebinding"
    OBVIOUS
  <1>9. QueueIsSane' /\ OneBind'
    BY <1>1, <1>3, <1>8 DEF QueueIsSane, OneBind, Binding
  <1>10. SteeringIsSane' /\ DrainBeforeRebind' /\ PendingIsWoken'
    BY <1>0, <1>1 DEF SteeringIsSane, DrainBeforeRebind, PendingIsWoken
  <1> QED
    BY <1>3, <1>4, <1>5, <1>6, <1>7, <1>9, <1>10 DEF IInv

LEMMA RebindDoneInv ==
  ASSUME IInv, NEW n \in Sockets, RebindDone(n)
  PROVE  IInv'
  <1>0. /\ socket[n] = "rebinding" /\ loop.rest = {}
        /\ UNCHANGED <<destroyed, callVars, dnsVars, inFlightCount>>
        /\ socket \in [Sockets -> SocketStates] /\ drain \in [Sockets -> SUBSET DrainCallbacks]
        /\ rebindOf \in Sockets \union {None}
    BY DEF RebindDone, EventLoopIdle, IInv, TypeOK
  <1>1. /\ \A s \in Sockets \ {n} : socket[s] \in {"open", "closed"}
        /\ \A s \in Sockets : drain[s] = {} /\ inFlightCount[s] = 0
        /\ current # n /\ n # None
        /\ ~destroyed => current \in Sockets /\ rebindOf = current
        /\ destroyed => current = None /\ initQueue = {}
    BY <1>0, RebindEnds DEF SocketStates
  <1>2. CASE destroyed
    <2>1. /\ socket' = [socket EXCEPT ![n] = "closed"]
          /\ UNCHANGED <<current, retired, drain>>
          /\ Publish("grant", rebindOf)
      BY <1>2 DEF RebindDone
    <2>2. socket' \in [Sockets -> {"open", "closed"}]
      BY <1>0, <1>1, <2>1
    <2>3. OnlyCurrentIsOpen'
      BY <1>0, <1>1, <2>1 DEF IInv, OnlyCurrentIsOpen
    <2>4. current' \in Sockets \union {None}
      BY <1>1, <1>2, <2>1
    <2> QED
      BY <1>0, <1>1, <1>2, <2>1, <2>2, <2>3, <2>4, PublishInv
  <1>3. CASE ~destroyed
    <2>1. /\ current' = n
          /\ socket' = [s \in Sockets |-> IF s = n THEN "open"
                                          ELSE IF s = current THEN "closed" ELSE socket[s]]
          /\ retired' = retired
          /\ drain' = [s \in Sockets |-> IF s # current THEN drain[s] ELSE {}]
          /\ Publish("grant", n)
      BY <1>1, <1>3, SocketsAssumption DEF RebindDone
    <2>2. drain' = drain
      BY <1>0, <1>1, <2>1
    <2>3. socket' \in [Sockets -> {"open", "closed"}]
      BY <1>0, <1>1, <2>1
    <2>4. OnlyCurrentIsOpen'
      BY <1>0, <1>1, <1>3, <2>1 DEF IInv, OnlyCurrentIsOpen
    <2> QED
      BY <1>0, <1>1, <2>1, <2>2, <2>3, <2>4, PublishInv
  <1> QED
    BY <1>2, <1>3

LEMMA RebindFailsInv ==
  ASSUME IInv, NEW n \in Sockets, RebindFails(n)
  PROVE  IInv'
  <1>0. /\ socket[n] = "rebinding" /\ loop.rest = {}
        /\ socket' = [socket EXCEPT ![n] = "closed"]
        /\ UNCHANGED <<destroyed, callVars, dnsVars, inFlightCount, drain, retired, current>>
        /\ socket \in [Sockets -> SocketStates]
        /\ rebindOf \in Sockets \union {None} /\ current \in Sockets \union {None}
    BY DEF RebindFails, EventLoopIdle, IInv, TypeOK
  <1>1. /\ \A s \in Sockets \ {n} : socket[s] \in {"open", "closed"}
        /\ current # n /\ n # None
        /\ ~destroyed => current \in Sockets /\ rebindOf = current
        /\ destroyed => initQueue = {}
        /\ retired = {}
    BY <1>0, RebindEnds DEF SocketStates
  <1>2. socket' \in [Sockets -> {"open", "closed"}]
    BY <1>0, <1>1
  <1>3. OnlyCurrentIsOpen'
    BY <1>0, <1>1 DEF IInv, OnlyCurrentIsOpen
  <1>4. CASE rebindOf = None
    <2>1. Publish("refuse", None)
      BY <1>4 DEF RebindFails
    <2> QED
      BY <1>0, <1>2, <1>3, <2>1, PublishInv
  <1>5. CASE rebindOf # None
    <2>1. Publish("grant", rebindOf)
      BY <1>1, <1>5 DEF RebindFails
    <2>2. initQueue # {} => rebindOf = current' /\ current' # None
      BY <1>0, <1>1, <1>5
    <2> QED
      BY <1>0, <1>2, <1>3, <2>1, <2>2, PublishInv
  <1> QED
    BY <1>4, <1>5

-----------------------------------------------------------------------------
(* The theorems. *)

LEMMA StutterInv ==
  ASSUME IInv, UNCHANGED vars
  PROVE  IInv'
  BY LoopStays, NothingHappens DEF vars, dnsVars, DnsMovesOn, IInv, TypeOK

\* Every handler, and every iteration of a loop, preserves the invariant.
LEMMA NextInv ==
  ASSUME IInv, [Next]_vars
  PROVE  IInv'
  <1>1. CASE Application
    BY <1>1, DestroyInv, CallInv, ReuseInv DEF Application
  <1>2. CASE EventLoop
    BY <1>2, ExpireInv, LookupDoneInv, AnsweredInv, GivesUpInv, LoopStepInv,
       BindDoneInv, BindFailsInv, RebindDoneInv, RebindFailsInv, SocketErrorInv DEF EventLoop
  <1> QED
    BY <1>1, <1>2, StutterInv DEF Next

\* The inductive invariant holds in every state of the client: whatever calls,
\* binds, lookups, answers, errors and destroy() do to each other.
THEOREM Invariance == Spec => []IInv
  BY InitInv, NextInv, PTL DEF Spec

\* Every variable stays in its type.
THEOREM TypeCorrect == Spec => []TypeOK
  <1>1. IInv => TypeOK
    BY DEF IInv
  <1> QED
    BY <1>1, Invariance, PTL

\* Every callback is called once, exactly when its call is settled.
THEOREM CallbackOnce == Spec => []CalledOnce
  <1>1. IInv => CalledOnce
    BY DEF IInv
  <1> QED
    BY <1>1, Invariance, PTL

\* inFlightCount is the number of calls that hold the transport.
THEOREM CountIsRight == Spec => []CountsCalls
  <1>1. IInv => CountsCalls
    BY DEF IInv
  <1> QED
    BY <1>1, Invariance, PTL

\* A call in flight holds the current transport, whose socket is open.
THEOREM NeverOnOldTransport == Spec => []InFlightOnCurrent
  <1>1. IInv => InFlightOnCurrent
    BY DEF IInv
  <1> QED
    BY <1>1, Invariance, PTL

\* A loop hands out the current, open transport, whatever the callbacks do.
THEOREM LoopsGrantCurrent == Spec => []GrantsCurrent
  <1>1. IInv => GrantsCurrent
    BY DEF IInv
  <1> QED
    BY <1>1, Invariance, PTL

\* No socket leaks: the one that is open is the current transport's.
THEOREM NoSocketLeaks == Spec => []OnlyCurrentIsOpen
  <1>1. IInv => OnlyCurrentIsOpen
    BY DEF IInv
  <1> QED
    BY <1>1, Invariance, PTL

\* At most one bind is outstanding, lazy bind and rebind together.
THEOREM BindsOneAtATime == Spec => []OneBind
  <1>1. IInv => OneBind
    BY DEF IInv
  <1> QED
    BY <1>1, Invariance, PTL

\* A rebind never takes the transport from under a call.
THEOREM RebindsWhenDrained == Spec => []DrainBeforeRebind
  <1>1. IInv => DrainBeforeRebind
    BY DEF IInv
  <1> QED
    BY <1>1, Invariance, PTL

\* Advice that waits for the transport to drain is never forgotten.
THEOREM AdviceIsWoken == Spec => []PendingIsWoken
  <1>1. IInv => PendingIsWoken
    BY DEF IInv
  <1> QED
    BY <1>1, Invariance, PTL

-----------------------------------------------------------------------------
(* Refinement of the contracts. *)

(***************************************************************************)
(* What a step of the client does to the calls, whichever step it is.      *)
(***************************************************************************)
CallsStay == UNCHANGED <<destroyed, stage, result>>

CallSettles(o) ==
  /\ ~destroyed /\ destroyed' = destroyed
  /\ stage[o] # "settled"
  /\ \E r \in {"result", "error"} : Settle(o, r)

CallIsRefused(o) ==
  /\ destroyed /\ destroyed' = destroyed
  /\ stage[o] = "idle"
  /\ Settle(o, "destroyed")

CallMoves(o) ==
  /\ ~destroyed /\ destroyed' = destroyed
  /\ stage[o] # "settled"
  /\ \E st \in Active, s \in Sockets \union {None} : MoveTo(o, st, s)

StepOfCall(o) == CallSettles(o) \/ CallIsRefused(o) \/ CallMoves(o) \/ Reuse(o)

LEMMA UseIsStep ==
  ASSUME NEW o \in Ops, NEW s \in Sockets, Use(o, s), ~destroyed, destroyed' = destroyed,
         stage[o] # "settled"
  PROVE  StepOfCall(o)
  <1>1. CASE MoveTo(o, "inflight", s)
    BY <1>1 DEF StepOfCall, CallMoves, Active
  <1>2. CASE Settle(o, IF o \in Reports THEN "result" ELSE "error")
    BY <1>2 DEF StepOfCall, CallSettles
  <1> QED
    BY <1>1, <1>2 DEF Use

LEMMA ResolvedIsStep ==
  ASSUME IInv, NEW o \in Ops, NEW b \in BOOLEAN, Resolved(o, b), ~destroyed, destroyed' = destroyed,
         stage[o] # "settled"
  PROVE  StepOfCall(o)
  <1>1. CASE ~b
    BY <1>1 DEF Resolved, StepOfCall, CallSettles
  <1>2. CASE b /\ CanUseCurrent
    BY <1>2, UseIsStep DEF Resolved, GetTransport, CanUseCurrent, IInv, TypeOK
  <1>3. CASE b /\ ~CanUseCurrent
    BY <1>3 DEF Resolved, GetTransport, StepOfCall, CallMoves, Active
  <1> QED
    BY <1>1, <1>2, <1>3

LEMMA CallIsStep ==
  ASSUME IInv, NEW o \in Ops, Call(o)
  PROVE  StepOfCall(o)
  <1>1. stage[o] = "idle" /\ destroyed' = destroyed
    BY DEF Call
  <1>2. CASE destroyed /\ Settle(o, "destroyed")
    BY <1>1, <1>2 DEF StepOfCall, CallIsRefused
  <1>3. CASE ~destroyed /\ \E r \in {"result", "error"} : Settle(o, r)
    BY <1>1, <1>3 DEF StepOfCall, CallSettles
  <1>4. CASE ~destroyed /\ MoveTo(o, "resolving", None)
    BY <1>1, <1>4 DEF StepOfCall, CallMoves, Active
  <1>5. CASE ~destroyed /\ Resolved(o, known)
    BY <1>1, <1>5, ResolvedIsStep DEF IInv, TypeOK
  <1> QED
    BY <1>2, <1>3, <1>4, <1>5 DEF Call

LEMMA LookupDoneIsStep ==
  ASSUME IInv, NEW o \in Ops, LookupDone(o)
  PROVE  CallsStay \/ StepOfCall(o)
  <1>1. CASE destroyed \/ Terminal(o)
    BY <1>1 DEF LookupDone, CallsStay, callVars
  <1>2. CASE ~destroyed /\ ~Terminal(o)
    <2>1. PICK b \in BOOLEAN : Resolved(o, b)
      BY <1>2 DEF LookupDone, IInv, TypeOK
    <2> QED
      BY <1>2, <2>1, ResolvedIsStep DEF LookupDone, Terminal
  <1> QED
    BY <1>1, <1>2

LEMMA LoopStepIsStep ==
  ASSUME IInv, NEW o \in Ops, LoopStep(o)
  PROVE  CallsStay \/ StepOfCall(o)
  <1>1. CASE Terminal(o)
    BY <1>1 DEF LoopStep, CallsStay, callVars
  <1>2. ASSUME ~Terminal(o) PROVE StepOfCall(o)
    <2>1. o \in loop.rest /\ stage[o] # "settled" /\ destroyed' = destroyed /\ Iterate(o)
      BY <1>2 DEF LoopStep, Terminal
    <2>2. ~destroyed /\ loop.does \in {"grant", "refuse", "fail"}
      BY <2>1 DEF IInv, TypeOK, LoopKinds, LoopIsSane, DestroyedIsQuiet, Active
    <2>3. CASE loop.does = "grant"
      <3>1. loop.on \in Sockets /\ Use(o, loop.on)
        BY <2>1, <2>3 DEF IInv, GrantsCurrent, TypeOK, Iterate
      <3> QED
        BY <2>1, <2>2, <3>1, UseIsStep
    <2>4. CASE loop.does \in {"refuse", "fail"}
      BY <2>1, <2>2, <2>4 DEF Iterate, StepOfCall, CallSettles
    <2> QED
      BY <2>2, <2>3, <2>4
  <1> QED
    BY <1>1, <1>2

LEMMA StepOfCalls ==
  ASSUME IInv, [Next]_vars
  PROVE  CallsStay \/ Destroy \/ \E o \in Ops : StepOfCall(o)
  <1>1. CASE UNCHANGED vars
    BY <1>1 DEF vars, callVars, CallsStay
  <1>2. CASE Application
    BY <1>2, CallIsStep DEF Application, StepOfCall
  <1>3. ASSUME NEW o \in Ops, (\E advised \in BOOLEAN : Answered(o, advised)) \/ GivesUp(o)
        PROVE  StepOfCall(o)
    <2>1. stage[o] = "inflight" /\ ~destroyed
      BY <1>3 DEF Answered, GivesUp, IInv, DestroyedIsQuiet, Active
    <2> QED
      BY <1>3, <2>1 DEF Answered, GivesUp, StepOfCall, CallSettles
  <1>4. ASSUME NEW s \in Sockets,
               BindDone(s) \/ BindFails(s) \/ RebindDone(s) \/ RebindFails(s) \/ SocketError(s)
        PROVE  CallsStay
    BY <1>4 DEF BindDone, BindFails, RebindDone, RebindFails, SocketError, CallsStay, callVars
  <1>5. CASE Expire
    BY <1>5 DEF Expire, CallsStay, callVars
  <1> QED
    BY <1>1, <1>2, <1>3, <1>4, <1>5, LookupDoneIsStep, LoopStepIsStep DEF Next, EventLoop

-----------------------------------------------------------------------------
(* The contract. *)

\* The initial states of the client are those of the contract.
LEMMA InitImplements == Init => Contract!Init
  BY DEF Init, Contract!Init, Told, Active

\* A step of one call is a step of the contract, or none.
LEMMA StepImplements ==
  ASSUME IInv, IInv', NEW o \in Ops, StepOfCall(o)
  PROVE  \/ Contract!Accept(o) \/ Contract!Answer(o) \/ Contract!Refuse(o) \/ Contract!Forget(o)
         \/ UNCHANGED <<destroyed, Told>>
  <1>0. TypeOK /\ TypeOK' /\ CalledOnce
    BY DEF IInv
  <1>1. CASE CallSettles(o)
    <2>1. PICK r \in {"result", "error"} : Settle(o, r)
      BY <1>1 DEF CallSettles
    <2>2. Told' = [Told EXCEPT ![o] = r]
      BY <1>0, <2>1 DEF Told, Settle, TypeOK, Active
    <2>3. Told[o] \in {"idle", "waiting"}
      BY <1>0, <1>1 DEF CallSettles, Told, TypeOK, Stages, Active
    <2> QED
      BY <1>1, <2>2, <2>3 DEF CallSettles, Contract!Answer, Told
  <1>2. CASE CallIsRefused(o)
    <2>1. Told' = [Told EXCEPT ![o] = "destroyed"]
      BY <1>0, <1>2 DEF CallIsRefused, Told, Settle, TypeOK, Active
    <2>2. Told[o] = "idle"
      BY <1>2 DEF CallIsRefused, Told, Active
    <2> QED
      BY <1>2, <2>1, <2>2 DEF CallIsRefused, Contract!Refuse, Told
  <1>3. CASE CallMoves(o) /\ stage[o] = "idle"
    <2>1. Told' = [Told EXCEPT ![o] = "waiting"]
      BY <1>0, <1>3 DEF CallMoves, Told, MoveTo, TypeOK, Active
    <2>2. Told[o] = "idle"
      BY <1>3 DEF Told, Active
    <2> QED
      BY <1>3, <2>1, <2>2 DEF CallMoves, Contract!Accept, Told
  <1>4. CASE CallMoves(o) /\ stage[o] # "idle"
    <2>1. Told' = Told
      BY <1>0, <1>4 DEF CallMoves, Told, MoveTo, TypeOK, Stages, Active
    <2> QED
      BY <1>4, <2>1 DEF CallMoves
  <1>5. CASE Reuse(o)
    <2>1. Told' = [Told EXCEPT ![o] = "idle"]
      BY <1>0, <1>5 DEF Reuse, Told, TypeOK, Active
    <2>2. Told[o] \in {"result", "error", "destroyed"}
      BY <1>0, <1>5 DEF Reuse, Told, TypeOK, Results, CalledOnce, Active
    <2> QED
      BY <1>5, <2>1, <2>2 DEF Reuse, Contract!Forget, Contract!Answers, Told
  <1> QED
    BY <1>1, <1>2, <1>3, <1>4, <1>5 DEF StepOfCall

LEMMA DestroyImplements ==
  ASSUME IInv, Destroy
  PROVE  Contract!Destroy
  <1>1. /\ Told' = [o \in Ops |-> IF Told[o] = "waiting" THEN "destroyed" ELSE Told[o]]
    <2>1. stage' = [o \in Ops |-> IF stage[o] \in Active THEN "settled" ELSE stage[o]]
      BY DEF Destroy, CancelledByDestroy
    <2>2. result' = [o \in Ops |-> IF stage[o] \in Active THEN "destroyed" ELSE result[o]]
      BY DEF Destroy, CancelledByDestroy
    <2>3. ASSUME NEW o \in Ops
          PROVE  Told'[o] = IF Told[o] = "waiting" THEN "destroyed" ELSE Told[o]
      BY <2>1, <2>2 DEF Told, Active, IInv, TypeOK, Stages, Results
    <2> QED
      BY <2>3 DEF Told
  <1> QED
    BY <1>1 DEF Destroy, Contract!Destroy, Contract!Waiting, Told

LEMMA NextImplements ==
  ASSUME IInv, IInv', [Next]_vars
  PROVE  [Contract!Next]_(Contract!vars)
  <1>1. CASE CallsStay
    BY <1>1 DEF CallsStay, Contract!vars, Told
  <1>2. CASE Destroy
    BY <1>2, DestroyImplements DEF Contract!Next
  <1>3. ASSUME NEW o \in Ops, StepOfCall(o) PROVE [Contract!Next]_(Contract!vars)
    BY <1>3, StepImplements DEF Contract!Next, Contract!vars, Told
  <1> QED
    BY <1>1, <1>2, <1>3, StepOfCalls

\* The client implements the contract of its calls.
THEOREM Implements == Spec => ImplementsContract
  <1>1. Init => Contract!Init
    BY InitImplements
  <1>2. IInv /\ IInv' /\ [Next]_vars => [Contract!Next]_(Contract!vars)
    BY NextImplements
  <1> QED
    BY <1>1, <1>2, Invariance, PTL DEF Spec, ImplementsContract, Contract!Spec

-----------------------------------------------------------------------------
(* After destroy(). *)

\* No server list becomes fresh and no socket is opened.
NothingComesBack ==
  /\ known' = known /\ (fresh' => fresh)
  /\ \A s \in Sockets : socket'[s] # socket[s] => socket'[s] = "closed"

LEMMA QuietStep ==
  ASSUME IInv, destroyed, [Next]_vars
  PROVE  NothingComesBack
  <1>0. /\ \A o \in Ops : stage[o] \in {"idle", "settled"}
        /\ current = None /\ \A s \in Sockets : socket[s] # "open"
        /\ socket \in [Sockets -> SocketStates]
    BY SocketsAssumption DEF IInv, TypeOK, Stages, DestroyedIsQuiet, Active, OnlyCurrentIsOpen
  <1>1. ASSUME UNCHANGED <<known, fresh, socket>> PROVE NothingComesBack
    BY <1>1 DEF NothingComesBack
  <1>2. CASE UNCHANGED vars \/ Expire
    <2>1. UNCHANGED <<known, socket>>
      BY <1>2 DEF vars, dnsVars, netVars, Expire
    <2>2. fresh' => fresh
      BY <1>2 DEF vars, dnsVars, Expire
    <2> QED
      BY <2>1, <2>2 DEF NothingComesBack
  <1>3. ASSUME NEW o \in Ops, Call(o) \/ Reuse(o) PROVE NothingComesBack
    <2>1. UNCHANGED <<known, fresh, socket>>
      BY <1>3 DEF Call, Reuse, dnsVars, netVars
    <2> QED
      BY <2>1, <1>1
  <1>4. ASSUME NEW o \in Ops, LookupDone(o) PROVE NothingComesBack
    BY <1>1, <1>4 DEF LookupDone, netVars
  <1>5. ASSUME NEW o \in Ops, LoopStep(o) PROVE NothingComesBack
    <2>1. Terminal(o)
      <3>1. o \in loop.rest
        BY <1>5 DEF LoopStep
      <3> QED
        BY <1>0, <3>1 DEF IInv, LoopIsSane, Terminal
    <2>2. UNCHANGED <<known, fresh, socket>>
      BY <1>5, <2>1 DEF LoopStep, dnsVars
    <2> QED
      BY <2>2, <1>1
  <1>6. ASSUME NEW s \in Sockets, BindDone(s) \/ BindFails(s) \/ RebindDone(s) \/ RebindFails(s)
        PROVE  NothingComesBack
    <2>1. UNCHANGED <<known, fresh>> /\ socket' = [socket EXCEPT ![s] = "closed"]
      BY <1>6 DEF BindDone, BindFails, RebindDone, RebindFails, dnsVars
    <2> QED
      BY <1>0, <2>1 DEF NothingComesBack
  <1>7. ~Destroy
    BY DEF Destroy
  <1>8. ASSUME NEW o \in Ops PROVE ~GivesUp(o) /\ \A advised \in BOOLEAN : ~Answered(o, advised)
    BY <1>0 DEF GivesUp, Answered
  <1>9. ASSUME NEW s \in Sockets PROVE ~SocketError(s)
    BY <1>0 DEF SocketError
  <1> QED
    BY <1>2, <1>3, <1>4, <1>5, <1>6, <1>7, <1>8, <1>9 DEF Next, Application, EventLoop

\* After destroy() nothing that was on its way has an effect.
THEOREM SilentAfterDestroy == Spec => QuietAfterDestroy
  <1>1. IInv /\ IInv' /\ [Next]_vars =>
          [destroyed => /\ known' = known /\ (fresh' => fresh)
                        /\ \A s \in Sockets : socket'[s] # socket[s] => socket'[s] = "closed"
                        /\ \A o \in Ops : stage'[o] \notin Active]_vars
    <2> SUFFICES ASSUME IInv, IInv', [Next]_vars, destroyed
                 PROVE  /\ known' = known /\ (fresh' => fresh)
                        /\ \A s \in Sockets : socket'[s] # socket[s] => socket'[s] = "closed"
                        /\ \A o \in Ops : stage'[o] \notin Active
      OBVIOUS
    <2>1. destroyed'
      BY StepOfCalls DEF CallsStay, Destroy, StepOfCall, CallSettles, CallIsRefused, CallMoves, Reuse
    <2> QED
      BY <2>1, QuietStep DEF NothingComesBack, IInv, DestroyedIsQuiet
  <1> QED
    BY <1>1, Invariance, PTL DEF Spec, QuietAfterDestroy

-----------------------------------------------------------------------------
(* The queue. *)

\* A queued call is in the queue, or in the loop that took it from there.
Queued == \A o \in Ops : stage[o] = "queued" => o \in initQueue \/ o \in loop.rest

\* A queue that is flushed is taken over by the loop.
LEMMA FlushKeepsQueued ==
  ASSUME Queued, loop.rest = {}, NEW does, NEW on, Flush(does, on), stage' = stage
  PROVE  Queued'
  <1>1. loop'.rest = initQueue
    BY DEF Flush, NoLoop
  <1> QED
    BY <1>1 DEF Queued

\* A call that begins to wait does so in the queue.
LEMMA ResolvedKeepsQueued ==
  ASSUME IInv, Queued, NEW o \in Ops, NEW b \in BOOLEAN, Resolved(o, b), loop' = loop
  PROVE  Queued'
  <1>0. stage \in [Ops -> Stages]
    BY DEF IInv, TypeOK
  <1>1. CASE ~b
    BY <1>0, <1>1 DEF Resolved, Settle, Queued
  <1>2. CASE b /\ CanUseCurrent
    <2>1. initQueue' = initQueue /\ \E st \in {"inflight", "settled"} : stage' = [stage EXCEPT ![o] = st]
      BY <1>2 DEF Resolved, GetTransport, Use, Settle, MoveTo
    <2> QED
      BY <1>0, <2>1 DEF Queued
  <1>3. CASE b /\ ~CanUseCurrent
    BY <1>0, <1>3 DEF Resolved, GetTransport, MoveTo, Queued
  <1> QED
    BY <1>1, <1>2, <1>3

LEMMA LoopStepKeepsQueued ==
  ASSUME IInv, Queued, Throwers = {}, NEW o \in Ops, LoopStep(o)
  PROVE  Queued'
  <1>1. loop'.rest = loop.rest \ {o} /\ initQueue' = initQueue
    <2>1. ~Throws(o, result'[o])
      BY DEF Throws
    <2>2. loop' = IF loop.rest \ {o} = {} THEN NoLoop ELSE [loop EXCEPT !.rest = loop.rest \ {o}]
      BY <2>1 DEF LoopStep
    <2> QED
      BY <2>2 DEF LoopStep, NoLoop, IInv, TypeOK
  <1>2. \A p \in Ops : stage'[p] = "queued" => stage[p] = "queued" /\ p # o
    <2>1. CASE Terminal(o)
      BY <2>1 DEF LoopStep, callVars, Terminal
    <2>2. ASSUME ~Terminal(o)
          PROVE  \E st \in {"inflight", "settled"} : stage' = [stage EXCEPT ![o] = st]
      <3>1. Iterate(o) /\ loop.does \in {"grant", "refuse", "fail"}
        BY <2>2 DEF LoopStep, IInv, LoopIsSane, TypeOK, LoopKinds
      <3> QED
        BY <3>1 DEF Iterate, Use, Settle, MoveTo
    <2> QED
      BY <2>1, <2>2 DEF IInv, TypeOK
  <1> QED
    BY <1>1, <1>2 DEF Queued

LEMMA NextKeepsQueued ==
  ASSUME IInv, IInv', Queued, Throwers = {}, [Next]_vars
  PROVE  Queued'
  <1>0. stage \in [Ops -> Stages]
    BY DEF IInv, TypeOK
  <1>1. CASE UNCHANGED vars \/ Expire
    BY <1>1 DEF vars, Expire, callVars, loopVars, Queued
  <1>2. CASE Destroy
    BY <1>2 DEF Destroy, IInv, DestroyedIsQuiet, Active, Queued
  <1>3. ASSUME NEW o \in Ops, Reuse(o) PROVE Queued'
    BY <1>0, <1>3 DEF Reuse, loopVars, Queued
  <1>4. ASSUME NEW o \in Ops, Call(o) PROVE Queued'
    <2>1. loop' = loop
      BY <1>4 DEF Call, loopVars
    <2>2. CASE Resolved(o, known)
      BY <2>1, <2>2, ResolvedKeepsQueued DEF IInv, TypeOK
    <2>3. ASSUME NEW st \in {"settled", "resolving"}, stage' = [stage EXCEPT ![o] = st],
                 initQueue' = initQueue
          PROVE  Queued'
      BY <1>0, <2>1, <2>3 DEF Queued
    <2> QED
      BY <1>4, <2>2, <2>3 DEF Call, Settle, MoveTo
  <1>5. ASSUME NEW o \in Ops, LookupDone(o) PROVE Queued'
    <2>1. loop' = loop
      BY <1>5 DEF LookupDone, loopVars
    <2>2. CASE UNCHANGED <<stage, initQueue>>
      BY <2>1, <2>2 DEF Queued
    <2>3. ASSUME NEW b \in BOOLEAN, Resolved(o, b) PROVE Queued'
      BY <2>1, <2>3, ResolvedKeepsQueued
    <2> QED
      BY <1>5, <2>2, <2>3 DEF LookupDone, callVars, IInv, TypeOK
  <1>6. ASSUME NEW o \in Ops, (\E advised \in BOOLEAN : Answered(o, advised)) \/ GivesUp(o)
        PROVE  Queued'
    BY <1>0, <1>6 DEF Answered, GivesUp, Settle, loopVars, Queued
  <1>7. ASSUME NEW s \in Sockets, BindFails(s) \/ RebindDone(s) \/ RebindFails(s)
        PROVE  Queued'
    <2>1. loop.rest = {} /\ stage' = stage /\ \E does, on : Flush(does, on)
      BY <1>7 DEF BindFails, RebindDone, RebindFails, Publish, EventLoopIdle, callVars
    <2> QED
      BY <2>1, FlushKeepsQueued
  <1>8. ASSUME NEW s \in Sockets, BindDone(s) PROVE Queued'
    <2>1. loop.rest = {} /\ stage' = stage
      BY <1>8 DEF BindDone, EventLoopIdle, callVars
    <2>2. CASE destroyed
      BY <1>8, <2>2 DEF BindDone, loopVars, callVars, Queued
    <2>3. CASE ~destroyed
      BY <1>8, <2>1, <2>3, FlushKeepsQueued DEF BindDone
    <2> QED
      BY <2>2, <2>3
  <1>9. ASSUME NEW s \in Sockets, SocketError(s) PROVE Queued'
    BY <1>9 DEF SocketError, EventLoopIdle, callVars, Queued
  <1> QED
    BY <1>1, <1>2, <1>3, <1>4, <1>5, <1>6, <1>7, <1>8, <1>9, LoopStepKeepsQueued
       DEF Next, Application, EventLoop

\* If no callback throws, a queued call will be served: a bind is on its way,
\* or the running loop is still to come to it.
THEOREM QueueIsServed == ASSUME Throwers = {} PROVE Spec => []QueuedIsServed
  <1>1. Init => Queued
    BY DEF Init, Queued
  <1>2. IInv /\ IInv' /\ Queued /\ [Next]_vars => Queued'
    BY NextKeepsQueued
  <1>3. IInv /\ Queued => QueuedIsServed
    BY DEF IInv, QueueIsSane, LoopIsSane, TypeOK, LoopKinds, Queued, QueuedIsServed
  <1> QED
    BY <1>1, <1>2, <1>3, Invariance, PTL DEF Spec

-----------------------------------------------------------------------------
(* The server list as the calls see it. *)

\* The calls that wait for their lookup.
Resolving == {o \in Ops : stage[o] = "resolving"}

\* A call goes on to another stage than "resolving".
GoesOn(o) == \E st \in Stages \ {"resolving"} : stage' = [stage EXCEPT ![o] = st]

LEMMA GoneOn ==
  ASSUME TypeOK, NEW o \in Ops, GoesOn(o)
  PROVE  Resolving' = Resolving \ {o}
  BY DEF GoesOn, Resolving, TypeOK

LEMMA SettledGoesOn ==
  ASSUME NEW o \in Ops, NEW r, Settle(o, r)
  PROVE  GoesOn(o)
  BY DEF Settle, GoesOn, Stages

LEMMA UseGoesOn ==
  ASSUME NEW o \in Ops, NEW s, Use(o, s)
  PROVE  GoesOn(o)
  BY DEF Use, Settle, MoveTo, GoesOn, Stages, Active

LEMMA ResolvedGoesOn ==
  ASSUME NEW o \in Ops, NEW b \in BOOLEAN, Resolved(o, b)
  PROVE  GoesOn(o)
  <1>1. CASE ~b
    BY <1>1, SettledGoesOn DEF Resolved
  <1>2. CASE b /\ CanUseCurrent
    BY <1>2, UseGoesOn DEF Resolved, GetTransport
  <1>3. CASE b /\ ~CanUseCurrent
    BY <1>3 DEF Resolved, GetTransport, MoveTo, GoesOn, Stages, Active
  <1> QED
    BY <1>1, <1>2, <1>3

\* Only a call that waits for its lookup can stop doing so.
LEMMA OthersDoNotWait ==
  ASSUME TypeOK, NEW o \in Ops, stage[o] # "resolving", GoesOn(o), UNCHANGED <<destroyed, known, fresh>>
  PROVE  UNCHANGED Lookup!vars
  <1>1. Resolving' = Resolving
    BY GoneOn DEF Resolving
  <1> QED
    BY <1>1 DEF Lookup!vars, Resolving

LEMMA CallAsks ==
  ASSUME IInv, NEW o \in Ops, Call(o)
  PROVE  Lookup!Ask(o) \/ UNCHANGED Lookup!vars
  <1>1. TypeOK /\ stage[o] = "idle" /\ UNCHANGED <<destroyed, known, fresh>>
    BY DEF Call, IInv
  <1>2. CASE ~destroyed /\ ~fresh /\ MoveTo(o, "resolving", None)
    <2>1. Resolving' = Resolving \union {o}
      BY <1>1, <1>2 DEF MoveTo, Resolving, TypeOK
    <2> QED BY <1>1, <1>2, <2>1 DEF Lookup!Ask, Resolving
  <1>3. CASE (\E r \in Results : Settle(o, r)) \/ Resolved(o, known)
    <2>1. GoesOn(o)
      BY <1>1, <1>3, SettledGoesOn, ResolvedGoesOn DEF TypeOK
    <2> QED BY <1>1, <2>1, OthersDoNotWait
  <1> QED
    BY <1>2, <1>3 DEF Call, Results

LEMMA LookupDoneTells ==
  ASSUME IInv, NEW o \in Ops, LookupDone(o)
  PROVE  Lookup!Found(o) \/ Lookup!NotFound(o) \/ UNCHANGED Lookup!vars
  <1>1. TypeOK /\ destroyed' = destroyed
    BY DEF LookupDone, IInv
  <1>2. CASE destroyed \/ Terminal(o)
    BY <1>1, <1>2 DEF LookupDone, callVars, Lookup!vars
  <1>3. CASE ~destroyed /\ ~Terminal(o)
    <2>1. o \in Resolving
      BY <1>3 DEF LookupDone, Terminal, IInv, LookupsAreAwaited, Resolving
    <2>2. CASE known' = TRUE /\ fresh' = TRUE /\ Resolved(o, TRUE)
      <3>1. Resolving' = Resolving \ {o}
        BY <1>1, <2>2, ResolvedGoesOn, GoneOn
      <3> QED BY <1>1, <2>1, <2>2, <3>1 DEF Lookup!Found, Resolving
    <2>3. CASE UNCHANGED <<known, fresh>> /\ Resolved(o, known)
      <3>1. Resolving' = Resolving \ {o}
        BY <1>1, <2>3, ResolvedGoesOn, GoneOn DEF TypeOK
      <3> QED BY <1>1, <2>1, <2>3, <3>1 DEF Lookup!NotFound, Resolving
    <2> QED BY <1>3, <2>2, <2>3 DEF LookupDone
  <1> QED
    BY <1>2, <1>3

LEMMA LoopDoesNotWait ==
  ASSUME IInv, NEW o \in Ops, LoopStep(o)
  PROVE  UNCHANGED Lookup!vars
  <1>1. TypeOK /\ o \in loop.rest /\ UNCHANGED <<destroyed, known, fresh>>
    BY DEF LoopStep, IInv, dnsVars
  <1>2. CASE Terminal(o)
    BY <1>1, <1>2 DEF LoopStep, callVars, Lookup!vars
  <1>3. CASE ~Terminal(o)
    <2>1. stage[o] \in {"inflight", "queued"} /\ Iterate(o) /\ loop.does \in {"grant", "refuse", "fail"}
      BY <1>1, <1>3 DEF LoopStep, Terminal, IInv, LoopIsSane, TypeOK, LoopKinds
    <2>2. GoesOn(o)
      BY <2>1, UseGoesOn, SettledGoesOn DEF Iterate
    <2> QED BY <1>1, <2>1, <2>2, OthersDoNotWait
  <1> QED
    BY <1>2, <1>3

\* What the client does about its server list is within what Discovery is
\* proved to promise: a call waits only if the list is old, each lookup ends
\* the wait of the call that began it, and destroy() lets nobody wait.
THEOREM WithinLookup == Spec => WithinLookupContract
  <1>1. Init => Lookup!Init
    BY DEF Init, Lookup!Init
  <1>2. IInv /\ [Next]_vars => [Lookup!Next]_(Lookup!vars)
    <2> SUFFICES ASSUME IInv, [Next]_vars PROVE [Lookup!Next]_(Lookup!vars)
      OBVIOUS
    <2>0. TypeOK
      BY DEF IInv
    <2>1. ASSUME NEW o \in Ops, Call(o) PROVE Lookup!Ask(o) \/ UNCHANGED Lookup!vars
      BY <2>1, CallAsks
    <2>2. ASSUME NEW o \in Ops, LookupDone(o)
          PROVE  Lookup!Found(o) \/ Lookup!NotFound(o) \/ UNCHANGED Lookup!vars
      BY <2>2, LookupDoneTells
    <2>3. ASSUME NEW o \in Ops, LoopStep(o) PROVE UNCHANGED Lookup!vars
      BY <2>3, LoopDoesNotWait
    <2>4. ASSUME NEW o \in Ops,
                 Reuse(o) \/ GivesUp(o) \/ \E advised \in BOOLEAN : Answered(o, advised)
          PROVE  UNCHANGED Lookup!vars
      <3>1. UNCHANGED <<destroyed, known, fresh>> /\ stage[o] \in {"settled", "inflight"}
        BY <2>4 DEF Reuse, GivesUp, Answered, dnsVars
      <3>2. GoesOn(o)
        <4>1. CASE Reuse(o)
          BY <4>1 DEF Reuse, GoesOn, Stages
        <4> QED BY <2>4, <4>1, SettledGoesOn DEF GivesUp, Answered
      <3> QED BY <2>0, <3>1, <3>2, OthersDoNotWait
    <2>5. ASSUME NEW s \in Sockets,
                 BindDone(s) \/ BindFails(s) \/ RebindDone(s) \/ RebindFails(s) \/ SocketError(s)
          PROVE  UNCHANGED Lookup!vars
      BY <2>5 DEF BindDone, BindFails, RebindDone, RebindFails, SocketError, callVars, dnsVars, Lookup!vars
    <2>6. CASE Expire
      BY <2>6 DEF Expire, callVars, Lookup!Expire, Lookup!Next
    <2>7. CASE Destroy
      <3>1. Resolving' = {}
        BY <2>7 DEF Destroy, CancelledByDestroy, Resolving, Active
      <3> QED BY <2>7, <3>1 DEF Destroy, dnsVars, Resolving, Lookup!Destroy, Lookup!Next
    <2>8. CASE UNCHANGED vars
      BY <2>8 DEF vars, callVars, dnsVars, Lookup!vars
    <2> QED
      BY <2>1, <2>2, <2>3, <2>4, <2>5, <2>6, <2>7, <2>8 DEF Next, Application, EventLoop, Lookup!Next
  <1> QED
    BY <1>1, <1>2, Invariance, PTL DEF Spec, WithinLookupContract, Lookup!Spec
=============================================================================
