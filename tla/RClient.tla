------------------------------ MODULE RClient ------------------------------
(***************************************************************************)
(* RClient of src/client.js: the life of the calls checkRateLimit() and    *)
(* reportLatency() over the persistent UDP transport, its lazy bind, the   *)
(* source-port steering that replaces it, and destroy().                   *)
(*                                                                         *)
(* JavaScript runs a handler to completion, so an action is a handler with *)
(* every call it makes.  The exceptions are the two loops that call back   *)
(* into the application between one iteration and the next, flushing the   *)
(* transport queue and reporting a socket error: the rest of the running   *)
(* loop is kept in "loop" and the application may call the client again    *)
(* (a new call, destroy) before the next iteration.                        *)
(*                                                                         *)
(* How one rate request is retried and decided is RateRequest's subject:   *)
(* here it is answered, or gives up.  Which port a bind takes is PortScan's*)
(*                                                                         *)
(* Definitions named X_Something are slips one could make in X; no action  *)
(* uses them.  They exist to see that the properties would notice.         *)
(***************************************************************************)
EXTENDS Naturals, FiniteSets

CONSTANTS Ops,                   \* slots for calls; a slot is used again
          Reports,               \* the calls that are reportLatency()
          Throwers,              \* the calls whose callback throws on a result
          Sockets,               \* slots for UDP sockets; used again when closed
          None                   \* no transport

ASSUME OpsAssumption == /\ IsFiniteSet(Ops)
                        /\ Reports \subseteq Ops
                        /\ Throwers \subseteq Ops
ASSUME SocketsAssumption == None \notin Sockets

VARIABLES
  destroyed,          \* _destroyed
  \* the calls
  stage,              \* how far the call in each slot has come
  result,             \* what its callback was told
  calls,              \* how often its callback was called
  transport,          \* the transport its closure holds
  \* discovery
  lookups,            \* calls whose DNS lookup is outstanding
  known,              \* servers.length > 0
  fresh,              \* ~_shouldRefreshDns()
  \* the transport
  socket,             \* state of each socket
  inFlightCount,      \* transport.inFlightCount
  drain,              \* transport.drainCallbacks
  retired,            \* _retiredTransports
  current,            \* _transports.get('udp4')
  initQueue,          \* _transportInitQueue.get('udp4')
  \* steering
  steeringPending,    \* _steeringPending
  steeringApplying,   \* _steeringApplying
  rebindOf,           \* currentTransport in the closure of executeRebind
  \* a running loop
  loop,               \* what it does, on which transport, to which calls
  inUser              \* its last iteration ran the application's callback

callVars == <<stage, result, calls, transport>>
dnsVars == <<lookups, known, fresh>>
steeringVars == <<steeringPending, steeringApplying, rebindOf>>
netVars == <<socket, inFlightCount, drain, retired, current>>
loopVars == <<loop, inUser>>
vars == <<destroyed, callVars, dnsVars, netVars, initQueue, steeringVars, loopVars>>

Stages == {"idle", "resolving", "queued", "inflight", "settled"}
Active == {"resolving", "queued", "inflight"}
Results == {"none", "result", "error", "destroyed"}
SocketStates == {"closed", "binding", "rebinding", "open"}
DrainCallbacks == {"executeRebind", "closeRetiringSocket"}
LoopKinds == {"none", "grant", "refuse", "fail"}

NoLoop == [does |-> "none", on |-> None, rest |-> {}]

Init ==
  /\ destroyed = FALSE
  /\ stage = [o \in Ops |-> "idle"]
  /\ result = [o \in Ops |-> "none"]
  /\ calls = [o \in Ops |-> 0]
  /\ transport = [o \in Ops |-> None]
  /\ lookups = {}
  /\ known = FALSE
  /\ fresh = FALSE
  /\ socket = [s \in Sockets |-> "closed"]
  /\ inFlightCount = [s \in Sockets |-> 0]
  /\ drain = [s \in Sockets |-> {}]
  /\ retired = {}
  /\ current = None
  /\ initQueue = {}
  /\ steeringPending = FALSE
  /\ steeringApplying = FALSE
  /\ rebindOf = None
  /\ loop = NoLoop
  /\ inUser = FALSE

-----------------------------------------------------------------------------
(* When code may run. *)

\* The event loop starts a handler only when the last one has returned.
EventLoopIdle == loop.rest = {}

\* The application runs between handlers, and in a callback made by a loop.
UserRuns == EventLoopIdle \/ inUser

-----------------------------------------------------------------------------
(* Pieces of handlers. *)

Terminal_Unchecked(o) == FALSE

\* "terminal" of a call's closure: set before its callback is called.
Terminal(o) == stage[o] = "settled"

\* Set terminal, call the callback, drop the transport.
Settle(o, r) ==
  /\ stage' = [stage EXCEPT ![o] = "settled"]
  /\ result' = [result EXCEPT ![o] = r]
  /\ calls' = [calls EXCEPT ![o] = @ + 1]
  /\ transport' = [transport EXCEPT ![o] = None]

MoveTo(o, st, s) ==
  /\ stage' = [stage EXCEPT ![o] = st]
  /\ transport' = [transport EXCEPT ![o] = s]
  /\ UNCHANGED <<result, calls>>

\* executeRebind is called: bindNextSteeringSocket is now outstanding.
StartRebind(start, sockets) ==
  IF start
  THEN /\ \E n \in Sockets : /\ sockets[n] = "closed"
                             /\ socket' = [sockets EXCEPT ![n] = "rebinding"]
       /\ steeringApplying' = TRUE
  ELSE socket' = sockets /\ UNCHANGED steeringApplying

DrainsAt_BeforeDecrement(left) == left = 1

\* cleanup() takes a drain callback only when the last call leaves.
DrainsAt(left) == left = 0

\* _applySteeringFeedback ignores advice while it is acting on advice.
AcceptsAdvice(advised) == advised /\ ~steeringPending /\ ~steeringApplying

MustWait_Never(s, count) == FALSE

\* Accepted advice waits for the calls in flight on the transport.
MustWait(s, count) == s # None /\ count[s] > 0

\* cleanup() of finish(), leaving "left" calls on transport s, and then
\* _applySteeringFeedback() if the answer advised another port.
Leave(s, left, advised) ==
  LET count == [inFlightCount EXCEPT ![s] = left]
      drained == IF DrainsAt(left) THEN drain[s] ELSE {}
      accepts == AcceptsAdvice(advised)
      waits == accepts /\ MustWait(current, count)
      closes == "closeRetiringSocket" \in drained
  IN  /\ inFlightCount' = count
      /\ drain' = [t \in Sockets |->
                     (drain[t] \ (IF t = s THEN drained ELSE {}))
                       \union (IF waits /\ t = current THEN {"executeRebind"} ELSE {})]
      /\ retired' = IF closes THEN retired \ {s} ELSE retired
      /\ steeringPending' = (steeringPending \/ accepts)
      /\ rebindOf' = IF accepts THEN current ELSE rebindOf
      /\ StartRebind(\/ "executeRebind" \in drained /\ ~steeringApplying
                     \/ accepts /\ ~waits,
                     IF closes THEN [socket EXCEPT ![s] = "closed"] ELSE socket)

Use_ReportStays(o, s) ==
  \/ /\ o \notin Reports
     /\ MoveTo(o, "inflight", s)
     /\ inFlightCount' = [inFlightCount EXCEPT ![s] = @ + 1]
     /\ UNCHANGED <<socket, drain, retired, steeringVars>>
  \/ /\ Settle(o, IF o \in Reports THEN "result" ELSE "error")
     /\ Leave(s, inFlightCount[s] + 1, FALSE)

\* The callback given to _getTransport is handed transport s.  A report sends
\* to every server and finishes at once; so does a rate request none of whose
\* sends could even be started.
Use(o, s) ==
  \/ /\ o \notin Reports
     /\ MoveTo(o, "inflight", s)
     /\ inFlightCount' = [inFlightCount EXCEPT ![s] = @ + 1]
     /\ UNCHANGED <<socket, drain, retired, steeringVars>>
  \/ /\ Settle(o, IF o \in Reports THEN "result" ELSE "error")
     /\ Leave(s, inFlightCount[s], FALSE)

CanUseCurrent_WhileApplying == current # None /\ current \notin retired

\* The current transport is usable, also while advice waits for it to drain.
CanUseCurrent == current # None /\ current \notin retired /\ ~steeringApplying

FlushIsComing_IgnoresRebind == initQueue # {}

\* Somebody will flush the queue: a bind for it, or a rebind, is on its way.
FlushIsComing == initQueue # {} \/ steeringPending \/ steeringApplying

\* _getTransport(o's callback): use the transport, wait for it, or bind one.
GetTransport(o) ==
  \/ /\ CanUseCurrent
     /\ Use(o, current)
     /\ UNCHANGED <<current, initQueue>>
  \/ /\ ~CanUseCurrent
     /\ MoveTo(o, "queued", None)
     /\ initQueue' = initQueue \union {o}
     /\ IF FlushIsComing
        THEN UNCHANGED socket
        ELSE \E n \in Sockets : /\ socket[n] = "closed"
                                /\ socket' = [socket EXCEPT ![n] = "binding"]
     /\ UNCHANGED <<inFlightCount, drain, retired, current, steeringVars>>

\* The callback given to refreshIfNeeded, once it is clear whether any server
\* is known.
Resolved(o, haveServers) ==
  IF haveServers
  THEN GetTransport(o)
  ELSE /\ Settle(o, "error")
       /\ UNCHANGED <<netVars, initQueue, steeringVars>>

\* _flushTransportQueue, from an event of the event loop.
Flush(does, on) ==
  /\ loop' = IF initQueue = {} THEN NoLoop ELSE [does |-> does, on |-> on, rest |-> initQueue]
  /\ inUser' = FALSE
  /\ initQueue' = {}

-----------------------------------------------------------------------------
(* The application. *)

\* checkRateLimit() or reportLatency(); a call made from a callback of a
\* running loop leaves the loop as it is.
Call(o) ==
  /\ UserRuns
  /\ stage[o] = "idle"
  /\ \/ \* refused
        /\ destroyed
        /\ Settle(o, "destroyed")
        /\ UNCHANGED <<lookups, netVars, initQueue, steeringVars>>
     \/ \* an empty request or report, or one no packet can be made of
        /\ ~destroyed
        /\ \E r \in {"result", "error"} : Settle(o, r)
        /\ UNCHANGED <<lookups, netVars, initQueue, steeringVars>>
     \/ \* the server list is old: look it up
        /\ ~destroyed
        /\ ~fresh
        /\ MoveTo(o, "resolving", None)
        /\ lookups' = lookups \union {o}
        /\ UNCHANGED <<netVars, initQueue, steeringVars>>
     \/ /\ ~destroyed
        /\ fresh
        /\ Resolved(o, known)
        /\ UNCHANGED lookups
  /\ UNCHANGED <<destroyed, known, fresh, loopVars>>

\* The slot of an answered call is used for another one.
Reuse(o) ==
  /\ stage[o] = "settled"
  /\ UserRuns
  /\ o \notin loop.rest
  /\ o \notin lookups
  /\ stage' = [stage EXCEPT ![o] = "idle"]
  /\ result' = [result EXCEPT ![o] = "none"]
  /\ calls' = [calls EXCEPT ![o] = 0]
  /\ UNCHANGED <<destroyed, transport, dnsVars, netVars, initQueue, steeringVars, loopVars>>

CancelledByDestroy_InFlightOnly == {o \in Ops : stage[o] = "inflight"}

\* The calls in _activeRateRequests and _activeRequests.
CancelledByDestroy == {o \in Ops : stage[o] \in Active}

\* What destroy() leaves of a pending advice: cancelling the last call of a
\* transport runs executeRebind, which sees _destroyed and resets both flags.
AdviceDropped == \E s \in Sockets : "executeRebind" \in drain[s]

\* destroy(): every call is cancelled, every open socket is closed.
Destroy ==
  /\ UserRuns
  /\ ~destroyed
  /\ destroyed' = TRUE
  /\ LET live == CancelledByDestroy
     IN  /\ stage' = [o \in Ops |-> IF o \in live THEN "settled" ELSE stage[o]]
         /\ result' = [o \in Ops |-> IF o \in live THEN "destroyed" ELSE result[o]]
         /\ calls' = [o \in Ops |-> IF o \in live THEN calls[o] + 1 ELSE calls[o]]
         /\ transport' = [o \in Ops |-> IF o \in live THEN None ELSE transport[o]]
  /\ socket' = [s \in Sockets |-> IF s = current \/ s \in retired THEN "closed" ELSE socket[s]]
  /\ inFlightCount' = [s \in Sockets |-> 0]
  /\ drain' = [s \in Sockets |-> {}]
  /\ retired' = {}
  /\ current' = None
  /\ initQueue' = {}
  /\ steeringPending' = (steeringPending /\ ~AdviceDropped)
  /\ steeringApplying' = (steeringApplying /\ ~AdviceDropped)
  /\ UNCHANGED <<dnsVars, rebindOf, loopVars>>

-----------------------------------------------------------------------------
(* The event loop. *)

\* A lookup ends.  An error is survived while an older server list is there.
LookupDone(o) ==
  /\ EventLoopIdle
  /\ o \in lookups
  /\ lookups' = lookups \ {o}
  /\ IF destroyed \/ Terminal(o)
     THEN UNCHANGED <<callVars, known, fresh, netVars, initQueue, steeringVars>>
     ELSE \/ /\ known' = TRUE
             /\ fresh' = TRUE
             /\ Resolved(o, TRUE)
          \/ /\ UNCHANGED <<known, fresh>>
             /\ Resolved(o, known)
  /\ UNCHANGED <<destroyed, loopVars>>

\* dnsRefreshIntervalS has passed since the last lookup that succeeded: the
\* clock is read by every call, also by one made from a callback.
Expire ==
  /\ fresh
  /\ fresh' = FALSE
  /\ UNCHANGED <<destroyed, callVars, lookups, known, netVars, initQueue, steeringVars, loopVars>>

BindDone_AfterDestroy(n) ==
  /\ EventLoopIdle
  /\ socket[n] = "binding"
  /\ socket' = [socket EXCEPT ![n] = "open"]
  /\ current' = n
  /\ Flush("grant", n)
  /\ UNCHANGED <<destroyed, callVars, dnsVars, inFlightCount, drain, retired, steeringVars>>

\* The first bind ends well.
BindDone(n) ==
  /\ EventLoopIdle
  /\ socket[n] = "binding"
  /\ IF destroyed
     THEN /\ socket' = [socket EXCEPT ![n] = "closed"]
          /\ UNCHANGED <<current, initQueue, loopVars>>
     ELSE /\ socket' = [socket EXCEPT ![n] = "open"]
          /\ current' = n
          /\ Flush("grant", n)
  /\ UNCHANGED <<destroyed, callVars, dnsVars, inFlightCount, drain, retired, steeringVars>>

BindFails_Silently(n) ==
  /\ EventLoopIdle
  /\ socket[n] = "binding"
  /\ socket' = [socket EXCEPT ![n] = "closed"]
  /\ UNCHANGED <<initQueue, loopVars>>
  /\ UNCHANGED <<destroyed, callVars, dnsVars, inFlightCount, drain, retired, current, steeringVars>>

\* The first bind fails: whoever waited is told, and a later call binds again.
BindFails(n) ==
  /\ EventLoopIdle
  /\ socket[n] = "binding"
  /\ socket' = [socket EXCEPT ![n] = "closed"]
  /\ Flush("refuse", None)
  /\ UNCHANGED <<destroyed, callVars, dnsVars, inFlightCount, drain, retired, current, steeringVars>>

Publish_OldTransport(does, on) ==
  /\ steeringPending' = FALSE
  /\ steeringApplying' = FALSE
  /\ rebindOf' = None
  /\ Flush(does, rebindOf)

Publish_NoFlush(does, on) ==
  /\ steeringPending' = FALSE
  /\ steeringApplying' = FALSE
  /\ rebindOf' = None
  /\ UNCHANGED <<initQueue, loopVars>>

Publish_StaysPending(does, on) ==
  /\ UNCHANGED steeringPending
  /\ steeringApplying' = FALSE
  /\ rebindOf' = None
  /\ Flush(does, on)

\* finally of executeRebind: publish the settled state, then flush.
Publish(does, on) ==
  /\ steeringPending' = FALSE
  /\ steeringApplying' = FALSE
  /\ rebindOf' = None
  /\ Flush(does, on)

RebindDone_LeavesOldOpen(n) ==
  /\ EventLoopIdle
  /\ socket[n] = "rebinding"
  /\ socket' = [socket EXCEPT ![n] = IF destroyed THEN "closed" ELSE "open"]
  /\ current' = IF destroyed THEN current ELSE n
  /\ Publish("grant", n)
  /\ UNCHANGED <<destroyed, callVars, dnsVars, inFlightCount, retired, drain>>

\* The bind of a rebind ends well: the new transport is current before the old
\* one is retired, and a retired one with no call in flight is closed at once.
RebindDone(n) ==
  /\ EventLoopIdle
  /\ socket[n] = "rebinding"
  /\ IF destroyed
     THEN /\ socket' = [socket EXCEPT ![n] = "closed"]
          /\ UNCHANGED <<current, retired, drain>>
          /\ Publish("grant", rebindOf)
     ELSE LET retires == rebindOf # None
              busy == retires /\ inFlightCount[rebindOf] > 0
          IN  /\ current' = n
              /\ socket' = [s \in Sockets |-> IF s = n THEN "open"
                                              ELSE IF s = rebindOf /\ ~busy THEN "closed"
                                              ELSE socket[s]]
              /\ retired' = IF busy THEN retired \union {rebindOf} ELSE retired
              /\ drain' = [s \in Sockets |->
                             IF s # rebindOf THEN drain[s]
                             ELSE IF busy THEN drain[s] \union {"closeRetiringSocket"}
                             ELSE {}]
              /\ Publish("grant", n)
  /\ UNCHANGED <<destroyed, callVars, dnsVars, inFlightCount>>

\* The bind of a rebind fails: go on with the old transport, if it is there.
RebindFails(n) ==
  /\ EventLoopIdle
  /\ socket[n] = "rebinding"
  /\ socket' = [socket EXCEPT ![n] = "closed"]
  /\ IF rebindOf = None \/ rebindOf \in retired
     THEN Publish("refuse", None)
     ELSE Publish("grant", rebindOf)
  /\ UNCHANGED <<destroyed, callVars, dnsVars, inFlightCount, drain, retired, current>>

\* An answer is selected; "advised" is its steeringFeedback = false.
Answered(o, advised) ==
  /\ EventLoopIdle
  /\ stage[o] = "inflight"
  /\ Settle(o, "result")
  /\ Leave(transport[o], inFlightCount[transport[o]] - 1, advised)
  /\ UNCHANGED <<destroyed, dnsVars, current, initQueue, loopVars>>

\* The request gives up: its horizon has passed, or no send of a round worked.
GivesUp(o) ==
  /\ EventLoopIdle
  /\ stage[o] = "inflight"
  /\ Settle(o, "error")
  /\ Leave(transport[o], inFlightCount[transport[o]] - 1, FALSE)
  /\ UNCHANGED <<destroyed, dnsVars, current, initQueue, loopVars>>

\* The socket reports an error: the handlers in flight are told one by one.
SocketError(s) ==
  /\ EventLoopIdle
  /\ socket[s] = "open"
  /\ LET handlers == {o \in Ops : stage[o] = "inflight" /\ transport[o] = s}
     IN  /\ handlers # {}
         /\ loop' = [does |-> "fail", on |-> s, rest |-> handlers]
  /\ inUser' = FALSE
  /\ UNCHANGED <<destroyed, callVars, dnsVars, netVars, initQueue, steeringVars>>

\* The body of the loop, for a call that is not terminal.
Iterate(o) ==
  CASE loop.does = "grant" -> Use(o, loop.on)
    [] loop.does = "refuse" -> /\ Settle(o, "error")
                               /\ UNCHANGED <<socket, inFlightCount, drain, retired, steeringVars>>
    [] loop.does = "fail" -> /\ Settle(o, "error")
                             /\ Leave(loop.on, inFlightCount[loop.on] - 1, FALSE)

\* A callback that throws when it is told a result.  What it throws ends the
\* running loop: the promise chain of the lazy bind swallows it, and elsewhere
\* the process is assumed to survive it.
Throws(o, told) == o \in Throwers /\ told = "result"

\* The next iteration.
LoopStep(o) ==
  /\ o \in loop.rest
  /\ IF Terminal(o)
     THEN UNCHANGED <<callVars, socket, inFlightCount, drain, retired, steeringVars>>
     ELSE Iterate(o)
  /\ LET ran == calls'[o] # calls[o]
         rest == IF ran /\ Throws(o, result'[o]) THEN {} ELSE loop.rest \ {o}
     IN  /\ loop' = IF rest = {} THEN NoLoop ELSE [loop EXCEPT !.rest = rest]
         /\ inUser' = (ran /\ rest # {})
  /\ UNCHANGED <<destroyed, dnsVars, current, initQueue>>

-----------------------------------------------------------------------------
Application == Destroy \/ \E o \in Ops : Call(o) \/ Reuse(o)

EventLoop ==
  \/ Expire
  \/ \E o \in Ops : \/ LookupDone(o)
                    \/ \E advised \in BOOLEAN : Answered(o, advised)
                    \/ GivesUp(o)
                    \/ LoopStep(o)
  \/ \E s \in Sockets : \/ BindDone(s) \/ BindFails(s)
                        \/ RebindDone(s) \/ RebindFails(s)
                        \/ SocketError(s)

Next == Application \/ EventLoop

Spec == Init /\ [][Next]_vars

(***************************************************************************)
(* The resolver and bind() answer, a request's timers fire, and a loop     *)
(* goes on.  A handler is kept from running while a loop runs, over and    *)
(* over if there are loops over and over, so the fairness of events is     *)
(* strong: a timer that is due and a result that has arrived stay queued   *)
(* and Node takes them when the loop has ended.                            *)
(***************************************************************************)
Fairness ==
  /\ \A o \in Ops : SF_vars(LookupDone(o)) /\ SF_vars(GivesUp(o)) /\ WF_vars(LoopStep(o))
  /\ \A s \in Sockets : /\ SF_vars(BindDone(s) \/ BindFails(s))
                        /\ SF_vars(RebindDone(s) \/ RebindFails(s))

FairSpec == Spec /\ Fairness

-----------------------------------------------------------------------------
(* Safety. *)

InFlight(s) == {o \in Ops : stage[o] = "inflight" /\ transport[o] = s}
Binding == {s \in Sockets : socket[s] \in {"binding", "rebinding"}}

\* Every variable stays in its type.
TypeOK ==
  /\ destroyed \in BOOLEAN
  /\ stage \in [Ops -> Stages]
  /\ result \in [Ops -> Results]
  /\ calls \in [Ops -> Nat]
  /\ transport \in [Ops -> Sockets \union {None}]
  /\ lookups \subseteq Ops
  /\ known \in BOOLEAN /\ fresh \in BOOLEAN
  /\ socket \in [Sockets -> SocketStates]
  /\ inFlightCount \in [Sockets -> Nat]
  /\ drain \in [Sockets -> SUBSET DrainCallbacks]
  /\ retired \subseteq Sockets
  /\ current \in Sockets \union {None}
  /\ initQueue \subseteq Ops
  /\ steeringPending \in BOOLEAN /\ steeringApplying \in BOOLEAN
  /\ rebindOf \in Sockets \union {None}
  /\ loop \in [does : LoopKinds, on : Sockets \union {None}, rest : SUBSET Ops]
  /\ inUser \in BOOLEAN

\* A call's callback is called once: exactly when the call is settled, however
\* answer, timer, socket error, flush and destroy() race for it.
CalledOnce ==
  \A o \in Ops : /\ calls[o] = IF stage[o] = "settled" THEN 1 ELSE 0
                 /\ result[o] = "none" <=> stage[o] # "settled"

\* inFlightCount counts the calls that hold the transport: with one too many
\* it would never drain, with one too few it would drain under a call.
CountsCalls == \A s \in Sockets : inFlightCount[s] = Cardinality(InFlight(s))

\* A call in flight holds the current transport and its socket is open: it is
\* never left on a socket that was closed or replaced.
InFlightOnCurrent ==
  \A o \in Ops : stage[o] = "inflight" =>
    current # None /\ transport[o] = current /\ socket[current] = "open"

\* A loop that hands out a transport hands out the current, open one, also
\* after the application has run between two iterations.
GrantsCurrent ==
  (loop.does = "grant" /\ \E o \in loop.rest : stage[o] # "settled") =>
    loop.on = current /\ current # None /\ socket[current] = "open"

\* A socket is open only while it is the current transport: none leaks when
\* the transport is replaced or destroy() overtakes a bind.
OnlyCurrentIsOpen ==
  /\ \A s \in Sockets : socket[s] = "open" <=> s = current
  /\ destroyed => current = None

\* There is one bind at a time, lazy bind and rebind together, and it is a
\* rebind exactly while advice is applied.
OneBind ==
  /\ \A s, t \in Binding : s = t
  /\ steeringApplying <=> \E s \in Sockets : socket[s] = "rebinding"

\* The rebind starts only when the old transport has drained, and until it
\* has ended no call uses that transport: so none is ever retired in use.
DrainBeforeRebind ==
  /\ steeringApplying => \A o \in Ops : stage[o] # "inflight"
  /\ retired = {}

\* Advice that waits will be woken: executeRebind is among the drain callbacks
\* of the current transport, on which a call is in flight.
PendingIsWoken ==
  (steeringPending /\ ~steeringApplying) =>
    /\ current # None
    /\ "executeRebind" \in drain[current]
    /\ inFlightCount[current] > 0

\* A call in the queue will be flushed: a bind is on its way, or the loop that
\* took it from the queue is still to come to it.
QueuedIsServed ==
  \A o \in Ops : stage[o] = "queued" =>
    \/ o \in initQueue /\ Binding # {}
    \/ o \in loop.rest /\ loop.does \in {"grant", "refuse"}

\* After destroy() nothing that was on its way has an effect: no late lookup
\* brings servers, no late bind opens a socket or hands one out.
QuietAfterDestroy ==
  [][destroyed => /\ known' = known /\ (fresh' => fresh)
                  /\ \A s \in Sockets : socket'[s] # socket[s] => socket'[s] = "closed"
                  /\ \A o \in Ops : stage'[o] \notin Active]_vars

-----------------------------------------------------------------------------
(* The inductive invariant: the properties above and what they rest on. *)

\* A call holds a transport exactly while it is in flight.
HoldsInFlight == \A o \in Ops : stage[o] = "inflight" <=> transport[o] # None

\* An outstanding lookup belongs to a call that waits for it, or is over.
LookupsAreAwaited == \A o \in lookups : stage[o] \in {"resolving", "settled"}

\* A running loop has calls to come to; those not over are in the state that
\* its body expects, and a loop that hands out the transport runs only when
\* no advice is acted on.
LoopIsSane ==
  /\ loop.rest # {} <=> loop.does # "none"
  /\ \A o \in loop.rest : stage[o] # "settled" =>
       IF loop.does = "fail"
       THEN stage[o] = "inflight" /\ loop.on = current
       ELSE stage[o] = "queued" /\ (loop.does = "grant" => ~steeringPending)

\* The queue holds waiting calls, none of which a loop has taken, and is there
\* exactly while a lazy bind is under way or during a rebind.
QueueIsSane ==
  /\ \A o \in initQueue : stage[o] = "queued" /\ o \notin loop.rest
  /\ initQueue # {} => Binding # {}
  /\ \A s \in Sockets : (socket[s] = "binding" /\ ~destroyed) =>
       initQueue # {} /\ current = None

\* Advice is about the current transport, and only advice drains one.
SteeringIsSane ==
  /\ steeringApplying => steeringPending
  /\ (steeringPending /\ ~destroyed) => current # None /\ rebindOf = current
  /\ \A s \in Sockets : drain[s] # {} =>
       drain[s] = {"executeRebind"} /\ s = current /\ steeringPending /\ ~steeringApplying

\* No call is under way after destroy().
DestroyedIsQuiet ==
  destroyed => initQueue = {} /\ \A o \in Ops : stage[o] \notin Active

IInv ==
  /\ TypeOK /\ CalledOnce /\ CountsCalls /\ HoldsInFlight /\ InFlightOnCurrent
  /\ LookupsAreAwaited /\ LoopIsSane /\ GrantsCurrent /\ QueueIsSane
  /\ OnlyCurrentIsOpen /\ OneBind /\ SteeringIsSane /\ DrainBeforeRebind
  /\ PendingIsWoken /\ DestroyedIsQuiet

-----------------------------------------------------------------------------
(* Liveness and refinement. *)

\* What the application knows of each call.
Told == [o \in Ops |-> IF stage[o] = "settled" THEN result[o]
                       ELSE IF stage[o] \in Active THEN "waiting"
                       ELSE "idle"]

Contract == INSTANCE CallContract WITH gone <- destroyed, answer <- Told

\* The client implements the contract of its calls.
ImplementsContract == Contract!Spec

Lookup == INSTANCE LookupContract
  WITH Callers <- Ops, gone <- destroyed, asking <- {o \in Ops : stage[o] = "resolving"}

\* What the client assumes of its lookups is within what LookupContract allows,
\* which Discovery implements: a call waits for a lookup only if the list is
\* old, a failure leaves the list as it is, destroy() lets nobody wait.
WithinLookupContract == Lookup!Spec

\* docs/api.md: the client invokes callback(err, result); the promise settles.
EveryCallSettles == Contract!EveryCallSettles

\* Advice is acted on, provided the transport is idle again and again; under
\* calls that overlap for ever it is not, by design.
AdviceIsApplied ==
  ([]<>(\A s \in Sockets : inFlightCount[s] = 0)) => (steeringPending ~> ~steeringPending)

-----------------------------------------------------------------------------
(* What the documentation says and the code does not do. *)

\* docs/configuration.md: the server list is refreshed in the background, so
\* that one which has become old does not stay old.
BackgroundRefresh == (known /\ ~fresh) ~> (fresh \/ destroyed)
=============================================================================
