---------------------------- MODULE RateRequest ----------------------------
(***************************************************************************)
(* One rate request of src/client.js once it holds its transport: what     *)
(* _sendRateRequest does to get an answer out of several servers over UDP. *)
(* Every round sends to each server that has not answered; the oldest      *)
(* server decides at once, a younger one only after the first wait; the    *)
(* answer selected is sent on to whoever has not answered.                 *)
(*                                                                         *)
(* Datagrams are lost, duplicated, delayed and reordered; a send may throw,*)
(* or fail in its callback, which may come later than the next round.      *)
(* A server id carries the second the server started in its upper bits,    *)
(* so ordering servers by start and then id is ordering the ids.           *)
(*                                                                         *)
(* Definitions named X_Something are slips one could make in X; no action  *)
(* uses them.  They exist to see that the properties would notice.         *)
(***************************************************************************)
EXTENDS RequestPolicy

CONSTANTS Requests,              \* the requests of interest
          Strangers,             \* ids of servers started since the lookup
          None                   \* no candidate

ASSUME MembershipAssumption ==
  /\ \A r \in Requests :
       /\ DOMAIN r.membership # {}
       /\ r.membership \in [DOMAIN r.membership -> Nat \ Strangers]
  /\ Strangers \subseteq Nat
  /\ None \notin Nat
ASSUME PolicyAssumption ==
  \A r \in Requests : ValidPolicy(r.policy) /\ r.policy.completionDelivery \in BOOLEAN

VARIABLES
  request,           \* what the request captured; it does not change
  unsendable,        \* endpoints whose port socket.send() refuses by throwing
  outcome,           \* "none" until terminal; then what finish() was told
  timer,             \* the one timer of the request
  round,
  finalReceive,
  seen,              \* seenServerIds
  candidate,
  pending,           \* pending[k]: sends of round k whose callback is to come
  failing,           \* failing[k]: those of them it will tell of an error
  delivered,         \* delivered[k]: a callback of round k told of no error
  reached,           \* endpoints a datagram of a round has left for
  completed,         \* endpoints whose completion send did not throw
  waited,            \* units that the timers which fired had waited
  rejected           \* a datagram came that could not be authenticated or parsed

vars == <<request, unsendable, outcome, timer, round, finalReceive, seen, candidate, pending,
          failing, delivered, reached, completed, waited, rejected>>
sendVars == <<request, unsendable, pending, failing, delivered, reached>>

ServerOf == request.membership   \* the serverId of each endpoint
Endpoints == DOMAIN ServerOf     \* servers[] of the moment
Policy == request.policy         \* config.requestPolicy

ServerIds == {ServerOf[e] : e \in Endpoints}

Rounds == 0..Policy.replayCount
Outcomes == {"none", "answer", "timeout", "undelivered", "socketError", "destroyed"}

terminal == outcome # "none"

Gap(k) == Units(Policy.replayGap, k)

\* oldestServerId: membership is sorted, so it is the first.
OldestServerId == CHOOSE id \in ServerIds : \A other \in ServerIds : id <= other

-----------------------------------------------------------------------------
(* Pieces of handlers. *)

\* targets of sendMissing(): every endpoint of a server that has not answered.
Missing(heard) == {e \in Endpoints : ServerOf[e] \notin heard}

\* sendMissing(true), once an answer is selected.  A send that throws sends
\* nothing, and the error is swallowed; so are those told in the callbacks.
CompletionTargets(heard) ==
  IF Policy.completionDelivery THEN Missing(heard) \ unsendable ELSE {}

\* finish(), and cancel() of activeEntry.
Finish(what, heard) ==
  /\ outcome' = what
  /\ timer' = "none"
  /\ completed' = IF what = "answer" THEN CompletionTargets(heard) ELSE {}

Wait_Unarmed(t) == timer' = "none" /\ UNCHANGED <<outcome, completed>>

\* setTimeout() for the next step of the request.
Wait(t) == timer' = t /\ UNCHANGED <<outcome, completed>>

\* armRound(): send to all who are missing, then wait.  The callback of the
\* sends in "fails" will tell of an error, the others have left.  A request
\* none of whose sends could be started fails at once.
ArmRound(k) ==
  LET started == Missing(seen) \ unsendable
  IN  \E fails \in SUBSET started :
        /\ round' = k
        /\ pending' = [pending EXCEPT ![k] = started]
        /\ failing' = [failing EXCEPT ![k] = fails]
        /\ reached' = reached \union (started \ fails)
        /\ UNCHANGED <<request, unsendable, delivered>>
        /\ IF started = {} /\ Missing(seen) # {}
           THEN Finish("undelivered", seen)
           ELSE Wait("round")

Better_AnyLater(id, than) == TRUE

\* better(): nothing yet, or the answer of a younger server.
Better(id, than) == than = None \/ id < than

Decides_Anyone(id) == TRUE

\* An answer that ends the request: the oldest server's at any time, anyone's
\* after the first wait.
Decides(id) == id = OldestServerId \/ round > 0 \/ finalReceive

Trusted_Anyone(id) == TRUE

\* trusted: the ids of the membership when the request was made.
Trusted(id) == id \in ServerIds

-----------------------------------------------------------------------------
(* The request. *)

Init ==
  /\ request \in Requests
  /\ unsendable \in SUBSET Endpoints
  /\ outcome = "none"
  /\ timer = "unarmed"
  /\ round = 0
  /\ finalReceive = FALSE
  /\ seen = {}
  /\ candidate = None
  /\ pending = [k \in Rounds |-> {}]
  /\ failing = [k \in Rounds |-> {}]
  /\ delivered = [k \in Rounds |-> FALSE]
  /\ reached = {}
  /\ completed = {}
  /\ waited = 0
  /\ rejected = FALSE

\* _getTransport's callback arms the first round.
Start ==
  /\ timer = "unarmed"
  /\ ArmRound(0)
  /\ UNCHANGED <<finalReceive, seen, candidate, waited, rejected>>

Told(k, e) == IF e \in failing[k] THEN delivered[k] ELSE TRUE

FailsRound_WhenOver(k, e) == pending[k] = {e} /\ ~Told(k, e)

FailsRound_LastFails(k, e) == ~terminal /\ pending[k] = {e} /\ e \in failing[k]

FailsRound_SharedFlag(k, e) ==
  ~terminal /\ pending[k] = {e} /\ e \in failing[k] /\ ~delivered[round]

\* The last callback of a round's sends finds that none was delivered.
FailsRound(k, e) == ~terminal /\ pending[k] = {e} /\ ~Told(k, e)

\* The callback of one send of round k, perhaps in a later round or too late.
SendCallback(k, e) ==
  /\ e \in pending[k]
  /\ pending' = [pending EXCEPT ![k] = @ \ {e}]
  /\ delivered' = [delivered EXCEPT ![k] = Told(k, e)]
  /\ IF FailsRound(k, e)
     THEN Finish("undelivered", seen)
     ELSE UNCHANGED <<outcome, timer, completed>>
  /\ UNCHANGED <<request, unsendable, round, finalReceive, seen, candidate, failing, reached,
                 waited, rejected>>

\* Who may answer: a server reached, or one started since behind an endpoint
\* that was reached.
Heard == {ServerOf[e] : e \in reached} \union (IF reached = {} THEN {} ELSE Strangers)

\* onMessage with a valid answer, the first of its server or a duplicate.
OnMessage(id) ==
  /\ ~terminal
  /\ id \in Heard
  /\ Trusted(id)
  /\ seen' = seen \union {id}
  /\ candidate' = IF Better(id, candidate) THEN id ELSE candidate
  /\ IF Decides(id)
     THEN Finish("answer", seen')
     ELSE UNCHANGED <<outcome, timer, completed>>
  /\ UNCHANGED <<round, finalReceive, sendVars, waited, rejected>>

\* onMessage with this request's id and a failed tag, another tenant, a body
\* that does not match the request: parseRateResponse throws, and the error is
\* dropped as noise.
OnInvalidMessage ==
  /\ ~terminal
  /\ Heard # {}
  /\ rejected' = TRUE
  /\ UNCHANGED <<outcome, timer, round, finalReceive, seen, candidate, sendVars, completed, waited>>

MayReplay_OnceMore == round <= Policy.replayCount

MayReplay_OneLess == round + 1 < Policy.replayCount

MayReplay == round < Policy.replayCount

Settles_WhenNoReplay == candidate # None /\ ~MayReplay

\* The wait of the first round is over and somebody younger has answered.
Settles == candidate # None

\* The timer of a round: settle for the candidate, try again, listen for a
\* last time, or give up.
RoundTimer ==
  /\ timer = "round"
  /\ waited' = waited + Gap(round)
  /\ \/ /\ Settles
        /\ Finish("answer", seen)
        /\ UNCHANGED <<round, finalReceive, sendVars>>
     \/ /\ ~Settles
        /\ MayReplay
        /\ ArmRound(round + 1)
        /\ UNCHANGED finalReceive
     \/ /\ ~Settles
        /\ ~MayReplay
        /\ IF Policy.finalReceiveUnits > 0
           THEN finalReceive' = TRUE /\ Wait("final")
           ELSE Finish("timeout", seen) /\ UNCHANGED finalReceive
        /\ UNCHANGED <<round, sendVars>>
  /\ UNCHANGED <<seen, candidate, rejected>>

FinalTimer ==
  /\ timer = "final"
  /\ waited' = waited + Policy.finalReceiveUnits
  /\ Finish("timeout", seen)
  /\ UNCHANGED <<round, finalReceive, seen, candidate, sendVars, rejected>>

\* onError: the socket failed under the request.
OnError ==
  /\ ~terminal
  /\ timer # "unarmed"
  /\ Finish("socketError", seen)
  /\ UNCHANGED <<round, finalReceive, seen, candidate, sendVars, waited, rejected>>

\* destroy() cancels the request.
Cancel ==
  /\ ~terminal
  /\ timer # "unarmed"
  /\ Finish("destroyed", seen)
  /\ UNCHANGED <<round, finalReceive, seen, candidate, sendVars, waited, rejected>>

Next ==
  \/ Start
  \/ \E k \in Rounds, e \in Endpoints : SendCallback(k, e)
  \/ \E id \in ServerIds \union Strangers : OnMessage(id)
  \/ OnInvalidMessage
  \/ RoundTimer
  \/ FinalTimer
  \/ OnError
  \/ Cancel

Spec == Init /\ [][Next]_vars

\* The first round is sent when the transport is there, and timers fire.
Fairness == WF_vars(Start) /\ WF_vars(RoundTimer) /\ WF_vars(FinalTimer)
FairSpec == Spec /\ Fairness

-----------------------------------------------------------------------------
(* Safety. *)

TypeOK ==
  /\ request \in Requests
  /\ unsendable \subseteq Endpoints
  /\ outcome \in Outcomes
  /\ timer \in {"unarmed", "round", "final", "none"}
  /\ round \in Rounds
  /\ finalReceive \in BOOLEAN
  /\ seen \subseteq ServerIds
  /\ candidate \in ServerIds \union {None}
  /\ pending \in [Rounds -> SUBSET Endpoints]
  /\ failing \in [Rounds -> SUBSET Endpoints]
  /\ delivered \in [Rounds -> BOOLEAN]
  /\ reached \subseteq Endpoints
  /\ completed \subseteq Endpoints
  /\ waited \in Nat
  /\ rejected \in BOOLEAN

\* The candidate is the oldest server heard so far, in whatever order and
\* however often the answers came.
CandidateIsOldestSeen ==
  IF seen = {} THEN candidate = None
  ELSE candidate \in seen /\ \A id \in seen : candidate <= id

\* A request that goes into another round, or listens for the last time, has
\* heard nobody yet: so a retry goes to every endpoint, and an answer that was
\* heard is never left waiting past the first round.
HeardMeansFirstRound ==
  (outcome = "none" /\ (round > 0 \/ finalReceive)) => seen = {}

\* A timeout means that no server was heard for the whole horizon the packet
\* announced as its dedup TTL, no less and no more.
TimeoutAtHorizon ==
  outcome = "timeout" => seen = {} /\ waited = HorizonUnits(Policy)

\* A delivery failure is that of one whole round: each endpoint refused the send
\* of that round, by throwing or in its callback, and no callback of the round
\* is to come.  Rounds overlap, their callbacks come in any order, and the
\* failures of two rounds never add up to one; a single send that left, be it
\* told of first or last, is enough for its round.
UndeliveredMeansWholeRound ==
  outcome = "undelivered" =>
    \E k \in Rounds : pending[k] = {} /\ Endpoints \ unsendable \subseteq failing[k]

\* What has been decided stays decided, and nothing more is sent for it,
\* whichever answers and send callbacks are still to come.
DecisionIsFinal ==
  [][terminal => UNCHANGED <<outcome, candidate, seen, reached, completed, timer>>]_vars

Decision == INSTANCE AdmissionDecision
  WITH servers <- ServerIds, heard <- seen, waitOver <- waited >= Gap(0),
       decider <- IF outcome = "answer" THEN candidate ELSE None

\* RateRequest implements AdmissionDecision: however the answers, timers, send
\* callbacks and failures race, the oldest member heard in time decides, a
\* younger one never before the first wait is over, a stranger never, and a
\* delivery failure or a timeout never throws away an answer.
ImplementsDecision == Decision!Spec

-----------------------------------------------------------------------------
(* Liveness. *)

\* Every request ends, whatever the network does.
RequestEnds == <>terminal

-----------------------------------------------------------------------------
(* What the repository says and the code does not do. *)

\* test_send_failure.js: a request that fails to be delivered reached nobody,
\* "nothing reached the network".
UndeliveredReachedNobody == outcome = "undelivered" => reached = {}

\* docs/api.md: a failed tag or a malformed answer is reported as an error of
\* its own, so that a timeout means that no answer came.
TimeoutMeansNoAnswer == outcome = "timeout" => ~rejected
=============================================================================
