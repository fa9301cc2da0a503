---------------------------- MODULE WireProtocol ----------------------------
(***************************************************************************)
(* The packets of src/client.js: rate requests and latency reports that    *)
(* the client writes, and the parser of a rate response.  The tenant       *)
(* configuration and the resources and guards of a call are objects of the *)
(* application, which the client reads again when the answer comes; the    *)
(* application may have changed them in between.                           *)
(*                                                                         *)
(* A packet is the sizes of its fields and the few values that decide      *)
(* something.  Digests and ciphers are perfect: an id is what it was       *)
(* derived from, and what was sealed opens with the same secret only.      *)
(***************************************************************************)
EXTENDS Sequences, SequencesExt, RequestPolicy

CONSTANTS Tenants,       \* configurations: [keyId, authMethod, authSecret]
          ApiKeys,       \* ApiKeys[e]: the key that text e decodes to
          Names,         \* names of resources and guards
          Requests,      \* calls: [resources, guards, label], label in bytes
          Policies,      \* request policies
          Reports,       \* numbers of blocks in latency reports
          UInt32,        \* numbers that fit the fields
          MaxRequests,   \* bound: packets of a behaviour
          MaxAnswered,   \* bound: resources, and guards, of an answered request
          None,          \* null
          Refused        \* an exception

Resources == [name : Names, window : Nat, rate : Nat]
Guards == [name : Names, ttl : Nat, samples : Nat, minimum : Nat, threshold : Nat]

\* The values of _decodedAuth.
DecodedKeys == {[encoded |-> e, key |-> ApiKeys[e]] : e \in DOMAIN ApiKeys}

RateLimitResults ==
  [guards : Seq([name : Names \union {None}, passed : BOOLEAN]),
   resources : Seq([name : Names \union {None}, deficit : {0, 1}]), success : BOOLEAN]

ASSUME WireAssumption ==
  /\ \A t \in Tenants : t.authMethod \in {"none", "cookie", "aes"}
  /\ \A e \in DOMAIN ApiKeys : ApiKeys[e].quotas.dedup \in Nat
  /\ \A p \in Policies : ValidPolicy(p)
  /\ Requests \subseteq [resources : Seq(Resources), guards : Seq(Guards), label : Nat]
  /\ Reports \subseteq Nat
  /\ MaxRequests \in Nat /\ MaxAnswered \in Nat
  /\ None # Refused /\ None \notin DOMAIN ApiKeys /\ None \notin Requests
  /\ {None, Refused} \cap DecodedKeys = {} /\ {None, Refused} \cap RateLimitResults = {}

VARIABLES
  tenant,            \* config.tenant
  decodedAuth,       \* tenant._decodedAuth
  quotas,            \* quotas of the key the client was made with, None without key
  policy,            \* config.requestPolicy
  request,           \* the call's resources and guards
  requests,          \* packets so far; their number is their request id
  packet,            \* the packet under way, None or Refused
  answer,            \* the datagram that came, or None
  result             \* what became of it: a RateLimitResult, None or Refused

vars == <<tenant, decodedAuth, quotas, policy, request, requests, packet, answer, result>>
clientVars == <<quotas, policy>>

-----------------------------------------------------------------------------
(* The tenant's key. *)

FromCache_Always(t) == decodedAuth # None
FromCache(t) == decodedAuth # None /\ decodedAuth.encoded = t.authSecret

\* _decodeAuthKey; decodeApiKey has checked the secret's length.
DecodeAuthKey(t) ==
  IF FromCache(t) THEN decodedAuth
  ELSE IF t.authSecret \in DOMAIN ApiKeys /\ ApiKeys[t.authSecret].keyId = t.keyId
       THEN [encoded |-> t.authSecret, key |-> ApiKeys[t.authSecret]]
       ELSE Refused

\* _requireDecodedAuth, and the checks of _tenantQuotas.
KeyFits(t) ==
  /\ DecodeAuthKey(t) # Refused
  /\ DecodeAuthKey(t).key.method = t.authMethod

\* A key that could be decoded is kept.
Remember(t) ==
  decodedAuth' = IF DecodeAuthKey(t) = Refused THEN decodedAuth ELSE DecodeAuthKey(t)

-----------------------------------------------------------------------------
(* Packets. *)

MAX_DATAGRAM_SIZE == 1200

\* The position after the last of the fields.
Total(fields) ==
  LET pos[i \in Nat] == IF i \in DOMAIN fields THEN pos[i - 1] + fields[i] ELSE 0
  IN  pos[Len(fields)]

\* A PDU is its sections in order, each a number of blocks of the same fields.
Section(n, fields) == [times |-> n, fields |-> fields]
Length(sections) ==
  Total([i \in DOMAIN sections |-> sections[i].times * Total(sections[i].fields)])

TenantFields == <<2, 2, 8, 16, 8, 1, 1, 1, 1>>
AuthFields == [none |-> <<2, 2>>, cookie |-> <<2, 2, 32>>, aes |-> <<2, 2, 12, 16>>]
AuthHeaderSize == [none |-> 4, cookie |-> 36, aes |-> 32]

RoundUp_Exact(size) == size
RoundUp(size) == ((size + 3) \div 4) * 4

\* An empty label is no label.
LabelSize(label) == IF label = 0 THEN 0 ELSE 4 + RoundUp(2 + label)
LabelFields(label) == <<2, 2, 2, label, (((2 + label + 3) \div 4) * 4) - (2 + label)>>

RatePduSize(r) == 8 + 4 + Len(r.guards) * 36 + Len(r.resources) * 28 + LabelSize(r.label)
RatePdu(r) ==
  <<Section(1, <<2, 2, 4, 2, 2>>), Section(Len(r.guards), <<16, 4, 4, 4, 4, 4>>),
    Section(Len(r.resources), <<16, 4, 4, 2, 2>>),
    Section(IF r.label = 0 THEN 0 ELSE 1, LabelFields(r.label))>>

ReportPduSize(n) == 12 + n * 32
ReportPdu(n) == <<Section(1, <<2, 2, 4, 2, 2>>), Section(n, <<16, 4, 4, 4, 4>>)>>

Fits_Pdu(method, pduSize) == pduSize <= MAX_DATAGRAM_SIZE
Fits(method, pduSize) == 40 + AuthHeaderSize[method] + pduSize <= MAX_DATAGRAM_SIZE

\* CanonicalIds: the domain separates buckets from latency trackers.
BucketId_NoName(r) == <<"resource", r.window, r.rate>>
BucketId(r) == <<"resource", r.name, r.window, r.rate>>
LatencyTrackerId(g) == <<"latency-tracker", g.name, g.ttl, g.samples, g.minimum>>

\* What the fields of the packet can hold, and the key's quotas allow.
Encodable(r, limits) ==
  /\ WithinQuota(policy, limits.dedup)
  /\ \A i \in DOMAIN r.resources :
       /\ r.resources[i].window <= limits.window
       /\ {r.resources[i].window, r.resources[i].rate} \subseteq UInt32
  /\ \A i \in DOMAIN r.guards :
       {r.guards[i].ttl, r.guards[i].samples, r.guards[i].minimum, r.guards[i].threshold} \subseteq UInt32

Seal(t) == [method |-> t.authMethod,
            secret |-> IF t.authMethod = "none" THEN None ELSE DecodeAuthKey(t).key.secret]

-----------------------------------------------------------------------------
(* The client. *)

\* The constructor: the key must fit, and the policy the key; or there is no key.
Init ==
  /\ tenant \in Tenants
  /\ policy \in Policies
  /\ IF tenant.authSecret = None
     THEN decodedAuth = None /\ quotas = None
     ELSE /\ tenant.authSecret \in DOMAIN ApiKeys
          /\ LET key == ApiKeys[tenant.authSecret]
             IN  /\ key.keyId = tenant.keyId /\ key.method = tenant.authMethod
                 /\ WithinQuota(policy, key.quotas.dedup)
                 /\ decodedAuth = [encoded |-> tenant.authSecret, key |-> key]
                 /\ quotas = key.quotas
  /\ request = None
  /\ requests = 0
  /\ packet = None /\ answer = None /\ result = None

\* checkRateLimit up to the packet, for at least one resource or guard.  The
\* horizon is checked against the quotas of the client, then those of the key.
CreateRateRequest(r) ==
  /\ requests < MaxRequests
  /\ requests' = requests + 1
  /\ request' = r
  /\ IF quotas # None THEN Remember(tenant) ELSE UNCHANGED decodedAuth
  /\ packet' = IF /\ quotas # None
                  /\ WithinQuota(policy, quotas.dedup)
                  /\ KeyFits(tenant)
                  /\ Encodable(r, DecodeAuthKey(tenant).key.quotas)
                  /\ Fits(tenant.authMethod, RatePduSize(r))
               THEN [id |-> requests', tenant |-> tenant, request |-> r, seal |-> Seal(tenant),
                     ttl |-> HorizonMs(policy), pdu |-> RatePdu(r), pduSize |-> RatePduSize(r)]
               ELSE Refused
  /\ answer' = None /\ result' = None
  /\ UNCHANGED <<tenant, clientVars>>

\* createLatencyReport; nobody answers it.
CreateLatencyReport(n) ==
  /\ requests < MaxRequests
  /\ requests' = requests + 1
  /\ request' = None
  /\ IF tenant.authMethod # "none" /\ n > 0 /\ Fits(tenant.authMethod, ReportPduSize(n))
     THEN Remember(tenant) ELSE UNCHANGED decodedAuth
  /\ packet' = IF n = 0 THEN None
               ELSE IF /\ Fits(tenant.authMethod, ReportPduSize(n))
                       /\ tenant.authMethod = "none" \/ KeyFits(tenant)
                    THEN [id |-> requests', tenant |-> tenant, request |-> None, seal |-> Seal(tenant),
                          ttl |-> 0, pdu |-> ReportPdu(n), pduSize |-> ReportPduSize(n)]
                    ELSE Refused
  /\ answer' = None /\ result' = None
  /\ UNCHANGED <<tenant, clientVars>>

\* The auth header of a response: its size, and the key it was sealed with.
Opens(a) ==
  /\ a.authSize = AuthHeaderSize[a.seal.method]
  /\ a.seal.method = "cookie" /\ tenant.authMethod = "cookie" =>
       KeyFits(tenant) /\ a.seal.secret = DecodeAuthKey(tenant).key.secret
  /\ a.seal.method = "aes" =>
       /\ DecodeAuthKey(tenant) # Refused
       /\ DecodeAuthKey(tenant).key.method = "aes"
       /\ a.seal.secret = DecodeAuthKey(tenant).key.secret

\* The parser comes to decode the tenant's key.
ReadsKey(a) ==
  /\ a.tagged
  /\ a.id = packet.id
  /\ a.authSize = AuthHeaderSize[a.seal.method]
  /\ a.seal.method = "aes" \/ (a.seal.method = "cookie" /\ tenant.authMethod = "cookie")

\* Results beyond what was asked are not compared.
IdsMatch_Unchecked(a) == TRUE
IdsMatch(a) ==
  /\ \A i \in DOMAIN a.guards \cap DOMAIN request.guards :
       a.guards[i].id = LatencyTrackerId(request.guards[i])
  /\ \A i \in DOMAIN a.resources \cap DOMAIN request.resources :
       a.resources[i].id = BucketId(request.resources[i])

NameOf(list, i) == IF i \in DOMAIN list THEN list[i].name ELSE None

\* The results of a response, and success as _checkRateLimitInternal has it.
Results(a) ==
  [guards |-> [i \in DOMAIN a.guards |->
                 [name |-> NameOf(request.guards, i), passed |-> a.guards[i].current < a.guards[i].threshold]],
   resources |-> [i \in DOMAIN a.resources |->
                    [name |-> NameOf(request.resources, i), deficit |-> a.resources[i].deficit]],
   success |-> /\ \A i \in DOMAIN a.guards : a.guards[i].current < a.guards[i].threshold
               /\ \A i \in DOMAIN a.resources : a.resources[i].deficit = 0]

\* parseRateResponse: what is cut off cannot be read.
ParseRateResponse ==
  /\ answer # None /\ result = None
  /\ IF ReadsKey(answer) THEN Remember(tenant) ELSE UNCHANGED decodedAuth
  /\ result' = IF /\ answer.tagged
                  /\ answer.id = packet.id
                  /\ Opens(answer)
                  /\ answer.isRateResponse /\ ~answer.cut
                  /\ IdsMatch(answer)
               THEN Results(answer)
               ELSE Refused
  /\ UNCHANGED <<tenant, clientVars, request, requests, packet, answer>>

-----------------------------------------------------------------------------
(* The servers, and the application between packet and answer. *)

Awaited == packet \notin {None, Refused} /\ packet.request # None /\ answer = None

\* The answer of a server that decides about what the packet p asks.
Decides(p, deficits, currents) ==
  LET r == p.request
  IN  [id |-> p.id, seal |-> p.seal, authSize |-> AuthHeaderSize[p.seal.method],
       tagged |-> TRUE, isRateResponse |-> TRUE, cut |-> FALSE, genuine |-> TRUE,
       guards |-> [i \in DOMAIN r.guards |->
                     [id |-> LatencyTrackerId(r.guards[i]), about |-> r.guards[i].name,
                      threshold |-> r.guards[i].threshold, current |-> currents[i]]],
       resources |-> [i \in DOMAIN r.resources |->
                        [id |-> BucketId(r.resources[i]), about |-> r.resources[i].name,
                         deficit |-> deficits[i]]]]

\* tagged: it has a tenant header and a known auth header; isRateResponse: the
\* PDU is one; cut: it ends before the results that it counts.
\* Answers of another request, of another key, broken, or about something else.
Variants(a) ==
  { [a EXCEPT !.id = a.id - 1], [a EXCEPT !.seal.secret = None],
    [a EXCEPT !.authSize = 0], [a EXCEPT !.tagged = FALSE], [a EXCEPT !.isRateResponse = FALSE], [a EXCEPT !.cut = TRUE],
    [a EXCEPT !.resources = Reverse(a.resources)], [a EXCEPT !.guards = Reverse(a.guards)],
    [a EXCEPT !.resources = SubSeq(a.resources, 1, Len(a.resources) - 1)],
    [a EXCEPT !.resources = a.resources \o a.resources] }

Answers(p) ==
  {Decides(p, d, c) : d \in [DOMAIN p.request.resources -> {0, 1}],
                      c \in [DOMAIN p.request.guards -> {0, 2}]}

AnswerComes ==
  /\ Awaited
  /\ Len(packet.request.resources) <= MaxAnswered /\ Len(packet.request.guards) <= MaxAnswered
  /\ \E a \in Answers(packet) :
       answer' \in {a} \union {[v EXCEPT !.genuine = FALSE] : v \in Variants(a) \ {a}}
  /\ UNCHANGED <<tenant, decodedAuth, clientVars, request, requests, packet, result>>

\* The application uses its arrays for something else.
Amend(r) ==
  /\ Awaited
  /\ Len(r.resources) <= MaxAnswered /\ Len(r.guards) <= MaxAnswered
  /\ request' = r
  /\ UNCHANGED <<tenant, decodedAuth, clientVars, requests, packet, answer, result>>

\* The application puts another key into the tenant configuration.
Rotate(t) ==
  /\ result = None
  /\ tenant' = t
  /\ UNCHANGED <<decodedAuth, clientVars, request, requests, packet, answer, result>>

Next ==
  \/ \E r \in Requests : CreateRateRequest(r) \/ Amend(r)
  \/ \E n \in Reports : CreateLatencyReport(n)
  \/ AnswerComes
  \/ ParseRateResponse
  \/ \E t \in Tenants : Rotate(t)

Spec == Init /\ [][Next]_vars

-----------------------------------------------------------------------------
(* Properties. *)

\* The sizes that a packet announces, and that its buffer is allocated with,
\* are those of what is written into it, for any label and each way to seal
\* it, and no packet is beyond the limit of a datagram.
PacketIsWhole ==
  packet \notin {None, Refused} =>
    /\ Total(TenantFields) = 40
    /\ Total(AuthFields[packet.seal.method]) = AuthHeaderSize[packet.seal.method]
    /\ Length(packet.pdu) = packet.pduSize
    /\ packet.pduSize % 4 = 0
    /\ Total(TenantFields) + Total(AuthFields[packet.seal.method]) + Length(packet.pdu) <= MAX_DATAGRAM_SIZE

\* Whatever keys came before it, and were decoded and kept, a packet is sealed
\* with the key that the configuration holds when it is made, which is one that
\* can be decoded, and stays within the quotas of that key.
SealedWithCurrentKey ==
  packet \notin {None, Refused} =>
    LET secret == packet.tenant.authSecret
    IN  /\ packet.seal.method # "none" =>
             secret \in DOMAIN ApiKeys /\ packet.seal.secret = ApiKeys[secret].secret
        /\ packet.request # None =>
             /\ secret \in DOMAIN ApiKeys
             /\ \A i \in DOMAIN packet.request.resources :
                  packet.request.resources[i].window <= ApiKeys[secret].quotas.window
        /\ secret \in DOMAIN ApiKeys => packet.ttl <= ApiKeys[secret].quotas.dedup

\* A result that reaches the application says under each name what the server
\* decided about that name, also if the application has changed its arrays
\* since; and the answer of a server to the call as it stands, under the key it
\* was asked with, is taken and says what the server decided.
ResultIsTheDecision ==
  result # None =>
    /\ result # Refused =>
         /\ \A i \in DOMAIN result.resources : result.resources[i].name \in {None, answer.resources[i].about}
         /\ \A i \in DOMAIN result.guards : result.guards[i].name \in {None, answer.guards[i].about}
    /\ answer.genuine /\ request = packet.request /\ tenant = packet.tenant =>
         /\ result # Refused
         /\ \A i \in DOMAIN request.resources : result.resources[i].name = request.resources[i].name
         /\ \A i \in DOMAIN request.guards : result.guards[i].name = request.guards[i].name
         /\ result.success <=> /\ \A i \in DOMAIN answer.resources : answer.resources[i].deficit = 0
                               /\ \A i \in DOMAIN answer.guards : result.guards[i].passed

\* Success means that every resource of the call was admitted, as docs/api.md
\* says of result.success.
SuccessCoversEveryResource ==
  result \notin {None, Refused} /\ result.success /\ request = packet.request =>
    \A i \in DOMAIN request.resources :
      i \in DOMAIN result.resources /\ result.resources[i].deficit = 0
=============================================================================
