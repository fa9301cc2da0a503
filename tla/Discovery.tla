----------------------------- MODULE Discovery -----------------------------
(***************************************************************************)
(* How a client of src/client.js comes by its server list: the SRV lookup, *)
(* one A lookup for each record found, the list sorted so that the oldest  *)
(* server is first, and its publication.  Every call that finds the list   *)
(* old starts a lookup of its own, so that lookups overlap; their answers  *)
(* come in any order while the zone changes, and destroy() may come        *)
(* between any two of them.                                                *)
(*                                                                         *)
(* A record stands for an SRV record with its target name.  An id is read  *)
(* into a double, which holds every integer below ExactBelow (2^53).       *)
(***************************************************************************)
EXTENDS Integers, Sequences, FiniteSets, Functions

CONSTANTS Callers,               \* calls that may have a lookup outstanding
          Zones,                 \* Zones[v]: records of version v of the zone
          Addresses,             \* Addresses[r]: the A records of its target
          Label,                 \* Label[r]: first label of its target
          ExactBelow,            \* Number.MAX_SAFE_INTEGER + 1
          IdsPerSecond,          \* 2 ** SERVER_ID_TIME_SHIFT
          None                   \* no server id

Records == UNION {Zones[v] : v \in DOMAIN Zones}

\* A label is "s-" and a number, or something else.  The addresses of a name
\* are a set of records, so none comes twice.
ASSUME DiscoveryAssumption ==
  /\ Callers # {}
  /\ Zones \in Seq(SUBSET Records) /\ Zones # <<>> /\ \A v \in DOMAIN Zones : IsFiniteSet(Zones[v])
  /\ \A r \in Records : Label[r] \in [isServer : BOOLEAN, number : 0..(2 * ExactBelow - 1)]
  /\ \A r \in Records : Addresses[r] \in Seq(STRING) /\ IsInjective(Addresses[r])
  /\ ExactBelow \in Nat \ {0} /\ ExactBelow % 2 = 0 /\ IdsPerSecond \in Nat \ {0}
  /\ None \notin Nat

VARIABLES
  destroyed,
  direct,            \* an explicit list, or an IP address for a domain
  zone,              \* version of the zone that the resolver sees
  inSrv,             \* callers whose SRV answer is to come
  inA,               \* inA[c]: records whose A answer is to come
  pending,           \* pending[c]: what the lookup has counted of them
  found,             \* found[c]: servers of the lookup so far
  version,           \* version[c]: zone its SRV answer came from
  began,             \* began[c]: zone when the lookup was begun
  owed,              \* owed[c]: callbacks the lookup still owes
  servers,           \* the published list
  listVersion,       \* zone the list came from; 0 if there is no list
  fresh              \* ~_shouldRefreshDns()

lookupVars == <<inSrv, inA, pending, found, version, began>>
listVars == <<servers, listVersion, fresh>>
vars == <<destroyed, direct, zone, lookupVars, owed, listVars>>

Outstanding(c) == c \in inSrv \/ inA[c] # {}

-----------------------------------------------------------------------------
(* Pieces of handlers. *)

\* Number() of a decimal: beyond ExactBelow only every other number exists.
AsDouble(n) ==
  IF n < ExactBelow \/ n % 2 = 0 THEN n ELSE IF n % 4 = 3 THEN n + 1 ELSE n - 1

ParseServerId_AnyNumber(r) ==
  IF Label[r].isServer THEN AsDouble(Label[r].number) ELSE None

\* _parseServerIdFromTarget, and the same check of a response's id.
ParseServerId(r) ==
  IF Label[r].isServer /\ AsDouble(Label[r].number) < ExactBelow
  THEN AsDouble(Label[r].number) ELSE None

ServerStart(id) == id \div IdsPerSecond

Before_SameSecond(a, b) == ServerStart(a.serverId) < ServerStart(b.serverId)

\* The comparison: by start, then by id.
Before(a, b) ==
  \/ ServerStart(a.serverId) < ServerStart(b.serverId)
  \/ /\ ServerStart(a.serverId) = ServerStart(b.serverId)
     /\ a.serverId < b.serverId

\* How many entries a stable sort puts before list[i].
Rank(list, i) ==
  Cardinality({j \in DOMAIN list :
                 Before(list[j], list[i]) \/ (~Before(list[i], list[j]) /\ j < i)})

\* servers.sort()
Sorted(list) == [k \in DOMAIN list |-> list[CHOOSE i \in DOMAIN list : Rank(list, i) = k - 1]]

\* servers.push() for every address of the record.
Entries(r, ips) ==
  [i \in DOMAIN ips |-> [record |-> r, ip |-> ips[i], serverId |-> ParseServerId(r)]]

CallBack(c) == owed' = [owed EXCEPT ![c] = @ - 1]

Publish_KeepsFirst(c, list) ==
  /\ servers' = IF servers = <<>> THEN Sorted(list) ELSE servers
  /\ listVersion' = IF servers = <<>> THEN version[c] ELSE listVersion
  /\ fresh' = TRUE

Publish_KeepsFresh(c, list) ==
  /\ servers' = IF fresh THEN servers ELSE Sorted(list)
  /\ listVersion' = IF fresh THEN listVersion ELSE version[c]
  /\ fresh' = TRUE

Publish(c, list) ==
  /\ servers' = Sorted(list)
  /\ listVersion' = version[c]
  /\ fresh' = TRUE

-----------------------------------------------------------------------------
(* The client. *)

Init ==
  /\ destroyed = FALSE
  /\ direct \in BOOLEAN
  /\ zone = 1
  /\ inSrv = {}
  /\ inA = [c \in Callers |-> {}]
  /\ pending = [c \in Callers |-> 0]
  /\ found = [c \in Callers |-> <<>>]
  /\ version = [c \in Callers |-> 0]
  /\ began = [c \in Callers |-> 0]
  /\ owed = [c \in Callers |-> 0]
  /\ servers = <<>>
  /\ listVersion = 0
  /\ fresh = FALSE

\* A call finds the list old.  If discovery refuses the target, the callback
\* runs at once and the list stays as it is.
Refresh(c) ==
  /\ ~destroyed
  /\ ~fresh
  /\ ~direct
  /\ ~Outstanding(c)
  /\ inSrv' = inSrv \union {c}
  /\ began' = [began EXCEPT ![c] = zone]
  /\ owed' = [owed EXCEPT ![c] = @ + 1]
  /\ UNCHANGED <<destroyed, direct, zone, inA, pending, found, version, listVars>>

Candidates_All(records) == records

\* The records whose target names a server.
Candidates(records) == {r \in records : ParseServerId(r) # None}

\* The callback of resolveSrv: an error, no records, none that names a server,
\* or the start of the A lookups.
SrvAnswer(c) ==
  /\ c \in inSrv
  /\ inSrv' = inSrv \ {c}
  /\ \/ /\ CallBack(c)
        /\ UNCHANGED <<inA, pending, found, version>>
     \/ /\ ~destroyed
        /\ Candidates(Zones[zone]) # {}
        /\ inA' = [inA EXCEPT ![c] = Candidates(Zones[zone])]
        /\ pending' = [pending EXCEPT ![c] = Cardinality(Candidates(Zones[zone]))]
        /\ found' = [found EXCEPT ![c] = <<>>]
        /\ version' = [version EXCEPT ![c] = zone]
        /\ UNCHANGED owed
  /\ UNCHANGED <<destroyed, direct, zone, began, listVars>>

\* --pending === 0
IsLast(c) == pending[c] = 1

EndsDestroyed_EachTime(c) == CallBack(c)

\* An A answer after destroy(): only the last calls back.
EndsDestroyed(c) == IF IsLast(c) THEN CallBack(c) ELSE UNCHANGED owed

Ends_AlsoEmpty(c, list) == Publish(c, list) /\ CallBack(c)

\* The last A answer: without any server the list stays as it is.
Ends(c, list) ==
  /\ IF list = <<>> THEN UNCHANGED listVars ELSE Publish(c, list)
  /\ CallBack(c)

\* The callback of one resolve4: no address, or all of the target's.
AAnswer(c, r) ==
  /\ r \in inA[c]
  /\ inA' = [inA EXCEPT ![c] = @ \ {r}]
  /\ pending' = [pending EXCEPT ![c] = @ - 1]
  /\ IF destroyed
     THEN EndsDestroyed(c) /\ UNCHANGED <<found, listVars>>
     ELSE \E ips \in {<<>>, Addresses[r]} :
            /\ found' = [found EXCEPT ![c] = @ \o Entries(r, ips)]
            /\ IF IsLast(c) THEN Ends(c, found'[c]) ELSE UNCHANGED <<owed, listVars>>
  /\ UNCHANGED <<destroyed, direct, zone, inSrv, version, began>>

\* dnsRefreshIntervalS has passed since the list was published.
Expire ==
  /\ fresh
  /\ fresh' = FALSE
  /\ UNCHANGED <<destroyed, direct, zone, lookupVars, owed, servers, listVersion>>

Destroy ==
  /\ ~destroyed
  /\ destroyed' = TRUE
  /\ UNCHANGED <<direct, zone, lookupVars, owed, listVars>>

\* Servers come and go.
ZoneChanges ==
  /\ zone < Len(Zones)
  /\ zone' = zone + 1
  /\ UNCHANGED <<destroyed, direct, lookupVars, owed, listVars>>

Next ==
  \/ \E c \in Callers : Refresh(c) \/ SrvAnswer(c) \/ \E r \in Records : AAnswer(c, r)
  \/ Expire
  \/ Destroy
  \/ ZoneChanges

Spec == Init /\ [][Next]_vars

\* The resolver answers, be it with an error.
Fairness == \A c \in Callers : WF_vars(SrvAnswer(c)) /\ WF_vars(\E r \in Records : AAnswer(c, r))
FairSpec == Spec /\ Fairness

-----------------------------------------------------------------------------
(* Safety. *)

Servers == [record : Records, ip : STRING, serverId : Nat]

TypeOK ==
  /\ destroyed \in BOOLEAN /\ direct \in BOOLEAN /\ fresh \in BOOLEAN
  /\ zone \in DOMAIN Zones
  /\ inSrv \subseteq Callers
  /\ inA \in [Callers -> SUBSET Records]
  /\ pending \in [Callers -> Nat]
  /\ found \in [Callers -> Seq(Servers)]
  /\ version \in [Callers -> 0..Len(Zones)] /\ began \in [Callers -> 0..Len(Zones)]
  /\ owed \in [Callers -> {0, 1}]
  /\ servers \in Seq(Servers)
  /\ listVersion \in 0..Len(Zones)

\* A lookup calls back once, and only when no DNS answer of it is to come: so
\* a call that waits is never forgotten nor told twice, also when destroy()
\* comes while its A lookups are under way.
CallbackOwed ==
  \A c \in Callers : owed[c] = IF Outstanding(c) THEN 1 ELSE 0

\* The list is what one SRV answer led to, with the oldest server first: never
\* a mixture of overlapping lookups, no server twice, none of the addresses of
\* a server left out, and no id that is not the one its server announced.
ListIsOneAnswer ==
  /\ \A i \in DOMAIN servers :
       /\ servers[i].record \in Zones[listVersion]
       /\ servers[i].serverId = Label[servers[i].record].number
       /\ \A j \in 1..(i - 1) : servers[j].serverId <= servers[i].serverId
  /\ \A i, j \in DOMAIN servers : servers[i] = servers[j] => i = j
  /\ \A i \in DOMAIN servers :
       {servers[j].ip : j \in {k \in DOMAIN servers : servers[k].record = servers[i].record}}
         = Range(Addresses[servers[i].record])

\* A step in which the lookup of c calls back, and servers were found for it.
FindsServers(c) == owed'[c] < owed[c] /\ ~destroyed /\ inA[c] # {} /\ found'[c] # <<>>

\* A call whose lookup finds servers goes on with a list that is not older than
\* its question, whether the list had expired or another lookup had made it
\* fresh in between: sharing a lookup that was already under way, or keeping an
\* earlier list that is still fresh, would break this.
NoOlderThanQuestion ==
  [][\A c \in Callers : FindsServers(c) => fresh' /\ listVersion' >= began[c]]_vars

Lookup == INSTANCE LookupContract
  WITH gone <- destroyed, known <- servers # <<>>,
       asking <- IF destroyed THEN {} ELSE {c \in Callers : owed[c] > 0}

\* Discovery implements LookupContract, in which a failed lookup takes nothing
\* away, nothing happens after destroy(), and every lookup ends.
ImplementsLookup == Lookup!FairSpec

-----------------------------------------------------------------------------
(* Liveness. *)

\* An older lookup may end after a newer one and put its list over the newer
\* list.  The list recovers: if it is looked up again and again, it is in the
\* end that of the present zone, and stays so.
ListCatchesUp == ([]<>fresh /\ []<>~fresh) => <>[](listVersion = zone)
=============================================================================
