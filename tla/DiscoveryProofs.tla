-------------------------- MODULE DiscoveryProofs --------------------------
(***************************************************************************)
(* Proofs about Discovery: what its sort does to every list, its safety    *)
(* properties, and the steps of LookupContract, for any number of lookups, *)
(* any sequence of zones and any ids.                                      *)
(***************************************************************************)
EXTENDS Discovery, FiniteSetTheorems, TLAPS

-----------------------------------------------------------------------------
(* Ids. *)

LEMMA ConstantFacts ==
  /\ Zones \in Seq(SUBSET Records) /\ Len(Zones) \in Nat \ {0} /\ DOMAIN Zones = 1..Len(Zones)
  /\ \A v \in DOMAIN Zones : Zones[v] \subseteq Records /\ IsFiniteSet(Zones[v])
  /\ \A r \in Records : /\ Label[r].isServer \in BOOLEAN
                        /\ Label[r].number \in 0..(2 * ExactBelow - 1)
                        /\ Addresses[r] \in Seq(STRING) /\ IsInjective(Addresses[r])
  /\ ExactBelow \in Nat \ {0} /\ ExactBelow % 2 = 0 /\ IdsPerSecond \in Nat \ {0} /\ None \notin Nat
  <1>1. \A v \in DOMAIN Zones : Zones[v] \subseteq Records
    BY DEF Records
  <1> QED
    BY <1>1, DiscoveryAssumption

\* The id read from a label is the number in the label, or there is none:
\* rounding never turns an id too large into another one.
THEOREM IdsAreExact ==
  ASSUME NEW r \in Records, ParseServerId(r) # None
  PROVE  ParseServerId(r) = Label[r].number /\ ParseServerId(r) \in Nat /\ Label[r].isServer
  <1> DEFINE n == Label[r].number
  <1>1. n \in Nat /\ n < 2 * ExactBelow /\ ExactBelow \in Nat /\ ExactBelow % 2 = 0
    BY ConstantFacts
  <1>2. Label[r].isServer /\ AsDouble(n) < ExactBelow /\ ParseServerId(r) = AsDouble(n)
    BY DEF ParseServerId
  <1> HIDE DEF n
  <1>3. n >= ExactBelow => AsDouble(n) >= ExactBelow
    BY <1>1 DEF AsDouble
  <1>4. AsDouble(n) = n
    BY <1>1, <1>2, <1>3 DEF AsDouble
  <1> QED
    BY <1>1, <1>2, <1>4 DEF n

LEMMA DivMonotone ==
  ASSUME NEW a \in Nat, NEW b \in Nat, NEW d \in Nat \ {0}, a <= b
  PROVE  a \div d <= b \div d
  OBVIOUS

\* The comparison of _refreshServers, by start and then by id, is that of the
\* ids: so the oldest server of a list is the one with the least id, as the
\* rate request takes it.
THEOREM BeforeIsById ==
  ASSUME NEW a, NEW b, a.serverId \in Nat, b.serverId \in Nat
  PROVE  Before(a, b) <=> a.serverId < b.serverId
  <1> DEFINE x == a.serverId
             y == b.serverId
  <1>1. \A m, n \in Nat : m <= n => ServerStart(m) <= ServerStart(n)
    BY ConstantFacts, DivMonotone DEF ServerStart
  <1>2. \A m \in Nat : ServerStart(m) \in Int
    BY ConstantFacts DEF ServerStart
  <1>3. Before(a, b) <=> \/ ServerStart(x) < ServerStart(y)
                         \/ ServerStart(x) = ServerStart(y) /\ x < y
    BY DEF Before
  <1> HIDE DEF x, y
  <1>4. x \in Nat /\ y \in Nat
    BY DEF x, y
  <1>5. CASE x < y
    BY <1>1, <1>2, <1>3, <1>4, <1>5 DEF x, y
  <1>6. CASE y <= x
    BY <1>1, <1>2, <1>3, <1>4, <1>6 DEF x, y
  <1> QED
    BY <1>4, <1>5, <1>6

-----------------------------------------------------------------------------
(* The sort. *)

\* list[i] comes before list[j] in the sorted list.
Precedes(list, i, j) ==
  \/ list[i].serverId < list[j].serverId
  \/ list[i].serverId = list[j].serverId /\ i < j

LEMMA ListFacts ==
  ASSUME NEW list \in Seq(Servers)
  PROVE  /\ DOMAIN list = 1..Len(list) /\ Len(list) \in Nat
         /\ IsFiniteSet(DOMAIN list) /\ Cardinality(DOMAIN list) = Len(list)
         /\ \A j \in DOMAIN list : list[j] \in Servers /\ list[j].serverId \in Nat /\ j \in Nat
  <1>1. DOMAIN list = 1..Len(list) /\ Len(list) \in Nat
    OBVIOUS
  <1>2. IsFiniteSet(1..Len(list)) /\ Cardinality(1..Len(list)) = Len(list)
    <2>1. PICK n \in Nat : n = Len(list)
      BY <1>1
    <2>2. IsFiniteSet(1..n) /\ Cardinality(1..n) = n
      BY FS_Interval
    <2> QED BY <2>1, <2>2, Zenon
  <1>3. ASSUME NEW j \in DOMAIN list
        PROVE  list[j] \in Servers /\ list[j].serverId \in Nat /\ j \in Nat
    <2>1. list[j] \in Servers
      OBVIOUS
    <2>2. \A x \in Servers : x.serverId \in Nat
      BY DEF Servers
    <2> QED BY <2>1, <2>2
  <1> QED
    BY <1>1, <1>2, <1>3

LEMMA RankCounts ==
  ASSUME NEW list \in Seq(Servers), NEW i \in DOMAIN list
  PROVE  Rank(list, i) = Cardinality({j \in DOMAIN list : Precedes(list, j, i)})
  <1>1. \A j \in DOMAIN list : list[j].serverId \in Nat /\ j \in Nat
    BY ListFacts
  <1>2. \A j \in DOMAIN list : /\ Before(list[j], list[i]) <=> list[j].serverId < list[i].serverId
                               /\ Before(list[i], list[j]) <=> list[i].serverId < list[j].serverId
    BY <1>1, BeforeIsById
  <1>3. \A j \in DOMAIN list :
          Before(list[j], list[i]) \/ (~Before(list[i], list[j]) /\ j < i) <=> Precedes(list, j, i)
    BY <1>1, <1>2 DEF Precedes
  <1>4. {j \in DOMAIN list : Before(list[j], list[i]) \/ (~Before(list[i], list[j]) /\ j < i)}
          = {j \in DOMAIN list : Precedes(list, j, i)}
    BY <1>3
  <1> QED
    BY <1>4 DEF Rank

LEMMA RanksDiffer ==
  ASSUME NEW list \in Seq(Servers), NEW i \in DOMAIN list, NEW j \in DOMAIN list
  PROVE  /\ Rank(list, i) \in 0..(Len(list) - 1)
         /\ Precedes(list, i, j) => Rank(list, i) < Rank(list, j)
         /\ i # j => Precedes(list, i, j) \/ Precedes(list, j, i)
  <1> DEFINE D == DOMAIN list
             below(k) == {l \in D : Precedes(list, l, k)}
  <1>1. D = 1..Len(list) /\ Len(list) \in Nat
    BY ListFacts
  <1>2. IsFiniteSet(D) /\ Cardinality(D) = Len(list)
    BY ListFacts
  <1>3. \A k \in D : list[k].serverId \in Nat /\ k \in Nat
    BY ListFacts
  <1>4. \A k \in D : k \notin below(k) /\ below(k) \subseteq D
    BY <1>3 DEF Precedes
  <1>5. \A k \in D : IsFiniteSet(below(k)) /\ Cardinality(below(k)) \in Nat
    BY <1>2, <1>4, FS_Subset, FS_CardinalityType
  <1>6. \A k \in D : Rank(list, k) = Cardinality(below(k))
    BY RankCounts
  <1>7. ASSUME NEW k \in D, NEW S \in SUBSET D, below(k) \subseteq S, k \in S
        PROVE  Cardinality(below(k)) < Cardinality(S)
    <2> HIDE DEF below, D
    <2>1. IsFiniteSet(S) /\ Cardinality(S) \in Nat
      BY <1>2, FS_Subset, FS_CardinalityType
    <2>2. Cardinality(below(k) \union {k}) = Cardinality(below(k)) + 1
      BY <1>4, <1>5, FS_AddElement
    <2>3. Cardinality(below(k) \union {k}) <= Cardinality(S)
      BY <1>7, <2>1, FS_Subset
    <2> QED BY <1>5, <2>1, <2>2, <2>3
  <1>8. Rank(list, i) \in 0..(Len(list) - 1)
    <2>1. Cardinality(below(i)) < Cardinality(D)
      BY <1>4, <1>7
    <2> HIDE DEF below, D
    <2> QED BY <1>1, <1>2, <1>5, <1>6, <2>1 DEF D
  <1>9. ASSUME Precedes(list, i, j) PROVE Rank(list, i) < Rank(list, j)
    <2>1. below(i) \subseteq below(j) /\ i \in below(j) /\ below(j) \subseteq D
      BY <1>3, <1>9 DEF Precedes
    <2> HIDE DEF below
    <2> QED BY <1>6, <1>7, <2>1
  <1>10. i # j => Precedes(list, i, j) \/ Precedes(list, j, i)
    BY <1>3 DEF Precedes
  <1> QED
    BY <1>8, <1>9, <1>10

\* servers.sort() neither loses nor doubles an entry, and puts a server before
\* those with a greater id, and equal ids in the order they had.
THEOREM SortIsStable ==
  ASSUME NEW list \in Seq(Servers)
  PROVE  \E p \in Bijection(DOMAIN list, DOMAIN list) :
           /\ Sorted(list) = [k \in DOMAIN list |-> list[p[k]]]
           /\ \A k, l \in DOMAIN list : k < l => Precedes(list, p[k], p[l])
  <1> DEFINE D == DOMAIN list
             n == Len(list)
             R == [i \in D |-> Rank(list, i) + 1]
             p == [k \in D |-> CHOOSE i \in D : Rank(list, i) = k - 1]
  <1>1. D = 1..n /\ n \in Nat /\ IsFiniteSet(D) /\ Cardinality(D) = n
    BY ListFacts
  <1>2. \A i \in D : Rank(list, i) \in 0..(n - 1)
    BY RanksDiffer
  <1>3. \A i, j \in D : i # j => Rank(list, i) # Rank(list, j)
    <2> SUFFICES ASSUME NEW i \in D, NEW j \in D, i # j PROVE Rank(list, i) # Rank(list, j)
      OBVIOUS
    <2>1. Rank(list, i) < Rank(list, j) \/ Rank(list, j) < Rank(list, i)
      BY RanksDiffer
    <2> QED BY <1>2, <2>1
  <1>4. R \in Injection(D, D)
    BY <1>1, <1>2, <1>3 DEF Injection, IsInjective
  <1>5. R \in Surjection(D, D)
    BY <1>1, <1>4, FS_Injection
  <1>6. \A k \in D : \E i \in D : Rank(list, i) = k - 1
    <2> SUFFICES ASSUME NEW k \in D PROVE \E i \in D : Rank(list, i) = k - 1
      OBVIOUS
    <2>1. PICK i \in D : R[i] = k
      BY <1>5 DEF Surjection
    <2>2. R[i] = Rank(list, i) + 1
      OBVIOUS
    <2> HIDE DEF D, R
    <2> QED BY <1>1, <1>2, <2>1, <2>2
  <1>7. \A k \in D : p[k] \in D /\ Rank(list, p[k]) = k - 1
    BY <1>6
  <1>8. \A i \in D : p[Rank(list, i) + 1] = i
    BY <1>1, <1>2, <1>3, <1>7
  <1>9. p \in Bijection(D, D)
    <2>1. p \in [D -> D]
      BY <1>7
    <2>2. \A k, l \in D : p[k] = p[l] => k = l
      BY <1>1, <1>7
    <2>3. \A i \in D : \E k \in D : p[k] = i
      <3> SUFFICES ASSUME NEW i \in D PROVE \E k \in D : p[k] = i
        OBVIOUS
      <3>1. Rank(list, i) + 1 \in D
        BY <1>1, <1>2
      <3> QED BY <1>8, <3>1
    <2> HIDE DEF p, D
    <2> QED BY <2>1, <2>2, <2>3 DEF Bijection, Injection, Surjection, IsInjective
  <1>10. Sorted(list) = [k \in D |-> list[p[k]]]
    BY DEF Sorted
  <1>11. ASSUME NEW k \in D, NEW l \in D, k < l PROVE Precedes(list, p[k], p[l])
    <2>1. p[k] \in D /\ p[l] \in D /\ Rank(list, p[k]) = k - 1 /\ Rank(list, p[l]) = l - 1
      BY <1>7
    <2>2. p[k] # p[l] /\ ~ (Rank(list, p[l]) < Rank(list, p[k])) /\ k - 1 # l - 1
      BY <1>1, <1>11, <2>1
    <2> HIDE DEF p, D
    <2> QED BY <2>1, <2>2, RanksDiffer DEF D
  <1> QED
    BY <1>9, <1>10, <1>11

-----------------------------------------------------------------------------
(* The inductive invariant. *)

\* All the addresses of a record are in the list.
Complete(list, r) ==
  \A ip \in Range(Addresses[r]) : \E j \in DOMAIN list : list[j].record = r /\ list[j].ip = ip

\* Entries of some of the records "from": with the id that the record's name
\* holds, none twice, and all the addresses of a record or none.
OneAnswer(list, from) ==
  /\ \A i \in DOMAIN list : /\ list[i].record \in from
                            /\ list[i].serverId = ParseServerId(list[i].record)
                            /\ list[i].ip \in Range(Addresses[list[i].record])
  /\ \A i, j \in DOMAIN list : list[i] = list[j] => i = j
  /\ \A i \in DOMAIN list : Complete(list, list[i].record)

Ordered(list) == \A i, j \in DOMAIN list : j < i => list[j].serverId <= list[i].serverId

\* The closure's counter is the number of A answers that are to come.
CountsAnswers ==
  \A c \in Callers : /\ IsFiniteSet(inA[c]) /\ pending[c] = Cardinality(inA[c])
                     /\ c \in inSrv => inA[c] = {}

\* What a lookup has found belongs to the zone its SRV answer came from, which
\* is not older than the question.
FindsOneAnswer ==
  \A c \in Callers :
    /\ c \in inSrv => began[c] <= zone
    /\ inA[c] # {} =>
         /\ version[c] \in DOMAIN Zones /\ began[c] <= version[c]
         /\ inA[c] \subseteq Candidates(Zones[version[c]])
         /\ OneAnswer(found[c], Candidates(Zones[version[c]]) \ inA[c])

ListIsSane ==
  servers # <<>> =>
    /\ listVersion \in DOMAIN Zones
    /\ OneAnswer(servers, Candidates(Zones[listVersion]))
    /\ Ordered(servers)

IInv == TypeOK /\ CallbackOwed /\ CountsAnswers /\ FindsOneAnswer /\ ListIsSane

LEMMA CandidateFacts ==
  ASSUME NEW v \in DOMAIN Zones
  PROVE  /\ Candidates(Zones[v]) \subseteq Zones[v] /\ Candidates(Zones[v]) \subseteq Records
         /\ IsFiniteSet(Candidates(Zones[v]))
         /\ \A r \in Candidates(Zones[v]) : ParseServerId(r) # None
  <1>1. Candidates(Zones[v]) \subseteq Zones[v] /\ \A r \in Candidates(Zones[v]) : ParseServerId(r) # None
    BY DEF Candidates
  <1> QED
    BY <1>1, ConstantFacts, FS_Subset

LEMMA AppendedDomain ==
  ASSUME NEW S, NEW a \in Seq(S), NEW b \in Seq(S)
  PROVE  DOMAIN (a \o b) = 1..(Len(a) + Len(b))
  OBVIOUS

LEMMA Appended ==
  ASSUME NEW S, NEW a \in Seq(S), NEW b \in Seq(S)
  PROVE  /\ a \o b \in Seq(S) /\ DOMAIN (a \o b) = 1..(Len(a) + Len(b))
         /\ \A i \in 1..Len(a) : (a \o b)[i] = a[i]
         /\ \A k \in 1..Len(b) : (a \o b)[Len(a) + k] = b[k] /\ Len(a) + k \in 1..(Len(a) + Len(b))
         /\ \A i \in 1..(Len(a) + Len(b)) : i \in 1..Len(a) \/ \E k \in 1..Len(b) : i = Len(a) + k
  <1>1. Len(a) \in Nat /\ Len(b) \in Nat
    OBVIOUS
  <1>2. \A i \in 1..(Len(a) + Len(b)) : i \in 1..Len(a) \/ \E k \in 1..Len(b) : i = Len(a) + k
    <2> SUFFICES ASSUME NEW i \in 1..(Len(a) + Len(b)), i \notin 1..Len(a)
                 PROVE  \E k \in 1..Len(b) : i = Len(a) + k
      OBVIOUS
    <2>1. i - Len(a) \in 1..Len(b) /\ i = Len(a) + (i - Len(a))
      BY <1>1
    <2> QED BY <2>1
  <1>3. \A k \in 1..Len(b) : (a \o b)[Len(a) + k] = b[k] /\ Len(a) + k \in 1..(Len(a) + Len(b))
    BY <1>1
  <1>4. \A i \in 1..Len(a) : (a \o b)[i] = a[i]
    BY <1>1
  <1> QED
    BY <1>2, <1>3, <1>4

\* An A answer adds all the addresses of its record, or none.
LEMMA AnswerIsAdded ==
  ASSUME NEW list \in Seq(Servers), NEW from, OneAnswer(list, from),
         NEW r \in Records \ from, ParseServerId(r) # None,
         NEW ips \in {<<>>, Addresses[r]}
  PROVE  /\ list \o Entries(r, ips) \in Seq(Servers)
         /\ OneAnswer(list \o Entries(r, ips), from \union {r})
  <1> DEFINE e == Entries(r, ips)
             l == list \o e
             m == Len(list)
             n == Len(ips)
  <1>1. ips \in Seq(STRING) /\ (\A i, j \in DOMAIN ips : ips[i] = ips[j] => i = j)
    <2>1. CASE ips = <<>>
      BY <2>1
    <2>2. CASE ips = Addresses[r]
      BY <2>2, ConstantFacts DEF IsInjective
    <2> QED BY <2>1, <2>2
  <1>2. n \in Nat /\ DOMAIN ips = 1..n /\ \A i \in 1..n : ips[i] \in STRING
    BY <1>1
  <1> HIDE DEF n
  <1>3. /\ e \in Seq(Servers) /\ Len(e) = n
        /\ \A i \in 1..n : e[i] = [record |-> r, ip |-> ips[i], serverId |-> ParseServerId(r)]
    <2>1. ParseServerId(r) \in Nat
      BY IdsAreExact
    <2>2. e = [i \in 1..n |-> [record |-> r, ip |-> ips[i], serverId |-> ParseServerId(r)]]
      BY <1>2 DEF Entries
    <2>3. e \in [1..n -> Servers]
      BY <1>2, <2>1, <2>2 DEF Servers
    <2> HIDE DEF e
    <2>4. e \in Seq(Servers) /\ Len(e) = n
      BY <1>2, <2>3
    <2> QED BY <2>2, <2>4
  <1> HIDE DEF e
  <1>4. l \in Seq(Servers) /\ DOMAIN l = 1..(m + n) /\ m \in Nat /\ DOMAIN list = 1..m
    <2>1. l \in Seq(Servers)
      BY <1>3
    <2>2. e \in Seq(Servers) /\ Len(e) = n
      BY <1>3
    <2>3. DOMAIN (list \o e) = 1..(Len(list) + Len(e))
      BY <2>2, AppendedDomain
    <2>4. DOMAIN list = 1..Len(list) /\ Len(list) \in Nat
      OBVIOUS
    <2> QED BY <2>1, <2>2, <2>3, <2>4
  <1>5. /\ \A i \in 1..m : l[i] = list[i]
        /\ \A i \in 1..n : l[m + i] = e[i] /\ m + i \in 1..(m + n)
    BY <1>3, Appended
  <1>6. \A i \in 1..(m + n) : i \in 1..m \/ \E k \in 1..n : i = m + k
    BY <1>3, Appended
  <1> HIDE DEF l, m
  <1>7. \A i \in 1..m : /\ l[i].record \in from /\ l[i].record # r
                        /\ l[i].serverId = ParseServerId(l[i].record)
                        /\ l[i].ip \in Range(Addresses[l[i].record])
    BY <1>4, <1>5 DEF OneAnswer
  <1>8. \A k \in 1..n : /\ l[m + k].record = r /\ l[m + k].serverId = ParseServerId(r)
                        /\ l[m + k].ip = ips[k] /\ ips[k] \in Range(Addresses[r])
    <2> SUFFICES ASSUME NEW k \in 1..n
                 PROVE  /\ l[m + k].record = r /\ l[m + k].serverId = ParseServerId(r)
                        /\ l[m + k].ip = ips[k] /\ ips[k] \in Range(Addresses[r])
      OBVIOUS
    <2>1. l[m + k] = [record |-> r, ip |-> ips[k], serverId |-> ParseServerId(r)]
      BY <1>3, <1>5
    <2>2. ips = Addresses[r]
      <3>1. ips # <<>>
        BY <1>2
      <3> QED BY <3>1
    <2>3. ips[k] \in Range(Addresses[r])
      BY <1>2, <2>2 DEF Range
    <2> QED BY <2>1, <2>3
  <1>9. ASSUME NEW i \in 1..(m + n)
        PROVE  /\ l[i].record \in from \union {r}
               /\ l[i].serverId = ParseServerId(l[i].record)
               /\ l[i].ip \in Range(Addresses[l[i].record])
    <2>1. CASE i \in 1..m
      BY <1>7, <2>1
    <2>2. ASSUME NEW k \in 1..n, i = m + k
          PROVE  /\ l[i].record = r /\ l[i].serverId = ParseServerId(l[i].record)
                 /\ l[i].ip \in Range(Addresses[l[i].record])
      BY <1>8, <2>2
    <2> QED BY <1>6, <2>1, <2>2
  <1>10. ASSUME NEW i \in 1..(m + n), NEW j \in 1..(m + n), l[i] = l[j] PROVE i = j
    <2>1. CASE i \in 1..m /\ j \in 1..m
      BY <1>4, <1>5, <1>10, <2>1 DEF OneAnswer
    <2>2. ASSUME NEW k \in 1..n, NEW h \in 1..n, i = m + k, j = m + h PROVE i = j
      <3>1. ips[k] = ips[h]
        BY <1>8, <1>10, <2>2
      <3> QED BY <1>1, <1>2, <2>2, <3>1
    <2>3. ASSUME NEW k \in 1..n, i = m + k, j \in 1..m PROVE FALSE
      BY <1>7, <1>8, <1>10, <2>3
    <2>4. ASSUME NEW k \in 1..n, j = m + k, i \in 1..m PROVE FALSE
      BY <1>7, <1>8, <1>10, <2>4
    <2> QED BY <1>6, <2>1, <2>2, <2>3, <2>4
  <1>11. ASSUME NEW i \in 1..(m + n) PROVE Complete(l, l[i].record)
    <2>1. CASE i \in 1..m
      <3>1. Complete(list, list[i].record)
        BY <1>4, <2>1 DEF OneAnswer
      <3>2. l[i] = list[i] /\ \A j \in 1..m : j \in 1..(m + n) /\ l[j] = list[j]
        BY <1>2, <1>4, <1>5, <2>1
      <3> QED BY <1>4, <3>1, <3>2 DEF Complete
    <2>2. ASSUME NEW k \in 1..n, i = m + k PROVE Complete(l, l[i].record)
      <3>1. ips = Addresses[r]
        <4>1. ips # <<>>
          BY <1>2, <2>2
        <4> QED BY <4>1
      <3>2. l[i].record = r
        BY <1>8, <2>2
      <3>3. ASSUME NEW ip \in Range(Addresses[r])
            PROVE  \E j \in 1..(m + n) : l[j].record = r /\ l[j].ip = ip
        <4>1. PICK h \in 1..n : ips[h] = ip
          BY <1>2, <3>1 DEF Range
        <4> QED BY <1>5, <1>8, <4>1
      <3> QED BY <1>4, <3>2, <3>3 DEF Complete
    <2> QED BY <1>6, <2>1, <2>2
  <1>12. OneAnswer(l, from \union {r})
    BY <1>4, <1>9, <1>10, <1>11 DEF OneAnswer
  <1> QED
    BY <1>4, <1>12 DEF l, e

\* Sorting an answer leaves it that answer.
LEMMA SortKeepsAnswer ==
  ASSUME NEW list \in Seq(Servers), NEW from, OneAnswer(list, from)
  PROVE  /\ Sorted(list) \in Seq(Servers) /\ DOMAIN Sorted(list) = DOMAIN list
         /\ OneAnswer(Sorted(list), from) /\ Ordered(Sorted(list))
  <1> DEFINE D == DOMAIN list
             s == Sorted(list)
  <1>1. PICK p \in Bijection(D, D) :
          /\ s = [k \in D |-> list[p[k]]]
          /\ \A k, l \in D : k < l => Precedes(list, p[k], p[l])
    BY SortIsStable
  <1>2. /\ p \in [D -> D]
        /\ \A k, l \in D : p[k] = p[l] => k = l
        /\ \A i \in D : \E k \in D : p[k] = i
    BY DEF Bijection, Injection, Surjection, IsInjective
  <1>3. DOMAIN s = D /\ \A k \in D : p[k] \in D /\ s[k] = list[p[k]]
    BY <1>1, <1>2
  <1>4. D = 1..Len(list) /\ Len(list) \in Nat
        /\ \A i \in D : list[i] \in Servers /\ list[i].serverId \in Nat
    BY ListFacts
  <1>5. s \in Seq(Servers)
    <2>1. s \in [1..Len(list) -> Servers]
      BY <1>1, <1>2, <1>4
    <2> QED BY <1>4, <2>1
  <1> HIDE DEF D, s
  <1>6. OneAnswer(s, from)
    <2>1. \A i \in D : /\ s[i].record \in from /\ s[i].serverId = ParseServerId(s[i].record)
                       /\ s[i].ip \in Range(Addresses[s[i].record])
      BY <1>3 DEF OneAnswer, D
    <2>2. \A i, j \in D : s[i] = s[j] => i = j
      BY <1>2, <1>3 DEF OneAnswer, D
    <2>3. ASSUME NEW i \in D PROVE Complete(s, s[i].record)
      <3>1. Complete(list, s[i].record)
        BY <1>3 DEF OneAnswer, D
      <3>2. ASSUME NEW h \in D PROVE \E j \in D : s[j] = list[h]
        BY <1>2, <1>3
      <3> DEFINE r == s[i].record
      <3> HIDE DEF r
      <3>3. ASSUME NEW ip \in Range(Addresses[r])
            PROVE  \E j \in D : s[j].record = r /\ s[j].ip = ip
        <4>1. PICK h \in D : list[h].record = r /\ list[h].ip = ip
          BY <3>1 DEF Complete, D, r
        <4> QED BY <3>2, <4>1
      <3> QED BY <1>3, <3>3 DEF Complete, r
    <2> QED BY <1>3, <2>1, <2>2, <2>3 DEF OneAnswer
  <1>7. Ordered(s)
    <2> SUFFICES ASSUME NEW i \in D, NEW j \in D, j < i PROVE s[j].serverId <= s[i].serverId
      BY <1>3 DEF Ordered
    <2>1. Precedes(list, p[j], p[i])
      BY <1>1
    <2> QED BY <1>3, <1>4, <2>1 DEF Precedes
  <1> QED
    BY <1>3, <1>5, <1>6, <1>7 DEF s, D

LEMMA NothingFound ==
  ASSUME NEW from
  PROVE  OneAnswer(<<>>, from) /\ <<>> \in Seq(Servers) /\ Ordered(<<>>)
  BY DEF OneAnswer, Ordered

LEMMA InitInv == Init => IInv
  <1> SUFFICES ASSUME Init PROVE IInv
    OBVIOUS
  <1> USE DEF Init
  <1>1. TypeOK
    <2>1. 1 \in DOMAIN Zones /\ 0 \in 0..Len(Zones)
      BY ConstantFacts
    <2>2. found \in [Callers -> Seq(Servers)]
      BY NothingFound
    <2>3. servers \in Seq(Servers)
      BY NothingFound
    <2>4. /\ inA \in [Callers -> SUBSET Records] /\ pending \in [Callers -> Nat]
          /\ version \in [Callers -> 0..Len(Zones)] /\ began \in [Callers -> 0..Len(Zones)]
          /\ owed \in [Callers -> {0, 1}]
      BY <2>1
    <2>5. /\ destroyed \in BOOLEAN /\ direct \in BOOLEAN /\ fresh \in BOOLEAN
          /\ inSrv \subseteq Callers /\ zone \in DOMAIN Zones /\ listVersion \in 0..Len(Zones)
      BY <2>1
    <2> QED BY <2>2, <2>3, <2>4, <2>5 DEF TypeOK
  <1>2. CallbackOwed
    BY DEF CallbackOwed, Outstanding
  <1>3. CountsAnswers
    BY FS_EmptySet DEF CountsAnswers
  <1>4. FindsOneAnswer /\ ListIsSane
    BY DEF FindsOneAnswer, ListIsSane
  <1> QED
    BY <1>1, <1>2, <1>3, <1>4 DEF IInv

\* A step that leaves the list alone.
LEMMA ListStays ==
  ASSUME ListIsSane, UNCHANGED <<servers, listVersion>>
  PROVE  ListIsSane'
  BY DEF ListIsSane

LEMMA RefreshInv ==
  ASSUME IInv, NEW c \in Callers, Refresh(c)
  PROVE  IInv'
  <1> USE DEF Refresh, listVars
  <1>1. /\ owed \in [Callers -> {0, 1}] /\ owed[c] = 0 /\ inA[c] = {}
        /\ zone \in Nat /\ zone \in 0..Len(Zones) /\ inSrv' = inSrv \union {c}
        /\ began \in [Callers -> 0..Len(Zones)] /\ began' = [began EXCEPT ![c] = zone]
    <2>1. zone \in DOMAIN Zones
      BY DEF IInv, TypeOK
    <2> QED BY <2>1, ConstantFacts DEF IInv, TypeOK, CallbackOwed, Outstanding
  <1>2. owed' = [owed EXCEPT ![c] = 1]
    BY <1>1
  <1>3. TypeOK'
    BY <1>1, <1>2 DEF IInv, TypeOK
  <1>4. CallbackOwed'
    BY <1>1, <1>2 DEF IInv, CallbackOwed, Outstanding
  <1>5. CountsAnswers'
    BY <1>1 DEF IInv, CountsAnswers
  <1>6. FindsOneAnswer'
    <2> SUFFICES ASSUME NEW x \in Callers
                 PROVE  /\ x \in inSrv' => began'[x] <= zone
                        /\ inA[x] # {} =>
                             /\ version[x] \in DOMAIN Zones /\ began'[x] <= version[x]
                             /\ inA[x] \subseteq Candidates(Zones[version[x]])
                             /\ OneAnswer(found[x], Candidates(Zones[version[x]]) \ inA[x])
      BY DEF FindsOneAnswer
    <2>1. CASE x = c
      BY <1>1, <2>1
    <2>2. CASE x # c
      BY <1>1, <2>2 DEF IInv, FindsOneAnswer
    <2> QED BY <2>1, <2>2
  <1>7. ListIsSane'
    BY ListStays DEF IInv
  <1> QED
    BY <1>3, <1>4, <1>5, <1>6, <1>7 DEF IInv

LEMMA SrvAnswerInv ==
  ASSUME IInv, NEW c \in Callers, SrvAnswer(c)
  PROVE  IInv'
  <1> DEFINE new == Candidates(Zones[zone])
  <1>1. /\ owed \in [Callers -> {0, 1}] /\ owed[c] = 1 /\ inA[c] = {}
        /\ began[c] <= zone /\ zone \in DOMAIN Zones /\ zone \in Nat /\ zone \in 0..Len(Zones)
        /\ inA \in [Callers -> SUBSET Records] /\ pending \in [Callers -> Nat]
        /\ version \in [Callers -> 0..Len(Zones)] /\ found \in [Callers -> Seq(Servers)]
    <2>1. zone \in DOMAIN Zones /\ c \in inSrv
      BY DEF IInv, TypeOK, SrvAnswer
    <2>2. owed[c] = 1 /\ inA[c] = {} /\ began[c] <= zone
      BY <2>1 DEF IInv, CallbackOwed, Outstanding, CountsAnswers, FindsOneAnswer
    <2> QED BY <2>1, <2>2, ConstantFacts DEF IInv, TypeOK
  <1>2. inSrv' = inSrv \ {c} /\ UNCHANGED <<destroyed, direct, zone, began, listVars>>
    BY DEF SrvAnswer
  <1>3. ListIsSane'
    BY <1>2, ListStays DEF IInv, listVars
  <1>4. CASE CallBack(c) /\ UNCHANGED <<inA, pending, found, version>>
    <2>1. owed' = [owed EXCEPT ![c] = 0]
      BY <1>1, <1>4 DEF CallBack
    <2>2. TypeOK'
      BY <1>1, <1>2, <1>4, <2>1 DEF IInv, TypeOK, listVars
    <2>3. CallbackOwed'
      BY <1>1, <1>2, <1>4, <2>1 DEF IInv, CallbackOwed, Outstanding
    <2>4. CountsAnswers'
      BY <1>1, <1>2, <1>4 DEF IInv, CountsAnswers
    <2>5. FindsOneAnswer'
      BY <1>1, <1>2, <1>4 DEF IInv, FindsOneAnswer
    <2> QED BY <1>3, <2>2, <2>3, <2>4, <2>5 DEF IInv
  <1>5. CASE /\ ~destroyed
             /\ new # {}
             /\ inA' = [inA EXCEPT ![c] = new]
             /\ pending' = [pending EXCEPT ![c] = Cardinality(new)]
             /\ found' = [found EXCEPT ![c] = <<>>]
             /\ version' = [version EXCEPT ![c] = zone]
             /\ UNCHANGED owed
    <2>1. new \subseteq Records /\ IsFiniteSet(new) /\ Cardinality(new) \in Nat
      BY <1>1, CandidateFacts, FS_CardinalityType
    <2> HIDE DEF new
    <2>2. TypeOK'
      <3>1. found' \in [Callers -> Seq(Servers)]
        BY <1>1, <1>5, NothingFound
      <3> QED BY <1>1, <1>2, <1>5, <2>1, <3>1 DEF IInv, TypeOK, listVars
    <2>3. CallbackOwed'
      BY <1>1, <1>2, <1>5 DEF IInv, CallbackOwed, Outstanding
    <2>4. CountsAnswers'
      BY <1>1, <1>2, <1>5, <2>1 DEF IInv, CountsAnswers
    <2>5. FindsOneAnswer'
      <3> SUFFICES ASSUME NEW x \in Callers
                   PROVE  /\ x \in inSrv' => began[x] <= zone
                          /\ inA'[x] # {} =>
                               /\ version'[x] \in DOMAIN Zones /\ began[x] <= version'[x]
                               /\ inA'[x] \subseteq Candidates(Zones[version'[x]])
                               /\ OneAnswer(found'[x], Candidates(Zones[version'[x]]) \ inA'[x])
        BY <1>2 DEF FindsOneAnswer
      <3>1. CASE x # c
        BY <1>1, <1>2, <1>5, <3>1 DEF IInv, FindsOneAnswer
      <3>2. CASE x = c
        <4>1. inA'[x] = new /\ version'[x] = zone
          BY <1>1, <1>5, <3>2
        <4>2. OneAnswer(found'[x], Candidates(Zones[version'[x]]) \ inA'[x])
          <5>1. found'[x] = <<>>
            BY <1>1, <1>5, <3>2
          <5> QED BY <5>1, NothingFound
        <4> QED BY <1>1, <1>2, <3>2, <4>1, <4>2 DEF new
      <3> QED BY <3>1, <3>2
    <2> QED BY <1>3, <2>2, <2>3, <2>4, <2>5 DEF IInv
  <1> QED
    BY <1>4, <1>5 DEF SrvAnswer

LEMMA MoreRecords ==
  ASSUME NEW list, NEW from, NEW more, OneAnswer(list, from), from \subseteq more
  PROVE  OneAnswer(list, more)
  BY DEF OneAnswer

\* What an A answer does to its lookup.
LEMMA AnswerCounts ==
  ASSUME IInv, NEW c \in Callers, NEW r \in Records, AAnswer(c, r)
  PROVE  /\ r \in inA[c] /\ c \notin inSrv /\ owed[c] = 1
         /\ inA' = [inA EXCEPT ![c] = inA[c] \ {r}]
         /\ IsFiniteSet(inA[c] \ {r}) /\ pending[c] - 1 = Cardinality(inA[c] \ {r})
         /\ pending' = [pending EXCEPT ![c] = pending[c] - 1] /\ pending[c] - 1 \in Nat
         /\ IsLast(c) <=> inA[c] = {r}
         /\ owed' = IF inA[c] = {r} THEN [owed EXCEPT ![c] = 0] ELSE owed
  <1>1. r \in inA[c] /\ c \notin inSrv /\ owed[c] = 1 /\ owed \in [Callers -> {0, 1}]
    BY DEF AAnswer, IInv, TypeOK, CallbackOwed, CountsAnswers, Outstanding
  <1>2. IsFiniteSet(inA[c]) /\ pending[c] = Cardinality(inA[c]) /\ pending[c] \in Nat
    BY DEF IInv, TypeOK, CountsAnswers
  <1>3. IsFiniteSet(inA[c] \ {r}) /\ Cardinality(inA[c] \ {r}) = pending[c] - 1
    <2>1. PICK s : s = inA[c]
      OBVIOUS
    <2>2. IsFiniteSet(s \ {r}) /\ Cardinality(s \ {r}) = Cardinality(s) - 1
      BY <1>1, <1>2, <2>1, FS_RemoveElement, Zenon
    <2> QED BY <1>2, <2>1, <2>2, Zenon
  <1>4. Cardinality(inA[c] \ {r}) \in Nat
    BY <1>3, FS_CardinalityType
  <1>5. IsLast(c) <=> inA[c] = {r}
    <2>1. Cardinality(inA[c] \ {r}) = 0 <=> inA[c] \ {r} = {}
      BY <1>3, FS_EmptySet
    <2>2. pending[c] = 1 <=> Cardinality(inA[c] \ {r}) = 0
      BY <1>2, <1>3
    <2>3. inA[c] \ {r} = {} <=> inA[c] = {r}
      BY <1>1
    <2> QED BY <2>1, <2>2, <2>3 DEF IsLast
  <1>6. CallBack(c) => owed' = [owed EXCEPT ![c] = 0]
    BY <1>1 DEF CallBack
  <1>7. IF IsLast(c) THEN CallBack(c) ELSE UNCHANGED owed
    BY DEF AAnswer, EndsDestroyed, Ends
  <1>8. owed' = IF inA[c] = {r} THEN [owed EXCEPT ![c] = 0] ELSE owed
    BY <1>5, <1>6, <1>7
  <1>9. inA' = [inA EXCEPT ![c] = inA[c] \ {r}] /\ pending' = [pending EXCEPT ![c] = pending[c] - 1]
    BY DEF AAnswer
  <1>10. pending[c] - 1 = Cardinality(inA[c] \ {r}) /\ pending[c] - 1 \in Nat
    BY <1>3, <1>4
  <1> QED
    BY <1>1, <1>3, <1>5, <1>8, <1>9, <1>10, Zenon

\* What it does to the servers found, and to the list: they are one answer.
LEMMA AnswerFinds ==
  ASSUME IInv, NEW c \in Callers, NEW r \in Records, AAnswer(c, r)
  PROVE  LET candidates == Candidates(Zones[version[c]])
         IN  /\ version[c] \in DOMAIN Zones /\ began[c] <= version[c]
             /\ inA[c] \subseteq candidates
             /\ found' \in [Callers -> Seq(Servers)]
             /\ \A x \in Callers \ {c} : found'[x] = found[x]
             /\ OneAnswer(found'[c], candidates \ inA'[c])
             /\ \/ UNCHANGED listVars
                \/ /\ ~destroyed /\ inA[c] = {r} /\ found'[c] # <<>>
                   /\ Publish(c, found'[c])
             /\ ~destroyed /\ inA[c] = {r} /\ found'[c] # <<>> => Publish(c, found'[c])
  <1> DEFINE candidates == Candidates(Zones[version[c]])
  <1>1. /\ r \in inA[c] /\ inA' = [inA EXCEPT ![c] = inA[c] \ {r}]
        /\ IsLast(c) <=> inA[c] = {r}
    BY AnswerCounts
  <1>2. /\ version[c] \in DOMAIN Zones /\ began[c] <= version[c]
        /\ inA[c] \subseteq candidates
        /\ OneAnswer(found[c], candidates \ inA[c])
    BY <1>1 DEF IInv, FindsOneAnswer
  <1>3. inA \in [Callers -> SUBSET Records] /\ found \in [Callers -> Seq(Servers)]
    BY DEF IInv, TypeOK
  <1>4. ParseServerId(r) # None /\ r \notin candidates \ inA[c]
    BY <1>1, <1>2 DEF Candidates
  <1> HIDE DEF candidates
  <1>5. inA'[c] = inA[c] \ {r} /\ (candidates \ inA[c]) \union {r} = candidates \ inA'[c]
    BY <1>1, <1>2, <1>3
  <1>6. CASE destroyed
    <2>1. UNCHANGED <<found, listVars>>
      BY <1>6 DEF AAnswer
    <2>2. OneAnswer(found'[c], candidates \ inA'[c])
      BY <1>2, <1>5, <2>1, MoreRecords
    <2> QED BY <1>2, <1>3, <1>6, <2>1, <2>2 DEF candidates
  <1>7. CASE ~destroyed
    <2>1. PICK ips \in {<<>>, Addresses[r]} :
            /\ found' = [found EXCEPT ![c] = @ \o Entries(r, ips)]
            /\ IF IsLast(c) THEN Ends(c, found'[c]) ELSE UNCHANGED <<owed, listVars>>
      BY <1>7 DEF AAnswer
    <2>2. found'[c] = found[c] \o Entries(r, ips) /\ \A x \in Callers \ {c} : found'[x] = found[x]
      BY <1>3, <2>1
    <2>3. /\ found'[c] \in Seq(Servers)
          /\ OneAnswer(found'[c], candidates \ inA'[c])
      <3> DEFINE from == candidates \ inA[c]
      <3>1. r \in Records \ from /\ found[c] \in Seq(Servers) /\ OneAnswer(found[c], from)
        BY <1>2, <1>3, <1>4
      <3> HIDE DEF from
      <3>2. /\ found[c] \o Entries(r, ips) \in Seq(Servers)
            /\ OneAnswer(found[c] \o Entries(r, ips), from \union {r})
        BY <1>4, <3>1, AnswerIsAdded
      <3> QED BY <1>5, <2>2, <3>2 DEF from
    <2>4. found' \in [Callers -> Seq(Servers)]
      BY <1>3, <2>1, <2>2, <2>3
    <2>5. IF inA[c] = {r} /\ found'[c] # <<>> THEN Publish(c, found'[c]) ELSE UNCHANGED listVars
      BY <1>1, <2>1 DEF Ends
    <2> QED BY <1>2, <1>7, <2>2, <2>3, <2>4, <2>5 DEF candidates
  <1> QED
    BY <1>6, <1>7

LEMMA AAnswerInv ==
  ASSUME IInv, NEW c \in Callers, NEW r \in Records, AAnswer(c, r)
  PROVE  IInv'
  <1> DEFINE candidates == Candidates(Zones[version[c]])
  <1>1. /\ r \in inA[c] /\ c \notin inSrv /\ owed[c] = 1
        /\ inA' = [inA EXCEPT ![c] = inA[c] \ {r}]
        /\ IsFiniteSet(inA[c] \ {r}) /\ pending[c] - 1 = Cardinality(inA[c] \ {r})
        /\ pending' = [pending EXCEPT ![c] = pending[c] - 1] /\ pending[c] - 1 \in Nat
        /\ owed' = IF inA[c] = {r} THEN [owed EXCEPT ![c] = 0] ELSE owed
    BY AnswerCounts
  <1>2. /\ version[c] \in DOMAIN Zones /\ began[c] <= version[c]
        /\ inA[c] \subseteq candidates
        /\ found' \in [Callers -> Seq(Servers)]
        /\ \A x \in Callers \ {c} : found'[x] = found[x]
        /\ OneAnswer(found'[c], candidates \ inA'[c])
        /\ \/ UNCHANGED listVars
           \/ inA[c] = {r} /\ Publish(c, found'[c])
    BY AnswerFinds
  <1>3. UNCHANGED <<destroyed, direct, zone, inSrv, version, began>>
    BY DEF AAnswer
  <1>4. /\ inA \in [Callers -> SUBSET Records] /\ pending \in [Callers -> Nat]
        /\ owed \in [Callers -> {0, 1}] /\ inA'[c] = inA[c] \ {r}
    BY <1>1 DEF IInv, TypeOK
  <1>5. UNCHANGED listVars \/ /\ Publish(c, found'[c]) /\ OneAnswer(found'[c], candidates)
                              /\ found'[c] \in Seq(Servers)
    <2>1. inA[c] = {r} => candidates \ inA'[c] = candidates
      BY <1>4
    <2> QED BY <1>2, <2>1
  <1>6. TypeOK'
    <2>1. inA' \in [Callers -> SUBSET Records] /\ pending' \in [Callers -> Nat]
          /\ owed' \in [Callers -> {0, 1}]
      BY <1>1, <1>4
    <2>2. /\ servers' \in Seq(Servers) /\ listVersion' \in 0..Len(Zones) /\ fresh' \in BOOLEAN
      <3>1. CASE UNCHANGED listVars
        BY <3>1 DEF IInv, TypeOK, listVars
      <3>2. CASE Publish(c, found'[c]) /\ OneAnswer(found'[c], candidates)
                 /\ found'[c] \in Seq(Servers)
        BY <1>2, <3>2, SortKeepsAnswer, ConstantFacts DEF Publish
      <3> QED BY <1>5, <3>1, <3>2
    <2> QED BY <1>2, <1>3, <2>1, <2>2 DEF IInv, TypeOK
  <1>7. CallbackOwed'
    BY <1>1, <1>3, <1>4 DEF IInv, CallbackOwed, Outstanding
  <1>8. CountsAnswers'
    BY <1>1, <1>3, <1>4 DEF IInv, CountsAnswers
  <1>9. FindsOneAnswer'
    <2> SUFFICES ASSUME NEW x \in Callers
                 PROVE  /\ x \in inSrv => began[x] <= zone
                        /\ inA'[x] # {} =>
                             /\ version[x] \in DOMAIN Zones /\ began[x] <= version[x]
                             /\ inA'[x] \subseteq Candidates(Zones[version[x]])
                             /\ OneAnswer(found'[x], Candidates(Zones[version[x]]) \ inA'[x])
      BY <1>3 DEF FindsOneAnswer
    <2>1. CASE x = c
      BY <1>1, <1>2, <1>4, <2>1
    <2>2. CASE x # c
      BY <1>1, <1>2, <1>4, <2>2 DEF IInv, FindsOneAnswer
    <2> QED BY <2>1, <2>2
  <1>10. ListIsSane'
    <2>1. CASE UNCHANGED listVars
      BY <2>1, ListStays DEF IInv, listVars
    <2>2. CASE Publish(c, found'[c]) /\ OneAnswer(found'[c], candidates)
               /\ found'[c] \in Seq(Servers)
      BY <1>2, <2>2, SortKeepsAnswer DEF Publish, ListIsSane
    <2> QED BY <1>5, <2>1, <2>2
  <1> QED
    BY <1>6, <1>7, <1>8, <1>9, <1>10 DEF IInv

LEMMA OtherStepsInv ==
  ASSUME IInv, Expire \/ Destroy \/ ZoneChanges \/ UNCHANGED vars
  PROVE  IInv'
  <1>1. /\ UNCHANGED <<direct, lookupVars, owed, servers, listVersion>>
        /\ destroyed' \in BOOLEAN /\ fresh' \in BOOLEAN
    BY DEF Expire, Destroy, ZoneChanges, vars, listVars, IInv, TypeOK
  <1>2. zone' \in DOMAIN Zones /\ zone <= zone' /\ zone \in Nat /\ zone' \in Nat
    <2>1. zone \in DOMAIN Zones
      BY DEF IInv, TypeOK
    <2>2. zone' = zone \/ (zone < Len(Zones) /\ zone' = zone + 1)
      BY DEF Expire, Destroy, ZoneChanges, vars
    <2> QED BY <2>1, <2>2, ConstantFacts
  <1>3. TypeOK'
    BY <1>1, <1>2 DEF IInv, TypeOK, lookupVars
  <1>4. CallbackOwed' /\ CountsAnswers'
    BY <1>1 DEF IInv, CallbackOwed, Outstanding, CountsAnswers, lookupVars
  <1>5. FindsOneAnswer'
    <2>1. \A c \in Callers : began[c] \in Nat
      BY ConstantFacts DEF IInv, TypeOK
    <2> QED BY <1>1, <1>2, <2>1 DEF IInv, FindsOneAnswer, lookupVars
  <1>6. ListIsSane'
    BY <1>1, ListStays DEF IInv
  <1> QED
    BY <1>3, <1>4, <1>5, <1>6 DEF IInv

\* The inductive invariant of discovery: the closure's counter is the number
\* of A answers to come, what a lookup has found so far is part of one SRV
\* answer, and the published list all of one.
THEOREM DiscoveryInvariance == Spec => []IInv
  <1>1. IInv /\ [Next]_vars => IInv'
    <2> SUFFICES ASSUME IInv, [Next]_vars PROVE IInv'
      OBVIOUS
    <2>1. ASSUME NEW c \in Callers, Refresh(c) PROVE IInv'
      BY <2>1, RefreshInv
    <2>2. ASSUME NEW c \in Callers, SrvAnswer(c) PROVE IInv'
      BY <2>2, SrvAnswerInv
    <2>3. ASSUME NEW c \in Callers, NEW r \in Records, AAnswer(c, r) PROVE IInv'
      BY <2>3, AAnswerInv
    <2>4. CASE Expire \/ Destroy \/ ZoneChanges \/ UNCHANGED vars
      BY <2>4, OtherStepsInv
    <2> QED BY <2>1, <2>2, <2>3, <2>4 DEF Next
  <1> QED
    BY <1>1, InitInv, PTL DEF Spec

-----------------------------------------------------------------------------
(* The properties. *)

\* Every value of discovery has its type.
THEOREM DiscoveryTypeCorrect == Spec => []TypeOK
  <1>1. IInv => TypeOK
    BY DEF IInv
  <1> QED BY <1>1, DiscoveryInvariance, PTL

\* A lookup owes its caller one callback as long as a DNS answer of it is to
\* come, and none after that, also when destroy() comes in between: so none of
\* the calls that wait in _refreshServers is forgotten or told twice.
THEOREM EveryCallerIsToldOnce == Spec => []CallbackOwed
  <1>1. IInv => CallbackOwed
    BY DEF IInv
  <1> QED BY <1>1, DiscoveryInvariance, PTL

\* The list that calls use is what one SRV answer led to: never a mixture of
\* overlapping lookups, oldest server first, none twice, with every address of
\* a server it holds, and each with the id that its name announces.
THEOREM ListComesFromOneAnswer == Spec => []ListIsOneAnswer
  <1>1. IInv => ListIsOneAnswer
    <2> SUFFICES ASSUME IInv PROVE ListIsOneAnswer
      OBVIOUS
    <2> DEFINE D == DOMAIN servers
    <2>1. CASE servers = <<>>
      BY <2>1 DEF ListIsOneAnswer
    <2>2. CASE servers # <<>>
      <3>1. /\ listVersion \in DOMAIN Zones /\ Ordered(servers)
            /\ OneAnswer(servers, Candidates(Zones[listVersion]))
            /\ servers \in Seq(Servers)
        BY <2>2 DEF IInv, TypeOK, ListIsSane
      <3>2. D = 1..Len(servers) /\ Len(servers) \in Nat
        BY <3>1, ListFacts
      <3>3. ASSUME NEW i \in D
            PROVE  /\ servers[i].record \in Zones[listVersion]
                   /\ servers[i].serverId = Label[servers[i].record].number
        <4>1. /\ servers[i].record \in Candidates(Zones[listVersion])
              /\ servers[i].serverId = ParseServerId(servers[i].record)
          BY <3>1 DEF OneAnswer
        <4>2. /\ servers[i].record \in Zones[listVersion] /\ servers[i].record \in Records
              /\ ParseServerId(servers[i].record) # None
          BY <3>1, <4>1, CandidateFacts
        <4> QED BY <4>1, <4>2, IdsAreExact
      <3>4. \A i \in D : \A j \in 1..(i - 1) : servers[j].serverId <= servers[i].serverId
        BY <3>1, <3>2 DEF Ordered
      <3>5. \A i, j \in D : servers[i] = servers[j] => i = j
        BY <3>1 DEF OneAnswer
      <3>6. ASSUME NEW i \in D
            PROVE  {servers[j].ip : j \in {k \in D : servers[k].record = servers[i].record}}
                     = Range(Addresses[servers[i].record])
        <4> DEFINE r == servers[i].record
                   ips == {servers[j].ip : j \in {k \in D : servers[k].record = r}}
        <4>1. Complete(servers, r) /\ \A j \in D : servers[j].ip \in Range(Addresses[servers[j].record])
          BY <3>1 DEF OneAnswer
        <4> HIDE DEF r
        <4>2. ips \subseteq Range(Addresses[r])
          BY <4>1
        <4>3. Range(Addresses[r]) \subseteq ips
          BY <4>1 DEF Complete
        <4> HIDE DEF ips
        <4>4. ips = Range(Addresses[r])
          BY <4>2, <4>3
        <4> QED BY <4>4 DEF ips, r
      <3> QED BY <3>3, <3>4, <3>5, <3>6 DEF ListIsOneAnswer
    <2> QED BY <2>1, <2>2
  <1> QED BY <1>1, DiscoveryInvariance, PTL

\* When the lookup of a call has found servers, the list that the call goes on
\* with is fresh and comes from a zone at least as new as the one at its
\* question, whatever other lookups published meanwhile.
THEOREM AnswerIsNotOlder == Spec => NoOlderThanQuestion
  <1> DEFINE P == \A c \in Callers : FindsServers(c) => fresh' /\ listVersion' >= began[c]
  <1>1. IInv /\ [Next]_vars => [P]_vars
    <2> SUFFICES ASSUME IInv, Next, NEW x \in Callers, FindsServers(x)
                 PROVE  fresh' /\ listVersion' >= began[x]
      OBVIOUS
    <2>1. /\ owed \in [Callers -> {0, 1}]
          /\ owed'[x] < owed[x] /\ ~destroyed /\ inA[x] # {} /\ found'[x] # <<>>
      BY DEF IInv, TypeOK, FindsServers
    <2>2. PICK c \in Callers, r \in Records : AAnswer(c, r)
      <3>1. ASSUME NEW c \in Callers, SrvAnswer(c) PROVE FALSE
        <4>1. owed' = owed \/ owed' = [owed EXCEPT ![c] = @ - 1]
          BY <3>1 DEF SrvAnswer, CallBack
        <4>2. x = c
          BY <2>1, <4>1
        <4>3. inA[c] = {}
          BY <3>1 DEF SrvAnswer, IInv, CountsAnswers
        <4> QED BY <2>1, <4>2, <4>3
      <3>2. ASSUME NEW c \in Callers, Refresh(c) PROVE FALSE
        <4>1. owed' = [owed EXCEPT ![c] = @ + 1]
          BY <3>2 DEF Refresh
        <4> QED BY <2>1, <4>1
      <3>3. ASSUME owed' = owed PROVE FALSE
        BY <2>1, <3>3
      <3> QED BY <3>1, <3>2, <3>3 DEF Next, Expire, Destroy, ZoneChanges
    <2>3. x = c /\ inA[c] = {r}
      <3>1. owed' = IF inA[c] = {r} THEN [owed EXCEPT ![c] = 0] ELSE owed
        BY <2>2, AnswerCounts
      <3> QED BY <2>1, <3>1
    <2>4. fresh' = TRUE /\ listVersion' = version[c] /\ began[c] <= version[c]
      BY <2>1, <2>2, <2>3, AnswerFinds DEF Publish
    <2>5. began[c] \in Nat /\ version[c] \in Nat
      BY ConstantFacts DEF IInv, TypeOK
    <2> QED BY <2>3, <2>4, <2>5
  <1> QED
    BY <1>1, DiscoveryInvariance, PTL DEF Spec, NoOlderThanQuestion

-----------------------------------------------------------------------------
(* Discovery implements LookupContract. *)

\* The calls that wait for their lookup.
Asking == IF destroyed THEN {} ELSE {c \in Callers : owed[c] > 0}

\* Only a lookup's own caller begins or ends to wait with it.
LEMMA AskingChanges ==
  ASSUME IInv, ~destroyed, UNCHANGED destroyed, NEW c \in Callers
  PROVE  /\ owed' = [owed EXCEPT ![c] = 1] => Asking' = Asking \union {c}
         /\ owed[c] = 1 /\ owed' = [owed EXCEPT ![c] = 0] => c \in Asking /\ Asking' = Asking \ {c}
  <1>1. owed \in [Callers -> {0, 1}]
    BY DEF IInv, TypeOK
  <1>2. Asking = {x \in Callers : owed[x] = 1} /\ Asking' = {x \in Callers : owed'[x] > 0}
    BY <1>1 DEF Asking
  <1> QED
    BY <1>1, <1>2

LEMMA RefreshAsks ==
  ASSUME IInv, NEW c \in Callers, Refresh(c)
  PROVE  Lookup!Ask(c)
  <1>1. owed' = [owed EXCEPT ![c] = 1] /\ ~destroyed /\ ~fresh /\ UNCHANGED <<destroyed, listVars>>
    <2>1. owed[c] = 0
      BY DEF IInv, CallbackOwed, Refresh
    <2> QED BY <2>1 DEF Refresh
  <1>2. Asking' = Asking \union {c}
    BY <1>1, AskingChanges
  <1> QED
    BY <1>1, <1>2 DEF Lookup!Ask, Asking, listVars

LEMMA SrvAnswerImplements ==
  ASSUME IInv, NEW c \in Callers, SrvAnswer(c)
  PROVE  Lookup!NotFound(c) \/ UNCHANGED Lookup!vars
  <1>1. owed[c] = 1 /\ UNCHANGED <<destroyed, servers, fresh>>
    BY DEF IInv, CallbackOwed, Outstanding, SrvAnswer, listVars
  <1>2. CASE destroyed \/ UNCHANGED owed
    BY <1>1, <1>2 DEF Lookup!vars
  <1>3. CASE ~destroyed /\ CallBack(c)
    <2>1. owed' = [owed EXCEPT ![c] = 0]
      BY <1>1, <1>3 DEF CallBack
    <2>2. c \in Asking /\ Asking' = Asking \ {c}
      BY <1>1, <1>3, <2>1, AskingChanges
    <2> QED BY <1>1, <2>2 DEF Lookup!NotFound, Asking
  <1> QED
    BY <1>2, <1>3 DEF SrvAnswer

LEMMA AAnswerImplements ==
  ASSUME IInv, NEW c \in Callers, NEW r \in Records, AAnswer(c, r)
  PROVE  Lookup!Found(c) \/ Lookup!NotFound(c) \/ UNCHANGED Lookup!vars
  <1>1. /\ owed[c] = 1 /\ destroyed' = destroyed
        /\ owed' = IF inA[c] = {r} THEN [owed EXCEPT ![c] = 0] ELSE owed
    BY AnswerCounts DEF AAnswer
  <1>2. /\ found'[c] \in Seq(Servers)
        /\ \/ UNCHANGED listVars
           \/ /\ ~destroyed /\ inA[c] = {r} /\ found'[c] # <<>>
              /\ Publish(c, found'[c])
        /\ OneAnswer(found'[c], Candidates(Zones[version[c]]) \ inA'[c])
    BY AnswerFinds
  <1>3. CASE destroyed \/ inA[c] # {r}
    BY <1>1, <1>2, <1>3 DEF Lookup!vars, listVars
  <1>4. CASE ~destroyed /\ inA[c] = {r}
    <2>1. c \in Asking /\ Asking' = Asking \ {c}
      BY <1>1, <1>4, AskingChanges
    <2>2. CASE UNCHANGED listVars
      BY <1>1, <2>1, <2>2 DEF Lookup!NotFound, Asking, listVars
    <2>3. CASE found'[c] # <<>> /\ Publish(c, found'[c])
      <3>1. servers' # <<>> /\ fresh' = TRUE
        <4>1. DOMAIN Sorted(found'[c]) = DOMAIN found'[c]
          BY <1>2, SortKeepsAnswer
        <4>2. DOMAIN found'[c] # {} /\ DOMAIN <<>> = {}
          <5>1. Len(found'[c]) > 0
            BY <1>2, <2>3
          <5> QED BY <1>2, <5>1, ListFacts
        <4> QED BY <2>3, <4>1, <4>2 DEF Publish
      <3> QED BY <1>1, <2>1, <3>1 DEF Lookup!Found, Asking
    <2> QED BY <1>2, <2>2, <2>3
  <1> QED
    BY <1>3, <1>4

\* A lookup ends with a list or leaves the old one as it is; it is begun only
\* if the list is old; and after destroy() none has an effect, whatever answers
\* are still to come.
THEOREM ImplementsLookupSteps == Spec => Lookup!Spec
  <1>1. Init => Lookup!Init
    BY DEF Init, Lookup!Init
  <1>2. IInv /\ [Next]_vars => [Lookup!Next]_(Lookup!vars)
    <2> SUFFICES ASSUME IInv, [Next]_vars PROVE [Lookup!Next]_(Lookup!vars)
      OBVIOUS
    <2>1. ASSUME NEW c \in Callers, Refresh(c) PROVE Lookup!Ask(c)
      BY <2>1, RefreshAsks
    <2>2. ASSUME NEW c \in Callers, SrvAnswer(c) PROVE Lookup!NotFound(c) \/ UNCHANGED Lookup!vars
      BY <2>2, SrvAnswerImplements
    <2>3. ASSUME NEW c \in Callers, NEW r \in Records, AAnswer(c, r)
          PROVE  Lookup!Found(c) \/ Lookup!NotFound(c) \/ UNCHANGED Lookup!vars
      BY <2>3, AAnswerImplements
    <2>4. CASE Expire
      BY <2>4 DEF Expire, Lookup!Expire, Lookup!Next, lookupVars
    <2>5. CASE Destroy
      BY <2>5 DEF Destroy, Lookup!Destroy, Lookup!Next, listVars
    <2>6. CASE ZoneChanges \/ UNCHANGED vars
      <3>1. UNCHANGED <<destroyed, owed, servers, fresh>>
        BY <2>6 DEF ZoneChanges, vars, listVars
      <3> QED BY <3>1 DEF Lookup!vars
    <2> QED BY <2>1, <2>2, <2>3, <2>4, <2>5, <2>6 DEF Next, Lookup!Next
  <1> QED
    BY <1>1, <1>2, DiscoveryInvariance, PTL DEF Spec, Lookup!Spec
=============================================================================
