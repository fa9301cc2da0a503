------------------------- MODULE WireProtocolProofs -------------------------
(***************************************************************************)
(* Proofs of the safety properties of WireProtocol: for every tenant, key, *)
(* request and report, and any length of arrays and labels.                *)
(***************************************************************************)
EXTENDS WireProtocol, RecursionLemmas

-----------------------------------------------------------------------------
(* The inductive invariant. *)

Made == packet \notin {None, Refused}

\* What is known of the key is what its text decodes to.
KeyIsDecoded ==
  /\ tenant \in Tenants
  /\ decodedAuth \in DecodedKeys \union {None}

\* A packet is one of those that the client writes, under a tenant of its own.
PacketIsSane ==
  Made =>
    /\ packet.tenant \in Tenants
    /\ packet.seal.method = packet.tenant.authMethod
    /\ Fits(packet.seal.method, packet.pduSize)
    /\ \/ /\ packet.request \in Requests /\ request \in Requests
          /\ packet.pdu = RatePdu(packet.request) /\ packet.pduSize = RatePduSize(packet.request)
       \/ /\ packet.request = None
          /\ \E n \in Reports : packet.pdu = ReportPdu(n) /\ packet.pduSize = ReportPduSize(n)

\* As long as an answer is to come, the key of the packet is the one kept.
KeyIsKept ==
  Made /\ packet.request # None /\ result = None =>
    /\ decodedAuth # None
    /\ decodedAuth.encoded = packet.tenant.authSecret
    /\ decodedAuth.key.method = packet.seal.method
    /\ packet.seal.method # "none" => packet.seal.secret = decodedAuth.key.secret

\* What servers say of a resource or a guard.
ResourceDecisions ==
  {[id |-> BucketId(x), about |-> x.name, deficit |-> d] : x \in Resources, d \in {0, 1}}
GuardDecisions ==
  {[id |-> LatencyTrackerId(x), about |-> x.name, threshold |-> x.threshold, current |-> c] :
     x \in Guards, c \in {0, 2}}

\* Whatever the network does to an answer, its entries are decisions about what
\* their ids were derived from; a genuine answer is about the packet.
AnswerIsSane ==
  answer # None =>
    /\ Made /\ packet.request # None
    /\ answer.resources \in Seq(ResourceDecisions) /\ answer.guards \in Seq(GuardDecisions)
    /\ answer.genuine => answer \in Answers(packet)

\* A result is what ParseRateResponse made of the answer.
ResultIsOfAnswer ==
  result # None =>
    /\ answer # None
    /\ result # Refused => result = Results(answer) /\ IdsMatch(answer)
    /\ answer.genuine /\ request = packet.request /\ tenant = packet.tenant => result # Refused

IInv ==
  /\ KeyIsDecoded /\ PacketIsSane /\ KeyIsKept /\ AnswerIsSane /\ ResultIsOfAnswer
  /\ SealedWithCurrentKey

-----------------------------------------------------------------------------
(* Sizes. *)

\* The position in a packet, one field after the other.
LEMMA TotalUnfolds ==
  ASSUME NEW fields \in Seq(Int)
  PROVE  \E pos \in [Nat -> Int] :
           /\ Total(fields) = pos[Len(fields)] /\ pos[0] = 0
           /\ \A i \in 1..Len(fields) : pos[i] = pos[i - 1] + fields[i]
  <1> DEFINE next(i, v) == IF i \in DOMAIN fields THEN v + fields[i] ELSE 0
             step == [x \in Nat \X Int |-> next(x[1], x[2])]
             IsPos(f) == f = [i \in Nat |-> IF i \in DOMAIN fields THEN f[i - 1] + fields[i] ELSE 0]
  <1>1. DOMAIN fields = 1..Len(fields) /\ Len(fields) \in Nat /\ \A i \in DOMAIN fields : fields[i] \in Int
    OBVIOUS
  <1>2. \A i \in Nat, v \in Int : next(i, v) \in Int
    BY <1>1
  <1>3. step \in [Nat \X Int -> Int] /\ \A i \in Nat, v \in Int : step[<<i, v>>] = next(i, v)
    BY <1>2
  <1> HIDE DEF step, next
  <1>4. PICK f \in [Nat -> Int] : IsRecursive(f, 0, step)
    <2>1. 0 \in Int
      OBVIOUS
    <2> QED BY <1>3, <2>1, RecursionExists
  <1> USE DEF next
  <1>5. IsPos(f)
    <2>1. \A i \in Nat : (IF i = 0 THEN 0 ELSE step[<<i, f[i - 1]>>])
                          = IF i \in DOMAIN fields THEN f[i - 1] + fields[i] ELSE 0
      BY <1>1, <1>3, <1>4
    <2> QED BY <1>4, <2>1 DEF IsRecursive
  <1> DEFINE pos == CHOOSE g : IsPos(g)
  <1>6. IsPos(pos)
    BY <1>5
  <1>7. Total(fields) = pos[Len(fields)]
    BY DEF Total
  <1> HIDE DEF pos
  <1>8. pos[0] = 0 /\ \A i \in 1..Len(fields) : pos[i] = pos[i - 1] + fields[i]
    <2>1. \A i \in Nat : pos[i] = IF i \in DOMAIN fields THEN pos[i - 1] + fields[i] ELSE 0
      BY <1>6
    <2>2. 0 \notin DOMAIN fields /\ \A i \in 1..Len(fields) : i \in Nat /\ i \in DOMAIN fields
      BY <1>1
    <2> QED BY <2>1, <2>2
  <1>9. pos \in [Nat -> Int]
    <2> DEFINE S == {i \in Nat : pos[i] \in Int}
    <2>1. 0 \in S
      BY <1>8
    <2>2. \A i \in Nat : i \in S => i + 1 \in S
      BY <1>1, <1>6
    <2> HIDE DEF S
    <2>3. Nat \subseteq S
      BY <2>1, <2>2, Induction
    <2> QED BY <1>6, <2>3 DEF S
  <1> QED
    BY <1>7, <1>8, <1>9

LEMMA FunctionIsSeq ==
  ASSUME NEW n \in Nat, NEW S, NEW f \in [1..n -> S]
  PROVE  f \in Seq(S) /\ Len(f) = n
  OBVIOUS

LEMMA TotalIs ==
  ASSUME NEW t \in Seq(Int)
  PROVE  /\ Len(t) = 2 => Total(t) = t[1] + t[2]
         /\ Len(t) = 3 => Total(t) = t[1] + t[2] + t[3]
         /\ Len(t) = 4 => Total(t) = t[1] + t[2] + t[3] + t[4]
         /\ Len(t) = 5 => Total(t) = t[1] + t[2] + t[3] + t[4] + t[5]
         /\ Len(t) = 6 => Total(t) = t[1] + t[2] + t[3] + t[4] + t[5] + t[6]
         /\ Len(t) = 9 => Total(t) = t[1] + t[2] + t[3] + t[4] + t[5] + t[6] + t[7] + t[8] + t[9]
  <1>1. PICK pos \in [Nat -> Int] :
          /\ Total(t) = pos[Len(t)] /\ pos[0] = 0
          /\ \A i \in 1..Len(t) : pos[i] = pos[i - 1] + t[i]
    BY TotalUnfolds
  <1>2. ASSUME NEW i \in 1..Len(t) PROVE t[i] \in Int
    OBVIOUS
  <1>3. ASSUME Len(t) = 2 PROVE Total(t) = t[1] + t[2]
    <2>1. pos[1] = pos[0] + t[1] /\ pos[2] = pos[1] + t[2]
      BY <1>1, <1>3
    <2>2. t[1] \in Int /\ t[2] \in Int
      BY <1>2, <1>3
    <2> QED BY <1>1, <1>3, <2>1, <2>2
  <1>4. ASSUME Len(t) = 3 PROVE Total(t) = t[1] + t[2] + t[3]
    <2>1. pos[1] = pos[0] + t[1] /\ pos[2] = pos[1] + t[2] /\ pos[3] = pos[2] + t[3]
      BY <1>1, <1>4
    <2>2. t[1] \in Int /\ t[2] \in Int /\ t[3] \in Int
      BY <1>2, <1>4
    <2> QED BY <1>1, <1>4, <2>1, <2>2
  <1>5. ASSUME Len(t) = 4 PROVE Total(t) = t[1] + t[2] + t[3] + t[4]
    <2>1. pos[1] = pos[0] + t[1] /\ pos[2] = pos[1] + t[2] /\ pos[3] = pos[2] + t[3] /\ pos[4] = pos[3] + t[4]
      BY <1>1, <1>5
    <2>2. t[1] \in Int /\ t[2] \in Int /\ t[3] \in Int /\ t[4] \in Int
      BY <1>2, <1>5
    <2> QED BY <1>1, <1>5, <2>1, <2>2
  <1>6. ASSUME Len(t) = 5 PROVE Total(t) = t[1] + t[2] + t[3] + t[4] + t[5]
    <2>1. pos[1] = pos[0] + t[1] /\ pos[2] = pos[1] + t[2] /\ pos[3] = pos[2] + t[3] /\ pos[4] = pos[3] + t[4] /\ pos[5] = pos[4] + t[5]
      BY <1>1, <1>6
    <2>2. t[1] \in Int /\ t[2] \in Int /\ t[3] \in Int /\ t[4] \in Int /\ t[5] \in Int
      BY <1>2, <1>6
    <2> QED BY <1>1, <1>6, <2>1, <2>2
  <1>7. ASSUME Len(t) = 6 PROVE Total(t) = t[1] + t[2] + t[3] + t[4] + t[5] + t[6]
    <2>1. pos[1] = pos[0] + t[1] /\ pos[2] = pos[1] + t[2] /\ pos[3] = pos[2] + t[3] /\ pos[4] = pos[3] + t[4] /\ pos[5] = pos[4] + t[5] /\ pos[6] = pos[5] + t[6]
      BY <1>1, <1>7
    <2>2. t[1] \in Int /\ t[2] \in Int /\ t[3] \in Int /\ t[4] \in Int /\ t[5] \in Int /\ t[6] \in Int
      BY <1>2, <1>7
    <2> QED BY <1>1, <1>7, <2>1, <2>2
  <1>8. ASSUME Len(t) = 9 PROVE Total(t) = t[1] + t[2] + t[3] + t[4] + t[5] + t[6] + t[7] + t[8] + t[9]
    <2>1. pos[1] = pos[0] + t[1] /\ pos[2] = pos[1] + t[2] /\ pos[3] = pos[2] + t[3] /\ pos[4] = pos[3] + t[4] /\ pos[5] = pos[4] + t[5] /\ pos[6] = pos[5] + t[6] /\ pos[7] = pos[6] + t[7] /\ pos[8] = pos[7] + t[8] /\ pos[9] = pos[8] + t[9]
      BY <1>1, <1>8
    <2>2. t[1] \in Int /\ t[2] \in Int /\ t[3] \in Int /\ t[4] \in Int /\ t[5] \in Int /\ t[6] \in Int /\ t[7] \in Int /\ t[8] \in Int /\ t[9] \in Int
      BY <1>2, <1>8
    <2> QED BY <1>1, <1>8, <2>1, <2>2
  <1> QED
    BY <1>3, <1>4, <1>5, <1>6, <1>7, <1>8

\* The sizes of the auth headers, the blocks of the PDUs and the tenant header.
LEMMA BlockSizes ==
  /\ Total(<<2, 2>>) = 4
  /\ Total(<<2, 2, 32>>) = 36
  /\ Total(<<2, 2, 12, 16>>) = 32
  /\ Total(<<2, 2, 4, 2, 2>>) = 12
  /\ Total(<<16, 4, 4, 2, 2>>) = 28
  /\ Total(<<16, 4, 4, 4, 4>>) = 32
  /\ Total(<<16, 4, 4, 4, 4, 4>>) = 36
  /\ Total(<<2, 2, 8, 16, 8, 1, 1, 1, 1>>) = 40
  <1>1. ASSUME NEW t, t = <<2, 2>> PROVE Total(t) = 4
    <2>1. /\ t \in Seq(Int) /\ Len(t) = 2
          /\ t[1] = 2 /\ t[2] = 2
      BY <1>1
    <2> QED BY <2>1, TotalIs
  <1>2. ASSUME NEW t, t = <<2, 2, 32>> PROVE Total(t) = 36
    <2>1. /\ t \in Seq(Int) /\ Len(t) = 3
          /\ t[1] = 2 /\ t[2] = 2 /\ t[3] = 32
      BY <1>2
    <2> QED BY <2>1, TotalIs
  <1>3. ASSUME NEW t, t = <<2, 2, 12, 16>> PROVE Total(t) = 32
    <2>1. /\ t \in Seq(Int) /\ Len(t) = 4
          /\ t[1] = 2 /\ t[2] = 2 /\ t[3] = 12 /\ t[4] = 16
      BY <1>3
    <2> QED BY <2>1, TotalIs
  <1>4. ASSUME NEW t, t = <<2, 2, 4, 2, 2>> PROVE Total(t) = 12
    <2>1. /\ t \in Seq(Int) /\ Len(t) = 5
          /\ t[1] = 2 /\ t[2] = 2 /\ t[3] = 4 /\ t[4] = 2 /\ t[5] = 2
      BY <1>4
    <2> QED BY <2>1, TotalIs
  <1>5. ASSUME NEW t, t = <<16, 4, 4, 2, 2>> PROVE Total(t) = 28
    <2>1. /\ t \in Seq(Int) /\ Len(t) = 5
          /\ t[1] = 16 /\ t[2] = 4 /\ t[3] = 4 /\ t[4] = 2 /\ t[5] = 2
      BY <1>5
    <2> QED BY <2>1, TotalIs
  <1>6. ASSUME NEW t, t = <<16, 4, 4, 4, 4>> PROVE Total(t) = 32
    <2>1. /\ t \in Seq(Int) /\ Len(t) = 5
          /\ t[1] = 16 /\ t[2] = 4 /\ t[3] = 4 /\ t[4] = 4 /\ t[5] = 4
      BY <1>6
    <2> QED BY <2>1, TotalIs
  <1>7. ASSUME NEW t, t = <<16, 4, 4, 4, 4, 4>> PROVE Total(t) = 36
    <2>1. /\ t \in Seq(Int) /\ Len(t) = 6
          /\ t[1] = 16 /\ t[2] = 4 /\ t[3] = 4 /\ t[4] = 4 /\ t[5] = 4 /\ t[6] = 4
      BY <1>7
    <2> QED BY <2>1, TotalIs
  <1>8. ASSUME NEW t, t = <<2, 2, 8, 16, 8, 1, 1, 1, 1>> PROVE Total(t) = 40
    <2>1. /\ t \in Seq(Int) /\ Len(t) = 9
          /\ t[1] = 2 /\ t[2] = 2 /\ t[3] = 8 /\ t[4] = 16 /\ t[5] = 8 /\ t[6] = 1 /\ t[7] = 1 /\ t[8] = 1 /\ t[9] = 1
      BY <1>8
    <2>2. Total(t) = t[1] + t[2] + t[3] + t[4] + t[5] + t[6] + t[7] + t[8] + t[9]
      BY <2>1, TotalIs
    <2> QED BY <2>1, <2>2
  <1> QED
    BY <1>1, <1>2, <1>3, <1>4, <1>5, <1>6, <1>7, <1>8

\* The headers have the sizes that totalPacketSize counts.
LEMMA HeaderSizes ==
  /\ Total(TenantFields) = 40
  /\ \A m \in {"none", "cookie", "aes"} : Total(AuthFields[m]) = AuthHeaderSize[m]
  BY BlockSizes DEF TenantFields, AuthFields, AuthHeaderSize

\* A label is padded to whole words, and its length is not more than that.
LEMMA LabelSizes ==
  ASSUME NEW label \in Nat
  PROVE  /\ Total(LabelFields(label)) = 4 + RoundUp(2 + label)
         /\ LabelSize(label) \in Nat /\ LabelSize(label) % 4 = 0
         /\ (IF label = 0 THEN 0 ELSE 1) * Total(LabelFields(label)) = LabelSize(label)
  <1>1. RoundUp(2 + label) \in Nat /\ RoundUp(2 + label) % 4 = 0
    BY DEF RoundUp
  <1>2. Total(LabelFields(label)) = 4 + RoundUp(2 + label)
    <2> DEFINE t == LabelFields(label)
    <2>1. /\ t \in Seq(Int) /\ Len(t) = 5
          /\ t[1] = 2 /\ t[2] = 2 /\ t[3] = 2 /\ t[4] = label
          /\ t[5] = RoundUp(2 + label) - (2 + label)
      BY DEF LabelFields, RoundUp
    <2> HIDE DEF t
    <2>2. Total(t) = t[1] + t[2] + t[3] + t[4] + t[5]
      BY <2>1, TotalIs
    <2> QED BY <1>1, <2>1, <2>2 DEF t
  <1>3. LabelSize(label) = IF label = 0 THEN 0 ELSE 4 + RoundUp(2 + label)
    BY DEF LabelSize
  <1> HIDE DEF LabelSize
  <1> QED
    BY <1>1, <1>2, <1>3

\* What is written into the PDU of a rate request is what its size counts.
LEMMA RatePduIsWhole ==
  ASSUME NEW r, Len(r.guards) \in Nat, Len(r.resources) \in Nat, r.label \in Nat
  PROVE  Length(RatePdu(r)) = RatePduSize(r) /\ RatePduSize(r) % 4 = 0 /\ RatePduSize(r) \in Nat
  <1> DEFINE pdu == RatePdu(r)
             l == [i \in DOMAIN pdu |-> pdu[i].times * Total(pdu[i].fields)]
             g == Len(r.guards)
             n == Len(r.resources)
             labels == IF r.label = 0 THEN 0 ELSE 1
  <1>1. Total(<<2, 2, 4, 2, 2>>) = 12 /\ Total(<<16, 4, 4, 2, 2>>) = 28
    BY BlockSizes
  <1>2. Total(<<16, 4, 4, 4, 4, 4>>) = 36
    BY BlockSizes
  <1>3. /\ DOMAIN pdu = 1..4
        /\ pdu[1] = Section(1, <<2, 2, 4, 2, 2>>) /\ pdu[2] = Section(g, <<16, 4, 4, 4, 4, 4>>)
        /\ pdu[3] = Section(n, <<16, 4, 4, 2, 2>>) /\ pdu[4] = Section(labels, LabelFields(r.label))
    BY DEF RatePdu
  <1>4. /\ l \in Seq(Int) /\ Len(l) = 4 /\ LabelSize(r.label) \in Nat
        /\ l[1] = 12 /\ l[2] = g * 36 /\ l[3] = n * 28 /\ l[4] = LabelSize(r.label)
    <2> HIDE DEF pdu, g, n, labels
    <2>1. g \in Nat /\ n \in Nat
      BY DEF g, n
    <2>2. LabelSize(r.label) \in Nat /\ labels * Total(LabelFields(r.label)) = LabelSize(r.label)
      BY LabelSizes DEF labels
    <2>3. l[1] = 1 * 12 /\ l[2] = g * 36 /\ l[3] = n * 28 /\ l[4] = LabelSize(r.label)
      <3>1. \A i \in 1..4 : l[i] = pdu[i].times * Total(pdu[i].fields)
        BY <1>3
      <3>2. pdu[1].times = 1 /\ pdu[2].times = g /\ pdu[3].times = n /\ pdu[4].times = labels
        BY <1>3 DEF Section
      <3>3. /\ pdu[1].fields = <<2, 2, 4, 2, 2>> /\ pdu[2].fields = <<16, 4, 4, 4, 4, 4>>
            /\ pdu[3].fields = <<16, 4, 4, 2, 2>> /\ pdu[4].fields = LabelFields(r.label)
        BY <1>3 DEF Section
      <3>4. /\ Total(pdu[1].fields) = 12 /\ Total(pdu[2].fields) = 36 /\ Total(pdu[3].fields) = 28
            /\ labels * Total(pdu[4].fields) = LabelSize(r.label)
        BY <1>1, <1>2, <2>2, <3>3, Zenon
      <3> HIDE DEF l
      <3> QED BY <3>1, <3>2, <3>4
    <2>4. l = [i \in 1..4 |-> l[i]]
      BY <1>3
    <2> HIDE DEF l
    <2>5. l \in [1..4 -> Int]
      BY <2>1, <2>2, <2>3, <2>4
    <2>6. l \in Seq(Int) /\ Len(l) = 4
      BY <2>5, FunctionIsSeq
    <2> QED BY <2>2, <2>3, <2>6
  <1>5. LabelSize(r.label) % 4 = 0
    BY LabelSizes
  <1> HIDE DEF l
  <1>6. Total(l) = 12 + g * 36 + n * 28 + LabelSize(r.label)
    <2>1. Total(l) = l[1] + l[2] + l[3] + l[4]
      BY <1>4, TotalIs
    <2> QED BY <1>4, <2>1
  <1>7. Length(pdu) = Total(l)
    BY DEF Length, l
  <1>8. RatePduSize(r) = 12 + g * 36 + n * 28 + LabelSize(r.label)
    BY <1>4 DEF RatePduSize
  <1> HIDE DEF g, n, pdu
  <1>9. g \in Nat /\ n \in Nat
    BY DEF g, n
  <1> QED
    BY <1>4, <1>5, <1>6, <1>7, <1>8, <1>9 DEF pdu

\* The same of a latency report.
LEMMA ReportPduIsWhole ==
  ASSUME NEW n \in Nat
  PROVE  Length(ReportPdu(n)) = ReportPduSize(n) /\ ReportPduSize(n) % 4 = 0 /\ ReportPduSize(n) \in Nat
  <1> DEFINE pdu == ReportPdu(n)
             l == [i \in DOMAIN pdu |-> pdu[i].times * Total(pdu[i].fields)]
  <1>1. Total(<<2, 2, 4, 2, 2>>) = 12 /\ Total(<<16, 4, 4, 4, 4>>) = 32
    BY BlockSizes
  <1>2. /\ DOMAIN pdu = 1..2
        /\ pdu[1] = Section(1, <<2, 2, 4, 2, 2>>) /\ pdu[2] = Section(n, <<16, 4, 4, 4, 4>>)
    BY DEF ReportPdu
  <1>3. Total(l) = 12 + n * 32
    <2> HIDE DEF pdu
    <2>1. l[1] = 1 * 12 /\ l[2] = n * 32 /\ l = [i \in 1..2 |-> l[i]]
      BY <1>1, <1>2 DEF Section
    <2> HIDE DEF l
    <2>2. l \in [1..2 -> Int]
      BY <2>1
    <2>3. l \in Seq(Int) /\ Len(l) = 2
      BY <2>2, FunctionIsSeq
    <2>4. Total(l) = l[1] + l[2]
      BY <2>3, TotalIs
    <2> QED BY <2>1, <2>4
  <1> HIDE DEF l
  <1>4. Length(pdu) = Total(l)
    BY DEF Length, l
  <1> QED
    BY <1>3, <1>4 DEF ReportPduSize

-----------------------------------------------------------------------------
(* The key. *)

\* Whatever key was kept before, what is decoded belongs to the text that the
\* configuration holds now.
LEMMA DecodesCurrent ==
  ASSUME KeyIsDecoded, NEW t, DecodeAuthKey(t) # Refused
  PROVE  /\ t.authSecret \in DOMAIN ApiKeys /\ DecodeAuthKey(t) \in DecodedKeys
         /\ DecodeAuthKey(t) # None
         /\ DecodeAuthKey(t).encoded = t.authSecret /\ DecodeAuthKey(t).key = ApiKeys[t.authSecret]
  <1>1. CASE FromCache(t)
    <2>1. decodedAuth \in DecodedKeys /\ decodedAuth.encoded = t.authSecret
      BY <1>1 DEF FromCache, KeyIsDecoded
    <2>2. PICK e \in DOMAIN ApiKeys : decodedAuth = [encoded |-> e, key |-> ApiKeys[e]]
      BY <2>1 DEF DecodedKeys
    <2> QED BY <1>1, <2>1, <2>2 DEF FromCache, DecodeAuthKey
  <1>2. CASE ~FromCache(t)
    <2>1. /\ t.authSecret \in DOMAIN ApiKeys
          /\ DecodeAuthKey(t) = [encoded |-> t.authSecret, key |-> ApiKeys[t.authSecret]]
      BY <1>2 DEF DecodeAuthKey
    <2>2. DecodeAuthKey(t) \in DecodedKeys
      BY <2>1 DEF DecodedKeys
    <2> QED BY <2>1, <2>2, WireAssumption
  <1> QED
    BY <1>1, <1>2

LEMMA KeyStaysDecoded ==
  ASSUME KeyIsDecoded, tenant' \in Tenants, Remember(tenant) \/ UNCHANGED decodedAuth
  PROVE  KeyIsDecoded'
  BY DecodesCurrent DEF KeyIsDecoded, Remember

LEMMA InitInv == Init => IInv
  <1> SUFFICES ASSUME Init PROVE IInv
    OBVIOUS
  <1>1. KeyIsDecoded
    BY DEF Init, KeyIsDecoded, DecodedKeys
  <1> QED
    BY <1>1 DEF Init, IInv, Made, PacketIsSane, KeyIsKept, AnswerIsSane, ResultIsOfAnswer,
                SealedWithCurrentKey

-----------------------------------------------------------------------------
(* The steps of the client. *)

LEMMA CreateRateRequestInv ==
  ASSUME IInv, NEW r \in Requests, CreateRateRequest(r)
  PROVE  IInv'
  <1>1. /\ request' = r /\ answer' = None /\ result' = None /\ UNCHANGED <<tenant, clientVars>>
        /\ KeyIsDecoded /\ tenant \in Tenants
    BY DEF CreateRateRequest, IInv, KeyIsDecoded
  <1>2. KeyIsDecoded'
    BY <1>1, KeyStaysDecoded DEF CreateRateRequest
  <1>3. AnswerIsSane' /\ ResultIsOfAnswer'
    BY <1>1 DEF AnswerIsSane, ResultIsOfAnswer
  <1>4. CASE packet' = Refused
    BY <1>2, <1>3, <1>4 DEF IInv, Made, PacketIsSane, KeyIsKept, SealedWithCurrentKey
  <1>5. CASE /\ quotas # None /\ KeyFits(tenant)
             /\ Encodable(r, DecodeAuthKey(tenant).key.quotas)
             /\ Fits(tenant.authMethod, RatePduSize(r))
             /\ packet' = [id |-> requests', tenant |-> tenant, request |-> r, seal |-> Seal(tenant),
                           ttl |-> HorizonMs(policy), pdu |-> RatePdu(r), pduSize |-> RatePduSize(r)]
    <2> DEFINE text == tenant.authSecret
               key == DecodeAuthKey(tenant).key
    <2>1. /\ text \in DOMAIN ApiKeys /\ key = ApiKeys[text] /\ key.method = tenant.authMethod
          /\ DecodeAuthKey(tenant) # None /\ DecodeAuthKey(tenant).encoded = text
      BY <1>1, <1>5, DecodesCurrent DEF KeyFits
    <2>2. decodedAuth' = DecodeAuthKey(tenant)
      BY <1>5 DEF CreateRateRequest, Remember, KeyFits
    <2>3. /\ HorizonMs(policy) <= key.quotas.dedup
          /\ \A i \in DOMAIN r.resources : r.resources[i].window <= key.quotas.window
      BY <1>5 DEF Encodable, WithinQuota
    <2>4. /\ packet'.tenant = tenant /\ packet'.request = r /\ packet'.ttl = HorizonMs(policy)
          /\ packet'.pdu = RatePdu(r) /\ packet'.pduSize = RatePduSize(r)
          /\ packet'.seal.method = tenant.authMethod
          /\ tenant.authMethod # "none" => packet'.seal.secret = key.secret
      BY <1>5 DEF Seal
    <2> HIDE DEF text, key
    <2>5. PacketIsSane'
      BY <1>1, <1>5, <2>4 DEF PacketIsSane
    <2>6. KeyIsKept'
      BY <2>1, <2>2, <2>4 DEF KeyIsKept, text, key
    <2>7. SealedWithCurrentKey'
      BY <2>1, <2>3, <2>4 DEF SealedWithCurrentKey, text
    <2> QED BY <1>2, <1>3, <2>5, <2>6, <2>7 DEF IInv
  <1> QED
    BY <1>4, <1>5 DEF CreateRateRequest

LEMMA CreateLatencyReportInv ==
  ASSUME IInv, NEW n \in Reports, CreateLatencyReport(n)
  PROVE  IInv'
  <1>1. /\ request' = None /\ answer' = None /\ result' = None /\ UNCHANGED <<tenant, clientVars>>
        /\ KeyIsDecoded /\ tenant \in Tenants
    BY DEF CreateLatencyReport, IInv, KeyIsDecoded
  <1>2. KeyIsDecoded'
    BY <1>1, KeyStaysDecoded DEF CreateLatencyReport
  <1>3. AnswerIsSane' /\ ResultIsOfAnswer'
    BY <1>1 DEF AnswerIsSane, ResultIsOfAnswer
  <1>4. CASE packet' \in {None, Refused}
    BY <1>2, <1>3, <1>4 DEF IInv, Made, PacketIsSane, KeyIsKept, SealedWithCurrentKey
  <1>5. CASE /\ Fits(tenant.authMethod, ReportPduSize(n))
             /\ tenant.authMethod = "none" \/ KeyFits(tenant)
             /\ packet' = [id |-> requests', tenant |-> tenant, request |-> None, seal |-> Seal(tenant),
                           ttl |-> 0, pdu |-> ReportPdu(n), pduSize |-> ReportPduSize(n)]
    <2> DEFINE text == tenant.authSecret
    <2>1. tenant.authMethod # "none" =>
            text \in DOMAIN ApiKeys /\ DecodeAuthKey(tenant).key = ApiKeys[text]
      BY <1>1, <1>5, DecodesCurrent DEF KeyFits
    <2>2. /\ packet'.tenant = tenant /\ packet'.request = None /\ packet'.ttl = 0
          /\ packet'.pdu = ReportPdu(n) /\ packet'.pduSize = ReportPduSize(n)
          /\ packet'.seal.method = tenant.authMethod
          /\ tenant.authMethod # "none" => packet'.seal.secret = DecodeAuthKey(tenant).key.secret
      BY <1>5 DEF Seal
    <2> HIDE DEF text
    <2>3. PacketIsSane'
      BY <1>1, <1>5, <2>2 DEF PacketIsSane
    <2>4. KeyIsKept'
      BY <2>2 DEF KeyIsKept
    <2>5. SealedWithCurrentKey'
      <3>1. text \in DOMAIN ApiKeys => 0 <= ApiKeys[text].quotas.dedup
        BY WireAssumption
      <3> QED BY <2>1, <2>2, <3>1 DEF SealedWithCurrentKey, text
    <2> QED BY <1>2, <1>3, <2>3, <2>4, <2>5 DEF IInv
  <1> QED
    BY <1>4, <1>5 DEF CreateLatencyReport

-----------------------------------------------------------------------------
(* The servers, the network and the application. *)

LEMMA DecisionSets ==
  /\ \A y : y \in ResourceDecisions <=>
       \E x \in Resources, d \in {0, 1} : y = [id |-> BucketId(x), about |-> x.name, deficit |-> d]
  /\ \A y : y \in GuardDecisions <=>
       \E x \in Guards, c \in {0, 2} :
         y = [id |-> LatencyTrackerId(x), about |-> x.name, threshold |-> x.threshold, current |-> c]
  BY DEF ResourceDecisions, GuardDecisions

\* An answer is a decision about each resource and guard of the packet.
LEMMA AnswerFacts ==
  ASSUME NEW p, p.request \in Requests, NEW a \in Answers(p)
  PROVE  LET r == p.request
         IN  /\ DOMAIN a = {"id", "seal", "authSize", "tagged", "isRateResponse", "cut", "genuine",
                            "guards", "resources"}
             /\ a.id = p.id /\ a.seal = p.seal /\ a.authSize = AuthHeaderSize[p.seal.method]
             /\ a.tagged = TRUE /\ a.isRateResponse = TRUE /\ a.cut = FALSE /\ a.genuine = TRUE
             /\ DOMAIN a.resources = DOMAIN r.resources /\ DOMAIN a.guards = DOMAIN r.guards
             /\ a.resources \in Seq(ResourceDecisions) /\ a.guards \in Seq(GuardDecisions)
  <1> DEFINE r == p.request
  <1>1. PICK d \in [DOMAIN r.resources -> {0, 1}], c \in [DOMAIN r.guards -> {0, 2}] :
          a = Decides(p, d, c)
    BY DEF Answers
  <1>2. /\ DOMAIN r.resources = 1..Len(r.resources) /\ DOMAIN r.guards = 1..Len(r.guards)
        /\ Len(r.resources) \in Nat /\ Len(r.guards) \in Nat
        /\ \A i \in DOMAIN r.resources : r.resources[i] \in Resources
        /\ \A i \in DOMAIN r.guards : r.guards[i] \in Guards
    BY WireAssumption
  <1> HIDE DEF r
  <1>3. /\ a.resources = [i \in DOMAIN r.resources |->
                            [id |-> BucketId(r.resources[i]), about |-> r.resources[i].name, deficit |-> d[i]]]
        /\ a.guards = [i \in DOMAIN r.guards |->
                         [id |-> LatencyTrackerId(r.guards[i]), about |-> r.guards[i].name,
                          threshold |-> r.guards[i].threshold, current |-> c[i]]]
    BY <1>1 DEF Decides, r
  <1>4. a.resources \in Seq(ResourceDecisions)
    <2>1. ASSUME NEW i \in DOMAIN r.resources PROVE a.resources[i] \in ResourceDecisions
      <3>1. d[i] \in {0, 1} /\ r.resources[i] \in Resources
        BY <1>1, <1>2 DEF r
      <3>2. a.resources[i] = [id |-> BucketId(r.resources[i]), about |-> r.resources[i].name, deficit |-> d[i]]
        BY <1>3
      <3> QED BY <3>1, <3>2, DecisionSets, Zenon
    <2>2. a.resources \in [1..Len(r.resources) -> ResourceDecisions]
      BY <1>2, <1>3, <2>1
    <2> QED BY <1>2, <2>2, FunctionIsSeq
  <1>5. a.guards \in Seq(GuardDecisions)
    <2>1. ASSUME NEW i \in DOMAIN r.guards PROVE a.guards[i] \in GuardDecisions
      <3>1. c[i] \in {0, 2} /\ r.guards[i] \in Guards
        BY <1>1, <1>2 DEF r
      <3>2. a.guards[i] = [id |-> LatencyTrackerId(r.guards[i]), about |-> r.guards[i].name,
                           threshold |-> r.guards[i].threshold, current |-> c[i]]
        BY <1>3
      <3> QED BY <3>1, <3>2, DecisionSets, Zenon
    <2>2. a.guards \in [1..Len(r.guards) -> GuardDecisions]
      BY <1>2, <1>3, <2>1
    <2> QED BY <1>2, <2>2, FunctionIsSeq
  <1>6. /\ a.id = p.id /\ a.seal = p.seal /\ a.authSize = AuthHeaderSize[p.seal.method]
        /\ a.tagged = TRUE /\ a.isRateResponse = TRUE /\ a.cut = FALSE /\ a.genuine = TRUE
        /\ DOMAIN a = {"id", "seal", "authSize", "tagged", "isRateResponse", "cut", "genuine",
                       "guards", "resources"}
    BY <1>1 DEF Decides
  <1>7. DOMAIN a.resources = DOMAIN r.resources /\ DOMAIN a.guards = DOMAIN r.guards
    BY <1>3
  <1> QED
    BY <1>4, <1>5, <1>6, <1>7, Zenon DEF r

\* Its entries have the ids of what the packet asks about.
LEMMA AnswerIds ==
  ASSUME NEW p, NEW a \in Answers(p)
  PROVE  /\ \A i \in DOMAIN p.request.resources : a.resources[i].id = BucketId(p.request.resources[i])
         /\ \A i \in DOMAIN p.request.guards : a.guards[i].id = LatencyTrackerId(p.request.guards[i])
  <1> DEFINE r == p.request
  <1>1. PICK d \in [DOMAIN r.resources -> {0, 1}], c \in [DOMAIN r.guards -> {0, 2}] :
          a = Decides(p, d, c)
    BY DEF Answers
  <1>2. /\ a.resources = [i \in DOMAIN r.resources |->
                            [id |-> BucketId(r.resources[i]), about |-> r.resources[i].name, deficit |-> d[i]]]
        /\ a.guards = [i \in DOMAIN r.guards |->
                         [id |-> LatencyTrackerId(r.guards[i]), about |-> r.guards[i].name,
                          threshold |-> r.guards[i].threshold, current |-> c[i]]]
    BY <1>1 DEF Decides
  <1> HIDE DEF r
  <1>3. ASSUME NEW i \in DOMAIN r.resources PROVE a.resources[i].id = BucketId(r.resources[i])
    BY <1>2
  <1>4. ASSUME NEW i \in DOMAIN r.guards PROVE a.guards[i].id = LatencyTrackerId(r.guards[i])
    BY <1>2
  <1> QED
    BY <1>3, <1>4 DEF r

\* What the network makes of an answer holds decisions still.
LEMMA VariantFacts ==
  ASSUME NEW a, {"resources", "guards", "genuine"} \subseteq DOMAIN a,
         a.resources \in Seq(ResourceDecisions), a.guards \in Seq(GuardDecisions),
         NEW v \in Variants(a)
  PROVE  /\ v.resources \in Seq(ResourceDecisions) /\ v.guards \in Seq(GuardDecisions)
         /\ "genuine" \in DOMAIN v
  <1>1. ASSUME NEW S, NEW s \in Seq(S)
        PROVE  /\ Reverse(s) \in Seq(S) /\ s \o s \in Seq(S)
               /\ SubSeq(s, 1, Len(s) - 1) \in Seq(S)
    BY <1>1 DEF Reverse
  <1>2. /\ v.resources \in {a.resources, Reverse(a.resources), a.resources \o a.resources,
                            SubSeq(a.resources, 1, Len(a.resources) - 1)}
        /\ v.guards \in {a.guards, Reverse(a.guards)}
        /\ DOMAIN v = DOMAIN a
    BY DEF Variants
  <1> QED
    BY <1>1, <1>2

\* Until there is a result, what is kept of the key and of the packet stays.
LEMMA PacketStays ==
  ASSUME IInv, UNCHANGED <<decodedAuth, requests, packet, result>>,
         tenant' \in Tenants, request' \in Requests \/ request' = request
  PROVE  KeyIsDecoded' /\ PacketIsSane' /\ KeyIsKept' /\ SealedWithCurrentKey'
  <1>1. KeyIsDecoded'
    BY DEF IInv, KeyIsDecoded
  <1>2. PacketIsSane'
    BY DEF IInv, Made, PacketIsSane
  <1>3. KeyIsKept' /\ SealedWithCurrentKey'
    BY DEF IInv, Made, KeyIsKept, SealedWithCurrentKey
  <1> QED
    BY <1>1, <1>2, <1>3

LEMMA AnswerComesInv ==
  ASSUME IInv, AnswerComes
  PROVE  IInv'
  <1>1. /\ Made /\ packet.request # None /\ answer = None /\ result = None
        /\ UNCHANGED <<tenant, decodedAuth, clientVars, request, requests, packet, result>>
    BY DEF AnswerComes, Awaited, Made, IInv, ResultIsOfAnswer
  <1>2. packet.request \in Requests
    BY <1>1 DEF IInv, PacketIsSane
  <1>3. PICK a \in Answers(packet) :
          answer' \in {a} \union {[v EXCEPT !.genuine = FALSE] : v \in Variants(a) \ {a}}
    BY DEF AnswerComes
  <1>4. /\ a.resources \in Seq(ResourceDecisions) /\ a.guards \in Seq(GuardDecisions)
        /\ {"resources", "guards", "genuine"} \subseteq DOMAIN a
    BY <1>2, AnswerFacts
  <1>5. /\ answer'.resources \in Seq(ResourceDecisions) /\ answer'.guards \in Seq(GuardDecisions)
        /\ answer'.genuine => answer' \in Answers(packet)
    <2>1. CASE answer' = a
      BY <1>4, <2>1
    <2>2. ASSUME NEW v \in Variants(a), answer' = [v EXCEPT !.genuine = FALSE]
          PROVE  /\ answer'.resources \in Seq(ResourceDecisions)
                 /\ answer'.guards \in Seq(GuardDecisions)
                 /\ ~answer'.genuine
      <3>1. /\ v.resources \in Seq(ResourceDecisions) /\ v.guards \in Seq(GuardDecisions)
            /\ "genuine" \in DOMAIN v
        BY <1>4, VariantFacts
      <3> QED BY <2>2, <3>1
    <2> QED BY <1>3, <2>1, <2>2
  <1>6. AnswerIsSane'
    BY <1>1, <1>5 DEF AnswerIsSane, Made
  <1>7. ResultIsOfAnswer'
    BY <1>1 DEF ResultIsOfAnswer
  <1> QED
    BY <1>1, <1>6, <1>7, PacketStays DEF IInv, KeyIsDecoded

LEMMA ApplicationInv ==
  ASSUME IInv, (\E r \in Requests : Amend(r)) \/ (\E t \in Tenants : Rotate(t)) \/ UNCHANGED vars
  PROVE  IInv'
  <1>1. /\ UNCHANGED <<decodedAuth, requests, packet, answer, result>>
        /\ tenant' \in Tenants
        /\ request' \in Requests \/ request' = request
    BY DEF Amend, Rotate, vars, IInv, KeyIsDecoded
  <1>2. AnswerIsSane'
    BY <1>1 DEF IInv, AnswerIsSane, Made
  <1>3. ResultIsOfAnswer'
    <2>1. result = None \/ UNCHANGED vars
      BY DEF Amend, Awaited, Rotate, IInv, ResultIsOfAnswer
    <2> QED BY <1>1, <2>1 DEF IInv, ResultIsOfAnswer, vars, Results, NameOf, IdsMatch
  <1> QED
    BY <1>1, <1>2, <1>3, PacketStays DEF IInv

-----------------------------------------------------------------------------
(* The parser. *)

\* What the parser returns is no exception and not "nothing".
LEMMA ResultIsResult ==
  ASSUME request \in Requests, NEW a,
         a.resources \in Seq(ResourceDecisions), a.guards \in Seq(GuardDecisions)
  PROVE  Results(a) \notin {None, Refused}
  <1> DEFINE res == Results(a)
             N == Names \union {None}
  <1>1. /\ Len(a.resources) \in Nat /\ DOMAIN a.resources = 1..Len(a.resources)
        /\ Len(a.guards) \in Nat /\ DOMAIN a.guards = 1..Len(a.guards)
        /\ \A i \in DOMAIN a.resources : a.resources[i] \in ResourceDecisions
    OBVIOUS
  <1>2. /\ \A i : NameOf(request.resources, i) \in N
        /\ \A i : NameOf(request.guards, i) \in N
    <2>1. /\ \A i \in DOMAIN request.resources : request.resources[i] \in Resources
          /\ \A i \in DOMAIN request.guards : request.guards[i] \in Guards
      BY WireAssumption
    <2>2. /\ \A i \in DOMAIN request.resources : request.resources[i].name \in Names
          /\ \A i \in DOMAIN request.guards : request.guards[i].name \in Names
      BY <2>1 DEF Resources, Guards
    <2> QED BY <2>2 DEF NameOf
  <1>3. res.resources \in Seq([name : N, deficit : {0, 1}])
    <2>1. \A i \in DOMAIN a.resources : a.resources[i].deficit \in {0, 1}
      BY <1>1, DecisionSets
    <2>2. res.resources = [i \in DOMAIN a.resources |->
                             [name |-> NameOf(request.resources, i), deficit |-> a.resources[i].deficit]]
      BY DEF Results
    <2> HIDE DEF res
    <2>3. res.resources \in [1..Len(a.resources) -> [name : N, deficit : {0, 1}]]
      BY <1>1, <1>2, <2>1, <2>2
    <2> QED BY <1>1, <2>3, FunctionIsSeq
  <1>4. res.guards \in Seq([name : N, passed : BOOLEAN])
    <2>1. res.guards = [i \in DOMAIN a.guards |->
                          [name |-> NameOf(request.guards, i),
                           passed |-> a.guards[i].current < a.guards[i].threshold]]
      BY DEF Results
    <2> HIDE DEF res
    <2>2. res.guards \in [1..Len(a.guards) -> [name : N, passed : BOOLEAN]]
      BY <1>1, <1>2, <2>1
    <2> QED BY <1>1, <2>2, FunctionIsSeq
  <1>5. res = [guards |-> res.guards, resources |-> res.resources, success |-> res.success]
        /\ res.success \in BOOLEAN
    BY DEF Results
  <1> HIDE DEF res
  <1>6. res \in RateLimitResults
    BY <1>3, <1>4, <1>5 DEF RateLimitResults
  <1> QED
    BY <1>6, WireAssumption DEF res

\* The entries of a result are those of the answer, in order.
LEMMA ResultFacts ==
  ASSUME NEW a
  PROVE  /\ DOMAIN Results(a).resources = DOMAIN a.resources
         /\ DOMAIN Results(a).guards = DOMAIN a.guards
         /\ \A i \in DOMAIN Results(a).resources : Results(a).resources[i].name = NameOf(request.resources, i)
         /\ \A i \in DOMAIN Results(a).guards :
              /\ Results(a).guards[i].name = NameOf(request.guards, i)
              /\ Results(a).guards[i].passed <=> a.guards[i].current < a.guards[i].threshold
         /\ Results(a).success <=> /\ \A i \in DOMAIN a.guards : a.guards[i].current < a.guards[i].threshold
                                  /\ \A i \in DOMAIN a.resources : a.resources[i].deficit = 0
  <1>1. DOMAIN Results(a).resources = DOMAIN a.resources /\ DOMAIN Results(a).guards = DOMAIN a.guards
    BY DEF Results
  <1>2. ASSUME NEW i \in DOMAIN a.resources
        PROVE  Results(a).resources[i].name = NameOf(request.resources, i)
    BY DEF Results
  <1>3. ASSUME NEW i \in DOMAIN a.guards
        PROVE  /\ Results(a).guards[i].name = NameOf(request.guards, i)
               /\ Results(a).guards[i].passed <=> a.guards[i].current < a.guards[i].threshold
    BY Zenon DEF Results
  <1>4. Results(a).success <=> /\ \A i \in DOMAIN a.guards : a.guards[i].current < a.guards[i].threshold
                               /\ \A i \in DOMAIN a.resources : a.resources[i].deficit = 0
    BY Zenon DEF Results
  <1> QED BY <1>1, <1>2, <1>3, <1>4

\* The genuine answer to the call as it stands passes all checks.
LEMMA GenuineIsTaken ==
  ASSUME IInv, Made, result = None, answer \in Answers(packet),
         packet.request # None, request = packet.request, tenant = packet.tenant
  PROVE  /\ answer.tagged /\ answer.id = packet.id /\ answer.isRateResponse /\ ~answer.cut
         /\ Opens(answer) /\ IdsMatch(answer)
  <1>1. packet.request \in Requests /\ packet.seal.method = tenant.authMethod
    BY DEF IInv, PacketIsSane
  <1>2. /\ answer.id = packet.id /\ answer.seal = packet.seal
        /\ answer.authSize = AuthHeaderSize[packet.seal.method]
        /\ answer.tagged = TRUE /\ answer.isRateResponse = TRUE /\ answer.cut = FALSE
        /\ DOMAIN answer.resources = DOMAIN request.resources
        /\ DOMAIN answer.guards = DOMAIN request.guards
        /\ \A i \in DOMAIN request.resources : answer.resources[i].id = BucketId(request.resources[i])
        /\ \A i \in DOMAIN request.guards : answer.guards[i].id = LatencyTrackerId(request.guards[i])
    <2>1. PICK p : p = packet
      OBVIOUS
    <2>2. p.request \in Requests /\ answer \in Answers(p)
      BY <1>1, <2>1
    <2>3. /\ answer.id = p.id /\ answer.seal = p.seal
          /\ answer.authSize = AuthHeaderSize[p.seal.method]
          /\ answer.tagged = TRUE /\ answer.isRateResponse = TRUE /\ answer.cut = FALSE
      BY <2>2, AnswerFacts, Zenon
    <2>4. DOMAIN answer.resources = DOMAIN p.request.resources /\ DOMAIN answer.guards = DOMAIN p.request.guards
      BY <2>2, AnswerFacts, Zenon
    <2>5. /\ \A i \in DOMAIN p.request.resources : answer.resources[i].id = BucketId(p.request.resources[i])
          /\ \A i \in DOMAIN p.request.guards : answer.guards[i].id = LatencyTrackerId(p.request.guards[i])
      BY <2>2, AnswerIds, Zenon
    <2> QED BY <2>1, <2>3, <2>4, <2>5
  <1>3. /\ decodedAuth # None /\ decodedAuth.encoded = tenant.authSecret
        /\ decodedAuth.key.method = packet.seal.method
        /\ packet.seal.method # "none" => packet.seal.secret = decodedAuth.key.secret
    BY DEF IInv, KeyIsKept
  <1>4. DecodeAuthKey(tenant) = decodedAuth
    BY <1>3 DEF DecodeAuthKey, FromCache
  <1>5. decodedAuth # Refused
    BY <1>3, WireAssumption DEF IInv, KeyIsDecoded
  <1>6. Opens(answer)
    BY <1>1, <1>2, <1>3, <1>4, <1>5 DEF Opens, KeyFits
  <1>7. IdsMatch(answer)
    BY <1>2 DEF IdsMatch
  <1> QED
    BY <1>2, <1>6, <1>7

LEMMA ParseInv ==
  ASSUME IInv, ParseRateResponse
  PROVE  IInv'
  <1>1. /\ answer # None /\ result = None
        /\ UNCHANGED <<tenant, clientVars, request, requests, packet, answer>>
    BY DEF ParseRateResponse
  <1>2. /\ Made /\ packet.request # None
        /\ answer.resources \in Seq(ResourceDecisions) /\ answer.guards \in Seq(GuardDecisions)
        /\ answer.genuine => answer \in Answers(packet)
    BY <1>1 DEF IInv, AnswerIsSane
  <1>3. request \in Requests
    BY <1>2 DEF IInv, PacketIsSane
  <1>4. Results(answer) \notin {None, Refused} /\ Refused # None
    BY <1>2, <1>3, ResultIsResult, WireAssumption
  <1>5. KeyIsDecoded'
    BY <1>1, KeyStaysDecoded DEF ParseRateResponse, IInv, KeyIsDecoded
  <1>6. PacketIsSane' /\ SealedWithCurrentKey'
    BY <1>1 DEF IInv, Made, PacketIsSane, SealedWithCurrentKey
  <1>7. result' # None
    BY <1>4 DEF ParseRateResponse
  <1>8. KeyIsKept'
    BY <1>7 DEF KeyIsKept
  <1>9. AnswerIsSane'
    BY <1>1 DEF IInv, AnswerIsSane, Made
  <1>10. ResultIsOfAnswer'
    <2>1. result' # Refused => result' = Results(answer) /\ IdsMatch(answer)
      BY DEF ParseRateResponse
    <2>2. Results(answer)' = Results(answer) /\ IdsMatch(answer)' = IdsMatch(answer)
      BY <1>1 DEF Results, NameOf, IdsMatch
    <2>3. answer.genuine /\ request = packet.request /\ tenant = packet.tenant => result' # Refused
      BY <1>1, <1>2, <1>4, GenuineIsTaken DEF ParseRateResponse
    <2> QED BY <1>1, <2>1, <2>2, <2>3 DEF ResultIsOfAnswer
  <1> QED
    BY <1>5, <1>6, <1>8, <1>9, <1>10 DEF IInv

\* The inductive invariant of the packets: the key kept is one that its text
\* decodes to, as long as an answer is to come it is the key of the packet, and
\* what comes holds decisions about what their ids were derived from.
THEOREM WireInvariance == Spec => []IInv
  <1>1. IInv /\ [Next]_vars => IInv'
    <2> SUFFICES ASSUME IInv, [Next]_vars PROVE IInv'
      OBVIOUS
    <2>1. ASSUME NEW r \in Requests, CreateRateRequest(r) PROVE IInv'
      BY <2>1, CreateRateRequestInv
    <2>2. ASSUME NEW n \in Reports, CreateLatencyReport(n) PROVE IInv'
      BY <2>2, CreateLatencyReportInv
    <2>3. CASE AnswerComes
      BY <2>3, AnswerComesInv
    <2>4. CASE ParseRateResponse
      BY <2>4, ParseInv
    <2>5. CASE (\E r \in Requests : Amend(r)) \/ (\E t \in Tenants : Rotate(t)) \/ UNCHANGED vars
      BY <2>5, ApplicationInv
    <2> QED BY <2>1, <2>2, <2>3, <2>4, <2>5 DEF Next
  <1> QED
    BY <1>1, InitInv, PTL DEF Spec

-----------------------------------------------------------------------------
(* The properties. *)

\* createRateRequest and createLatencyReport: the buffer that is allocated, the
\* sizes that the packet announces and what is written into it agree, and no
\* packet is longer than a datagram may be.
THEOREM PacketsAreWhole == Spec => []PacketIsWhole
  <1>1. IInv => PacketIsWhole
    <2> SUFFICES ASSUME IInv, Made PROVE PacketIsWhole
      BY DEF PacketIsWhole, Made
    <2> DEFINE m == packet.seal.method
               size == packet.pduSize
    <2>1. m \in {"none", "cookie", "aes"} /\ Fits(m, size)
      BY WireAssumption DEF IInv, PacketIsSane
    <2>2. Length(packet.pdu) = size /\ size % 4 = 0 /\ size \in Nat
      <3>1. CASE /\ packet.request \in Requests
                 /\ packet.pdu = RatePdu(packet.request) /\ size = RatePduSize(packet.request)
        <4>1. /\ Len(packet.request.guards) \in Nat /\ Len(packet.request.resources) \in Nat
              /\ packet.request.label \in Nat
          BY <3>1, WireAssumption
        <4> QED BY <3>1, <4>1, RatePduIsWhole
      <3>2. ASSUME NEW n \in Reports, packet.pdu = ReportPdu(n), size = ReportPduSize(n)
            PROVE  Length(packet.pdu) = size /\ size % 4 = 0 /\ size \in Nat
        <4>1. n \in Nat
          BY WireAssumption
        <4> QED BY <3>2, <4>1, ReportPduIsWhole
      <3> QED BY <3>1, <3>2 DEF IInv, PacketIsSane
    <2>3. Total(TenantFields) = 40 /\ Total(AuthFields[m]) = AuthHeaderSize[m]
      BY <2>1, HeaderSizes
    <2>4. 40 + AuthHeaderSize[m] + size <= MAX_DATAGRAM_SIZE
      BY <2>1 DEF Fits
    <2> QED BY <2>2, <2>3, <2>4 DEF PacketIsWhole
  <1> QED BY <1>1, WireInvariance, PTL

\* _decodeAuthKey keeps the last key it decoded; a packet is sealed with the key
\* of the configuration all the same, and within its quotas.
THEOREM SealsWithCurrentKey == Spec => []SealedWithCurrentKey
  <1>1. IInv => SealedWithCurrentKey
    BY DEF IInv
  <1> QED BY <1>1, WireInvariance, PTL

\* parseRateResponse: a result says under each name what the server decided
\* about it, also if the application has changed its arrays or the tenant's key
\* in between; and the answer to the call as it stands is taken.
THEOREM ResultsAreDecisions == Spec => []ResultIsTheDecision
  <1>1. IInv => ResultIsTheDecision
    <2> SUFFICES ASSUME IInv, result # None PROVE ResultIsTheDecision
      BY DEF ResultIsTheDecision
    <2>1. /\ answer # None
          /\ result # Refused => result = Results(answer) /\ IdsMatch(answer)
          /\ answer.genuine /\ request = packet.request /\ tenant = packet.tenant => result # Refused
      BY DEF IInv, ResultIsOfAnswer
    <2>2. /\ Made /\ packet.request # None
          /\ answer.resources \in Seq(ResourceDecisions) /\ answer.guards \in Seq(GuardDecisions)
          /\ answer.genuine => answer \in Answers(packet)
      BY <2>1 DEF IInv, AnswerIsSane
    <2>3. packet.request \in Requests /\ request \in Requests
      BY <2>2 DEF IInv, PacketIsSane
    <2>4. result # Refused =>
            /\ DOMAIN result.resources = DOMAIN answer.resources
            /\ DOMAIN result.guards = DOMAIN answer.guards
            /\ \A i \in DOMAIN result.resources : result.resources[i].name = NameOf(request.resources, i)
            /\ \A i \in DOMAIN result.guards :
                 /\ result.guards[i].name = NameOf(request.guards, i)
                 /\ result.guards[i].passed <=> answer.guards[i].current < answer.guards[i].threshold
            /\ result.success <=> /\ \A i \in DOMAIN answer.guards :
                                       answer.guards[i].current < answer.guards[i].threshold
                                  /\ \A i \in DOMAIN answer.resources : answer.resources[i].deficit = 0
      BY <2>1, ResultFacts
    <2>5. ASSUME result # Refused, NEW i \in DOMAIN result.resources
          PROVE  result.resources[i].name \in {None, answer.resources[i].about}
      <3>1. CASE i \notin DOMAIN request.resources
        BY <2>4, <2>5, <3>1 DEF NameOf
      <3>2. CASE i \in DOMAIN request.resources
        <4>1. answer.resources[i].id = BucketId(request.resources[i])
          BY <2>1, <2>4, <2>5, <3>2 DEF IdsMatch
        <4>2. answer.resources[i] \in ResourceDecisions
          BY <2>2, <2>4, <2>5
        <4>3. PICK x \in Resources, d \in {0, 1} :
                answer.resources[i] = [id |-> BucketId(x), about |-> x.name, deficit |-> d]
          BY <4>2, DecisionSets
        <4>4. x.name = request.resources[i].name
          BY <4>1, <4>3 DEF BucketId
        <4> QED BY <2>4, <2>5, <3>2, <4>3, <4>4 DEF NameOf
      <3> QED BY <3>1, <3>2
    <2>6. ASSUME result # Refused, NEW i \in DOMAIN result.guards
          PROVE  result.guards[i].name \in {None, answer.guards[i].about}
      <3>1. CASE i \notin DOMAIN request.guards
        BY <2>4, <2>6, <3>1 DEF NameOf
      <3>2. CASE i \in DOMAIN request.guards
        <4>1. answer.guards[i].id = LatencyTrackerId(request.guards[i])
          BY <2>1, <2>4, <2>6, <3>2 DEF IdsMatch
        <4>2. answer.guards[i] \in GuardDecisions
          BY <2>2, <2>4, <2>6
        <4>3. PICK x \in Guards, c \in {0, 2} :
                answer.guards[i] = [id |-> LatencyTrackerId(x), about |-> x.name,
                                    threshold |-> x.threshold, current |-> c]
          BY <4>2, DecisionSets
        <4>4. x.name = request.guards[i].name
          BY <4>1, <4>3 DEF LatencyTrackerId
        <4> QED BY <2>4, <2>6, <3>2, <4>3, <4>4 DEF NameOf
      <3> QED BY <3>1, <3>2
    <2>7. ASSUME answer.genuine, request = packet.request, tenant = packet.tenant
          PROVE  /\ result # Refused
                 /\ \A i \in DOMAIN request.resources : result.resources[i].name = request.resources[i].name
                 /\ \A i \in DOMAIN request.guards : result.guards[i].name = request.guards[i].name
                 /\ result.success <=> /\ \A i \in DOMAIN answer.resources : answer.resources[i].deficit = 0
                                       /\ \A i \in DOMAIN answer.guards : result.guards[i].passed
      <3>1. result # Refused /\ answer \in Answers(packet)
        BY <2>1, <2>2, <2>7
      <3>2. DOMAIN answer.resources = DOMAIN request.resources /\ DOMAIN answer.guards = DOMAIN request.guards
        BY <2>3, <2>7, <3>1, AnswerFacts
      <3> QED BY <2>4, <3>1, <3>2 DEF NameOf
    <2> QED BY <2>5, <2>6, <2>7 DEF ResultIsTheDecision
  <1> QED BY <1>1, WireInvariance, PTL
=============================================================================
