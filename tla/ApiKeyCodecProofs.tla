-------------------------- MODULE ApiKeyCodecProofs -------------------------
(***************************************************************************)
(* Proofs about ApiKeyCodec: encodeApiKey and decodeApiKey are inverse to  *)
(* each other, and one slip in copying a key is noticed, or harmless.      *)
(***************************************************************************)
EXTENDS ApiKeyCodecLemmas, TLAPS

-----------------------------------------------------------------------------
(* Texts. *)

\* The last separator of a text, addr.lastIndexOf('1').
LEMMA SplitIs ==
  ASSUME NEW s \in Seq(Nat)
  PROVE  /\ Split(s) \in 0..Len(s)
         /\ Split(s) # 0 => s[Split(s)] = Separator
         /\ \A i \in 1..Len(s) : s[i] = Separator => i <= Split(s)
  <1> DEFINE I == {i \in 1..Len(s) : s[i] = Separator}
  <1>1. Split(s) = IF I # {} THEN Max(I) ELSE 0
    BY DEF Split, SelectLastInSeq
  <1>2. Len(s) \in Nat
    OBVIOUS
  <1>3. CASE I = {}
    <2>1. Split(s) = 0
      BY <1>1, <1>3
    <2> QED BY <1>2, <1>3, <2>1
  <1>4. CASE I # {}
    <2> DEFINE T == {Len(s) - i : i \in I}
    <2>1. T \subseteq Nat /\ T # {}
      BY <1>2, <1>4
    <2>2. PICK d \in T : \A m \in T : d <= m
      <3> HIDE DEF T
      <3> QED BY <2>1, LeastOfNat
    <2>3. PICK n \in I : d = Len(s) - n
      BY <2>2
    <2>4. \A i \in I : n >= i
      <3>1. \A i \in I : Len(s) - n <= Len(s) - i
        BY <2>2, <2>3
      <3> QED BY <1>2, <3>1
    <2> HIDE DEF I
    <2>5. \E x \in I : \A y \in I : x >= y
      BY <2>4
    <2>6. Max(I) \in I /\ \A y \in I : Max(I) >= y
      BY <2>5 DEF Max
    <2> DEFINE M == Max(I)
    <2> HIDE DEF M
    <2>7. Split(s) = M /\ M \in I /\ \A y \in I : M >= y
      BY <1>1, <1>4, <2>6 DEF M
    <2> QED BY <1>2, <2>7 DEF I
  <1> QED
    BY <1>3, <1>4

\* A separator with none after it is the last.
LEMMA SplitAt ==
  ASSUME NEW s \in Seq(Nat), NEW n \in 1..Len(s), s[n] = Separator,
         \A i \in (n + 1)..Len(s) : s[i] # Separator
  PROVE  Split(s) = n
  <1>2. Split(s) \in 0..Len(s) /\ n <= Split(s)
    BY SplitIs
  <1>3. s[Split(s)] = Separator
    BY <1>2, SplitIs
  <1>4. ~ (Split(s) \in (n + 1)..Len(s))
    BY <1>3
  <1>5. Len(s) \in Nat
    OBVIOUS
  <1> QED
    BY <1>2, <1>4, <1>5

\* A prefix, the separator and characters.
Text(hrp, chars) == hrp \o <<Separator>> \o [i \in DOMAIN chars |-> Symbol(chars[i])]

\* bech32Encode writes the prefix, a separator, the characters and their checksum.
LEMMA WriteIsText == \A hrp, data : Write(hrp, data) = Text(hrp, data \o CreateChecksum(hrp, data))
  BY DEF Write, Text, Symbol

\* The characters of such a text, place by place.
LEMMA InText ==
  ASSUME NEW hrp \in Seq(Nat), NEW chars \in Seq(Chars)
  PROVE  /\ Text(hrp, chars) \in Seq(Nat)
         /\ Len(Text(hrp, chars)) = Len(hrp) + 1 + Len(chars)
         /\ \A i \in 1..Len(hrp) : Text(hrp, chars)[i] = hrp[i]
         /\ Text(hrp, chars)[Len(hrp) + 1] = Separator
         /\ \A i \in 1..Len(chars) : Text(hrp, chars)[Len(hrp) + 1 + i] = Symbol(chars[i])
  <1> DEFINE sym == [i \in DOMAIN chars |-> Symbol(chars[i])]
             sep == <<Separator>>
             front == hrp \o sep
             h == Len(hrp)
             n == Len(chars)
  <1>1. h \in Nat /\ n \in Nat /\ DOMAIN chars = 1..n
    OBVIOUS
  <1>2. \A i \in 1..n : Symbol(chars[i]) \in Nat
    <2>1. \A i \in 1..n : chars[i] \in Chars
      OBVIOUS
    <2>2. \A w \in Chars : Symbol(w) \in Nat
      <3>1. Printable \subseteq Nat
        BY DEF Printable
      <3> QED BY <3>1, SymbolType
    <2> QED BY <2>1, <2>2
  <1>3. sym \in Seq(Nat) /\ Len(sym) = n /\ \A i \in 1..n : sym[i] = Symbol(chars[i])
    <2>1. sym \in [1..n -> Nat]
      BY <1>1, <1>2
    <2>2. sym \in Seq(Nat)
      BY <1>1, <2>1, SeqDef
    <2> QED BY <1>1, <2>2
  <1>4. sep \in Seq(Nat) /\ Len(sep) = 1 /\ sep[1] = Separator
    BY DEF Separator
  <1> HIDE DEF sym, sep
  <1>5. front \in Seq(Nat) /\ Len(front) = h + 1 /\ \A i \in 1..(h + 1) : front[i] = IF i <= h THEN hrp[i] ELSE sep[i - h]
    <2>1. /\ front \in Seq(Nat) /\ Len(front) = Len(hrp) + Len(sep)
          /\ \A i \in 1..(Len(hrp) + Len(sep)) : front[i] = IF i <= Len(hrp) THEN hrp[i] ELSE sep[i - Len(hrp)]
      BY <1>4, ConcatProperties, Zenon
    <2> QED BY <1>4, <2>1
  <1> HIDE DEF front
  <1> DEFINE t == front \o sym
  <1>6. /\ t \in Seq(Nat) /\ Len(t) = (h + 1) + n
        /\ \A i \in 1..((h + 1) + n) : t[i] = IF i <= h + 1 THEN front[i] ELSE sym[i - (h + 1)]
    <2> HIDE DEF t
    <2>0. front \in Seq(Nat) /\ sym \in Seq(Nat)
      BY <1>3, <1>5
    <2>1. /\ front \o sym \in Seq(Nat) /\ Len(front \o sym) = Len(front) + Len(sym)
          /\ \A i \in 1..(Len(front) + Len(sym)) :
               (front \o sym)[i] = IF i <= Len(front) THEN front[i] ELSE sym[i - Len(front)]
      BY <2>0, ConcatProperties, Zenon
    <2>2. /\ t \in Seq(Nat) /\ Len(t) = Len(front) + Len(sym)
          /\ \A i \in 1..(Len(front) + Len(sym)) :
               t[i] = IF i <= Len(front) THEN front[i] ELSE sym[i - Len(front)]
      BY <2>1 DEF t
    <2> QED BY <1>3, <1>5, <2>2
  <1>7. Text(hrp, chars) = t
    BY DEF Text, front, sym, sep
  <1> HIDE DEF t, h, n
  <1>8. \A i \in 1..h : t[i] = hrp[i]
    <2>1. \A i \in 1..h : i \in 1..(h + 1) /\ i \in 1..((h + 1) + n) /\ i <= h /\ i <= h + 1
      BY <1>1
    <2> QED BY <1>5, <1>6, <2>1
  <1>9. t[h + 1] = Separator
    <2>1. h + 1 \in 1..(h + 1) /\ h + 1 \in 1..((h + 1) + n) /\ ~(h + 1 <= h) /\ (h + 1) - h = 1
      BY <1>1
    <2> QED BY <1>4, <1>5, <1>6, <2>1
  <1>10. \A i \in 1..n : t[h + 1 + i] = Symbol(chars[i])
    <2>1. \A i \in 1..n : h + 1 + i \in 1..((h + 1) + n) /\ ~(h + 1 + i <= h + 1) /\ (h + 1 + i) - (h + 1) = i
      BY <1>1
    <2> QED BY <1>3, <1>6, <2>1
  <1> QED
    BY <1>6, <1>7, <1>8, <1>9, <1>10 DEF h, n

\* A part of a sequence, slice of the code, place by place.
LEMMA PartIs ==
  ASSUME NEW S, NEW s \in Seq(S), NEW a \in Nat \ {0}, NEW b \in Nat, b <= Len(s), a <= b + 1
  PROVE  /\ SubSeq(s, a, b) \in Seq(S) /\ Len(SubSeq(s, a, b)) = b - a + 1
         /\ \A i \in 1..(b - a + 1) : SubSeq(s, a, b)[i] = s[a + i - 1]
  <1>1. a \in Int /\ b \in Int /\ \A i \in a..b : s[i] \in S
    <2>1. Len(s) \in Nat
      OBVIOUS
    <2>2. \A i \in a..b : i \in 1..Len(s)
      BY <2>1
    <2> QED BY <2>2, ElementOfSeq
  <1>2. /\ SubSeq(s, a, b) \in Seq(S) /\ Len(SubSeq(s, a, b)) = IF a <= b THEN b - a + 1 ELSE 0
        /\ \A i \in 1..(b - a + 1) : SubSeq(s, a, b)[i] = s[a + i - 1]
    BY <1>1, SubSeqProperties
  <1>3. b - a + 1 = IF a <= b THEN b - a + 1 ELSE 0
    OBVIOUS
  <1> QED
    BY <1>2, <1>3

\* Such a text is taken apart as it was put together.
LEMMA TextRead ==
  ASSUME NEW hrp \in Seq(Nat), NEW chars \in Seq(Chars)
  PROVE  LET t == Text(hrp, chars) IN
         Split(t) = Len(hrp) + 1 /\ HrpOf(t) = hrp /\ DataOf(t) = chars
  <1> DEFINE t == Text(hrp, chars)
             h == Len(hrp)
             n == Len(chars)
  <1>1. /\ t \in Seq(Nat) /\ Len(t) = h + 1 + n
        /\ \A i \in 1..h : t[i] = hrp[i]
        /\ t[h + 1] = Separator
        /\ \A i \in 1..n : t[h + 1 + i] = Symbol(chars[i])
    BY InText
  <1>2. h \in Nat /\ n \in Nat /\ DOMAIN chars = 1..n /\ (\A i \in 1..n : chars[i] \in Chars) /\ DOMAIN hrp = 1..h
    OBVIOUS
  <1> HIDE DEF t, h, n
  <1>3. Split(t) = h + 1
    <2>1. h + 1 \in 1..Len(t)
      BY <1>1, <1>2
    <2>2. ASSUME NEW i \in (h + 1 + 1)..Len(t) PROVE t[i] # Separator
      <3>1. i - (h + 1) \in 1..n /\ h + 1 + (i - (h + 1)) = i
        BY <1>1, <1>2
      <3>2. t[i] = Symbol(chars[i - (h + 1)]) /\ chars[i - (h + 1)] \in Chars
        BY <1>1, <1>2, <3>1
      <3> QED BY <3>2, SymbolType
    <2> QED BY <1>1, <2>1, <2>2, SplitAt
  <1>4. HrpOf(t) = hrp
    <2>1. HrpOf(t) = SubSeq(t, 1, h)
      <3>1. (h + 1) - 1 = h
        BY <1>2
      <3> QED BY <1>3, <3>1 DEF HrpOf
    <2> DEFINE u == SubSeq(t, 1, h)
    <2>2. u \in Seq(Nat) /\ Len(u) = h - 1 + 1 /\ \A i \in 1..(h - 1 + 1) : u[i] = t[1 + i - 1]
      <3>1. 1 \in Nat \ {0} /\ h <= Len(t) /\ 1 <= h + 1
        BY <1>1, <1>2
      <3> QED BY <1>1, <1>2, <3>1, PartIs
    <2> HIDE DEF u
    <2>3. u \in Seq(Nat) /\ Len(u) = h /\ \A i \in 1..h : u[i] = t[i]
      <3>1. h - 1 + 1 = h /\ \A i \in 1..h : 1 + i - 1 = i
        BY <1>2
      <3> QED BY <2>2, <3>1
    <2>4. u = hrp
      BY <1>1, <2>3, SeqEqual DEF h
    <2> QED BY <2>1, <2>4 DEF u
  <1>5. DataOf(t) = chars
    <2> DEFINE u == SubSeq(t, h + 1 + 1, h + 1 + n)
    <2>1. DataOf(t) = [i \in DOMAIN u |-> CHARSET_REV[u[i]]]
      BY <1>1, <1>3 DEF DataOf
    <2>2. u \in Seq(Nat) /\ Len(u) = n /\ \A i \in 1..n : u[i] = t[h + 1 + i]
      <3> DEFINE a == h + 1 + 1
                 b == h + 1 + n
      <3>1. a \in Nat \ {0} /\ b \in Nat /\ b <= Len(t) /\ a <= b + 1
        BY <1>1, <1>2
      <3>2. u = SubSeq(t, a, b) /\ t \in Seq(Nat)
        BY <1>1
      <3> HIDE DEF u, a, b
      <3>3. /\ SubSeq(t, a, b) \in Seq(Nat) /\ Len(SubSeq(t, a, b)) = b - a + 1
            /\ \A i \in 1..(b - a + 1) : SubSeq(t, a, b)[i] = t[a + i - 1]
        <4>1. t \in Seq(Nat)
          BY <3>2
        <4> HIDE DEF t
        <4> QED BY <3>1, <4>1, PartIs
      <3>4. u \in Seq(Nat) /\ Len(u) = b - a + 1 /\ \A i \in 1..(b - a + 1) : u[i] = t[a + i - 1]
        BY <3>2, <3>3, Zenon
      <3>5. b - a + 1 = n /\ \A i \in 1..n : a + i - 1 = h + 1 + i
        BY <1>2 DEF a, b
      <3> QED BY <3>4, <3>5
    <2> HIDE DEF u
    <2>3. DOMAIN u = 1..n
      BY <2>2
    <2>4. ASSUME NEW i \in 1..n PROVE CHARSET_REV[u[i]] = chars[i]
      BY <1>1, <1>2, <2>2, SymbolRead
    <2>5. [i \in 1..n |-> CHARSET_REV[u[i]]] = [i \in 1..n |-> chars[i]]
      BY <2>4
    <2>6. chars = [i \in 1..n |-> chars[i]]
      BY <1>2
    <2> QED BY <2>1, <2>3, <2>5, <2>6
  <1> QED
    BY <1>3, <1>4, <1>5 DEF t, h

\* A text with a separator, and Bech32's characters after it, is such a text.
LEMMA ReadText ==
  ASSUME NEW s \in Seq(Nat), Split(s) > 0, \A i \in (Split(s) + 1)..Len(s) : s[i] \in Range(CHARSET)
  PROVE  /\ HrpOf(s) \in Seq(Nat) /\ DataOf(s) \in Seq(Chars)
         /\ Len(HrpOf(s)) = Split(s) - 1 /\ Len(DataOf(s)) = Len(s) - Split(s)
         /\ s = Text(HrpOf(s), DataOf(s))
  <1> DEFINE n == Split(s)
             hrp == SubSeq(s, 1, n - 1)
             u == SubSeq(s, n + 1, Len(s))
             data == [i \in DOMAIN u |-> CHARSET_REV[u[i]]]
  <1>1. n \in 1..Len(s) /\ s[n] = Separator /\ Len(s) \in Nat
    <2>1. n \in 0..Len(s) /\ n # 0
      BY SplitIs
    <2>2. s[n] = Separator
      BY <2>1, SplitIs
    <2> QED BY <2>1, <2>2
  <1>2. HrpOf(s) = hrp /\ DataOf(s) = data
    BY DEF HrpOf, DataOf
  <1>3. \A i \in (n + 1)..Len(s) : s[i] \in Range(CHARSET)
    OBVIOUS
  <1> HIDE DEF n
  <1>4. hrp \in Seq(Nat) /\ Len(hrp) = n - 1 /\ \A i \in 1..(n - 1) : hrp[i] = s[i]
    <2>1. 1 \in Nat \ {0} /\ n - 1 \in Nat /\ n - 1 <= Len(s) /\ 1 <= (n - 1) + 1
      BY <1>1
    <2>2. hrp \in Seq(Nat) /\ Len(hrp) = (n - 1) - 1 + 1 /\ \A i \in 1..((n - 1) - 1 + 1) : hrp[i] = s[1 + i - 1]
      BY <2>1, PartIs
    <2> HIDE DEF hrp
    <2>3. (n - 1) - 1 + 1 = n - 1 /\ \A i \in 1..(n - 1) : 1 + i - 1 = i
      BY <1>1
    <2> QED BY <2>2, <2>3
  <1> DEFINE m == Len(s) - n
  <1>5. m \in Nat /\ u \in Seq(Nat) /\ Len(u) = m /\ \A i \in 1..m : u[i] = s[n + i]
    <2>1. n + 1 \in Nat \ {0} /\ Len(s) \in Nat /\ Len(s) <= Len(s) /\ n + 1 <= Len(s) + 1 /\ m \in Nat
      BY <1>1
    <2>2. u \in Seq(Nat) /\ Len(u) = Len(s) - (n + 1) + 1 /\ \A i \in 1..(Len(s) - (n + 1) + 1) : u[i] = s[(n + 1) + i - 1]
      BY <2>1, PartIs
    <2> HIDE DEF u
    <2>3. Len(s) - (n + 1) + 1 = m /\ \A i \in 1..m : (n + 1) + i - 1 = n + i
      BY <1>1
    <2> QED BY <2>1, <2>2, <2>3
  <1> HIDE DEF hrp, u
  <1>6. \A i \in 1..m : s[n + i] \in Range(CHARSET)
    BY <1>1, <1>3
  <1>7. DOMAIN u = 1..m
    BY <1>5
  <1>8. \A i \in 1..m : CHARSET_REV[u[i]] \in Chars /\ Symbol(CHARSET_REV[u[i]]) = s[n + i]
    BY <1>5, <1>6, SymbolWritten
  <1> HIDE DEF m
  <1>9. data \in Seq(Chars) /\ Len(data) = m /\ \A i \in 1..m : Symbol(data[i]) = s[n + i]
    <2>1. data \in [1..m -> Chars] /\ \A i \in 1..m : Symbol(data[i]) = s[n + i]
      BY <1>7, <1>8
    <2> HIDE DEF data
    <2>2. data \in Seq(Chars)
      BY <1>5, <2>1, SeqDef
    <2> QED BY <1>5, <2>1, <2>2
  <1> HIDE DEF data
  <1> DEFINE t == Text(hrp, data)
  <1>10. /\ t \in Seq(Nat) /\ Len(t) = (n - 1) + 1 + m
         /\ \A i \in 1..(n - 1) : t[i] = hrp[i]
         /\ t[(n - 1) + 1] = Separator
         /\ \A i \in 1..m : t[(n - 1) + 1 + i] = Symbol(data[i])
    <2>1. Len(hrp) = n - 1 /\ Len(data) = m
      BY <1>4, <1>9
    <2>2. /\ t \in Seq(Nat) /\ Len(t) = Len(hrp) + 1 + Len(data)
          /\ \A i \in 1..Len(hrp) : t[i] = hrp[i]
          /\ t[Len(hrp) + 1] = Separator
          /\ \A i \in 1..Len(data) : t[Len(hrp) + 1 + i] = Symbol(data[i])
      BY <1>4, <1>9, InText
    <2> HIDE DEF t
    <2> QED BY <2>1, <2>2, Zenon
  <1> HIDE DEF t
  <1>11. Len(t) = Len(s)
    BY <1>1, <1>10 DEF m
  <1>12. ASSUME NEW i \in 1..Len(s) PROVE t[i] = s[i]
    <2>1. CASE i \in 1..(n - 1)
      BY <1>4, <1>10, <2>1
    <2>2. CASE i = n
      <3>1. (n - 1) + 1 = n
        BY <1>1
      <3> QED BY <1>1, <1>10, <2>2, <3>1
    <2>3. CASE i \in (n + 1)..Len(s)
      <3>1. i - n \in 1..m /\ (n - 1) + 1 + (i - n) = i /\ n + (i - n) = i
        BY <1>1, <2>3 DEF m
      <3> QED BY <1>9, <1>10, <3>1
    <2> QED BY <1>1, <2>1, <2>2, <2>3
  <1>13. t = s
    BY <1>10, <1>11, <1>12, SeqEqual
  <1> QED
    BY <1>2, <1>4, <1>9, <1>13 DEF t, m, n

-----------------------------------------------------------------------------
(* Capitals. *)

\* No capital occurs in the text.
Plain(s) == \A i \in DOMAIN s : ~ IsUpper(s[i])

\* A character made small is no capital.
LEMMA LowerIsPlain ==
  ASSUME NEW c \in Nat
  PROVE  ~ IsUpper(IF IsUpper(c) THEN c + 32 ELSE c)
  BY DEF IsUpper

\* toLowerCase, place by place: it changes capitals alone, and leaves none.
LEMMA LowerCaseIs ==
  ASSUME NEW s \in Seq(Nat)
  PROVE  /\ LowerCase(s) \in Seq(Nat) /\ Len(LowerCase(s)) = Len(s)
         /\ \A i \in 1..Len(s) : LowerCase(s)[i] = IF IsUpper(s[i]) THEN s[i] + 32 ELSE s[i]
         /\ Plain(s) => LowerCase(s) = s
         /\ Plain(LowerCase(s))
  <1> DEFINE n == Len(s)
             t == LowerCase(s)
  <1>1. n \in Nat /\ DOMAIN s = 1..n /\ s = [i \in 1..n |-> s[i]] /\ \A i \in 1..n : s[i] \in Nat
    OBVIOUS
  <1>2. t = [i \in 1..n |-> IF IsUpper(s[i]) THEN s[i] + 32 ELSE s[i]]
    BY <1>1 DEF LowerCase
  <1> HIDE DEF t
  <1>3. t \in [1..n -> Nat]
    BY <1>1, <1>2
  <1>4. t \in Seq(Nat) /\ Len(t) = n /\ DOMAIN t = 1..n
    <2>1. t \in Seq(Nat)
      BY <1>1, <1>3, SeqDef
    <2> QED BY <1>1, <1>3, <2>1
  <1>5. \A i \in 1..n : t[i] = IF IsUpper(s[i]) THEN s[i] + 32 ELSE s[i]
    BY <1>2
  <1>6. ASSUME Plain(s) PROVE t = s
    <2>1. \A i \in 1..n : t[i] = s[i]
      BY <1>1, <1>5, <1>6 DEF Plain
    <2> QED BY <1>4, <2>1, SeqEqual
  <1>7. Plain(t)
    <2>1. ASSUME NEW i \in 1..n PROVE ~ IsUpper(t[i])
      <3>1. s[i] \in Nat
        BY <1>1
      <3>2. ~ IsUpper(IF IsUpper(s[i]) THEN s[i] + 32 ELSE s[i])
        BY <3>1, LowerIsPlain
      <3> QED BY <1>5, <3>2, Zenon
    <2> QED BY <1>4, <2>1 DEF Plain
  <1> QED
    BY <1>4, <1>5, <1>6, <1>7 DEF t

-----------------------------------------------------------------------------
(* The methods. *)

\* The authentication methods of HRP_TO_AUTH.
Methods == {"none", "cookie", "aes"}

\* Those that have a prefix.
LEMMA HrpDomain == DOMAIN Hrp = Methods
  BY DEF Hrp, Methods

\* Their prefixes.
LEMMA HrpIs ==
  /\ Hrp["none"] = <<114, 108, 45, 110, 111, 110, 101>>
  /\ Hrp["cookie"] = <<114, 108, 45, 99, 111, 111, 107, 105, 101>>
  /\ Hrp["aes"] = <<114, 108, 45, 97, 101, 115>>
  BY DEF Hrp

\* A printable character and what toLowerCase makes of it fit seven bits.
LEMMA PrintableIs ==
  \A c \in Printable : c \in Nat /\ c \in 0..127 /\ (IF IsUpper(c) THEN c + 32 ELSE c) \in 0..127
  BY DEF Printable, IsUpper

\* Small letters and the dash are printable and no capitals.
LEMMA SmallIs ==
  \A c \in 97..122 \union {45} : c \in Printable /\ c \in 0..127 /\ c \in Nat /\ ~ IsUpper(c)
  BY DEF Printable, IsUpper

\* So are texts of them.
LEMMA SmallPrefix ==
  ASSUME NEW s \in Seq(97..122 \union {45})
  PROVE  s \in Seq(Printable) /\ s \in Seq(0..127) /\ s \in Seq(Nat) /\ Plain(s)
  <1>1. \A i \in 1..Len(s) : s[i] \in 97..122 \union {45}
    BY ElementOfSeq
  <1>2. \A i \in 1..Len(s) : s[i] \in Printable /\ s[i] \in 0..127 /\ s[i] \in Nat /\ ~ IsUpper(s[i])
    BY <1>1, SmallIs
  <1>3. DOMAIN s = 1..Len(s)
    OBVIOUS
  <1>4. Plain(s)
    BY <1>2, <1>3 DEF Plain
  <1>5. s \in Seq(Printable)
    BY <1>2, SeqFrom
  <1>6. s \in Seq(0..127)
    BY <1>2, SeqFrom
  <1>7. s \in Seq(Nat)
    BY <1>2, SeqFrom
  <1> QED
    BY <1>4, <1>5, <1>6, <1>7

\* The length of a method's prefix.
PrefixLength(m) == IF m = "none" THEN 7 ELSE IF m = "cookie" THEN 9 ELSE 6

\* A prefix is printable, without capitals, and as long as it is.
LEMMA HrpType ==
  ASSUME NEW m \in Methods
  PROVE  /\ Hrp[m] \in Seq(Printable) /\ Hrp[m] \in Seq(0..127) /\ Hrp[m] \in Seq(Nat)
         /\ Plain(Hrp[m]) /\ Len(Hrp[m]) = PrefixLength(m)
  <1> DEFINE P == 97..122 \union {45}
  <1>1. Hrp["none"] \in Seq(P) /\ Len(Hrp["none"]) = 7
    BY HrpIs
  <1>2. Hrp["cookie"] \in Seq(P) /\ Len(Hrp["cookie"]) = 9
    BY HrpIs
  <1>3. Hrp["aes"] \in Seq(P) /\ Len(Hrp["aes"]) = 6
    BY HrpIs
  <1>4. Hrp[m] \in Seq(P) /\ Len(Hrp[m]) = PrefixLength(m)
    BY <1>1, <1>2, <1>3 DEF Methods, PrefixLength
  <1> QED
    BY <1>4, SmallPrefix

\* decodeApiKey reads from a prefix the method that it stands for.
LEMMA MethodIs ==
  ASSUME NEW m \in Methods
  PROVE  MethodOf(Hrp[m]) = m
  <1>1. \A n \in Methods : Hrp[n] = Hrp[m] => n = m
    <2>1. ASSUME NEW n \in Methods, Hrp[n] = Hrp[m] PROVE n = m
      <3>1. PrefixLength(n) = PrefixLength(m)
        BY <2>1, HrpType
      <3> QED BY <3>1 DEF Methods, PrefixLength
    <2> QED BY <2>1
  <1>2. MethodOf(Hrp[m]) \in Methods /\ Hrp[MethodOf(Hrp[m])] = Hrp[m]
    BY HrpDomain DEF MethodOf
  <1> QED
    BY <1>1, <1>2

\* A known prefix is that of its method.
LEMMA MethodOfPrefix ==
  ASSUME NEW p \in Range(Hrp)
  PROVE  MethodOf(p) \in Methods /\ Hrp[MethodOf(p)] = p
  <1>1. PICK m \in Methods : p = Hrp[m]
    BY HrpDomain DEF Range
  <1> QED
    BY <1>1, MethodIs

-----------------------------------------------------------------------------
(* Writing and reading. *)

\* The last six characters are the checksum.
LEMMA WithoutSix ==
  ASSUME NEW data \in Seq(Chars), NEW x \in [1..6 -> Chars]
  PROVE  data \o x \in Seq(Chars) /\ Len(data \o x) = Len(data) + 6 /\ WithoutChecksum(data \o x) = data
  <1> DEFINE n == Len(data)
             d == data \o x
             w == SubSeq(d, 1, Len(d) - 6)
  <1>1. x \in Seq(Chars) /\ Len(x) = 6
    BY SixAreSeq
  <1>2. n \in Nat
    OBVIOUS
  <1>3. /\ data \o x \in Seq(Chars) /\ Len(data \o x) = Len(data) + Len(x)
        /\ \A i \in 1..(Len(data) + Len(x)) : (data \o x)[i] = IF i <= Len(data) THEN data[i] ELSE x[i - Len(data)]
    BY <1>1, ConcatProperties, Zenon
  <1>4. d \in Seq(Chars) /\ Len(d) = n + 6 /\ \A i \in 1..n : d[i] = data[i]
    BY <1>1, <1>2, <1>3
  <1> HIDE DEF d
  <1>5. Len(d) - 6 = n
    BY <1>2, <1>4
  <1>6. /\ SubSeq(d, 1, n) \in Seq(Chars) /\ Len(SubSeq(d, 1, n)) = n - 1 + 1
        /\ \A i \in 1..(n - 1 + 1) : SubSeq(d, 1, n)[i] = d[1 + i - 1]
    <2>1. 1 \in Nat \ {0} /\ n <= Len(d) /\ 1 <= n + 1
      BY <1>2, <1>4
    <2> QED BY <1>2, <1>4, <2>1, PartIs
  <1>7. w = SubSeq(d, 1, n)
    BY <1>5
  <1> HIDE DEF w
  <1>8. w \in Seq(Chars) /\ Len(w) = n /\ \A i \in 1..n : w[i] = data[i]
    <2>1. n - 1 + 1 = n /\ \A i \in 1..n : 1 + i - 1 = i
      BY <1>2
    <2> QED BY <1>4, <1>6, <1>7, <2>1
  <1> HIDE DEF n
  <1>9. w = data
    BY <1>8, SeqEqual DEF n
  <1> QED
    BY <1>4, <1>9 DEF WithoutChecksum, d, n, w

\* Characters whose last six may be a checksum.
LEMMA LastSix ==
  ASSUME NEW d \in Seq(Chars), Len(d) >= 6
  PROVE  /\ WithoutChecksum(d) \in Seq(Chars) /\ Len(WithoutChecksum(d)) = Len(d) - 6
         /\ \E x \in [1..6 -> Chars] : d = WithoutChecksum(d) \o x
  <1> DEFINE n == Len(d) - 6
             w == SubSeq(d, 1, n)
             x == [i \in 1..6 |-> d[n + i]]
             c == w \o x
  <1>1. Len(d) \in Nat /\ n \in Nat /\ Len(d) = n + 6
    OBVIOUS
  <1> HIDE DEF n
  <1>2. /\ SubSeq(d, 1, n) \in Seq(Chars) /\ Len(SubSeq(d, 1, n)) = n - 1 + 1
        /\ \A i \in 1..(n - 1 + 1) : SubSeq(d, 1, n)[i] = d[1 + i - 1]
    <2>1. 1 \in Nat \ {0} /\ n <= Len(d) /\ 1 <= n + 1
      BY <1>1
    <2> QED BY <1>1, <2>1, PartIs
  <1>3. w \in Seq(Chars) /\ Len(w) = n /\ \A i \in 1..n : w[i] = d[i]
    <2>1. n - 1 + 1 = n /\ \A i \in 1..n : 1 + i - 1 = i
      BY <1>1
    <2> QED BY <1>2, <2>1
  <1> HIDE DEF w
  <1>4. x \in [1..6 -> Chars] /\ \A i \in 1..6 : x[i] = d[n + i]
    <2>1. \A i \in 1..6 : n + i \in 1..Len(d)
      BY <1>1
    <2>2. \A i \in 1..6 : d[n + i] \in Chars
      BY <2>1, ElementOfSeq
    <2> QED BY <2>2
  <1> HIDE DEF x
  <1>5. x \in Seq(Chars) /\ Len(x) = 6
    BY <1>4, SixAreSeq
  <1>6. /\ w \o x \in Seq(Chars) /\ Len(w \o x) = Len(w) + Len(x)
        /\ \A i \in 1..(Len(w) + Len(x)) : (w \o x)[i] = IF i <= Len(w) THEN w[i] ELSE x[i - Len(w)]
    <2>1. w \in Seq(Chars) /\ x \in Seq(Chars)
      BY <1>3, <1>5
    <2> QED BY <2>1, ConcatProperties, Zenon
  <1>7. c \in Seq(Chars) /\ Len(c) = Len(d) /\ \A i \in 1..Len(d) : c[i] = IF i <= n THEN w[i] ELSE x[i - n]
    BY <1>1, <1>3, <1>5, <1>6
  <1> HIDE DEF c
  <1>8. \A i \in 1..Len(d) : c[i] = d[i]
    <2>1. ASSUME NEW i \in 1..Len(d) PROVE c[i] = d[i]
      <3>1. CASE i <= n
        <4>1. i \in 1..n
          BY <1>1, <3>1
        <4> QED BY <1>3, <1>7, <3>1, <4>1
      <3>2. CASE ~(i <= n)
        <4>1. i - n \in 1..6 /\ n + (i - n) = i
          BY <1>1, <3>2
        <4> QED BY <1>4, <1>7, <3>2, <4>1
      <3> QED BY <3>1, <3>2
    <2> QED BY <2>1
  <1>9. c = d
    BY <1>7, <1>8, SeqEqual
  <1> QED
    BY <1>3, <1>4, <1>9 DEF WithoutChecksum, n, w, c

\* A written text is readable and gives its characters back.
LEMMA WrittenIsReadable ==
  ASSUME NEW hrp \in Seq(Printable), Plain(hrp), hrp # <<>>,
         NEW data \in Seq(Chars), CleanPadding(data)
  PROVE  LET t == Write(hrp, data) IN
         /\ t \in Seq(Printable) /\ t \in Seq(Nat)
         /\ Plain(t) /\ LowerCase(t) = t
         /\ Readable(t)
         /\ HrpOf(t) = hrp /\ WithoutChecksum(DataOf(t)) = data
         /\ Len(t) = Len(hrp) + Len(data) + 7
  <1> DEFINE x == CreateChecksum(hrp, data)
             d == data \o x
             t == Text(hrp, d)
             h == Len(hrp)
             n == Len(d)
  <1>1. hrp \in Seq(0..127) /\ hrp \in Seq(Nat) /\ \A i \in 1..h : hrp[i] \in Printable /\ hrp[i] \in Nat
    <2>1. \A i \in 1..h : hrp[i] \in Printable
      BY ElementOfSeq
    <2>2. \A i \in 1..h : hrp[i] \in Nat /\ hrp[i] \in 0..127
      BY <2>1, PrintableIs
    <2>3. hrp \in Seq(0..127)
      BY <2>2, SeqFrom
    <2>4. hrp \in Seq(Nat)
      BY <2>2, SeqFrom
    <2> QED BY <2>1, <2>2, <2>3, <2>4
  <1>2. HrpExpand(hrp) \in Seq(Chars)
    BY <1>1, ExpandType
  <1>3. x \in [1..6 -> Chars] /\ VerifyChecksum(hrp, d)
    BY <1>2, ChecksumIsTheOne
  <1>4. h \in Nat \ {0} /\ DOMAIN hrp = 1..h
    <2>1. h \in Nat /\ DOMAIN hrp = 1..h
      OBVIOUS
    <2>2. h # 0
      OBVIOUS
    <2> QED BY <2>1, <2>2
  <1> HIDE DEF x
  <1>5. d \in Seq(Chars) /\ Len(d) = Len(data) + 6 /\ WithoutChecksum(d) = data
    BY <1>3, WithoutSix
  <1>6. Len(data) \in Nat /\ n \in Nat /\ n >= 6
    BY <1>5
  <1>7. Write(hrp, data) = t
    BY WriteIsText DEF x
  <1> HIDE DEF d
  <1>8. /\ t \in Seq(Nat) /\ Len(t) = h + 1 + n
        /\ \A i \in 1..h : t[i] = hrp[i]
        /\ t[h + 1] = Separator
        /\ \A i \in 1..n : t[h + 1 + i] = Symbol(d[i])
    BY <1>1, <1>5, InText
  <1>9. Split(t) = h + 1 /\ HrpOf(t) = hrp /\ DataOf(t) = d
    BY <1>1, <1>5, TextRead
  <1> HIDE DEF t, h, n
  <1>10. \A i \in 1..n : d[i] \in Chars
    BY <1>5, ElementOfSeq DEF n
  <1>11. ASSUME NEW i \in 1..Len(t)
         PROVE  /\ t[i] \in Printable /\ ~ IsUpper(t[i])
                /\ i > h + 1 => t[i] \in Range(CHARSET)
    <2>1. CASE i \in 1..h
      <3>1. ~ IsUpper(hrp[i])
        BY <1>4, <2>1 DEF Plain
      <3> QED BY <1>1, <1>4, <1>8, <2>1, <3>1
    <2>2. CASE i = h + 1
      <3>1. Separator \in Printable /\ ~ IsUpper(Separator)
        BY DEF Separator, Printable, IsUpper
      <3> QED BY <1>4, <1>8, <2>2, <3>1
    <2>3. CASE i \in (h + 2)..Len(t)
      <3>1. i - (h + 1) \in 1..n /\ h + 1 + (i - (h + 1)) = i
        BY <1>4, <1>6, <1>8, <2>3
      <3>2. t[i] = Symbol(d[i - (h + 1)]) /\ d[i - (h + 1)] \in Chars
        BY <1>8, <1>10, <3>1
      <3> QED BY <3>2, SymbolType
    <2> QED BY <1>4, <1>6, <1>8, <2>1, <2>2, <2>3
  <1>12. Len(t) \in Nat /\ DOMAIN t = 1..Len(t) /\ Len(t) # 0
    BY <1>4, <1>6, <1>8
  <1>13. t \in Seq(Printable) /\ Plain(t)
    <2>1. t \in Seq(Printable)
      BY <1>8, <1>11, SeqFrom
    <2> QED BY <1>11, <1>12, <2>1 DEF Plain
  <1>14. LowerCase(t) = t
    BY <1>8, <1>13, LowerCaseIs
  <1>15. Readable(t)
    <2>1. t # <<>>
      BY <1>12
    <2>2. \A i \in DOMAIN t : t[i] \in Printable
      BY <1>11, <1>12
    <2>3. ~ \E i, j \in DOMAIN t : IsUpper(t[i]) /\ IsLower(t[j])
      BY <1>11, <1>12
    <2>4. Split(t) > 1 /\ Len(t) - Split(t) >= 6
      BY <1>4, <1>6, <1>8, <1>9
    <2>5. \A i \in (Split(t) + 1)..Len(t) : t[i] \in Range(CHARSET)
      <3>1. ASSUME NEW i \in (h + 1 + 1)..Len(t) PROVE t[i] \in Range(CHARSET)
        <4>1. i \in 1..Len(t) /\ i > h + 1
          BY <1>4, <1>12, <3>1
        <4> QED BY <1>11, <4>1
      <3> QED BY <1>9, <3>1
    <2>6. VerifyChecksum(HrpOf(t), DataOf(t))
      BY <1>3, <1>9
    <2>7. CleanPadding(WithoutChecksum(DataOf(t)))
      BY <1>5, <1>9
    <2> QED BY <1>14, <2>1, <2>2, <2>3, <2>4, <2>5, <2>6, <2>7 DEF Readable
  <1>16. Len(t) = Len(hrp) + Len(data) + 7
    BY <1>4, <1>5, <1>6, <1>8 DEF n, h
  <1> QED
    BY <1>5, <1>7, <1>8, <1>9, <1>13, <1>14, <1>15, <1>16

\* A readable text is, but for capitals, what its prefix and characters are written as.
LEMMA ReadableIsWritten ==
  ASSUME NEW t \in Seq(Nat), Readable(t)
  PROVE  LET s == LowerCase(t)
             data == WithoutChecksum(DataOf(s))
         IN  /\ s \in Seq(Nat) /\ Len(s) = Len(t)
             /\ HrpOf(s) \in Seq(0..127) /\ DataOf(s) \in Seq(Chars)
             /\ data \in Seq(Chars) /\ CleanPadding(data)
             /\ VerifyChecksum(HrpOf(s), DataOf(s))
             /\ s = Text(HrpOf(s), DataOf(s))
             /\ s = Write(HrpOf(s), data)
  <1> DEFINE s == LowerCase(t)
             hrp == HrpOf(s)
             d == DataOf(s)
             data == WithoutChecksum(d)
  <1>1. /\ \A i \in DOMAIN t : t[i] \in Printable
        /\ Split(s) > 1
        /\ Len(s) - Split(s) >= 6
        /\ \A i \in (Split(s) + 1)..Len(s) : s[i] \in Range(CHARSET)
        /\ VerifyChecksum(hrp, d)
        /\ CleanPadding(data)
    BY DEF Readable
  <1>2. /\ s \in Seq(Nat) /\ Len(s) = Len(t)
        /\ \A i \in 1..Len(t) : s[i] = IF IsUpper(t[i]) THEN t[i] + 32 ELSE t[i]
    BY LowerCaseIs
  <1> HIDE DEF s
  <1>3. Split(s) \in Nat /\ Len(s) \in Nat /\ Split(s) <= Len(s) /\ Split(s) > 0
    BY <1>1, <1>2, SplitIs
  <1>4. hrp \in Seq(Nat) /\ d \in Seq(Chars) /\ Len(hrp) = Split(s) - 1 /\ Len(d) = Len(s) - Split(s)
        /\ s = Text(hrp, d)
    BY <1>1, <1>2, <1>3, ReadText
  <1> HIDE DEF hrp, d
  <1>5. hrp \in Seq(0..127)
    <2>1. /\ Len(Text(hrp, d)) = Len(hrp) + 1 + Len(d)
          /\ \A i \in 1..Len(hrp) : Text(hrp, d)[i] = hrp[i]
      BY <1>4, InText
    <2>2. ASSUME NEW i \in 1..Len(hrp) PROVE hrp[i] \in 0..127
      <3>1. i \in 1..Len(t) /\ DOMAIN t = 1..Len(t)
        BY <1>2, <1>3, <1>4
      <3>2. t[i] \in Printable /\ hrp[i] = IF IsUpper(t[i]) THEN t[i] + 32 ELSE t[i]
        BY <1>1, <1>2, <1>4, <2>1, <3>1
      <3> QED BY <3>2, PrintableIs
    <2> QED BY <1>4, <2>2, SeqFrom
  <1>6. Len(d) >= 6
    BY <1>1, <1>4
  <1>7. data \in Seq(Chars) /\ \E x \in [1..6 -> Chars] : d = data \o x
    BY <1>4, <1>6, LastSix
  <1> HIDE DEF data
  <1>8. PICK x \in [1..6 -> Chars] : d = data \o x
    BY <1>7
  <1>9. x = CreateChecksum(hrp, data)
    <2>1. HrpExpand(hrp) \in Seq(Chars)
      BY <1>5, ExpandType
    <2>2. VerifyChecksum(hrp, data \o x)
      BY <1>1, <1>8
    <2> QED BY <1>7, <2>1, <2>2, ChecksumIsTheOne
  <1>10. Write(hrp, data) = Text(hrp, d)
    BY <1>8, <1>9, WriteIsText
  <1> QED
    BY <1>1, <1>2, <1>4, <1>5, <1>7, <1>10 DEF data, hrp, d, s

-----------------------------------------------------------------------------
(* Parts of sequences. *)

\* A sequence is one part followed by another.
Joins(c, u, v, S) ==
  /\ c \in Seq(S) /\ Len(c) = Len(u) + Len(v)
  /\ \A i \in 1..Len(u) : c[i] = u[i]
  /\ \A i \in 1..Len(v) : c[Len(u) + i] = v[i]

\* Concatenating, as the payload of encodeApiKey is put together, place by place.
LEMMA Joined ==
  ASSUME NEW S, NEW u \in Seq(S), NEW v \in Seq(S)
  PROVE  Joins(u \o v, u, v, S)
  <1>1. /\ u \o v \in Seq(S) /\ Len(u \o v) = Len(u) + Len(v)
        /\ \A i \in 1..(Len(u) + Len(v)) : (u \o v)[i] = IF i <= Len(u) THEN u[i] ELSE v[i - Len(u)]
    BY ConcatProperties, Zenon
  <1> DEFINE c == u \o v
             m == Len(u)
             n == Len(v)
  <1>2. m \in Nat /\ n \in Nat
    OBVIOUS
  <1>3. c \in Seq(S) /\ Len(c) = m + n /\ \A i \in 1..(m + n) : c[i] = IF i <= m THEN u[i] ELSE v[i - m]
    BY <1>1
  <1> HIDE DEF c, m, n
  <1>4. \A i \in 1..m : c[i] = u[i]
    <2>1. \A i \in 1..m : i \in 1..(m + n) /\ i <= m
      BY <1>2
    <2> QED BY <1>3, <2>1
  <1>5. \A i \in 1..n : c[m + i] = v[i]
    <2>1. \A i \in 1..n : m + i \in 1..(m + n) /\ ~(m + i <= m) /\ (m + i) - m = i
      BY <1>2
    <2> QED BY <1>3, <2>1
  <1> QED
    BY <1>3, <1>4, <1>5 DEF c, m, n, Joins

\* The last part of a concatenation.
LEMMA LastPart ==
  ASSUME NEW S, NEW u \in Seq(S), NEW v \in Seq(S)
  PROVE  SubSeq(u \o v, Len(u) + 1, Len(u) + Len(v)) = v
  <1> DEFINE c == u \o v
             m == Len(u)
             n == Len(v)
             a == m + 1
             b == m + n
             w == SubSeq(c, a, b)
  <1>1. m \in Nat /\ n \in Nat /\ a = m + 1 /\ b = m + n
    OBVIOUS
  <1>2. c \in Seq(S) /\ Len(c) = m + n /\ \A i \in 1..n : c[m + i] = v[i]
    BY Joined DEF Joins
  <1> HIDE DEF c, m, n, a, b
  <1>3. w \in Seq(S) /\ Len(w) = b - a + 1 /\ \A i \in 1..(b - a + 1) : w[i] = c[a + i - 1]
    <2>1. a \in Nat \ {0} /\ b \in Nat /\ b <= Len(c) /\ a <= b + 1
      BY <1>1, <1>2
    <2> QED BY <1>2, <2>1, PartIs
  <1> HIDE DEF w
  <1>4. b - a + 1 = n /\ \A i \in 1..n : a + i - 1 = m + i
    BY <1>1
  <1>5. Len(w) = n /\ \A i \in 1..n : w[i] = v[i]
    BY <1>2, <1>3, <1>4
  <1>6. w = v
    BY <1>3, <1>5, SeqEqual DEF n
  <1> QED
    BY <1>6 DEF w, c, a, b, m, n

\* A part of the first part of a concatenation.
LEMMA EarlyPart ==
  ASSUME NEW S, NEW u \in Seq(S), NEW v \in Seq(S), NEW a \in Nat \ {0}, NEW b \in Nat, b <= Len(u), a <= b + 1
  PROVE  SubSeq(u \o v, a, b) = SubSeq(u, a, b)
  <1> DEFINE c == u \o v
             w == SubSeq(c, a, b)
             x == SubSeq(u, a, b)
             k == b - a + 1
  <1>1. c \in Seq(S) /\ Len(c) = Len(u) + Len(v) /\ \A i \in 1..Len(u) : c[i] = u[i]
    BY Joined DEF Joins
  <1>2. Len(u) \in Nat /\ Len(v) \in Nat
    OBVIOUS
  <1> HIDE DEF c
  <1>3. b <= Len(c)
    BY <1>1, <1>2
  <1>4. w \in Seq(S) /\ Len(w) = k /\ \A i \in 1..k : w[i] = c[a + i - 1]
    BY <1>1, <1>3, PartIs
  <1>5. x \in Seq(S) /\ Len(x) = k /\ \A i \in 1..k : x[i] = u[a + i - 1]
    BY PartIs
  <1> HIDE DEF w, x
  <1>6. \A i \in 1..k : a + i - 1 \in 1..Len(u)
    BY <1>2
  <1> HIDE DEF k
  <1>7. \A i \in 1..k : w[i] = x[i]
    BY <1>1, <1>4, <1>5, <1>6
  <1>8. w = x
    BY <1>4, <1>5, <1>7, SeqEqual
  <1> QED
    BY <1>8 DEF w, x, c

\* Two neighbouring parts make one.
LEMMA PartsJoined ==
  ASSUME NEW S, NEW s \in Seq(S), NEW a \in Nat, NEW b \in Nat, a <= b, b <= Len(s)
  PROVE  SubSeq(s, 1, a) \o SubSeq(s, a + 1, b) = SubSeq(s, 1, b)
  <1> DEFINE u == SubSeq(s, 1, a)
             v == SubSeq(s, a + 1, b)
             w == SubSeq(s, 1, b)
             c == u \o v
  <1>1. Len(s) \in Nat /\ 1 \in Nat \ {0}
    OBVIOUS
  <1>2. u \in Seq(S) /\ Len(u) = a - 1 + 1 /\ \A i \in 1..(a - 1 + 1) : u[i] = s[1 + i - 1]
    <2>1. a <= Len(s) /\ 1 <= a + 1
      BY <1>1
    <2> QED BY <1>1, <2>1, PartIs
  <1>3. v \in Seq(S) /\ Len(v) = b - (a + 1) + 1 /\ \A i \in 1..(b - (a + 1) + 1) : v[i] = s[(a + 1) + i - 1]
    <2>1. a + 1 \in Nat \ {0} /\ a + 1 <= b + 1
      BY <1>1
    <2> QED BY <2>1, PartIs
  <1>4. w \in Seq(S) /\ Len(w) = b - 1 + 1 /\ \A i \in 1..(b - 1 + 1) : w[i] = s[1 + i - 1]
    <2>1. 1 <= b + 1
      OBVIOUS
    <2> QED BY <1>1, <2>1, PartIs
  <1> HIDE DEF u, v, w
  <1>5. u \in Seq(S) /\ Len(u) = a /\ \A i \in 1..a : u[i] = s[i]
    <2>1. a - 1 + 1 = a /\ \A i \in 1..a : 1 + i - 1 = i
      OBVIOUS
    <2> QED BY <1>2, <2>1
  <1>6. v \in Seq(S) /\ Len(v) = b - a /\ \A i \in 1..(b - a) : v[i] = s[a + i]
    <2>1. b - (a + 1) + 1 = b - a /\ \A i \in 1..(b - a) : (a + 1) + i - 1 = a + i
      OBVIOUS
    <2> QED BY <1>3, <2>1
  <1>7. w \in Seq(S) /\ Len(w) = b /\ \A i \in 1..b : w[i] = s[i]
    <2>1. b - 1 + 1 = b /\ \A i \in 1..b : 1 + i - 1 = i
      OBVIOUS
    <2> QED BY <1>4, <2>1
  <1>8. /\ c \in Seq(S) /\ Len(c) = Len(u) + Len(v)
        /\ \A i \in 1..Len(u) : c[i] = u[i]
        /\ \A i \in 1..Len(v) : c[Len(u) + i] = v[i]
    <2>1. u \in Seq(S) /\ v \in Seq(S)
      BY <1>5, <1>6
    <2>2. Joins(u \o v, u, v, S)
      BY <2>1, Joined, Zenon
    <2> QED BY <2>2 DEF Joins
  <1> HIDE DEF c
  <1>9. Len(c) = b
    BY <1>5, <1>6, <1>8
  <1>10. ASSUME NEW i \in 1..b PROVE c[i] = w[i]
    <2>1. CASE i \in 1..a
      BY <1>5, <1>7, <1>8, <2>1
    <2>2. CASE i \in (a + 1)..b
      <3>1. i - a \in 1..(b - a) /\ a + (i - a) = i
        BY <2>2
      <3>2. c[a + (i - a)] = v[i - a] /\ v[i - a] = s[a + (i - a)]
        BY <1>5, <1>6, <1>8, <3>1
      <3> QED BY <1>7, <3>1, <3>2
    <2> QED BY <2>1, <2>2
  <1>11. c = w
    BY <1>7, <1>8, <1>9, <1>10, SeqEqual
  <1> QED
    BY <1>11 DEF c, u, v, w

\* All of a sequence.
LEMMA WholePart ==
  ASSUME NEW S, NEW s \in Seq(S)
  PROVE  SubSeq(s, 1, Len(s)) = s
  <1> DEFINE n == Len(s)
             w == SubSeq(s, 1, n)
  <1>1. n \in Nat
    OBVIOUS
  <1>2. w \in Seq(S) /\ Len(w) = n - 1 + 1 /\ \A i \in 1..(n - 1 + 1) : w[i] = s[1 + i - 1]
    <2>1. 1 \in Nat \ {0} /\ n <= Len(s) /\ 1 <= n + 1
      BY <1>1
    <2> QED BY <1>1, <2>1, PartIs
  <1> HIDE DEF w
  <1>3. Len(w) = n /\ \A i \in 1..n : w[i] = s[i]
    <2>1. n - 1 + 1 = n /\ \A i \in 1..n : 1 + i - 1 = i
      BY <1>1
    <2> QED BY <1>2, <2>1
  <1>4. w = s
    BY <1>2, <1>3, SeqEqual
  <1> QED
    BY <1>4 DEF w

-----------------------------------------------------------------------------
(* The payload. *)

\* The bytes that encodeApiKey puts together for a key.
PayloadOf(k) ==
  <<Bits(FORMAT_VERSION)>> \o k.id \o NormalizeSecret(k.secret) \o EncodeQuotas(k.quotas)

\* encodeApiKey accepts the key.
Encodes(k) ==
  /\ k.method \in DOMAIN Hrp
  /\ WithinLimits(k.quotas)
  /\ Len(k.secret) = SecretLength(k.method)

\* A secret has no bytes or 32.
LEMMA SecretLengthIs ==
  ASSUME NEW m
  PROVE  SecretLength(m) \in {0, 32} /\ SecretLength(m) \in Nat
  BY DEF SecretLength

\* normalizeSecret makes bytes of as many numbers.
LEMMA NormalizeIs ==
  ASSUME NEW secret \in Seq(SUBSET Nat)
  PROVE  NormalizeSecret(secret) \in Seq(Bytes) /\ Len(NormalizeSecret(secret)) = Len(secret)
  <1> DEFINE n == Len(secret)
             t == NormalizeSecret(secret)
  <1>1. n \in Nat /\ DOMAIN secret = 1..n
    OBVIOUS
  <1>2. t = [i \in 1..n |-> Low(secret[i], 8)]
    BY <1>1 DEF NormalizeSecret
  <1>3. \A i \in 1..n : Low(secret[i], 8) \in Bytes
    <2>1. 8 - 1 = 7
      OBVIOUS
    <2> QED BY <2>1 DEF Low, Bytes
  <1> HIDE DEF t
  <1>4. t \in [1..n -> Bytes]
    BY <1>2, <1>3
  <1>5. t \in Seq(Bytes)
    BY <1>1, <1>4, SeqDef
  <1> QED
    BY <1>1, <1>4, <1>5 DEF t

\* normalizeSecret leaves bytes as they are.
LEMMA NormalBytes ==
  ASSUME NEW secret \in Seq(Bytes)
  PROVE  NormalizeSecret(secret) = secret /\ secret \in Seq(SUBSET Nat)
  <1> DEFINE n == Len(secret)
  <1>1. n \in Nat /\ DOMAIN secret = 1..n /\ secret = [i \in 1..n |-> secret[i]]
    OBVIOUS
  <1>2. \A i \in 1..n : secret[i] \in Bytes
    BY ElementOfSeq
  <1>3. \A b \in Bytes : Low(b, 8) = b /\ b \in SUBSET Nat
    <2>1. 8 - 1 = 7
      OBVIOUS
    <2>2. ASSUME NEW b \in SUBSET (0..7) PROVE Low(b, 8) = b /\ b \in SUBSET Nat
      <3>1. Low(b, 8) = b \cap 0..7
        BY <2>1 DEF Low
      <3>2. b \cap 0..7 = b
        OBVIOUS
      <3> QED BY <3>1, <3>2
    <2> QED BY <2>2 DEF Bytes
  <1>4. [i \in 1..n |-> Low(secret[i], 8)] = [i \in 1..n |-> secret[i]]
    BY <1>2, <1>3
  <1>5. secret \in Seq(SUBSET Nat)
    BY <1>2, <1>3, SeqFrom
  <1> QED
    BY <1>1, <1>4, <1>5 DEF NormalizeSecret

\* The format version is a byte.
LEMMA VersionByte == Bits(FORMAT_VERSION) \in Bytes /\ <<Bits(FORMAT_VERSION)>> \in Seq(Bytes)
  BY DEF Bits, Bytes

\* A payload is taken apart as it was put together.
LEMMA EightLong ==
  ASSUME NEW S, NEW s \in [1..8 -> S]
  PROVE  Len(s) = 8
  <1>1. 8 \in Nat
    OBVIOUS
  <1>2. s \in Seq(S)
    BY <1>1, SeqDef
  <1>3. s \in [1..Len(s) -> S] /\ Len(s) \in Nat
    BY <1>2, LenProperties
  <1>4. 1..Len(s) = 1..8
    BY <1>3
  <1> QED BY <1>3, <1>4

\* decodeApiKey takes a payload apart as encodeApiKey put it together.
LEMMA PayloadParts ==
  ASSUME NEW k \in KeyTypes, Encodes(k), CodecAssumption
  PROVE  LET p == PayloadOf(k)
             end == 9 + SecretLength(k.method)
         IN  /\ p \in Seq(Bytes) /\ Len(p) = end + 4
             /\ p[1] = Bits(FORMAT_VERSION)
             /\ SubSeq(p, 2, 9) = k.id
             /\ SubSeq(p, 10, end) = NormalizeSecret(k.secret)
             /\ SubSeq(p, end + 1, end + 4) = EncodeQuotas(k.quotas)
  <1> DEFINE a == <<Bits(FORMAT_VERSION)>>
             i == k.id
             c == NormalizeSecret(k.secret)
             q == EncodeQuotas(k.quotas)
             n == SecretLength(k.method)
             end == 9 + n
             ai == a \o i
             aic == ai \o c
             p == aic \o q
  <1>1. a \in Seq(Bytes) /\ Len(a) = 1 /\ a[1] = Bits(FORMAT_VERSION)
    BY VersionByte
  <1>2. i \in Seq(Bytes) /\ Len(i) = 8
    <2>1. i \in [1..8 -> Bytes]
      BY DEF KeyTypes, Bytes
    <2>2. 8 \in Nat
      OBVIOUS
    <2>3. i \in Seq(Bytes)
      BY <2>1, <2>2, SeqDef
    <2>4. Len(i) = 8
      BY <2>1, EightLong
    <2> QED BY <2>3, <2>4
  <1>3. c \in Seq(Bytes) /\ Len(c) = n
    <2>1. k.secret \in Seq(SUBSET Nat)
      BY DEF KeyTypes
    <2> QED BY <2>1, NormalizeIs DEF Encodes
  <1>4. q \in Seq(Bytes) /\ Len(q) = 4
    <2>1. k.quotas \in QuotaTypes
      BY DEF KeyTypes, QuotaTypes
    <2> QED BY <2>1, QuotasSurvive DEF Encodes
  <1>5. n \in Nat
    BY SecretLengthIs
  <1>6. PayloadOf(k) = p
    BY DEF PayloadOf
  <1> HIDE DEF a, i, c, q, n
  <1>7. ai \in Seq(Bytes) /\ Len(ai) = 9 /\ ai[1] = a[1]
    <2>1. ai \in Seq(Bytes) /\ Len(ai) = Len(a) + Len(i) /\ \A j \in 1..Len(a) : ai[j] = a[j]
      <3>1. a \in Seq(Bytes) /\ i \in Seq(Bytes)
        BY <1>1, <1>2
      <3>2. Joins(a \o i, a, i, Bytes)
        BY <3>1, Joined, Zenon
      <3> QED BY <3>2 DEF Joins
    <2> HIDE DEF ai
    <2> QED BY <1>1, <1>2, <2>1
  <1>8. SubSeq(ai, 2, 9) = i
    <2>1. a \in Seq(Bytes) /\ i \in Seq(Bytes) /\ 2 = Len(a) + 1 /\ 9 = Len(a) + Len(i)
      BY <1>1, <1>2
    <2>2. SubSeq(a \o i, Len(a) + 1, Len(a) + Len(i)) = i
      BY <2>1, LastPart, Zenon
    <2> QED BY <2>1, <2>2
  <1> HIDE DEF ai
  <1>9. aic \in Seq(Bytes) /\ Len(aic) = 9 + n /\ aic[1] = ai[1]
    <2>1. aic \in Seq(Bytes) /\ Len(aic) = Len(ai) + Len(c) /\ \A j \in 1..Len(ai) : aic[j] = ai[j]
      <3>1. ai \in Seq(Bytes) /\ c \in Seq(Bytes)
        BY <1>3, <1>7
      <3>2. Joins(ai \o c, ai, c, Bytes)
        BY <3>1, Joined, Zenon
      <3> QED BY <3>2 DEF Joins
    <2> HIDE DEF aic
    <2> QED BY <1>3, <1>7, <2>1
  <1>10. SubSeq(aic, 10, end) = c
    <2>1. ai \in Seq(Bytes) /\ c \in Seq(Bytes) /\ 10 = Len(ai) + 1 /\ end = Len(ai) + Len(c)
      BY <1>3, <1>7
    <2> HIDE DEF end
    <2>2. SubSeq(ai \o c, Len(ai) + 1, Len(ai) + Len(c)) = c
      BY <2>1, LastPart, Zenon
    <2> QED BY <2>1, <2>2
  <1>11. SubSeq(aic, 2, 9) = SubSeq(ai, 2, 9)
    <2>1. 2 \in Nat \ {0} /\ 9 \in Nat /\ 9 <= Len(ai) /\ 2 <= 9 + 1
      BY <1>7
    <2> QED BY <1>3, <1>7, <2>1, EarlyPart
  <1> HIDE DEF aic
  <1>12. p \in Seq(Bytes) /\ Len(p) = end + 4 /\ p[1] = aic[1]
    <2>1. p \in Seq(Bytes) /\ Len(p) = Len(aic) + Len(q) /\ \A j \in 1..Len(aic) : p[j] = aic[j]
      <3>1. aic \in Seq(Bytes) /\ q \in Seq(Bytes)
        BY <1>4, <1>9
      <3>2. Joins(aic \o q, aic, q, Bytes)
        BY <3>1, Joined, Zenon
      <3> QED BY <3>2 DEF Joins
    <2> HIDE DEF p
    <2>2. 1 \in 1..Len(aic)
      BY <1>5, <1>9
    <2> QED BY <1>4, <1>5, <1>9, <2>1, <2>2
  <1>13. SubSeq(p, end + 1, end + 4) = q
    <2>1. aic \in Seq(Bytes) /\ q \in Seq(Bytes) /\ end + 1 = Len(aic) + 1 /\ end + 4 = Len(aic) + Len(q)
      BY <1>4, <1>5, <1>9
    <2> HIDE DEF end
    <2>2. SubSeq(aic \o q, Len(aic) + 1, Len(aic) + Len(q)) = q
      BY <2>1, LastPart, Zenon
    <2> QED BY <2>1, <2>2
  <1>14. SubSeq(p, 2, 9) = SubSeq(aic, 2, 9)
    <2>1. 2 \in Nat \ {0} /\ 9 \in Nat /\ 9 <= Len(aic) /\ 2 <= 9 + 1
      BY <1>5, <1>9
    <2> QED BY <1>4, <1>9, <2>1, EarlyPart
  <1>15. SubSeq(p, 10, end) = SubSeq(aic, 10, end)
    <2>1. 10 \in Nat \ {0} /\ end \in Nat /\ end <= Len(aic) /\ 10 <= end + 1
      BY <1>5, <1>9
    <2> QED BY <1>4, <1>9, <2>1, EarlyPart
  <1> HIDE DEF p
  <1> QED
    BY <1>1, <1>6, <1>7, <1>8, <1>9, <1>10, <1>11, <1>12, <1>13, <1>14, <1>15 DEF i, c, q, n

\* The key that a payload holds, and the payload of that key.
KeyIn(m, p) ==
  [method |-> m, id |-> SubSeq(p, 2, 9), secret |-> SubSeq(p, 10, 9 + SecretLength(m)),
   quotas |-> DecodeQuotas(SubSeq(p, (9 + SecretLength(m)) + 1, (9 + SecretLength(m)) + 4))]

\* A payload that decodeApiKey accepts gives a key that encodeApiKey accepts, and whose
\* payload it is.
LEMMA PayloadAgain ==
  ASSUME NEW m \in Methods, NEW p \in Seq(Bytes), Len(p) = (9 + SecretLength(m)) + 4,
         p[1] = Bits(FORMAT_VERSION),
         ValidQuotas(SubSeq(p, (9 + SecretLength(m)) + 1, (9 + SecretLength(m)) + 4)), CodecAssumption
  PROVE  Encodes(KeyIn(m, p)) /\ PayloadOf(KeyIn(m, p)) = p
  <1> DEFINE n == SecretLength(m)
             end == 9 + n
             k == KeyIn(m, p)
             i == SubSeq(p, 2, 9)
             c == SubSeq(p, 10, end)
             q == SubSeq(p, end + 1, end + 4)
  <1>1. n \in Nat /\ Len(p) = end + 4
    BY SecretLengthIs
  <1>2. k.method = m /\ k.id = i /\ k.secret = c /\ k.quotas = DecodeQuotas(q)
    BY DEF KeyIn
  <1>3. ValidQuotas(q)
    OBVIOUS
  <1> HIDE DEF k, n
  <1>4. c \in Seq(Bytes) /\ Len(c) = n
    <2>1. 10 \in Nat \ {0} /\ end \in Nat /\ end <= Len(p) /\ 10 <= end + 1 /\ end - 10 + 1 = n
      BY <1>1
    <2>2. c \in Seq(Bytes) /\ Len(c) = end - 10 + 1
      BY <2>1, PartIs
    <2> QED BY <2>1, <2>2
  <1>5. q \in Seq(Bytes) /\ Len(q) = 4
    <2>1. end + 1 \in Nat \ {0} /\ end + 4 \in Nat /\ end + 4 <= Len(p) /\ end + 1 <= (end + 4) + 1
          /\ (end + 4) - (end + 1) + 1 = 4
      BY <1>1
    <2>2. q \in Seq(Bytes) /\ Len(q) = (end + 4) - (end + 1) + 1
      BY <2>1, PartIs
    <2> QED BY <2>1, <2>2
  <1>6. WithinLimits(DecodeQuotas(q)) /\ EncodeQuotas(DecodeQuotas(q)) = q
    BY <1>3, <1>5, QuotasWritten
  <1>7. Encodes(k)
    BY <1>2, <1>4, <1>6, HrpDomain DEF Encodes, n
  <1>8. NormalizeSecret(c) = c
    BY <1>4, NormalBytes
  <1>9. SubSeq(p, 1, 1) = <<p[1]>>
    <2>1. 1 \in Nat \ {0} /\ 1 \in Nat /\ 1 <= Len(p) /\ 1 <= 1 + 1
      BY <1>1
    <2>2. /\ SubSeq(p, 1, 1) \in Seq(Bytes) /\ Len(SubSeq(p, 1, 1)) = 1 - 1 + 1
          /\ \A j \in 1..(1 - 1 + 1) : SubSeq(p, 1, 1)[j] = p[1 + j - 1]
      BY <2>1, PartIs
    <2> DEFINE w == SubSeq(p, 1, 1)
    <2> HIDE DEF w
    <2>3. w \in Seq(Bytes) /\ Len(w) = 1 /\ w[1] = p[1]
      <3>1. 1 - 1 + 1 = 1 /\ 1 + 1 - 1 = 1 /\ 1 \in 1..1
        OBVIOUS
      <3> QED BY <2>2, <3>1 DEF w
    <2>4. w = <<p[1]>>
      BY <2>3
    <2> QED BY <2>4 DEF w
  <1>10. SubSeq(p, 1, 1) \o i = SubSeq(p, 1, 9)
    <2>1. 1 \in Nat /\ 9 \in Nat /\ 1 <= 9 /\ 9 <= Len(p) /\ 1 + 1 = 2
      BY <1>1
    <2>2. SubSeq(p, 1, 1) \o SubSeq(p, 1 + 1, 9) = SubSeq(p, 1, 9)
      BY <2>1, PartsJoined
    <2> QED BY <2>1, <2>2
  <1>11. SubSeq(p, 1, 9) \o c = SubSeq(p, 1, end)
    <2>1. 9 \in Nat /\ end \in Nat /\ 9 <= end /\ end <= Len(p) /\ 9 + 1 = 10
      BY <1>1
    <2>2. SubSeq(p, 1, 9) \o SubSeq(p, 9 + 1, end) = SubSeq(p, 1, end)
      BY <2>1, PartsJoined
    <2> QED BY <2>1, <2>2
  <1>12. SubSeq(p, 1, end) \o q = SubSeq(p, 1, end + 4)
    <2>1. end \in Nat /\ end + 4 \in Nat /\ end <= end + 4 /\ end + 4 <= Len(p)
      BY <1>1
    <2> QED BY <2>1, PartsJoined
  <1>13. SubSeq(p, 1, end + 4) = p
    <2>1. SubSeq(p, 1, Len(p)) = p
      BY WholePart
    <2> QED BY <1>1, <2>1
  <1> HIDE DEF i, c, q, end
  <1>14. PayloadOf(k) = <<p[1]>> \o i \o c \o q
    BY <1>2, <1>6, <1>8 DEF PayloadOf
  <1> QED
    BY <1>7, <1>9, <1>10, <1>11, <1>12, <1>13, <1>14 DEF k

\* The length of a method's texts, prefix, separator, characters and checksum.
TextLength(m) == IF m = "none" THEN 35 ELSE IF m = "cookie" THEN 88 ELSE 85

\* decodeApiKey accepts a text: what it then knows of it.
Accepted(t, m, data) ==
  /\ m \in Methods
  /\ data \in Seq(Chars) /\ CleanPadding(data)
  /\ ToBytes(data) \in Seq(Bytes)
  /\ LowerCase(t) = Write(Hrp[m], data)
  /\ Len(ToBytes(data)) = (9 + SecretLength(m)) + 4
  /\ ToBytes(data)[1] = Bits(FORMAT_VERSION)
  /\ ValidQuotas(SubSeq(ToBytes(data), (9 + SecretLength(m)) + 1, (9 + SecretLength(m)) + 4))
  /\ DecodeApiKey(t) = KeyIn(m, ToBytes(data))

\* What decodeApiKey knows of a text that it accepts.
LEMMA AcceptedIs ==
  ASSUME NEW t \in Seq(Nat), DecodeApiKey(t) # Refused
  PROVE  \E m, data : Accepted(t, m, data)
  <1> DEFINE s == LowerCase(t)
             data == WithoutChecksum(DataOf(s))
             p == ToBytes(data)
             m == MethodOf(HrpOf(s))
             end == 9 + SecretLength(m)
             q == SubSeq(p, end + 1, end + 4)
             ok == /\ Readable(t) /\ HrpOf(s) \in Range(Hrp) /\ Len(p) = end + 4
                   /\ p[1] = Bits(FORMAT_VERSION) /\ ValidQuotas(q)
  <1>1. DecodeApiKey(t) = IF ok THEN KeyIn(m, p) ELSE Refused
    BY DEF DecodeApiKey, KeyIn
  <1> HIDE DEF s, data, p, m, end, q
  <1>2. ok /\ DecodeApiKey(t) = KeyIn(m, p)
    BY <1>1
  <1>3. /\ data \in Seq(Chars) /\ CleanPadding(data)
        /\ s = Write(HrpOf(s), data)
    BY <1>2, ReadableIsWritten DEF s, data
  <1>4. m \in Methods /\ Hrp[m] = HrpOf(s)
    BY <1>2, MethodOfPrefix DEF m
  <1>5. p \in Seq(Bytes)
    BY <1>3, ToBytesIs DEF p, IsBytes
  <1>6. s = Write(Hrp[m], data)
    BY <1>3, <1>4
  <1>7. Accepted(t, m, data)
    BY <1>2, <1>3, <1>4, <1>5, <1>6 DEF Accepted, s, p, end, q
  <1> QED
    BY <1>7

\* The length of an accepted text tells its method.
LEMMA AcceptedLength ==
  ASSUME NEW t \in Seq(Nat), NEW m, NEW data, Accepted(t, m, data)
  PROVE  Len(t) = TextLength(m) /\ Len(data) = TextLength(m) - PrefixLength(m) - 7
  <1> DEFINE p == ToBytes(data)
             n == SecretLength(m)
             d == Len(data)
  <1>1. Len(p) = (9 + n) + 4 /\ data \in Seq(Chars) /\ CleanPadding(data) /\ m \in Methods /\ p \in Seq(Bytes)
    BY DEF Accepted
  <1>2. 8 * Len(p) <= 5 * d /\ 5 * d <= 8 * Len(p) + 4
    BY <1>1, ToBytesIs DEF IsBytes
  <1>3. d \in Nat /\ n \in Nat
    BY <1>1, SecretLengthIs
  <1>4. (n = 0 /\ m = "none") \/ (n = 32 /\ m \in {"cookie", "aes"})
    BY <1>1 DEF SecretLength, Methods
  <1>5. Len(Write(Hrp[m], data)) = PrefixLength(m) + d + 7
    <2>1. Hrp[m] \in Seq(Printable) /\ Plain(Hrp[m]) /\ Len(Hrp[m]) = PrefixLength(m)
      BY <1>1, HrpType
    <2>2. Hrp[m] # <<>>
      <3>1. PrefixLength(m) # 0
        BY DEF PrefixLength
      <3> QED BY <2>1, <3>1
    <2>3. Len(Write(Hrp[m], data)) = Len(Hrp[m]) + Len(data) + 7
      BY <1>1, <2>1, <2>2, WrittenIsReadable
    <2> QED BY <2>1, <2>3
  <1>6. Len(LowerCase(t)) = Len(t)
    BY LowerCaseIs
  <1>7. Len(t) = PrefixLength(m) + d + 7
    BY <1>5, <1>6 DEF Accepted
  <1> HIDE DEF p, n, d
  <1>8. CASE n = 0 /\ m = "none"
    <2>1. d = 21
      BY <1>1, <1>2, <1>3, <1>8
    <2>2. PrefixLength(m) = 7 /\ TextLength(m) = 35
      BY <1>8 DEF PrefixLength, TextLength
    <2> QED BY <1>7, <2>1, <2>2 DEF d
  <1>9. CASE n = 32 /\ m \in {"cookie", "aes"}
    <2>1. d = 72
      BY <1>1, <1>2, <1>3, <1>9
    <2>2. PrefixLength(m) = IF m = "cookie" THEN 9 ELSE 6
      BY <1>9 DEF PrefixLength
    <2>3. TextLength(m) = IF m = "cookie" THEN 88 ELSE 85
      BY <1>9 DEF TextLength
    <2>4. CASE m = "cookie"
      BY <1>7, <2>1, <2>2, <2>3, <2>4 DEF d
    <2>5. CASE m # "cookie"
      BY <1>7, <2>1, <2>2, <2>3, <2>5 DEF d
    <2> QED BY <2>4, <2>5
  <1> QED
    BY <1>4, <1>8, <1>9

\* What encodeApiKey writes, decodeApiKey accepts, and reads the key from it as it was
\* given, its secret reduced to bytes.
THEOREM DecodesWhatItEncodes ==
  ASSUME NEW k \in KeyTypes, EncodeApiKey(k) # Refused, CodecAssumption
  PROVE  LET t == EncodeApiKey(k) IN
         /\ Encodes(k)
         /\ t = Write(Hrp[k.method], ToChars(PayloadOf(k)))
         /\ t \in Seq(Printable) /\ t \in Seq(Nat) /\ LowerCase(t) = t
         /\ Readable(t)
         /\ Accepted(t, k.method, ToChars(PayloadOf(k)))
         /\ DecodeApiKey(t) = Normalized(k)
  <1> DEFINE m == k.method
             p == PayloadOf(k)
             c == ToChars(p)
             t == EncodeApiKey(k)
             end == 9 + SecretLength(m)
  <1>1. EncodeApiKey(k) = IF Encodes(k) THEN Write(Hrp[m], c) ELSE Refused
    BY DEF EncodeApiKey, Encodes, PayloadOf
  <1>2. Encodes(k) /\ t = Write(Hrp[m], c)
    BY <1>1
  <1>3. m \in Methods
    BY <1>2, HrpDomain DEF Encodes
  <1>4. /\ p \in Seq(Bytes) /\ Len(p) = end + 4
        /\ p[1] = Bits(FORMAT_VERSION)
        /\ SubSeq(p, 2, 9) = k.id
        /\ SubSeq(p, 10, end) = NormalizeSecret(k.secret)
        /\ SubSeq(p, end + 1, end + 4) = EncodeQuotas(k.quotas)
    BY <1>2, PayloadParts
  <1>5. ValidQuotas(EncodeQuotas(k.quotas)) /\ DecodeQuotas(EncodeQuotas(k.quotas)) = k.quotas
    <2>1. k.quotas \in QuotaTypes
      BY DEF KeyTypes, QuotaTypes
    <2> QED BY <1>2, <2>1, QuotasSurvive DEF Encodes
  <1> HIDE DEF p
  <1>6. c \in Seq(Chars) /\ CleanPadding(c) /\ ToBytes(c) = p
    BY <1>4, ToCharsIs, BytesSurvive DEF IsChars
  <1> HIDE DEF c, t
  <1>7. Hrp[m] \in Seq(Printable) /\ Plain(Hrp[m]) /\ Hrp[m] # <<>>
    <2>1. Hrp[m] \in Seq(Printable) /\ Plain(Hrp[m]) /\ Len(Hrp[m]) = PrefixLength(m)
      BY <1>3, HrpType
    <2>2. PrefixLength(m) # 0
      BY DEF PrefixLength
    <2> QED BY <2>1, <2>2
  <1>8. /\ t \in Seq(Printable) /\ t \in Seq(Nat) /\ LowerCase(t) = t /\ Readable(t)
        /\ HrpOf(t) = Hrp[m] /\ WithoutChecksum(DataOf(t)) = c
    BY <1>2, <1>6, <1>7, WrittenIsReadable
  <1>9. MethodOf(Hrp[m]) = m /\ Hrp[m] \in Range(Hrp)
    <2>1. MethodOf(Hrp[m]) = m
      BY <1>3, MethodIs
    <2>2. Hrp[m] \in Range(Hrp)
      BY <1>3, HrpDomain DEF Range
    <2> QED BY <2>1, <2>2
  <1>10. DecodeApiKey(t) = KeyIn(m, p)
    <2> DEFINE q == SubSeq(p, end + 1, end + 4)
    <2>1. DecodeApiKey(t) =
            IF /\ Readable(t) /\ HrpOf(t) \in Range(Hrp) /\ Len(p) = end + 4
               /\ p[1] = Bits(FORMAT_VERSION) /\ ValidQuotas(q)
            THEN KeyIn(m, p) ELSE Refused
      BY <1>6, <1>8, <1>9 DEF DecodeApiKey, KeyIn
    <2> QED BY <1>4, <1>5, <1>8, <1>9, <2>1
  <1>11. KeyIn(m, p) = Normalized(k)
    <2>1. KeyIn(m, p) = [method |-> m, id |-> k.id, secret |-> NormalizeSecret(k.secret), quotas |-> k.quotas]
      BY <1>4, <1>5 DEF KeyIn
    <2>2. Normalized(k) = [method |-> m, id |-> k.id, secret |-> NormalizeSecret(k.secret), quotas |-> k.quotas]
      BY DEF Normalized, KeyTypes
    <2> QED BY <2>1, <2>2
  <1>12. Accepted(t, m, c)
    BY <1>2, <1>3, <1>4, <1>5, <1>6, <1>8, <1>10 DEF Accepted
  <1> QED
    BY <1>2, <1>8, <1>10, <1>11, <1>12 DEF t, p, c

\* A text that decodeApiKey accepts, whoever wrote it, is what encodeApiKey would write
\* for its key, but for capitals.
THEOREM AcceptedIsEncoded ==
  ASSUME NEW t \in Seq(Nat), DecodeApiKey(t) # Refused, CodecAssumption
  PROVE  EncodeApiKey(DecodeApiKey(t)) = LowerCase(t)
  <1>1. PICK m, data : Accepted(t, m, data)
    BY AcceptedIs
  <1> DEFINE p == ToBytes(data)
             k == KeyIn(m, p)
  <1>2. /\ m \in Methods /\ data \in Seq(Chars) /\ CleanPadding(data) /\ p \in Seq(Bytes)
        /\ LowerCase(t) = Write(Hrp[m], data) /\ DecodeApiKey(t) = k
        /\ Len(p) = (9 + SecretLength(m)) + 4 /\ p[1] = Bits(FORMAT_VERSION)
        /\ ValidQuotas(SubSeq(p, (9 + SecretLength(m)) + 1, (9 + SecretLength(m)) + 4))
    BY <1>1 DEF Accepted
  <1>3. Encodes(k) /\ PayloadOf(k) = p
    BY <1>2, PayloadAgain
  <1>4. k.method = m
    BY DEF KeyIn
  <1>5. ToChars(p) = data
    BY <1>2, CharsSurvive
  <1> HIDE DEF k, p
  <1>6. EncodeApiKey(k) = IF Encodes(k) THEN Write(Hrp[k.method], ToChars(PayloadOf(k))) ELSE Refused
    BY DEF EncodeApiKey, Encodes, PayloadOf
  <1> QED
    BY <1>2, <1>3, <1>4, <1>5, <1>6

-----------------------------------------------------------------------------
(* Slips of a copyist. *)

\* A text with a method's prefix and characters d with a right checksum.
CodeWord(w, m, d) ==
  /\ w = Text(Hrp[m], d)
  /\ m \in Methods /\ d \in Seq(Chars)
  /\ VerifyChecksum(Hrp[m], d)

\* What bech32Encode writes has a right checksum, six characters long.
LEMMA WrittenCodeWord ==
  ASSUME NEW m \in Methods, NEW data \in Seq(Chars)
  PROVE  /\ CodeWord(Write(Hrp[m], data), m, data \o CreateChecksum(Hrp[m], data))
         /\ Len(data \o CreateChecksum(Hrp[m], data)) = Len(data) + 6
  <1> DEFINE x == CreateChecksum(Hrp[m], data)
  <1>1. HrpExpand(Hrp[m]) \in Seq(Chars)
    BY HrpType, ExpandType
  <1>2. x \in [1..6 -> Chars] /\ VerifyChecksum(Hrp[m], data \o x)
    BY <1>1, ChecksumIsTheOne
  <1> HIDE DEF x
  <1>3. data \o x \in Seq(Chars) /\ Len(data \o x) = Len(data) + 6
    BY <1>2, WithoutSix
  <1>4. Write(Hrp[m], data) = Text(Hrp[m], data \o x)
    BY WriteIsText DEF x
  <1> QED
    BY <1>2, <1>3, <1>4 DEF CodeWord, x

\* The values of which the checksum is taken.
LEMMA CodeWordValues ==
  ASSUME NEW w, NEW m, NEW d, CodeWord(w, m, d)
  PROVE  LET e == HrpExpand(Hrp[m]) IN
         /\ Polymod(e \o d) = {0}
         /\ Len(e) \in Nat /\ Len(d) \in Nat
         /\ Joins(e \o d, e, d, Chars)
  <1>1. HrpExpand(Hrp[m]) \in Seq(Chars) /\ d \in Seq(Chars)
    BY HrpType, ExpandType DEF CodeWord
  <1>2. Joins(HrpExpand(Hrp[m]) \o d, HrpExpand(Hrp[m]), d, Chars)
    BY <1>1, Joined, Zenon
  <1>3. Polymod(HrpExpand(Hrp[m]) \o d) = {0}
    BY DEF CodeWord, VerifyChecksum
  <1>4. Len(HrpExpand(Hrp[m])) \in Nat /\ Len(d) \in Nat
    BY <1>1, LenProperties
  <1> QED
    BY <1>2, <1>3, <1>4

\* The characters of such a text.
Spelled(w, p, d) ==
  /\ Len(p) \in Nat /\ w \in Seq(Nat) /\ Len(w) = Len(p) + 1 + Len(d)
  /\ \A i \in 1..Len(p) : w[i] = p[i]
  /\ w[Len(p) + 1] = Separator
  /\ \A i \in 1..Len(d) : w[Len(p) + 1 + i] = Symbol(d[i]) /\ d[i] \in Chars

\* Such a text, place by place.
LEMMA CodeWordText ==
  ASSUME NEW w, NEW m, NEW d, CodeWord(w, m, d)
  PROVE  Spelled(w, Hrp[m], d)
  <1>1. Hrp[m] \in Seq(Nat) /\ d \in Seq(Chars)
    BY HrpType DEF CodeWord
  <1>2. /\ w \in Seq(Nat)
        /\ Len(w) = Len(Hrp[m]) + 1 + Len(d)
        /\ \A i \in 1..Len(Hrp[m]) : w[i] = Hrp[m][i]
        /\ w[Len(Hrp[m]) + 1] = Separator
        /\ \A i \in 1..Len(d) : w[Len(Hrp[m]) + 1 + i] = Symbol(d[i])
    BY <1>1, InText DEF CodeWord
  <1>3. Len(Hrp[m]) \in Nat
    BY <1>1, LenProperties
  <1>4. \A i \in 1..Len(d) : d[i] \in Chars
    BY <1>1, ElementOfSeq
  <1> QED
    BY <1>2, <1>3, <1>4 DEF Spelled

\* Where two such texts of one length differ, their characters do.
LEMMA DifferInData ==
  ASSUME NEW w, NEW v, NEW m, NEW d, NEW c, CodeWord(w, m, d), CodeWord(v, m, c),
         Len(d) = Len(c), NEW i \in 1..Len(w), w[i] # v[i]
  PROVE  i - (Len(Hrp[m]) + 1) \in 1..Len(d)
  <1> DEFINE h == Len(Hrp[m])
             n == Len(d)
  <1>0. Spelled(w, Hrp[m], d) /\ Spelled(v, Hrp[m], c)
    BY CodeWordText, Zenon
  <1>1. /\ h \in Nat /\ Len(w) = h + 1 + n
        /\ \A j \in 1..h : w[j] = Hrp[m][j]
        /\ w[h + 1] = Separator
    BY <1>0 DEF Spelled
  <1>2. /\ \A j \in 1..h : v[j] = Hrp[m][j]
        /\ v[h + 1] = Separator
    BY <1>0 DEF Spelled
  <1>3. n \in Nat
    BY CodeWordValues
  <1> HIDE DEF h, n
  <1>4. ~(i \in 1..h) /\ i # h + 1
    BY <1>1, <1>2
  <1>5. i - (h + 1) \in 1..n
    BY <1>1, <1>3, <1>4
  <1> QED
    BY <1>5 DEF h, n

\* Two texts of one method and length that differ in one place at most are one.
LEMMA OneSlipIsSeen ==
  ASSUME NEW w, NEW v, NEW m, NEW d, NEW c, CodeWord(w, m, d), CodeWord(v, m, c),
         Len(d) = Len(c), NEW i \in 1..Len(w),
         \A j \in 1..Len(w) : j # i => w[j] = v[j]
  PROVE  w = v
  <1> DEFINE h == Len(Hrp[m])
             n == Len(d)
             x == HrpExpand(Hrp[m])
             e == Len(x)
  <1>0. Spelled(w, Hrp[m], d) /\ Spelled(v, Hrp[m], c)
    BY CodeWordText, Zenon
  <1>1. /\ h \in Nat /\ w \in Seq(Nat) /\ Len(w) = h + 1 + n
        /\ \A j \in 1..n : w[h + 1 + j] = Symbol(d[j]) /\ d[j] \in Chars
    BY <1>0 DEF Spelled
  <1>2. /\ v \in Seq(Nat) /\ Len(v) = h + 1 + n
        /\ \A j \in 1..n : v[h + 1 + j] = Symbol(c[j]) /\ c[j] \in Chars
    BY <1>0 DEF Spelled
  <1>3. Polymod(x \o d) = {0} /\ e \in Nat /\ n \in Nat /\ Joins(x \o d, x, d, Chars)
    BY CodeWordValues
  <1>4. Polymod(x \o c) = {0} /\ Joins(x \o c, x, c, Chars)
    BY CodeWordValues
  <1>5. ASSUME w[i] # v[i] PROVE FALSE
    <2> DEFINE k == i - (h + 1)
               s == x \o d
               t == x \o c
    <2>1. k \in 1..n /\ h + 1 + k = i
      <3>1. k \in 1..n
        BY <1>5, DifferInData
      <3> HIDE DEF h, n
      <3> QED BY <1>1, <1>3, <3>1
    <2> HIDE DEF k, n, h, e, x
    <2>2. d[k] # c[k]
      BY <1>1, <1>2, <1>5, <2>1
    <2>3. \A j \in 1..n : j # k => d[j] = c[j]
      <3>1. ASSUME NEW j \in 1..n, j # k PROVE d[j] = c[j]
        <4>1. h + 1 + j \in 1..Len(w) /\ h + 1 + j # i
          BY <1>1, <1>3, <2>1, <3>1
        <4>2. Symbol(d[j]) = Symbol(c[j]) /\ d[j] \in Chars /\ c[j] \in Chars
          BY <1>1, <1>2, <4>1
        <4> QED BY <4>2, SymbolInjective
      <3> QED BY <3>1
    <2>4. /\ s \in Seq(Chars) /\ Len(s) = e + n
          /\ \A j \in 1..e : s[j] = x[j]
          /\ \A j \in 1..n : s[e + j] = d[j]
      BY <1>3 DEF Joins, e, n
    <2>5. /\ t \in Seq(Chars) /\ Len(t) = e + n
          /\ \A j \in 1..e : t[j] = x[j]
          /\ \A j \in 1..n : t[e + j] = c[j]
      BY <1>4 DEF Joins, e, n
    <2>6. Polymod(s) = Polymod(t)
      BY <1>3, <1>4
    <2> HIDE DEF s, t
    <2>7. e + k \in 1..Len(s) /\ s[e + k] # t[e + k]
      BY <1>3, <2>1, <2>2, <2>4, <2>5
    <2>8. ASSUME NEW j \in 1..Len(s), j # e + k PROVE s[j] = t[j]
      <3>1. CASE j \in 1..e
        BY <2>4, <2>5, <3>1
      <3>2. CASE j \in (e + 1)..(e + n)
        <4>1. j - e \in 1..n /\ e + (j - e) = j /\ j - e # k
          BY <1>3, <2>1, <2>8, <3>2
        <4>2. s[e + (j - e)] = d[j - e] /\ t[e + (j - e)] = c[j - e] /\ d[j - e] = c[j - e]
          BY <2>3, <2>4, <2>5, <4>1
        <4> QED BY <4>1, <4>2
      <3> QED BY <1>3, <2>4, <3>1, <3>2
    <2>9. Len(s) = Len(t)
      BY <2>4, <2>5
    <2>10. Polymod(s) # Polymod(t)
      BY <2>4, <2>5, <2>7, <2>8, <2>9, OneChangeIsSeen
    <2> QED BY <2>6, <2>10
  <1> HIDE DEF n, h
  <1>6. \A j \in 1..Len(w) : w[j] = v[j]
    BY <1>5
  <1> QED
    BY <1>1, <1>2, <1>6, SeqEqual

\* Nor can one be the other with two neighbours swapped.
LEMMA SwapSlipIsSeen ==
  ASSUME NEW w, NEW v, NEW m, NEW d, NEW c, CodeWord(w, m, d), CodeWord(v, m, c),
         Len(d) = Len(c), NEW i \in 1..(Len(w) - 1), v[i] = w[i + 1], v[i + 1] = w[i],
         \A j \in 1..Len(w) : j # i /\ j # i + 1 => w[j] = v[j]
  PROVE  w = v
  <1> DEFINE h == Len(Hrp[m])
             n == Len(d)
             x == HrpExpand(Hrp[m])
             e == Len(x)
  <1>0. Spelled(w, Hrp[m], d) /\ Spelled(v, Hrp[m], c)
    BY CodeWordText, Zenon
  <1>1. /\ h \in Nat /\ w \in Seq(Nat) /\ Len(w) = h + 1 + n
        /\ \A j \in 1..n : w[h + 1 + j] = Symbol(d[j]) /\ d[j] \in Chars
    BY <1>0 DEF Spelled
  <1>2. /\ v \in Seq(Nat) /\ Len(v) = h + 1 + n
        /\ \A j \in 1..n : v[h + 1 + j] = Symbol(c[j]) /\ c[j] \in Chars
    BY <1>0 DEF Spelled
  <1>3. Polymod(x \o d) = {0} /\ e \in Nat /\ n \in Nat /\ Joins(x \o d, x, d, Chars)
    BY CodeWordValues
  <1>4. Polymod(x \o c) = {0} /\ Joins(x \o c, x, c, Chars)
    BY CodeWordValues
  <1>5. ASSUME w[i] # w[i + 1] PROVE FALSE
    <2> DEFINE k == i - (h + 1)
               s == x \o d
               t == x \o c
    <2>0. i \in 1..Len(w) /\ i + 1 \in 1..Len(w)
      <3> HIDE DEF h, n
      <3> QED BY <1>1, <1>3
    <2>1. k \in 1..n /\ k + 1 \in 1..n /\ h + 1 + k = i /\ h + 1 + (k + 1) = i + 1
      <3>1. k \in 1..n
        BY <1>5, <2>0, DifferInData
      <3>2. (i + 1) - (h + 1) \in 1..n
        BY <1>5, <2>0, DifferInData
      <3> HIDE DEF h, n
      <3> QED BY <1>1, <1>3, <3>1, <3>2
    <2> HIDE DEF k, n, h, e, x
    <2>2. d[k] # d[k + 1] /\ c[k] = d[k + 1] /\ c[k + 1] = d[k]
      <3>1. /\ w[i] = Symbol(d[k]) /\ w[i + 1] = Symbol(d[k + 1])
            /\ v[i] = Symbol(c[k]) /\ v[i + 1] = Symbol(c[k + 1])
            /\ d[k] \in Chars /\ d[k + 1] \in Chars /\ c[k] \in Chars /\ c[k + 1] \in Chars
        <4>1. /\ w[h + 1 + k] = Symbol(d[k]) /\ w[h + 1 + (k + 1)] = Symbol(d[k + 1])
              /\ d[k] \in Chars /\ d[k + 1] \in Chars
          BY <1>1, <2>1
        <4>2. /\ v[h + 1 + k] = Symbol(c[k]) /\ v[h + 1 + (k + 1)] = Symbol(c[k + 1])
              /\ c[k] \in Chars /\ c[k + 1] \in Chars
          BY <1>2, <2>1
        <4> QED BY <2>1, <4>1, <4>2
      <3>2. Symbol(c[k]) = Symbol(d[k + 1]) /\ Symbol(c[k + 1]) = Symbol(d[k])
        BY <3>1
      <3>3. c[k] = d[k + 1]
        BY <3>1, <3>2, SymbolInjective
      <3>4. c[k + 1] = d[k]
        BY <3>1, <3>2, SymbolInjective
      <3> QED BY <1>5, <3>1, <3>3, <3>4
    <2>3. \A j \in 1..n : j # k /\ j # k + 1 => d[j] = c[j]
      <3>1. ASSUME NEW j \in 1..n, j # k, j # k + 1 PROVE d[j] = c[j]
        <4>1. h + 1 + j \in 1..Len(w) /\ h + 1 + j # i /\ h + 1 + j # i + 1
          BY <1>1, <1>3, <2>1, <3>1
        <4>2. Symbol(d[j]) = Symbol(c[j]) /\ d[j] \in Chars /\ c[j] \in Chars
          BY <1>1, <1>2, <4>1
        <4> QED BY <4>2, SymbolInjective
      <3> QED BY <3>1
    <2>4. /\ s \in Seq(Chars) /\ Len(s) = e + n
          /\ \A j \in 1..e : s[j] = x[j]
          /\ \A j \in 1..n : s[e + j] = d[j]
      BY <1>3 DEF Joins, e, n
    <2>5. /\ t \in Seq(Chars) /\ Len(t) = e + n
          /\ \A j \in 1..e : t[j] = x[j]
          /\ \A j \in 1..n : t[e + j] = c[j]
      BY <1>4 DEF Joins, e, n
    <2>6. Polymod(s) = Polymod(t)
      BY <1>3, <1>4
    <2> HIDE DEF s, t
    <2> DEFINE a == e + k
    <2>7. /\ a \in 1..(Len(s) - 1) /\ a + 1 = e + (k + 1)
          /\ s[a] = d[k] /\ s[a + 1] = d[k + 1] /\ t[a] = c[k] /\ t[a + 1] = c[k + 1]
      <3>1. a \in 1..(Len(s) - 1) /\ a + 1 = e + (k + 1)
        <4>1. k \in Nat /\ k >= 1 /\ k + 1 <= n
          BY <1>3, <2>1
        <4>2. Len(s) - 1 = e + n - 1
          BY <1>3, <2>4
        <4> QED BY <1>3, <4>1, <4>2
      <3>2. s[e + k] = d[k] /\ s[e + (k + 1)] = d[k + 1] /\ t[e + k] = c[k] /\ t[e + (k + 1)] = c[k + 1]
        BY <2>1, <2>4, <2>5
      <3> QED BY <3>1, <3>2
    <2>8. ASSUME NEW j \in 1..Len(s), j # a, j # a + 1 PROVE s[j] = t[j]
      <3>1. CASE j \in 1..e
        BY <2>4, <2>5, <3>1
      <3>2. CASE j \in (e + 1)..(e + n)
        <4>1. j - e \in 1..n /\ e + (j - e) = j /\ j - e # k /\ j - e # k + 1
          BY <1>3, <2>1, <2>8, <3>2
        <4>2. s[e + (j - e)] = d[j - e] /\ t[e + (j - e)] = c[j - e] /\ d[j - e] = c[j - e]
          BY <2>3, <2>4, <2>5, <4>1
        <4> QED BY <4>1, <4>2
      <3> QED BY <1>3, <2>4, <3>1, <3>2
    <2> HIDE DEF a
    <2>9. Len(s) = Len(t) /\ s[a] # s[a + 1] /\ t[a] = s[a + 1] /\ t[a + 1] = s[a]
      BY <2>2, <2>4, <2>5, <2>7
    <2>10. Polymod(s) # Polymod(t)
      BY <2>4, <2>5, <2>7, <2>8, <2>9, SwapIsSeen
    <2> QED BY <2>6, <2>10
  <1> HIDE DEF n, h
  <1>6. \A j \in 1..Len(w) : w[j] = v[j]
    BY <1>5
  <1> QED
    BY <1>1, <1>2, <1>6, SeqEqual

-----------------------------------------------------------------------------
(* What a slip of the copyist makes of a text. *)

\* What a slip may do to a text: change one place,
OnePlace(t, u) ==
  Len(u) = Len(t) /\ \E i \in 1..Len(t) : \A j \in 1..Len(t) : j # i => u[j] = t[j]
\* swap two neighbours,
TwoSwapped(t, u) ==
  Len(u) = Len(t) /\ \E i \in 1..(Len(t) - 1) :
    u[i] = t[i + 1] /\ u[i + 1] = t[i] /\ \A j \in 1..Len(t) : j # i /\ j # i + 1 => u[j] = t[j]
\* change the case of letters,
Capitals(t, u) == LowerCase(u) = LowerCase(t)
\* or leave out a character or insert one.
OneMoreOrLess(t, u) == Len(u) = Len(t) - 1 \/ Len(u) = Len(t) + 1

\* One of these.
Slip(t, u) ==
  /\ u \in Seq(Nat)
  /\ OnePlace(t, u) \/ TwoSwapped(t, u) \/ Capitals(t, u) \/ OneMoreOrLess(t, u)

\* Texts of different methods differ in length.
LEMMA LengthTells ==
  ASSUME NEW n \in Methods, NEW m \in Methods, TextLength(n) = TextLength(m)
  PROVE  n = m
  BY DEF TextLength, Methods

\* A slip in a text that decodeApiKey accepts makes one that it refuses or that it reads
\* as the same key.
LEMMA SlipIsSeen ==
  ASSUME NEW t \in Seq(Nat), LowerCase(t) = t, NEW n, NEW data, Accepted(t, n, data),
         NEW u, Slip(t, u), DecodeApiKey(u) # Refused
  PROVE  DecodeApiKey(u) = DecodeApiKey(t)
  <1>1. u \in Seq(Nat)
    BY DEF Slip
  <1>2. PICK m, other : Accepted(u, m, other)
    BY <1>1, AcceptedIs
  <1>3. Len(t) = TextLength(n) /\ Len(data) = TextLength(n) - PrefixLength(n) - 7
    BY AcceptedLength
  <1>4. Len(u) = TextLength(m) /\ Len(other) = TextLength(m) - PrefixLength(m) - 7
    BY <1>1, <1>2, AcceptedLength
  <1>5. /\ n \in Methods /\ data \in Seq(Chars) /\ CleanPadding(data)
        /\ t = Write(Hrp[n], data) /\ DecodeApiKey(t) = KeyIn(n, ToBytes(data))
    BY DEF Accepted
  <1>6. /\ m \in Methods /\ other \in Seq(Chars) /\ CleanPadding(other)
        /\ LowerCase(u) = Write(Hrp[m], other) /\ DecodeApiKey(u) = KeyIn(m, ToBytes(other))
    BY <1>2 DEF Accepted
  <1> DEFINE s == LowerCase(u)
             d == data \o CreateChecksum(Hrp[n], data)
             c == other \o CreateChecksum(Hrp[m], other)
  <1>7. /\ s \in Seq(Nat) /\ Len(s) = Len(u)
        /\ \A i \in 1..Len(u) : s[i] = IF IsUpper(u[i]) THEN u[i] + 32 ELSE u[i]
    BY <1>1, LowerCaseIs
  <1>8. \A i \in 1..Len(t) : t[i] = IF IsUpper(t[i]) THEN t[i] + 32 ELSE t[i]
    BY LowerCaseIs
  <1>9. ~ OneMoreOrLess(t, u)
    <2>1. Len(u) # Len(t) - 1 /\ Len(u) # Len(t) + 1
      <3> DEFINE x == TextLength(n)
                 y == TextLength(m)
      <3>1. x \in {35, 85, 88} /\ y \in {35, 85, 88} /\ Len(t) = x /\ Len(u) = y
        BY <1>3, <1>4 DEF TextLength
      <3> HIDE DEF x, y
      <3>2. y # x - 1 /\ y # x + 1
        BY <3>1
      <3> QED BY <3>1, <3>2
    <2> QED BY <2>1 DEF OneMoreOrLess
  <1>10. CodeWord(t, n, d) /\ Len(d) = Len(data) + 6
    BY <1>5, WrittenCodeWord
  <1>11. CodeWord(s, m, c) /\ Len(c) = Len(other) + 6
    BY <1>6, WrittenCodeWord
  <1>12. Len(u) = Len(t) => n = m
    <2>1. TextLength(n) = TextLength(m) => n = m
      BY <1>5, <1>6, LengthTells
    <2> QED BY <1>3, <1>4, <2>1
  <1> HIDE DEF s, d, c
  <1>13. Len(u) = Len(t) => CodeWord(s, n, c) /\ Len(d) = Len(c)
    BY <1>3, <1>4, <1>10, <1>11, <1>12
  <1>14. s = t
    <2>1. CASE OnePlace(t, u)
      <3>1. PICK i \in 1..Len(t) : \A j \in 1..Len(t) : j # i => u[j] = t[j]
        BY <2>1 DEF OnePlace
      <3>2. Len(u) = Len(t)
        BY <2>1 DEF OnePlace
      <3>3. \A j \in 1..Len(t) : j # i => t[j] = s[j]
        BY <1>7, <1>8, <3>1, <3>2
      <3>4. CodeWord(s, n, c) /\ Len(d) = Len(c)
        BY <1>13, <3>2
      <3> QED BY <1>10, <3>3, <3>4, OneSlipIsSeen
    <2>2. CASE TwoSwapped(t, u)
      <3>1. PICK i \in 1..(Len(t) - 1) :
              u[i] = t[i + 1] /\ u[i + 1] = t[i] /\ \A j \in 1..Len(t) : j # i /\ j # i + 1 => u[j] = t[j]
        BY <2>2 DEF TwoSwapped
      <3>2. Len(u) = Len(t)
        BY <2>2 DEF TwoSwapped
      <3>3. \A j \in 1..Len(t) : j # i /\ j # i + 1 => t[j] = s[j]
        BY <1>7, <1>8, <3>1, <3>2
      <3>4. s[i] = t[i + 1] /\ s[i + 1] = t[i]
        <4>1. i \in 1..Len(t) /\ i + 1 \in 1..Len(t)
          BY LenProperties
        <4> QED BY <1>7, <1>8, <3>1, <3>2, <4>1
      <3>5. CodeWord(s, n, c) /\ Len(d) = Len(c)
        BY <1>13, <3>2
      <3> QED BY <1>10, <3>3, <3>4, <3>5, SwapSlipIsSeen
    <2>3. CASE Capitals(t, u)
      BY <2>3 DEF Capitals, s
    <2> QED BY <1>9, <2>1, <2>2, <2>3 DEF Slip
  <1>15. Len(u) = Len(t)
    BY <1>7, <1>14
  <1>16. data = other
    <2>1. /\ Hrp[n] \in Seq(Printable) /\ Plain(Hrp[n]) /\ Hrp[n] # <<>>
      <3>1. Hrp[n] \in Seq(Printable) /\ Plain(Hrp[n]) /\ Len(Hrp[n]) = PrefixLength(n)
        BY <1>5, HrpType
      <3>2. PrefixLength(n) # 0
        BY DEF PrefixLength
      <3> QED BY <3>1, <3>2
    <2>2. WithoutChecksum(DataOf(Write(Hrp[n], data))) = data
      BY <1>5, <2>1, WrittenIsReadable
    <2>3. WithoutChecksum(DataOf(Write(Hrp[n], other))) = other
      BY <1>6, <2>1, WrittenIsReadable
    <2>4. Write(Hrp[n], data) = Write(Hrp[n], other)
      BY <1>5, <1>6, <1>12, <1>14, <1>15 DEF s
    <2> QED BY <2>2, <2>3, <2>4
  <1> QED
    BY <1>5, <1>6, <1>12, <1>15, <1>16

-----------------------------------------------------------------------------
(* The actions make such slips. *)

\* A wrong character, or one in the wrong case, is a slip in one place.
LEMMA ReplacedOne ==
  ASSUME NEW t \in Seq(Nat), NEW i \in DOMAIN t, NEW c \in Nat
  PROVE  Slip(t, ReplaceAt(t, i, c))
  <1> DEFINE u == [t EXCEPT ![i] = c]
             n == Len(t)
  <1>1. n \in Nat /\ DOMAIN t = 1..n /\ t \in [1..n -> Nat] /\ i \in 1..n
    BY LenProperties
  <1>2. u \in [1..n -> Nat] /\ \A j \in 1..n : j # i => u[j] = t[j]
    BY <1>1
  <1> HIDE DEF u, n
  <1>3. u \in Seq(Nat)
    BY <1>1, <1>2, SeqDef
  <1>4. Len(u) = n
    BY <1>1, <1>2, <1>3
  <1>5. Slip(t, u)
    BY <1>1, <1>2, <1>3, <1>4 DEF Slip, OnePlace, n
  <1> QED
    BY <1>5 DEF u, ReplaceAt

\* Swapping two neighbours is such a slip.
LEMMA ReplacedTwo ==
  ASSUME NEW t \in Seq(Nat), NEW i \in 1..(Len(t) - 1)
  PROVE  Slip(t, ReplaceAt(ReplaceAt(t, i, t[i + 1]), i + 1, t[i]))
  <1> DEFINE u == [t EXCEPT ![i] = t[i + 1]]
             v == [u EXCEPT ![i + 1] = t[i]]
             n == Len(t)
  <1>1. n \in Nat /\ DOMAIN t = 1..n /\ t \in [1..n -> Nat]
    BY LenProperties
  <1>2. i \in 1..n /\ i + 1 \in 1..n /\ i # i + 1
    BY <1>1
  <1>3. u \in [1..n -> Nat] /\ u[i] = t[i + 1] /\ \A j \in 1..n : j # i => u[j] = t[j]
    BY <1>1, <1>2
  <1> HIDE DEF u
  <1>4. v \in [1..n -> Nat] /\ v[i + 1] = t[i] /\ \A j \in 1..n : j # i + 1 => v[j] = u[j]
    BY <1>1, <1>2, <1>3
  <1> HIDE DEF v, n
  <1>5. v \in Seq(Nat)
    BY <1>1, <1>4, SeqDef
  <1>6. Len(v) = n
    BY <1>1, <1>4, <1>5
  <1>7. v[i] = t[i + 1] /\ \A j \in 1..n : j # i /\ j # i + 1 => v[j] = t[j]
    BY <1>2, <1>3, <1>4
  <1>8. Slip(t, v)
    BY <1>4, <1>5, <1>6, <1>7 DEF Slip, TwoSwapped, n
  <1> QED
    BY <1>8 DEF u, v, ReplaceAt

\* Writing a key in capitals changes its case alone.
LEMMA AllCapitalsIs ==
  ASSUME NEW t \in Seq(Nat)
  PROVE  Slip(t, [i \in DOMAIN t |-> IF IsLower(t[i]) THEN t[i] - 32 ELSE t[i]])
  <1> DEFINE u == [i \in DOMAIN t |-> IF IsLower(t[i]) THEN t[i] - 32 ELSE t[i]]
             n == Len(t)
  <1>1. n \in Nat /\ DOMAIN t = 1..n /\ \A i \in 1..n : t[i] \in Nat
    BY LenProperties, ElementOfSeq
  <1>2. \A c \in Nat : (IF IsLower(c) THEN c - 32 ELSE c) \in Nat
    BY DEF IsLower
  <1>3. \A i \in 1..n : u[i] = IF IsLower(t[i]) THEN t[i] - 32 ELSE t[i]
    BY <1>1
  <1>4. u \in [1..n -> Nat]
    BY <1>1, <1>2
  <1> HIDE DEF u
  <1>5. u \in Seq(Nat)
    BY <1>1, <1>4, SeqDef
  <1>6. Len(u) = n
    BY <1>1, <1>4, <1>5
  <1>7. /\ LowerCase(t) \in Seq(Nat) /\ Len(LowerCase(t)) = n
        /\ \A i \in 1..n : LowerCase(t)[i] = IF IsUpper(t[i]) THEN t[i] + 32 ELSE t[i]
    BY LowerCaseIs
  <1>8. /\ LowerCase(u) \in Seq(Nat) /\ Len(LowerCase(u)) = n
        /\ \A i \in 1..n : LowerCase(u)[i] = IF IsUpper(u[i]) THEN u[i] + 32 ELSE u[i]
    BY <1>5, <1>6, LowerCaseIs
  <1>9. \A c \in Nat : LET b == IF IsLower(c) THEN c - 32 ELSE c
                       IN  (IF IsUpper(b) THEN b + 32 ELSE b) = IF IsUpper(c) THEN c + 32 ELSE c
    BY DEF IsLower, IsUpper
  <1>10. \A i \in 1..n : LowerCase(u)[i] = LowerCase(t)[i]
    <2>1. ASSUME NEW c, c \in Nat, NEW b, b = IF IsLower(c) THEN c - 32 ELSE c,
                 NEW x, x = IF IsUpper(b) THEN b + 32 ELSE b
          PROVE  x = IF IsUpper(c) THEN c + 32 ELSE c
      BY <1>9, <2>1, Zenon
    <2>2. ASSUME NEW i \in 1..n PROVE LowerCase(u)[i] = LowerCase(t)[i]
      <3>1. t[i] \in Nat
        BY <1>1
      <3>2. LowerCase(u)[i] = IF IsUpper(t[i]) THEN t[i] + 32 ELSE t[i]
        BY <1>3, <1>8, <2>1, <3>1, Zenon
      <3> QED BY <1>7, <3>2, Zenon
    <2> QED BY <2>2, Zenon
  <1>11. LowerCase(u) = LowerCase(t)
    BY <1>7, <1>8, <1>10, SeqEqual
  <1> QED
    BY <1>5, <1>11 DEF Slip, Capitals, u

\* A character left out makes the text shorter by one.
LEMMA RemovedOne ==
  ASSUME NEW t \in Seq(Nat), NEW i \in DOMAIN t
  PROVE  Slip(t, RemoveAt(t, i))
  <1> DEFINE n == Len(t)
             a == SubSeq(t, 1, i - 1)
             b == SubSeq(t, i + 1, n)
  <1>1. n \in Nat /\ i \in 1..n
    BY LenProperties
  <1>2. a \in Seq(Nat) /\ Len(a) = (i - 1) - 1 + 1
    <2>1. 1 \in Nat \ {0} /\ i - 1 \in Nat /\ i - 1 <= Len(t) /\ 1 <= (i - 1) + 1
      BY <1>1
    <2> QED BY <2>1, PartIs
  <1>3. b \in Seq(Nat) /\ Len(b) = n - (i + 1) + 1
    <2>1. i + 1 \in Nat \ {0} /\ n \in Nat /\ n <= Len(t) /\ i + 1 <= n + 1
      BY <1>1
    <2> QED BY <2>1, PartIs
  <1> HIDE DEF a, b
  <1>4. Joins(a \o b, a, b, Nat)
    BY <1>2, <1>3, Joined
  <1>5. a \o b \in Seq(Nat) /\ Len(a \o b) = Len(a) + Len(b)
    BY <1>4 DEF Joins
  <1>6. Len(a \o b) = n - 1
    BY <1>1, <1>2, <1>3, <1>5
  <1>7. Slip(t, a \o b)
    BY <1>5, <1>6 DEF Slip, OneMoreOrLess
  <1> QED
    BY <1>7 DEF RemoveAt, a, b

\* A character written twice makes it longer by one.
LEMMA InsertedOne ==
  ASSUME NEW t \in Seq(Nat), NEW i \in DOMAIN t, NEW c \in Nat
  PROVE  Slip(t, InsertAt(t, i, c))
  <1> DEFINE n == Len(t)
             a == SubSeq(t, 1, i - 1)
             e == <<c>>
             b == SubSeq(t, i, n)
             ae == a \o e
             aeb == ae \o b
  <1>1. n \in Nat /\ i \in 1..n
    BY LenProperties
  <1>2. a \in Seq(Nat) /\ Len(a) = (i - 1) - 1 + 1
    <2>1. 1 \in Nat \ {0} /\ i - 1 \in Nat /\ i - 1 <= Len(t) /\ 1 <= (i - 1) + 1
      BY <1>1
    <2> QED BY <2>1, PartIs
  <1>3. b \in Seq(Nat) /\ Len(b) = n - i + 1
    <2>1. i \in Nat \ {0} /\ n \in Nat /\ n <= Len(t) /\ i <= n + 1
      BY <1>1
    <2> QED BY <2>1, PartIs
  <1>4. e \in Seq(Nat) /\ Len(e) = 1
    OBVIOUS
  <1> HIDE DEF a, b, e
  <1>5. Joins(ae, a, e, Nat)
    BY <1>2, <1>4, Joined
  <1> HIDE DEF ae
  <1>6. ae \in Seq(Nat) /\ Len(ae) = Len(a) + Len(e)
    BY <1>5 DEF Joins
  <1>7. Joins(aeb, ae, b, Nat)
    BY <1>3, <1>6, Joined
  <1> HIDE DEF aeb
  <1>8. aeb \in Seq(Nat) /\ Len(aeb) = Len(ae) + Len(b)
    BY <1>7 DEF Joins
  <1>9. Len(aeb) = n + 1
    <2>1. Len(a) = i - 1 /\ Len(b) = n - i + 1 /\ i \in Nat
      BY <1>1, <1>2, <1>3
    <2>2. Len(aeb) = (Len(a) + 1) + Len(b)
      BY <1>4, <1>6, <1>8
    <2> QED BY <1>1, <2>1, <2>2
  <1>10. Slip(t, aeb)
    BY <1>8, <1>9 DEF Slip, OneMoreOrLess
  <1> QED
    BY <1>10 DEF InsertAt, a, b, e, ae, aeb

\* Every action of the copyist makes one.
LEMMA DamageIsSlip ==
  ASSUME CodecAssumption, text \in Seq(Nat), Damage
  PROVE  Slip(text, text') /\ damages < MaxDamages /\ damages' = damages + 1 /\ key' = key /\ key # None
  <1>1. ASSUME NEW t, Copy(t)
        PROVE  text' = t /\ damages < MaxDamages /\ damages' = damages + 1 /\ key' = key /\ key # None
    BY <1>1 DEF Copy
  <1>2. \A i \in DOMAIN text : text[i] \in Nat
    BY ElementOfSeq, LenProperties
  <1>3. CASE WrongCharacter
    <2>1. PICK i \in DOMAIN text, c \in Codes : Copy(ReplaceAt(text, i, c))
      BY <1>3 DEF WrongCharacter
    <2>2. c \in Nat
      BY DEF CodecAssumption
    <2> QED BY <1>1, <2>1, <2>2, ReplacedOne
  <1>4. CASE WrongCase
    <2>1. PICK i \in DOMAIN text : IsLower(text[i]) /\ Copy(ReplaceAt(text, i, text[i] - 32))
      BY <1>4 DEF WrongCase
    <2>2. text[i] - 32 \in Nat
      <3>1. \A c \in Nat : IsLower(c) => c - 32 \in Nat
        BY DEF IsLower
      <3> QED BY <1>2, <2>1, <3>1
    <2> QED BY <1>1, <2>1, <2>2, ReplacedOne
  <1>5. CASE AllCapitals
    BY <1>1, <1>5, AllCapitalsIs DEF AllCapitals
  <1>6. CASE Swapped
    <2>1. PICK i \in 1..(Len(text) - 1) : Copy(ReplaceAt(ReplaceAt(text, i, text[i + 1]), i + 1, text[i]))
      BY <1>6 DEF Swapped
    <2> QED BY <1>1, <2>1, ReplacedTwo
  <1>7. CASE LeftOut
    <2>1. PICK i \in DOMAIN text : Copy(RemoveAt(text, i))
      BY <1>7 DEF LeftOut
    <2> QED BY <1>1, <2>1, RemovedOne
  <1>8. CASE Twice
    <2>1. PICK i \in DOMAIN text : Copy(InsertAt(text, i, text[i]))
      BY <1>8 DEF Twice
    <2>2. text[i] \in Nat
      BY <1>2
    <2> QED BY <1>1, <2>1, <2>2, InsertedOne
  <1> QED
    BY <1>3, <1>4, <1>5, <1>6, <1>7, <1>8 DEF Damage

-----------------------------------------------------------------------------
(* The texts. *)

\* A text is a sequence of numbers, and printable before it is damaged.
TextInv ==
  /\ damages \in Nat
  /\ text # Refused => text \in Seq(Nat)
  /\ text # Refused /\ damages = 0 => text \in Seq(Printable)

\* What bech32Decode lets pass, its toLowerCase included, has codes below 128.
LEMMA PrintableText ==
  ASSUME NEW t \in Seq(Printable)
  PROVE  t \in Seq(Nat) /\ LowerCase(t) \in Seq(0..127)
  <1>1. \A i \in 1..Len(t) : t[i] \in Printable
    BY ElementOfSeq
  <1>2. \A i \in 1..Len(t) : t[i] \in Nat /\ (IF IsUpper(t[i]) THEN t[i] + 32 ELSE t[i]) \in 0..127
    BY <1>1, PrintableIs
  <1>3. t \in Seq(Nat)
    BY <1>2, SeqFrom
  <1>4. /\ LowerCase(t) \in Seq(Nat) /\ Len(LowerCase(t)) = Len(t)
        /\ \A i \in 1..Len(t) : LowerCase(t)[i] = IF IsUpper(t[i]) THEN t[i] + 32 ELSE t[i]
    BY <1>3, LowerCaseIs
  <1>5. \A i \in 1..Len(LowerCase(t)) : LowerCase(t)[i] \in 0..127
    BY <1>2, <1>4
  <1>6. LowerCase(t) \in Seq(0..127)
    BY <1>4, <1>5, SeqFrom
  <1> QED
    BY <1>3, <1>6

\* What bech32Encode writes with a printable prefix is printable.
LEMMA WrittenPrintable ==
  ASSUME NEW hrp \in Seq(Printable), NEW data \in Seq(SUBSET (0..4))
  PROVE  Write(hrp, data) \in Seq(Printable)
  <1> DEFINE x == CreateChecksum(hrp, data)
             d == data \o x
             t == Text(hrp, d)
             h == Len(hrp)
             n == Len(d)
  <1>1. data \in Seq(Chars)
    BY DEF Chars
  <1>2. \A i \in 1..h : hrp[i] \in Printable
    BY ElementOfSeq
  <1>3. hrp \in Seq(0..127) /\ hrp \in Seq(Nat)
    <2>1. \A i \in 1..h : hrp[i] \in 0..127 /\ hrp[i] \in Nat
      BY <1>2, PrintableIs
    <2>2. hrp \in Seq(0..127)
      BY <2>1, SeqFrom
    <2>3. hrp \in Seq(Nat)
      BY <2>1, SeqFrom
    <2> QED BY <2>2, <2>3
  <1>4. x \in [1..6 -> Chars]
    <2>1. HrpExpand(hrp) \in Seq(Chars)
      BY <1>3, ExpandType
    <2> QED BY <1>1, <2>1, ChecksumIsTheOne
  <1>5. Write(hrp, data) = t
    BY WriteIsText
  <1> HIDE DEF x
  <1>6. d \in Seq(Chars)
    BY <1>1, <1>4, WithoutSix
  <1> HIDE DEF d
  <1>7. /\ t \in Seq(Nat) /\ Len(t) = h + 1 + n
        /\ \A i \in 1..h : t[i] = hrp[i]
        /\ t[h + 1] = Separator
        /\ \A i \in 1..n : t[h + 1 + i] = Symbol(d[i])
    BY <1>3, <1>6, InText
  <1>8. h \in Nat /\ n \in Nat /\ \A i \in 1..n : d[i] \in Chars
    BY <1>6, ElementOfSeq, LenProperties
  <1> HIDE DEF t, h, n
  <1>9. ASSUME NEW i \in 1..Len(t) PROVE t[i] \in Printable
    <2>1. CASE i \in 1..h
      BY <1>2, <1>7, <2>1
    <2>2. CASE i = h + 1
      <3>1. Separator \in Printable
        BY DEF Separator, Printable
      <3> QED BY <1>7, <2>2, <3>1
    <2>3. CASE i \in (h + 2)..Len(t)
      <3>1. i - (h + 1) \in 1..n /\ h + 1 + (i - (h + 1)) = i
        BY <1>7, <1>8, <2>3
      <3>2. t[i] = Symbol(d[i - (h + 1)]) /\ d[i - (h + 1)] \in Chars
        BY <1>7, <1>8, <3>1
      <3> QED BY <3>2, SymbolType
    <2> QED BY <1>7, <1>8, <2>1, <2>2, <2>3
  <1>10. t \in Seq(Printable)
    BY <1>7, <1>9, SeqFrom
  <1> QED
    BY <1>5, <1>10

\* A text is no exception.
LEMMA NotRefused ==
  ASSUME CodecAssumption, NEW t \in Seq(Nat)
  PROVE  t # Refused
  BY DEF CodecAssumption

\* TextInv holds at first.
LEMMA TextInvInit == Init => TextInv
  BY DEF Init, TextInv

\* Issuing, writing and copying preserve TextInv.
LEMMA TextInvNext ==
  ASSUME CodecAssumption, TextInv, [Next]_vars
  PROVE  TextInv'
  <1>1. ASSUME NEW k \in Keys, Issue(k) PROVE TextInv'
    <2>1. k \in KeyTypes
      BY DEF CodecAssumption
    <2>2. EncodeApiKey(k) \in Seq(Printable) /\ EncodeApiKey(k) \in Seq(Nat)
      BY <1>1, <2>1, DecodesWhatItEncodes DEF Issue
    <2> QED BY <1>1, <2>2 DEF Issue, TextInv
  <1>2. ASSUME NEW p \in Published, IssuePublished(p) PROVE TextInv'
    <2>1. p.text \in Seq(Printable)
      BY DEF CodecAssumption
    <2>2. p.text \in Seq(Nat)
      BY <2>1, PrintableText
    <2> QED BY <1>2, <2>1, <2>2 DEF IssuePublished, TextInv
  <1>3. ASSUME NEW f \in Foreign, IssueForeign(f) PROVE TextInv'
    <2>1. f.hrp \in Seq(Printable) /\ f.data \in Seq(SUBSET (0..4))
      BY DEF CodecAssumption
    <2>2. Write(f.hrp, f.data) \in Seq(Printable)
      BY <2>1, WrittenPrintable
    <2>3. Write(f.hrp, f.data) \in Seq(Nat)
      BY <2>2, PrintableText
    <2> QED BY <1>3, <2>2, <2>3 DEF IssueForeign, TextInv
  <1>4. CASE Damage
    <2>1. text # Refused
      BY <1>4 DEF Damage
    <2>2. text \in Seq(Nat)
      BY <2>1 DEF TextInv
    <2>3. Slip(text, text') /\ damages' = damages + 1
      BY <1>4, <2>2, DamageIsSlip
    <2>4. text' \in Seq(Nat)
      BY <2>3 DEF Slip
    <2>5. damages' \in Nat /\ damages' # 0
      BY <2>3 DEF TextInv
    <2> QED BY <2>4, <2>5 DEF TextInv
  <1>5. CASE UNCHANGED vars
    BY <1>5 DEF vars, TextInv
  <1> QED
    BY <1>1, <1>2, <1>3, <1>4, <1>5 DEF Next

\* The type invariant: what is handed to decodeApiKey is a sequence of character codes,
\* and a printable one as long as no slip was made.
THEOREM TextIsSequence == Spec => []TextInv
  <1>1. TextInv /\ [Next]_vars => TextInv'
    BY CodecAssumption, TextInvNext
  <1> QED
    BY TextInvInit, <1>1, PTL DEF Spec

\* A key has one text: what decodeApiKey accepts, encodeApiKey would write again.
THEOREM CanonicalHolds == Spec => []AcceptedIsCanonical
  <1>1. TextInv => AcceptedIsCanonical
    BY CodecAssumption, AcceptedIsEncoded DEF TextInv, AcceptedIsCanonical
  <1>2. Spec => []TextInv
    BY TextIsSequence
  <1> QED
    BY <1>1, <1>2, PTL

\* polymod computes the remainder of the cyclic code for every text that is handed on.
THEOREM ChecksumHolds == Spec => []ChecksumIsRemainder
  <1>1. TextInv => ChecksumIsRemainder
    <2> SUFFICES ASSUME TextInv, text # Refused, damages = 0
                 PROVE  LET values == HrpExpand(LowerCase(text))
                        IN  Polymod(values) = UNION {ShiftLeft(Remainder(values)[i], 5 * (6 - i)) : i \in 1..6}
      BY DEF ChecksumIsRemainder
    <2>1. text \in Seq(Printable)
      BY DEF TextInv
    <2>2. HrpExpand(LowerCase(text)) \in Seq(Chars)
      BY <2>1, PrintableText, ExpandType
    <2> QED BY <2>2, PolymodIsRemainder DEF Placed
  <1>2. Spec => []TextInv
    BY TextIsSequence
  <1> QED
    BY <1>1, <1>2, PTL

-----------------------------------------------------------------------------
(* The keys. *)

\* One slip in the text of a key, of any kind and in any place, is refused by
\* decodeApiKey or leaves the key what it was.
THEOREM OneSlipIsHarmless ==
  ASSUME NEW k \in KeyTypes, EncodeApiKey(k) # Refused, NEW u, Slip(EncodeApiKey(k), u)
  PROVE  DecodeApiKey(u) \in {Normalized(k), Refused}
  <1> DEFINE t == EncodeApiKey(k)
  <1>1. /\ t \in Seq(Nat) /\ LowerCase(t) = t /\ DecodeApiKey(t) = Normalized(k)
        /\ Accepted(t, k.method, ToChars(PayloadOf(k)))
    BY CodecAssumption, DecodesWhatItEncodes
  <1> HIDE DEF t
  <1>2. Slip(t, u)
    BY DEF t
  <1>3. DecodeApiKey(u) # Refused => DecodeApiKey(u) = DecodeApiKey(t)
    BY <1>1, <1>2, SlipIsSeen
  <1> QED
    BY <1>1, <1>3

\* The service writes the texts that the codec writes.
PublishedAgrees == \A p \in Published : p.text = EncodeApiKey(p.key)

\* The inductive invariant of KeyOrRefusal: an undamaged text of a key is what
\* encodeApiKey writes for it, and a damaged one is a slip away from that.
KeyInv ==
  /\ TextInv
  /\ text = Refused => key = None
  /\ KeyOrRefusal
  /\ key # None /\ damages = 0 => key \in KeyTypes /\ text = EncodeApiKey(key)

\* Issuing and one slip of the copyist preserve KeyInv.
LEMMA KeyInvNext ==
  ASSUME CodecAssumption, MaxDamages <= 1, PublishedAgrees, KeyInv, [Next]_vars
  PROVE  KeyInv'
  <1>1. TextInv /\ TextInv'
    BY TextInvNext DEF KeyInv
  <1>2. ASSUME NEW k \in KeyTypes, key' = k, text' = EncodeApiKey(k), EncodeApiKey(k) # Refused
        PROVE KeyInv'
    <2>1. DecodeApiKey(EncodeApiKey(k)) = Normalized(k)
      BY <1>2, DecodesWhatItEncodes
    <2>2. KeyOrRefusal'
      BY <1>2, <2>1 DEF KeyOrRefusal
    <2> QED BY <1>1, <1>2, <2>2 DEF KeyInv
  <1>3. ASSUME NEW k \in Keys, Issue(k) PROVE KeyInv'
    <2>1. k \in KeyTypes
      BY DEF CodecAssumption
    <2> QED BY <1>2, <1>3, <2>1 DEF Issue
  <1>4. ASSUME NEW p \in Published, IssuePublished(p) PROVE KeyInv'
    <2>1. p.key \in KeyTypes /\ p.text \in Seq(Printable)
      BY DEF CodecAssumption
    <2>2. p.text # Refused
      BY <2>1, PrintableText, NotRefused
    <2> QED BY <1>2, <1>4, <2>1, <2>2 DEF IssuePublished, PublishedAgrees
  <1>5. ASSUME NEW f \in Foreign, IssueForeign(f) PROVE KeyInv'
    <2>1. key' = None
      BY <1>5 DEF IssueForeign, KeyInv
    <2> QED BY <1>1, <2>1 DEF KeyInv, KeyOrRefusal
  <1>6. CASE Damage
    <2>1. text # Refused
      BY <1>6 DEF Damage
    <2>2. text \in Seq(Nat)
      BY <1>1, <2>1 DEF TextInv
    <2>3. Slip(text, text') /\ damages < MaxDamages /\ damages' = damages + 1 /\ key' = key /\ key # None
      BY <1>6, <2>2, DamageIsSlip
    <2>4. damages = 0 /\ damages' # 0
      BY <1>1, <2>3 DEF TextInv, CodecAssumption
    <2>5. key \in KeyTypes /\ text = EncodeApiKey(key)
      BY <2>3, <2>4 DEF KeyInv
    <2>6. DecodeApiKey(text') \in {Normalized(key), Refused}
      BY <2>1, <2>3, <2>5, OneSlipIsHarmless
    <2>7. KeyOrRefusal'
      BY <2>3, <2>4, <2>6 DEF KeyOrRefusal
    <2>8. text' # Refused
      BY <2>3, NotRefused DEF Slip
    <2> QED BY <1>1, <2>4, <2>7, <2>8 DEF KeyInv
  <1>7. CASE UNCHANGED vars
    BY <1>1, <1>7 DEF vars, KeyInv, KeyOrRefusal
  <1> QED
    BY <1>3, <1>4, <1>5, <1>6, <1>7 DEF Next

\* A key that was issued is read back as it was given; one slip of the copyist, of any
\* kind and in any place, is refused or harmless, and never gives another key.  The texts
\* of the service are assumed to be those of the codec (src/test_api_key_v1.js compares
\* them), and the copyist makes one slip.
THEOREM KeyOrRefusalHolds ==
  ASSUME MaxDamages <= 1, PublishedAgrees
  PROVE  Spec => []KeyOrRefusal
  <1>1. Init => KeyInv
    BY TextInvInit DEF Init, KeyInv, KeyOrRefusal
  <1>2. KeyInv /\ [Next]_vars => KeyInv'
    BY CodecAssumption, KeyInvNext
  <1>3. KeyInv => KeyOrRefusal
    BY DEF KeyInv
  <1> QED
    BY <1>1, <1>2, <1>3, PTL DEF Spec
=============================================================================
