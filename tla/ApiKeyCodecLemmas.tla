-------------------------- MODULE ApiKeyCodecLemmas -------------------------
(***************************************************************************)
(* What the algorithms of the codec compute, for all inputs: the loop of   *)
(* polymod, the checksum and the division that it stands for; the loop of  *)
(* convertBits; the characters; the quota word.  Loops are recursive       *)
(* functions of the model: what they compute is proved by induction on the *)
(* number of turns, with an invariant for each.                            *)
(***************************************************************************)
EXTENDS ApiKeyCodec, SequenceTheorems, RecursionLemmas

-----------------------------------------------------------------------------
(* Words. *)

\* The exclusive or of two words, bit by bit.
LEMMA InXor ==
  ASSUME NEW v, NEW w, NEW p
  PROVE  p \in SymDiff(v, w) <=> ~ (p \in v <=> p \in w)
  BY DEF SymDiff

\* A word is the exclusive or of two others if it is so bit by bit.
LEMMA IsXor ==
  ASSUME NEW x, NEW v, NEW w, \A p : p \in x <=> ~ (p \in v <=> p \in w)
  PROVE  x = SymDiff(v, w)
  <1>1. \A p : p \in x <=> p \in SymDiff(v, w)
    BY InXor
  <1> QED
    BY <1>1

\* The bits that a mask of n ones keeps (& of the code).
LEMMA InLow ==
  ASSUME NEW w, NEW n \in Nat, NEW p
  PROVE  p \in Low(w, n) <=> p \in w /\ p \in 0..(n - 1)
  BY DEF Low

\* The bits of a word that << has moved up.
LEMMA InShiftLeft ==
  ASSUME NEW w \in SUBSET Nat, NEW n \in Nat, NEW p
  PROVE  p \in ShiftLeft(w, n) <=> p \in Nat /\ p - n \in w
  BY DEF ShiftLeft

\* The bits of a word that >>> has moved down.
LEMMA InShiftRight ==
  ASSUME NEW w \in SUBSET Nat, NEW n \in Nat, NEW p
  PROVE  p \in ShiftRight(w, n) <=> p \in Nat /\ p + n \in w
  BY DEF ShiftRight

\* The eight bits of a number below 256.
LEMMA InBits ==
  ASSUME NEW n \in Nat
  PROVE  /\ Bits(n) \subseteq 0..7
         /\ 0 \in Bits(n) <=> n % 2 = 1
         /\ 1 \in Bits(n) <=> (n \div 2) % 2 = 1
         /\ 2 \in Bits(n) <=> (n \div 4) % 2 = 1
         /\ 3 \in Bits(n) <=> (n \div 8) % 2 = 1
         /\ 4 \in Bits(n) <=> (n \div 16) % 2 = 1
         /\ 5 \in Bits(n) <=> (n \div 32) % 2 = 1
         /\ 6 \in Bits(n) <=> (n \div 64) % 2 = 1
         /\ 7 \in Bits(n) <=> (n \div 128) % 2 = 1
  <1>1. /\ Weight[0 + 1] = 1 /\ Weight[1 + 1] = 2 /\ Weight[2 + 1] = 4 /\ Weight[3 + 1] = 8
        /\ Weight[4 + 1] = 16 /\ Weight[5 + 1] = 32 /\ Weight[6 + 1] = 64 /\ Weight[7 + 1] = 128
    BY DEF Weight
  <1>2. n \div 1 = n
    OBVIOUS
  <1> QED
    BY <1>1, <1>2 DEF Bits

\* A number below 256, a byte of the code, is the sum of the weights of its ones.
LEMMA BitsSum ==
  ASSUME NEW n \in 0..255
  PROVE  n = (IF 0 \in Bits(n) THEN 1 ELSE 0) + (IF 1 \in Bits(n) THEN 2 ELSE 0)
             + (IF 2 \in Bits(n) THEN 4 ELSE 0) + (IF 3 \in Bits(n) THEN 8 ELSE 0)
             + (IF 4 \in Bits(n) THEN 16 ELSE 0) + (IF 5 \in Bits(n) THEN 32 ELSE 0)
             + (IF 6 \in Bits(n) THEN 64 ELSE 0) + (IF 7 \in Bits(n) THEN 128 ELSE 0)
  <1>1. n \in Nat
    OBVIOUS
  <1> QED
    BY <1>1, InBits

\* Every word of eight bits is that of some number below 256.
LEMMA SomeNumber ==
  ASSUME NEW w \in SUBSET (0..7)
  PROVE  \E n \in 0..255 : Bits(n) = w
  <1> DEFINE n == (IF 0 \in w THEN 1 ELSE 0) + (IF 1 \in w THEN 2 ELSE 0)
             + (IF 2 \in w THEN 4 ELSE 0) + (IF 3 \in w THEN 8 ELSE 0)
             + (IF 4 \in w THEN 16 ELSE 0) + (IF 5 \in w THEN 32 ELSE 0)
             + (IF 6 \in w THEN 64 ELSE 0) + (IF 7 \in w THEN 128 ELSE 0)
  <1>1. n \in 0..255
    OBVIOUS
  <1>2. n \in Nat
    BY <1>1
  <1>3. 0 \in w <=> n % 2 = 1
    OBVIOUS
  <1>4. 1 \in w <=> (n \div 2) % 2 = 1
    OBVIOUS
  <1>5. 2 \in w <=> (n \div 4) % 2 = 1
    OBVIOUS
  <1>6. 3 \in w <=> (n \div 8) % 2 = 1
    OBVIOUS
  <1>7. 4 \in w <=> (n \div 16) % 2 = 1
    OBVIOUS
  <1>8. 5 \in w <=> (n \div 32) % 2 = 1
    OBVIOUS
  <1>9. 6 \in w <=> (n \div 64) % 2 = 1
    OBVIOUS
  <1>10. 7 \in w <=> (n \div 128) % 2 = 1
    OBVIOUS
  <1> HIDE DEF n
  <1>11. /\ Bits(n) \subseteq 0..7
         /\ 0 \in Bits(n) <=> 0 \in w
         /\ 1 \in Bits(n) <=> 1 \in w
         /\ 2 \in Bits(n) <=> 2 \in w
         /\ 3 \in Bits(n) <=> 3 \in w
         /\ 4 \in Bits(n) <=> 4 \in w
         /\ 5 \in Bits(n) <=> 5 \in w
         /\ 6 \in Bits(n) <=> 6 \in w
         /\ 7 \in Bits(n) <=> 7 \in w
    BY <1>2, <1>3, <1>4, <1>5, <1>6, <1>7, <1>8, <1>9, <1>10, InBits
  <1>12. Bits(n) = w
    <2>1. \A k \in 0..7 : k \in Bits(n) <=> k \in w
      BY <1>11
    <2> QED BY <2>1, <1>11
  <1> QED
    BY <1>1, <1>12

\* Numbers below 256 and words of eight bits are the same.
LEMMA NumberOfWord ==
  ASSUME NEW w \in SUBSET (0..7)
  PROVE  Number[w] \in 0..255 /\ Bits(Number[w]) = w
  <1>1. Number[w] = CHOOSE n \in 0..255 : Bits(n) = w
    BY DEF Number
  <1>2. \E n \in 0..255 : Bits(n) = w
    BY SomeNumber, Zenon
  <1> QED
    BY <1>1, <1>2, Zenon

\* A byte's word has that byte as its number: the index that bech32Encode uses.
LEMMA NumberOfBits ==
  ASSUME NEW n \in 0..255
  PROVE  Bits(n) \in SUBSET (0..7) /\ Number[Bits(n)] = n
  <1>1. n \in Nat
    OBVIOUS
  <1>2. Bits(n) \in SUBSET (0..7)
    BY <1>1, InBits
  <1> DEFINE m == Number[Bits(n)]
  <1>3. m \in 0..255 /\ Bits(m) = Bits(n)
    BY <1>2, NumberOfWord
  <1> HIDE DEF m
  <1> DEFINE Sum(w) == (IF 0 \in w THEN 1 ELSE 0) + (IF 1 \in w THEN 2 ELSE 0)
             + (IF 2 \in w THEN 4 ELSE 0) + (IF 3 \in w THEN 8 ELSE 0)
             + (IF 4 \in w THEN 16 ELSE 0) + (IF 5 \in w THEN 32 ELSE 0)
             + (IF 6 \in w THEN 64 ELSE 0) + (IF 7 \in w THEN 128 ELSE 0)
  <1>4. m = n
    <2>1. n = Sum(Bits(n))
      BY BitsSum
    <2>2. m = Sum(Bits(m))
      BY <1>3, BitsSum
    <2> HIDE DEF Sum
    <2> QED BY <1>3, <2>1, <2>2
  <1> QED
    BY <1>2, <1>4 DEF m

\* A number is small if its word is short, and the other way around.
LEMMA ShortWords ==
  ASSUME NEW n \in 0..255
  PROVE  /\ n < 32 <=> Bits(n) \subseteq 0..4
         /\ n < 16 <=> Bits(n) \subseteq 0..3
  <1>1. n \in Nat
    OBVIOUS
  <1>2. n < 32 <=> 5 \notin Bits(n) /\ 6 \notin Bits(n) /\ 7 \notin Bits(n)
    BY BitsSum, <1>1, InBits
  <1>3. n < 16 <=> 4 \notin Bits(n) /\ 5 \notin Bits(n) /\ 6 \notin Bits(n) /\ 7 \notin Bits(n)
    BY BitsSum, <1>1, InBits
  <1>4. Bits(n) \subseteq 0..7
    BY <1>1, InBits
  <1> QED
    BY <1>2, <1>3, <1>4

-----------------------------------------------------------------------------
(* The register of the checksum. *)

\* Words of five bits, the values of Bech32, and of thirty, its register.
Chars == SUBSET (0..4)
Registers == SUBSET (0..29)

\* The table GEN of polymod holds words of thirty bits.
LEMMA GenType == \A i \in 1..5 : GEN[i] \in Registers
  BY DEF GEN, Registers

\* The loop of polymod over the five bits b that left the register, bit by bit.
LEMMA InFeedback ==
  ASSUME NEW b \in Chars, NEW p
  PROVE  p \in Feedback[b]
           <=> ~ (~ (~ (~ ((0 \in b /\ p \in GEN[1])
                     <=> (1 \in b /\ p \in GEN[2]))
                     <=> (2 \in b /\ p \in GEN[3]))
                     <=> (3 \in b /\ p \in GEN[4]))
                     <=> (4 \in b /\ p \in GEN[5]))
  <1> DEFINE add(i, x) == IF i \in b THEN SymDiff(x, GEN[i + 1]) ELSE x
  <1>1. Feedback[b] = add(4, add(3, add(2, add(1, add(0, {})))))
    BY DEF Feedback, Chars
  <1>2. \A i, x : p \in add(i, x) <=> ~ (p \in x <=> (i \in b /\ p \in GEN[i + 1]))
    BY DEF SymDiff
  <1> HIDE DEF add
  <1>3. 0 + 1 = 1 /\ 1 + 1 = 2 /\ 2 + 1 = 3 /\ 3 + 1 = 4 /\ 4 + 1 = 5
    OBVIOUS
  <1>4. p \in add(0, {}) <=> (0 \in b /\ p \in GEN[1])
    BY <1>2, <1>3
  <1>5. p \in add(1, add(0, {})) <=> ~ (p \in add(0, {}) <=> (1 \in b /\ p \in GEN[2]))
    BY <1>2, <1>3
  <1>6. p \in add(2, add(1, add(0, {})))
          <=> ~ (p \in add(1, add(0, {})) <=> (2 \in b /\ p \in GEN[3]))
    BY <1>2, <1>3
  <1>7. p \in add(3, add(2, add(1, add(0, {}))))
          <=> ~ (p \in add(2, add(1, add(0, {}))) <=> (3 \in b /\ p \in GEN[4]))
    BY <1>2, <1>3
  <1>8. p \in add(4, add(3, add(2, add(1, add(0, {})))))
          <=> ~ (p \in add(3, add(2, add(1, add(0, {})))) <=> (4 \in b /\ p \in GEN[5]))
    BY <1>2, <1>3
  <1> QED
    BY <1>1, <1>4, <1>5, <1>6, <1>7, <1>8

\* What that loop adds fits the register.
LEMMA FeedbackType ==
  ASSUME NEW b \in Chars
  PROVE  Feedback[b] \in Registers
  <1>1. ASSUME NEW p \in Feedback[b] PROVE p \in 0..29
    <2>1. \E i \in 1..5 : p \in GEN[i]
      BY <1>1, InFeedback
    <2> QED BY <2>1, GenType DEF Registers
  <1> QED
    BY <1>1 DEF Registers

\* What it adds for the exclusive or of two values is the exclusive or of what it adds.
LEMMA FeedbackLinear ==
  ASSUME NEW b \in Chars, NEW c \in Chars
  PROVE  Feedback[SymDiff(b, c)] = SymDiff(Feedback[b], Feedback[c])
  <1>1. SymDiff(b, c) \in Chars
    BY DEF SymDiff, Chars
  <1>2. ASSUME NEW p
        PROVE  p \in Feedback[SymDiff(b, c)] <=> ~ (p \in Feedback[b] <=> p \in Feedback[c])
    <2>1. \A k : k \in SymDiff(b, c) <=> ~ (k \in b <=> k \in c)
      BY InXor
    <2> QED BY <1>1, <2>1, InFeedback, SMT
  <1> QED
    BY <1>2, IsXor

\* The low bits of the feedback tell which bits left the register.
LEMMA FeedbackInjective ==
  ASSUME NEW b \in Chars, NEW c \in Chars,
         \A p \in 0..4 : p \in Feedback[b] <=> p \in Feedback[c]
  PROVE  b = c
  <1>1. /\ 0 \notin GEN[1] /\ 0 \in GEN[2] /\ 0 \notin GEN[3] /\ 0 \in GEN[4] /\ 0 \in GEN[5]
        /\ 1 \in GEN[1] /\ 1 \notin GEN[2] /\ 1 \in GEN[3] /\ 1 \notin GEN[4] /\ 1 \in GEN[5]
        /\ 2 \notin GEN[1] /\ 2 \in GEN[2] /\ 2 \notin GEN[3] /\ 2 \in GEN[4] /\ 2 \notin GEN[5]
        /\ 3 \notin GEN[1] /\ 3 \in GEN[2] /\ 3 \in GEN[3] /\ 3 \in GEN[4] /\ 3 \notin GEN[5]
        /\ 4 \in GEN[1] /\ 4 \notin GEN[2] /\ 4 \in GEN[3] /\ 4 \in GEN[4] /\ 4 \in GEN[5]
    BY DEF GEN
  <1>2. \A x \in {b, c} :
          /\ 0 \in Feedback[x] <=> ~ (~ (1 \in x <=> 3 \in x) <=> 4 \in x)
          /\ 1 \in Feedback[x] <=> ~ (~ (0 \in x <=> 2 \in x) <=> 4 \in x)
          /\ 2 \in Feedback[x] <=> ~ (1 \in x <=> 3 \in x)
          /\ 3 \in Feedback[x] <=> ~ (~ (1 \in x <=> 2 \in x) <=> 3 \in x)
          /\ 4 \in Feedback[x] <=> ~ (~ (~ (0 \in x <=> 2 \in x) <=> 3 \in x) <=> 4 \in x)
    BY <1>1, InFeedback, SMT
  <1>3. \A k \in 0..4 : k \in b <=> k \in c
    BY <1>2, SMT
  <1> QED
    BY <1>3 DEF Chars

\* The five bits that leave the register of polymod, b = chk >>> 25.
LEMMA InOverflow ==
  ASSUME NEW chk \in Registers
  PROVE  /\ ShiftRight(chk, 25) \in Chars
         /\ \A k : k \in ShiftRight(chk, 25) <=> k \in Nat /\ k + 25 \in chk
  <1>1. chk \in SUBSET Nat /\ 25 \in Nat
    BY DEF Registers
  <1>2. \A k : k \in ShiftRight(chk, 25) <=> k \in Nat /\ k + 25 \in chk
    BY <1>1, InShiftRight
  <1> QED
    BY <1>2 DEF Chars, Registers

\* A turn of polymod, bit by bit.
LEMMA InAbsorb ==
  ASSUME NEW chk \in Registers, NEW v \in Chars
  PROVE  \A p : p \in Absorb(v)[chk]
                  <=> ~ (~ ((p \in 5..29 /\ p - 5 \in chk) <=> p \in v)
                         <=> p \in Feedback[ShiftRight(chk, 25)])
  <1>1. chk \in SUBSET Nat /\ 5 \in Nat
    BY DEF Registers
  <1>4. \A p : p \in Low(chk, 25) <=> p \in chk /\ p \in 0..24
    BY DEF Low
  <1>5. Low(chk, 25) \in SUBSET Nat
    BY <1>4
  <1>6. \A p : p \in ShiftLeft(Low(chk, 25), 5) <=> p \in Nat /\ p - 5 \in Low(chk, 25)
    BY <1>1, <1>5, InShiftLeft
  <1>7. \A p : p \in ShiftLeft(Low(chk, 25), 5) <=> p \in 5..29 /\ p - 5 \in chk
    BY <1>4, <1>6
  <1>8. Absorb(v)[chk] = SymDiff(SymDiff(ShiftLeft(Low(chk, 25), 5), v), Feedback[ShiftRight(chk, 25)])
    BY DEF Absorb, Chars, Registers
  <1> QED
    BY <1>7, <1>8, InXor

\* The register of polymod never exceeds thirty bits.
LEMMA AbsorbType ==
  ASSUME NEW chk \in Registers, NEW v \in Chars
  PROVE  Absorb(v)[chk] \in Registers
  <1>1. \A p : p \in Absorb(v)[chk] => p \in 5..29 \/ p \in v \/ p \in Feedback[ShiftRight(chk, 25)]
    BY InAbsorb
  <1>2. Feedback[ShiftRight(chk, 25)] \in Registers
    BY InOverflow, FeedbackType
  <1> QED
    BY <1>1, <1>2 DEF Registers, Chars

\* A turn of polymod is linear: differences of registers and values are carried through.
LEMMA AbsorbLinear ==
  ASSUME NEW c \in Registers, NEW d \in Registers, NEW v \in Chars, NEW w \in Chars
  PROVE  Absorb(SymDiff(v, w))[SymDiff(c, d)] = SymDiff(Absorb(v)[c], Absorb(w)[d])
  <1>1. SymDiff(c, d) \in Registers /\ SymDiff(v, w) \in Chars
    BY DEF SymDiff, Registers, Chars
  <1>2. ShiftRight(SymDiff(c, d), 25) = SymDiff(ShiftRight(c, 25), ShiftRight(d, 25))
    <2>1. \A k : k \in ShiftRight(SymDiff(c, d), 25)
                    <=> ~ (k \in ShiftRight(c, 25) <=> k \in ShiftRight(d, 25))
      BY <1>1, InOverflow, InXor
    <2>2. \A k : k \in ShiftRight(SymDiff(c, d), 25)
                    <=> k \in SymDiff(ShiftRight(c, 25), ShiftRight(d, 25))
      BY <2>1, InXor
    <2> QED BY <2>2
  <1>3. Feedback[ShiftRight(SymDiff(c, d), 25)]
          = SymDiff(Feedback[ShiftRight(c, 25)], Feedback[ShiftRight(d, 25)])
    BY <1>2, InOverflow, FeedbackLinear
  <1>4. ASSUME NEW p
        PROVE  p \in Absorb(SymDiff(v, w))[SymDiff(c, d)]
                 <=> ~ (p \in Absorb(v)[c] <=> p \in Absorb(w)[d])
    <2>1. p \in Absorb(SymDiff(v, w))[SymDiff(c, d)]
            <=> ~ (~ ((p \in 5..29 /\ p - 5 \in SymDiff(c, d)) <=> p \in SymDiff(v, w))
                     <=> p \in Feedback[ShiftRight(SymDiff(c, d), 25)])
      BY <1>1, InAbsorb
    <2>2. p \in Absorb(v)[c] <=> ~ (~ ((p \in 5..29 /\ p - 5 \in c) <=> p \in v)
                                      <=> p \in Feedback[ShiftRight(c, 25)])
      BY InAbsorb
    <2>3. p \in Absorb(w)[d] <=> ~ (~ ((p \in 5..29 /\ p - 5 \in d) <=> p \in w)
                                      <=> p \in Feedback[ShiftRight(d, 25)])
      BY InAbsorb
    <2>4. p \in Feedback[ShiftRight(SymDiff(c, d), 25)]
            <=> ~ (p \in Feedback[ShiftRight(c, 25)] <=> p \in Feedback[ShiftRight(d, 25)])
      BY <1>3, InXor
    <2>5. p \in SymDiff(v, w) <=> ~ (p \in v <=> p \in w)
      BY InXor
    <2>6. p - 5 \in SymDiff(c, d) <=> ~ (p - 5 \in c <=> p - 5 \in d)
      BY InXor
    <2> QED BY <2>1, <2>2, <2>3, <2>4, <2>5, <2>6
  <1> QED
    <2>1. \A p : p \in Absorb(SymDiff(v, w))[SymDiff(c, d)]
                    <=> p \in SymDiff(Absorb(v)[c], Absorb(w)[d])
      BY <1>4, InXor
    <2> QED BY <2>1

\* As long as no bit leaves the register, a turn of polymod only shifts the value in.
LEMMA AbsorbShort ==
  ASSUME NEW d \in SUBSET (0..24), NEW x \in Chars
  PROVE  Absorb(x)[d] = ShiftLeft(d, 5) \union x
  <1>1. d \in Registers /\ d \in SUBSET Nat
    BY DEF Registers
  <1>2. ShiftRight(d, 25) = {}
    BY <1>1, InOverflow
  <1>3. \A p : p \notin Feedback[ShiftRight(d, 25)]
    BY <1>2, InFeedback DEF Chars
  <1>4. \A p : p \in ShiftLeft(d, 5) <=> p \in Nat /\ p - 5 \in d
    BY <1>1, InShiftLeft
  <1>5. \A p : p \in ShiftLeft(d, 5) <=> p \in 5..29 /\ p - 5 \in d
    BY <1>4
  <1>6. \A p : p \in 5..29 /\ p - 5 \in d => p \notin x
    BY DEF Chars
  <1>7. \A p : p \in Absorb(x)[d] <=> ~ ((p \in 5..29 /\ p - 5 \in d) <=> p \in x)
    BY <1>1, <1>3, InAbsorb
  <1> QED
    BY <1>5, <1>6, <1>7

\* A turn of polymod forgets nothing: it takes different registers to different ones.
LEMMA AbsorbInjective ==
  ASSUME NEW c \in Registers, NEW d \in Registers, NEW v \in Chars,
         Absorb(v)[c] = Absorb(v)[d]
  PROVE  c = d
  <1> DEFINE b(r) == Feedback[ShiftRight(r, 25)]
  <1>1. \A p : (~ (~ ((p \in 5..29 /\ p - 5 \in c) <=> p \in v) <=> p \in b(c)))
               <=> (~ (~ ((p \in 5..29 /\ p - 5 \in d) <=> p \in v) <=> p \in b(d)))
    BY InAbsorb
  <1>2. \A p \in 0..4 : p \in b(c) <=> p \in b(d)
    BY <1>1
  <1>3. ShiftRight(c, 25) = ShiftRight(d, 25)
    BY <1>2, InOverflow, FeedbackInjective
  <1>4. \A p \in 5..29 : p - 5 \in c <=> p - 5 \in d
    BY <1>1, <1>3
  <1>5. ASSUME NEW k \in 0..29 PROVE k \in c <=> k \in d
    <2>1. CASE k <= 24
      <3>1. k + 5 \in 5..29 /\ (k + 5) - 5 = k
        BY <2>1
      <3> QED BY <3>1, <1>4
    <2>2. CASE k > 24
      <3>1. k - 25 \in Nat /\ (k - 25) + 25 = k
        BY <2>2
      <3> QED BY <3>1, <1>3, InOverflow
    <2> QED BY <2>1, <2>2
  <1> QED
    BY <1>5 DEF Registers

\* The five bits that come in, and those that move up, with the feedback.
LEMMA AbsorbLow ==
  ASSUME NEW chk \in Registers, NEW v \in Chars, NEW k \in 0..4
  PROVE  k \in Absorb(v)[chk] <=> ~ (k \in v <=> k \in Feedback[ShiftRight(chk, 25)])
  <1>1. k \notin 5..29
    OBVIOUS
  <1> QED
    BY <1>1, InAbsorb

\* The bits that a turn of polymod moves up, with the feedback.
LEMMA AbsorbHigh ==
  ASSUME NEW chk \in Registers, NEW v \in Chars, NEW k \in 0..24
  PROVE  k + 5 \in Absorb(v)[chk] <=> ~ (k \in chk <=> k + 5 \in Feedback[ShiftRight(chk, 25)])
  <1>1. k + 5 \in 5..29 /\ (k + 5) - 5 = k /\ k + 5 \notin v
    BY DEF Chars
  <1> DEFINE p == k + 5
  <1>2. p \in Absorb(v)[chk] <=> ~ (~ ((p \in 5..29 /\ p - 5 \in chk) <=> p \in v)
                         <=> p \in Feedback[ShiftRight(chk, 25)])
    BY InAbsorb
  <1> QED
    BY <1>1, <1>2

\* Different values taken by polymod leave the register different.
LEMMA AbsorbDiffers ==
  ASSUME NEW c \in Registers, NEW v \in Chars, NEW w \in Chars, v # w
  PROVE  Absorb(v)[c] # Absorb(w)[c]
  <1>1. PICK k \in 0..4 : ~ (k \in v <=> k \in w)
    BY DEF Chars
  <1>2. k \in Absorb(v)[c] <=> ~ (k \in v <=> k \in Feedback[ShiftRight(c, 25)])
    BY AbsorbLow
  <1>3. k \in Absorb(w)[c] <=> ~ (k \in w <=> k \in Feedback[ShiftRight(c, 25)])
    BY AbsorbLow
  <1> QED
    BY <1>1, <1>2, <1>3

\* Two different values, taken by polymod in the other order, leave it different.
LEMMA AbsorbOrder ==
  ASSUME NEW c \in Registers, NEW v \in Chars, NEW w \in Chars, v # w
  PROVE  Absorb(w)[Absorb(v)[c]] # Absorb(v)[Absorb(w)[c]]
  <1> DEFINE d == Absorb(v)[c]
             e == Absorb(w)[c]
  <1>1. d \in Registers /\ e \in Registers
    BY AbsorbType
  <1>2. PICK k \in 0..4 : ~ (k \in v <=> k \in w)
    BY DEF Chars
  <1>3. ~ (k \in d <=> k \in e)
    <2>1. k \in d <=> ~ (k \in v <=> k \in Feedback[ShiftRight(c, 25)])
      BY AbsorbLow
    <2>2. k \in e <=> ~ (k \in w <=> k \in Feedback[ShiftRight(c, 25)])
      BY AbsorbLow
    <2> QED BY <1>2, <2>1, <2>2
  <1>4. \A i \in 0..24 : i + 5 \in d <=> i + 5 \in e
    <2> TAKE i \in 0..24
    <2>1. i + 5 \in d <=> ~ (i \in c <=> i + 5 \in Feedback[ShiftRight(c, 25)])
      BY AbsorbHigh
    <2>2. i + 5 \in e <=> ~ (i \in c <=> i + 5 \in Feedback[ShiftRight(c, 25)])
      BY AbsorbHigh
    <2> QED BY <2>1, <2>2
  <1> HIDE DEF d, e
  <1>5. ShiftRight(d, 25) = ShiftRight(e, 25)
    <2>1. \A i \in 0..4 : i + 20 \in 0..24 /\ (i + 20) + 5 = i + 25
      OBVIOUS
    <2>2. \A i \in 0..4 : i + 25 \in d <=> i + 25 \in e
      BY <1>4, <2>1
    <2>3. \A i : i \in ShiftRight(d, 25) <=> i \in 0..4 /\ i + 25 \in d
      BY <1>1, InOverflow DEF Chars
    <2>4. \A i : i \in ShiftRight(e, 25) <=> i \in 0..4 /\ i + 25 \in e
      BY <1>1, InOverflow DEF Chars
    <2> QED BY <2>2, <2>3, <2>4
  <1>6. k \in 0..24
    OBVIOUS
  <1>7. k + 5 \in Absorb(w)[d] <=> ~ (k \in d <=> k + 5 \in Feedback[ShiftRight(d, 25)])
    BY <1>1, <1>6, AbsorbHigh
  <1>8. k + 5 \in Absorb(v)[e] <=> ~ (k \in e <=> k + 5 \in Feedback[ShiftRight(e, 25)])
    BY <1>1, <1>6, AbsorbHigh
  <1>9. Absorb(w)[d] # Absorb(v)[e]
    BY <1>3, <1>5, <1>7, <1>8
  <1> QED
    BY <1>9 DEF d, e

-----------------------------------------------------------------------------
(* The loop of polymod. *)

\* What the register is after each value.
IsRegister(chk, values) ==
  /\ chk \in [Nat -> Registers]
  /\ chk[0] = {0}
  /\ \A i \in 1..Len(values) : chk[i] = Absorb(values[i])[chk[i - 1]]

\* The loop of polymod, one turn at a time.
LEMMA PolymodUnfolds ==
  ASSUME NEW values \in Seq(Chars)
  PROVE  \E chk : IsRegister(chk, values) /\ Polymod(values) = chk[Len(values)]
  <1> DEFINE next(i, c) == IF i \in DOMAIN values THEN Absorb(values[i])[c] ELSE {0}
             step == [x \in Nat \X Registers |-> next(x[1], x[2])]
             IsLoop(f) == f = [i \in Nat |-> IF i \in DOMAIN values THEN Absorb(values[i])[f[i - 1]] ELSE {0}]
  <1>1. DOMAIN values = 1..Len(values) /\ Len(values) \in Nat /\ \A i \in DOMAIN values : values[i] \in Chars
    OBVIOUS
  <1>2. {0} \in Registers
    BY DEF Registers
  <1>3. \A i \in Nat, c \in Registers : next(i, c) \in Registers
    BY <1>1, <1>2, AbsorbType
  <1>4. step \in [Nat \X Registers -> Registers] /\ \A i \in Nat, c \in Registers : step[<<i, c>>] = next(i, c)
    BY <1>3
  <1> HIDE DEF step, next
  <1>5. PICK f \in [Nat -> Registers] : IsRecursive(f, {0}, step)
    BY <1>2, <1>4, RecursionExists
  <1> USE DEF next
  <1>6. IsLoop(f)
    <2>1. \A i \in Nat : (IF i = 0 THEN {0} ELSE step[<<i, f[i - 1]>>])
                          = IF i \in DOMAIN values THEN Absorb(values[i])[f[i - 1]] ELSE {0}
      BY <1>1, <1>4, <1>5
    <2> QED BY <1>5, <2>1 DEF IsRecursive
  <1> DEFINE chk == CHOOSE g : IsLoop(g)
  <1>7. IsLoop(chk)
    BY <1>6
  <1>8. Polymod(values) = chk[Len(values)]
    BY DEF Polymod
  <1> HIDE DEF chk
  <1>9. chk[0] = {0} /\ \A i \in 1..Len(values) : chk[i] = Absorb(values[i])[chk[i - 1]]
    <2>1. \A i \in Nat : chk[i] = IF i \in DOMAIN values THEN Absorb(values[i])[chk[i - 1]] ELSE {0}
      BY <1>7
    <2>2. 0 \notin DOMAIN values /\ \A i \in 1..Len(values) : i \in Nat /\ i \in DOMAIN values
      BY <1>1
    <2> QED BY <2>1, <2>2
  <1>10. chk \in [Nat -> Registers]
    <2> DEFINE S == {i \in Nat : chk[i] \in Registers}
    <2>1. 0 \in S
      BY <1>2, <1>9
    <2>2. ASSUME NEW i \in Nat, i \in S PROVE i + 1 \in S
      <3>1. i + 1 \in Nat /\ (i + 1) - 1 = i
        OBVIOUS
      <3>2. \A j \in Nat : chk[j] = IF j \in DOMAIN values THEN Absorb(values[j])[chk[j - 1]] ELSE {0}
        BY <1>7
      <3>3. chk[i + 1] = IF i + 1 \in DOMAIN values THEN Absorb(values[i + 1])[chk[i]] ELSE {0}
        BY <3>1, <3>2
      <3> QED BY <1>1, <1>2, <2>2, <3>3, AbsorbType
    <2> HIDE DEF S
    <2>3. Nat \subseteq S
      BY <2>1, <2>2, Induction
    <2> QED BY <1>7, <2>3 DEF S
  <1> QED
    BY <1>8, <1>9, <1>10 DEF IsRegister

\* As long as the values are the same, so is the register.
LEMMA SameUpTo ==
  ASSUME NEW s \in Seq(Chars), NEW t \in Seq(Chars), NEW f, NEW g,
         IsRegister(f, s), IsRegister(g, t),
         NEW n \in Nat, n <= Len(s), n <= Len(t), \A i \in 1..n : s[i] = t[i]
  PROVE  f[n] = g[n]
  <1> DEFINE S == {i \in Nat : i <= n => f[i] = g[i]}
  <1>1. 0 \in S
    BY DEF IsRegister
  <1>2. ASSUME NEW i \in Nat, i \in S PROVE i + 1 \in S
    <2>1. SUFFICES ASSUME i + 1 <= n PROVE f[i + 1] = g[i + 1]
      OBVIOUS
    <2>2. i + 1 \in 1..Len(s) /\ i + 1 \in 1..Len(t) /\ i + 1 \in 1..n /\ (i + 1) - 1 = i /\ i <= n
      BY <2>1
    <2>3. f[i + 1] = Absorb(s[i + 1])[f[i]] /\ g[i + 1] = Absorb(t[i + 1])[g[i]]
      BY <2>2 DEF IsRegister
    <2> QED BY <1>2, <2>2, <2>3
  <1> HIDE DEF S
  <1>3. Nat \subseteq S
    BY <1>1, <1>2, Induction
  <1> QED
    BY <1>3 DEF S

\* Registers that differ stay different as long as the values are the same.
LEMMA DifferFrom ==
  ASSUME NEW s \in Seq(Chars), NEW t \in Seq(Chars), NEW f, NEW g,
         IsRegister(f, s), IsRegister(g, t), Len(s) = Len(t),
         NEW n \in 0..Len(s), f[n] # g[n], \A i \in (n + 1)..Len(s) : s[i] = t[i]
  PROVE  f[Len(s)] # g[Len(s)]
  <1> DEFINE S == {i \in Nat : n <= i /\ i <= Len(s) => f[i] # g[i]}
  <1>1. 0 \in S
    OBVIOUS
  <1>2. ASSUME NEW i \in Nat, i \in S PROVE i + 1 \in S
    <2>1. SUFFICES ASSUME n <= i + 1, i + 1 <= Len(s) PROVE f[i + 1] # g[i + 1]
      OBVIOUS
    <2>2. CASE i + 1 = n
      BY <2>2
    <2>3. CASE n <= i
      <3>1. f[i] # g[i] /\ i + 1 \in 1..Len(s) /\ i + 1 \in 1..Len(t) /\ i + 1 \in (n + 1)..Len(s)
              /\ (i + 1) - 1 = i
        BY <1>2, <2>1, <2>3
      <3>2. f[i + 1] = Absorb(s[i + 1])[f[i]] /\ g[i + 1] = Absorb(t[i + 1])[g[i]]
        BY <3>1 DEF IsRegister
      <3>3. s[i + 1] = t[i + 1] /\ s[i + 1] \in Chars /\ f[i] \in Registers /\ g[i] \in Registers
        BY <3>1 DEF IsRegister
      <3> QED BY <3>1, <3>2, <3>3, AbsorbInjective
    <2> QED BY <2>1, <2>2, <2>3
  <1> HIDE DEF S
  <1>3. Nat \subseteq S
    BY <1>1, <1>2, Induction
  <1>4. n <= Len(s) /\ Len(s) \in Nat
    OBVIOUS
  <1> QED
    BY <1>3, <1>4 DEF S

\* polymod returns a word of thirty bits.
LEMMA PolymodType ==
  ASSUME NEW s \in Seq(Chars)
  PROVE  Polymod(s) \in Registers
  <1>1. PICK f : IsRegister(f, s) /\ Polymod(s) = f[Len(s)]
    BY PolymodUnfolds
  <1>2. Len(s) \in Nat
    OBVIOUS
  <1> QED
    BY <1>1, <1>2 DEF IsRegister

\* One value more is one more turn of polymod.
LEMMA PolymodAppend ==
  ASSUME NEW s \in Seq(Chars), NEW v \in Chars
  PROVE  Polymod(Append(s, v)) = Absorb(v)[Polymod(s)]
  <1> DEFINE t == Append(s, v)
             n == Len(s)
  <1>1. t \in Seq(Chars) /\ Len(t) = n + 1 /\ n \in Nat /\ t[n + 1] = v /\ \A i \in 1..n : s[i] = t[i]
    OBVIOUS
  <1> HIDE DEF t
  <1>2. PICK f : IsRegister(f, s) /\ Polymod(s) = f[n]
    BY PolymodUnfolds
  <1>3. PICK g : IsRegister(g, t) /\ Polymod(t) = g[Len(t)]
    BY <1>1, PolymodUnfolds
  <1>4. f[n] = g[n]
    BY <1>1, <1>2, <1>3, SameUpTo
  <1>5. n + 1 \in 1..Len(t) /\ (n + 1) - 1 = n
    BY <1>1
  <1>6. g[n + 1] = Absorb(v)[g[n]]
    BY <1>1, <1>3, <1>5 DEF IsRegister
  <1> QED
    BY <1>1, <1>2, <1>3, <1>4, <1>6 DEF t

\* One wrong character changes what polymod returns, wherever it is.
THEOREM OneChangeIsSeen ==
  ASSUME NEW s \in Seq(Chars), NEW t \in Seq(Chars), Len(s) = Len(t),
         NEW n \in 1..Len(s), s[n] # t[n],
         \A i \in 1..Len(s) : i # n => s[i] = t[i]
  PROVE  Polymod(s) # Polymod(t)
  <1>1. PICK f : IsRegister(f, s) /\ Polymod(s) = f[Len(s)]
    BY PolymodUnfolds
  <1>2. PICK g : IsRegister(g, t) /\ Polymod(t) = g[Len(t)]
    BY PolymodUnfolds
  <1>3. n - 1 \in Nat /\ n - 1 <= Len(s) /\ \A i \in 1..(n - 1) : s[i] = t[i]
    OBVIOUS
  <1>4. f[n - 1] = g[n - 1]
    BY <1>1, <1>2, <1>3, SameUpTo
  <1>5. f[n] = Absorb(s[n])[f[n - 1]] /\ g[n] = Absorb(t[n])[g[n - 1]] /\ f[n - 1] \in Registers
    BY <1>1, <1>2, <1>3 DEF IsRegister
  <1>6. s[n] \in Chars /\ t[n] \in Chars
    OBVIOUS
  <1>7. f[n] # g[n]
    BY <1>4, <1>5, <1>6, AbsorbDiffers
  <1>8. n \in 0..Len(s) /\ \A i \in (n + 1)..Len(s) : s[i] = t[i]
    OBVIOUS
  <1> QED
    BY <1>1, <1>2, <1>7, <1>8, DifferFrom

\* So do two different neighbours that change places.
THEOREM SwapIsSeen ==
  ASSUME NEW s \in Seq(Chars), NEW t \in Seq(Chars), Len(s) = Len(t),
         NEW n \in 1..(Len(s) - 1), s[n] # s[n + 1], t[n] = s[n + 1], t[n + 1] = s[n],
         \A i \in 1..Len(s) : i # n /\ i # n + 1 => s[i] = t[i]
  PROVE  Polymod(s) # Polymod(t)
  <1>1. PICK f : IsRegister(f, s) /\ Polymod(s) = f[Len(s)]
    BY PolymodUnfolds
  <1>2. PICK g : IsRegister(g, t) /\ Polymod(t) = g[Len(t)]
    BY PolymodUnfolds
  <1>3. n - 1 \in Nat /\ n - 1 <= Len(s) /\ \A i \in 1..(n - 1) : s[i] = t[i]
    OBVIOUS
  <1>4. f[n - 1] = g[n - 1]
    BY <1>1, <1>2, <1>3, SameUpTo
  <1>5. n \in 1..Len(s) /\ n + 1 \in 1..Len(s) /\ (n + 1) - 1 = n /\ n \in Nat /\ n + 1 \in 0..Len(s)
    OBVIOUS
  <1>6. s[n] \in Chars /\ s[n + 1] \in Chars /\ f[n - 1] \in Registers
    BY <1>1, <1>3, <1>5 DEF IsRegister
  <1>7. f[n] = Absorb(s[n])[f[n - 1]] /\ f[n + 1] = Absorb(s[n + 1])[f[n]]
    BY <1>1, <1>5 DEF IsRegister
  <1>8. g[n] = Absorb(s[n + 1])[f[n - 1]] /\ g[n + 1] = Absorb(s[n])[g[n]]
    BY <1>2, <1>4, <1>5 DEF IsRegister
  <1>9. f[n + 1] # g[n + 1]
    BY <1>6, <1>7, <1>8, AbsorbOrder
  <1>10. \A i \in (n + 1 + 1)..Len(s) : s[i] = t[i]
    BY <1>5
  <1> QED
    BY <1>1, <1>2, <1>5, <1>9, <1>10, DifferFrom

-----------------------------------------------------------------------------
(* The six characters of the checksum. *)

\* The register as six characters, as createChecksum takes it apart, and back.
Digits(r) == [i \in 1..6 |-> Low(ShiftRight(r, 5 * (6 - i)), 5)]
Placed(x) == UNION {ShiftLeft(x[i], 5 * (6 - i)) : i \in 1..6}

\* The bits of a character of createChecksum.
LEMMA InDigits ==
  ASSUME NEW r \in Registers, NEW i \in 1..6, NEW p
  PROVE  p \in Digits(r)[i] <=> p \in 0..4 /\ p + 5 * (6 - i) \in r
  <1>1. r \in SUBSET Nat /\ 5 * (6 - i) \in Nat /\ 5 \in Nat
    BY DEF Registers
  <1> DEFINE n == 5 * (6 - i)
  <1>2. Digits(r)[i] = Low(ShiftRight(r, n), 5)
    BY DEF Digits
  <1> HIDE DEF n
  <1>3. p \in ShiftRight(r, n) <=> p \in Nat /\ p + n \in r
    BY <1>1, InShiftRight DEF n
  <1>4. p \in Low(ShiftRight(r, n), 5) <=> p \in ShiftRight(r, n) /\ p \in 0..4
    BY DEF Low
  <1> QED
    BY <1>2, <1>3, <1>4 DEF n

\* The bits of six characters put side by side.
LEMMA InPlaced ==
  ASSUME NEW x \in [1..6 -> Chars], NEW p
  PROVE  p \in Placed(x) <=> \E i \in 1..6 : p \in Nat /\ p - 5 * (6 - i) \in x[i]
  <1>1. \A i \in 1..6 : x[i] \in SUBSET Nat /\ 5 * (6 - i) \in Nat
    BY DEF Chars
  <1>2. \A i \in 1..6 : p \in ShiftLeft(x[i], 5 * (6 - i)) <=> p \in Nat /\ p - 5 * (6 - i) \in x[i]
    BY <1>1, InShiftLeft
  <1> QED
    BY <1>2 DEF Placed

\* Six characters side by side fill the register of polymod.
LEMMA PlacedType ==
  ASSUME NEW x \in [1..6 -> Chars]
  PROVE  Placed(x) \in Registers
  <1>1. ASSUME NEW p \in Placed(x) PROVE p \in 0..29
    <2>1. PICK i \in 1..6 : p \in Nat /\ p - 5 * (6 - i) \in x[i]
      BY InPlaced
    <2>2. p - 5 * (6 - i) \in 0..4
      BY <2>1 DEF Chars
    <2> QED BY <2>1, <2>2
  <1> QED
    BY <1>1 DEF Registers

\* createChecksum takes a register apart into six values of five bits.
LEMMA DigitsType ==
  ASSUME NEW r \in Registers
  PROVE  Digits(r) \in [1..6 -> Chars]
  <1>1. \A i \in 1..6 : Low(ShiftRight(r, 5 * (6 - i)), 5) \in Chars
    BY DEF Low, Chars
  <1> QED
    BY <1>1 DEF Digits

\* Six characters put side by side and taken apart again are the same.
LEMMA DigitsOfPlaced ==
  ASSUME NEW x \in [1..6 -> Chars]
  PROVE  Digits(Placed(x)) = x
  <1>1. Placed(x) \in Registers
    BY PlacedType
  <1>2. ASSUME NEW i \in 1..6 PROVE Digits(Placed(x))[i] = x[i]
    <2>1. ASSUME NEW p \in 0..4 PROVE p + 5 * (6 - i) \in Placed(x) <=> p \in x[i]
      <3>1. p + 5 * (6 - i) \in Nat /\ (p + 5 * (6 - i)) - 5 * (6 - i) = p
        OBVIOUS
      <3>2. p \in x[i] => p + 5 * (6 - i) \in Placed(x)
        BY <3>1, InPlaced
      <3>3. ASSUME p + 5 * (6 - i) \in Placed(x) PROVE p \in x[i]
        <4>1. PICK j \in 1..6 : (p + 5 * (6 - i)) - 5 * (6 - j) \in x[j]
          BY <3>3, InPlaced
        <4>2. (p + 5 * (6 - i)) - 5 * (6 - j) \in 0..4
          BY <4>1 DEF Chars
        <4>3. j = i
          BY <4>2
        <4> QED BY <4>1, <4>3, <3>1
      <3> QED BY <3>2, <3>3
    <2>2. \A p : p \in Digits(Placed(x))[i] <=> p \in 0..4 /\ p + 5 * (6 - i) \in Placed(x)
      BY <1>1, InDigits
    <2>3. x[i] \in Chars
      OBVIOUS
    <2> QED BY <2>1, <2>2, <2>3 DEF Chars
  <1>3. Digits(Placed(x)) \in [1..6 -> Chars]
    BY <1>1, DigitsType
  <1> HIDE DEF Chars
  <1> QED
    BY <1>2, <1>3

\* So is a register that createChecksum takes apart, put together again.
LEMMA PlacedDigits ==
  ASSUME NEW r \in Registers
  PROVE  Placed(Digits(r)) = r
  <1> DEFINE x == Digits(r)
  <1>1. x \in [1..6 -> Chars]
    BY DigitsType
  <1>2. \A i \in 1..6 : \A p : p \in x[i] <=> p \in 0..4 /\ p + 5 * (6 - i) \in r
    BY InDigits
  <1> HIDE DEF x
  <1>3. \A p : p \in Placed(x) <=> \E i \in 1..6 : p \in Nat /\ p - 5 * (6 - i) \in x[i]
    BY <1>1, InPlaced
  <1>4. ASSUME NEW p, p \in Placed(x) PROVE p \in r
    <2>1. PICK i \in 1..6 : p \in Nat /\ p - 5 * (6 - i) \in x[i]
      BY <1>3, <1>4
    <2>2. (p - 5 * (6 - i)) + 5 * (6 - i) \in r
      BY <1>2, <2>1
    <2>3. (p - 5 * (6 - i)) + 5 * (6 - i) = p
      BY <2>1
    <2> QED BY <2>2, <2>3
  <1>5. ASSUME NEW p, p \in r PROVE p \in Placed(x)
    <2>1. p \in 0..29
      BY <1>5 DEF Registers
    <2>2. PICK i \in 1..6 : p - 5 * (6 - i) \in 0..4
      <3>1. \/ p - 5 * (6 - 1) \in 0..4 \/ p - 5 * (6 - 2) \in 0..4 \/ p - 5 * (6 - 3) \in 0..4
            \/ p - 5 * (6 - 4) \in 0..4 \/ p - 5 * (6 - 5) \in 0..4 \/ p - 5 * (6 - 6) \in 0..4
        BY <2>1
      <3> QED BY <3>1
    <2>3. (p - 5 * (6 - i)) + 5 * (6 - i) = p
      BY <2>1
    <2>4. p - 5 * (6 - i) \in x[i]
      BY <1>2, <1>5, <2>2, <2>3
    <2> QED BY <1>3, <2>1, <2>4
  <1>6. Placed(x) = r
    BY <1>4, <1>5
  <1> QED
    BY <1>6 DEF x

\* Two sequences whose registers differ in p, among the n lowest bits, and
\* what one more character does to p.
Beside(s, z, p, n) ==
  s \in Seq(Chars) /\ z \in Seq(Chars) /\ p \in SUBSET (0..(n - 1)) /\ Polymod(s) = SymDiff(Polymod(z), p)
\* One character shifted in behind what is there.
Shifted(p, x) == ShiftLeft(p, 5) \union x

\* The bits of it.
LEMMA InShifted ==
  ASSUME NEW p \in SUBSET Nat, NEW x \in Chars
  PROVE  \A b : b \in Shifted(p, x) <=> b \in x \/ (b \in Nat /\ b - 5 \in p)
  <1>1. 5 \in Nat
    OBVIOUS
  <1> QED BY <1>1, InShiftLeft DEF Shifted

\* polymod, given one character more, goes on beside polymod given a zero, as long as
\* no bit of what differs leaves the register.
LEMMA PlaceOne ==
  ASSUME NEW s, NEW z, NEW n \in 0..25, NEW m, m = n + 5, NEW p, NEW x \in Chars, Beside(s, z, p, n)
  PROVE  Beside(Append(s, x), Append(z, {}), Shifted(p, x), m)
  <1>0. s \in Seq(Chars) /\ z \in Seq(Chars) /\ p \in SUBSET (0..(n - 1)) /\ Polymod(s) = SymDiff(Polymod(z), p)
    BY DEF Beside
  <1>1. SymDiff({}, x) = x
    BY DEF SymDiff
  <1>2. p \in SUBSET (0..24) /\ p \in SUBSET Nat
    BY <1>0
  <1>3. {} \in Chars /\ p \in Registers /\ Polymod(z) \in Registers
    <2>1. Polymod(z) \in Registers
      BY <1>0, PolymodType
    <2> QED BY <1>2, <2>1 DEF Chars, Registers
  <1>4. Absorb(SymDiff({}, x))[SymDiff(Polymod(z), p)] = SymDiff(Absorb({})[Polymod(z)], Absorb(x)[p])
    BY <1>3, AbsorbLinear
  <1>5. Polymod(Append(s, x)) = Absorb(x)[Polymod(s)] /\ Polymod(Append(z, {})) = Absorb({})[Polymod(z)]
    BY <1>0, <1>3, PolymodAppend
  <1>6. Absorb(x)[p] = Shifted(p, x)
    BY <1>2, AbsorbShort DEF Shifted
  <1>7. \A b : b \in Shifted(p, x) <=> b \in x \/ (b \in Nat /\ b - 5 \in p)
    BY <1>2, InShifted
  <1>8. Shifted(p, x) \in SUBSET (0..(m - 1))
    <2>1. x \in SUBSET (0..4)
      BY DEF Chars
    <2>2. ASSUME NEW b \in Shifted(p, x) PROVE b \in 0..(m - 1)
      <3>1. b \in x \/ (b \in Nat /\ b - 5 \in p)
        BY <1>7, <2>2
      <3>2. CASE b \in x
        BY <2>1, <3>2
      <3>3. CASE b \in Nat /\ b - 5 \in p
        <4>1. b - 5 \in 0..(n - 1)
          BY <3>3, <1>0
        <4> QED BY <4>1, <3>3
      <3> QED BY <3>1, <3>2, <3>3
    <2> QED BY <2>2
  <1>9. Append(s, x) \in Seq(Chars) /\ Append(z, {}) \in Seq(Chars)
    BY <1>0, <1>3
  <1>10. Polymod(Append(s, x)) = SymDiff(Polymod(Append(z, {})), Shifted(p, x))
    BY <1>0, <1>1, <1>4, <1>5, <1>6, Zenon
  <1> QED
    BY <1>8, <1>9, <1>10 DEF Beside

\* Putting six characters side by side is shifting them in one after the other.
LEMMA PlacedByShifts ==
  ASSUME NEW x \in [1..6 -> Chars]
  PROVE  Placed(x) = Shifted(Shifted(Shifted(Shifted(Shifted(Shifted({}, x[1]), x[2]), x[3]), x[4]), x[5]), x[6])
  <1> DEFINE p1 == Shifted({}, x[1])
             p2 == Shifted(p1, x[2])
             p3 == Shifted(p2, x[3])
             p4 == Shifted(p3, x[4])
             p5 == Shifted(p4, x[5])
             p6 == Shifted(p5, x[6])
  <1>1. \A i \in 1..6 : x[i] \in Chars /\ x[i] \in SUBSET Nat
    BY DEF Chars
  <1> HIDE DEF p1, p2, p3, p4, p5, p6
  <1>2. p1 \in SUBSET Nat /\ \A b : b \in p1 <=> b \in x[1]
    <2>1. \A b : b \in p1 <=> b \in x[1] \/ (b \in Nat /\ b - 5 \in {})
      BY <1>1, InShifted DEF p1
    <2> QED BY <2>1, <1>1
  <1>3. p2 \in SUBSET Nat /\ \A b : b \in p2 <=> b \in x[2] \/ (b \in Nat /\ b - 5 \in p1)
    <2>1. \A b : b \in p2 <=> b \in x[2] \/ (b \in Nat /\ b - 5 \in p1)
      BY <1>1, <1>2, InShifted DEF p2
    <2> QED BY <2>1, <1>1
  <1>4. p3 \in SUBSET Nat /\ \A b : b \in p3 <=> b \in x[3] \/ (b \in Nat /\ b - 5 \in p2)
    <2>1. \A b : b \in p3 <=> b \in x[3] \/ (b \in Nat /\ b - 5 \in p2)
      BY <1>1, <1>3, InShifted DEF p3
    <2> QED BY <2>1, <1>1
  <1>5. p4 \in SUBSET Nat /\ \A b : b \in p4 <=> b \in x[4] \/ (b \in Nat /\ b - 5 \in p3)
    <2>1. \A b : b \in p4 <=> b \in x[4] \/ (b \in Nat /\ b - 5 \in p3)
      BY <1>1, <1>4, InShifted DEF p4
    <2> QED BY <2>1, <1>1
  <1>6. p5 \in SUBSET Nat /\ \A b : b \in p5 <=> b \in x[5] \/ (b \in Nat /\ b - 5 \in p4)
    <2>1. \A b : b \in p5 <=> b \in x[5] \/ (b \in Nat /\ b - 5 \in p4)
      BY <1>1, <1>5, InShifted DEF p5
    <2> QED BY <2>1, <1>1
  <1>7. p6 \in SUBSET Nat /\ \A b : b \in p6 <=> b \in x[6] \/ (b \in Nat /\ b - 5 \in p5)
    <2>1. \A b : b \in p6 <=> b \in x[6] \/ (b \in Nat /\ b - 5 \in p5)
      BY <1>1, <1>6, InShifted DEF p6
    <2> QED BY <2>1, <1>1
  <1>8. ASSUME NEW b \in Nat
        PROVE  b \in p6 <=> \/ b \in x[6] \/ b - 5 \in x[5] \/ b - 10 \in x[4]
                            \/ b - 15 \in x[3] \/ b - 20 \in x[2] \/ b - 25 \in x[1]
    <2>1. b \in p6 <=> b \in x[6] \/ b - 5 \in p5
      BY <1>7
    <2>2. b - 5 \in p5 <=> b - 5 \in x[5] \/ b - 10 \in p4
      <3>1. (b - 5) - 5 = b - 10 /\ (b - 10 \in Nat => b - 5 \in Nat)
        OBVIOUS
      <3> QED BY <3>1, <1>6, <1>5
    <2>3. b - 10 \in p4 <=> b - 10 \in x[4] \/ b - 15 \in p3
      <3>1. (b - 10) - 5 = b - 15 /\ (b - 15 \in Nat => b - 10 \in Nat)
        OBVIOUS
      <3> QED BY <3>1, <1>5, <1>4
    <2>4. b - 15 \in p3 <=> b - 15 \in x[3] \/ b - 20 \in p2
      <3>1. (b - 15) - 5 = b - 20 /\ (b - 20 \in Nat => b - 15 \in Nat)
        OBVIOUS
      <3> QED BY <3>1, <1>4, <1>3
    <2>5. b - 20 \in p2 <=> b - 20 \in x[2] \/ b - 25 \in p1
      <3>1. (b - 20) - 5 = b - 25 /\ (b - 25 \in Nat => b - 20 \in Nat)
        OBVIOUS
      <3> QED BY <3>1, <1>3, <1>2
    <2>6. b - 25 \in p1 <=> b - 25 \in x[1]
      BY <1>2
    <2> QED BY <2>1, <2>2, <2>3, <2>4, <2>5, <2>6
  <1>9. ASSUME NEW b \in Nat
        PROVE  b \in Placed(x) <=> \/ b \in x[6] \/ b - 5 \in x[5] \/ b - 10 \in x[4]
                                   \/ b - 15 \in x[3] \/ b - 20 \in x[2] \/ b - 25 \in x[1]
    <2>1. b \in Placed(x) <=> \E i \in 1..6 : b - 5 * (6 - i) \in x[i]
      BY InPlaced
    <2>2. \A i \in 1..6 : i = 1 \/ i = 2 \/ i = 3 \/ i = 4 \/ i = 5 \/ i = 6
      OBVIOUS
    <2>3. /\ b - 5 * (6 - 1) = b - 25 /\ b - 5 * (6 - 2) = b - 20 /\ b - 5 * (6 - 3) = b - 15
          /\ b - 5 * (6 - 4) = b - 10 /\ b - 5 * (6 - 5) = b - 5 /\ b - 5 * (6 - 6) = b
      OBVIOUS
    <2> QED BY <2>1, <2>2, <2>3
  <1>10. \A b : b \in Placed(x) => b \in Nat
    BY InPlaced
  <1>11. p6 = Placed(x)
    <2>1. \A b : b \in p6 <=> b \in Placed(x)
      BY <1>7, <1>8, <1>9, <1>10
    <2> QED BY <2>1
  <1> QED
    BY <1>11 DEF p1, p2, p3, p4, p5, p6

\* Six characters are a sequence.
LEMMA SixAreSeq ==
  ASSUME NEW S, NEW x \in [1..6 -> S]
  PROVE  x \in Seq(S) /\ Len(x) = 6
  <1>1. x \in Seq(S)
    BY SeqDef
  <1>2. x \in [1..Len(x) -> S] /\ Len(x) \in Nat
    BY <1>1, LenProperties
  <1>3. 1..Len(x) = 1..6
    BY <1>2
  <1>4. 6 \in 1..Len(x) /\ Len(x) \in 1..6
    BY <1>2, <1>3
  <1>5. Len(x) = 6
    BY <1>2, <1>4
  <1> QED
    BY <1>1, <1>5

\* The values of verifyChecksum end in six that are appended one by one.
LEMMA AppendSix ==
  ASSUME NEW s \in Seq(Chars), NEW x \in Seq(Chars), Len(x) = 6
  PROVE  s \o x = Append(Append(Append(Append(Append(Append(s, x[1]), x[2]), x[3]), x[4]), x[5]), x[6])
  <1>1. x[1] \in Chars /\ x[2] \in Chars /\ x[3] \in Chars /\ x[4] \in Chars /\ x[5] \in Chars /\ x[6] \in Chars
    <2>1. 1 \in 1..6 /\ 2 \in 1..6 /\ 3 \in 1..6 /\ 4 \in 1..6 /\ 5 \in 1..6 /\ 6 \in 1..6
      OBVIOUS
    <2>2. \A i \in 1..6 : x[i] \in Chars
      BY ElementOfSeq
    <2> QED BY <2>1, <2>2
  <1> DEFINE t == Append(Append(Append(Append(Append(Append(s, x[1]), x[2]), x[3]), x[4]), x[5]), x[6])
             n == Len(s)
  <1>2. n \in Nat /\ t \in Seq(Chars) /\ Len(t) = n + 6
    BY <1>1
  <1>3. /\ t[n + 1] = x[1] /\ t[n + 2] = x[2] /\ t[n + 3] = x[3] /\ t[n + 4] = x[4] /\ t[n + 5] = x[5]
        /\ t[n + 6] = x[6] /\ \A i \in 1..n : t[i] = s[i]
    BY <1>1
  <1> HIDE DEF t
  <1>4. /\ (s \o x) \in Seq(Chars) /\ Len(s \o x) = n + 6
        /\ \A i \in 1..(n + 6) : (s \o x)[i] = IF i <= n THEN s[i] ELSE x[i - n]
    <2>1. /\ (s \o x) \in Seq(Chars) /\ Len(s \o x) = Len(s) + Len(x)
          /\ \A i \in 1..Len(s) + Len(x) : (s \o x)[i] = IF i <= Len(s) THEN s[i] ELSE x[i - Len(s)]
      BY ConcatProperties, Zenon
    <2> QED BY <2>1, Zenon
  <1>5. \A i \in 1..n : (s \o x)[i] = s[i]
    BY <1>2, <1>4
  <1>6. \A i \in 1..6 : (s \o x)[n + i] = x[i]
    <2>1. \A i \in 1..6 : n + i \in 1..(n + 6) /\ ~(n + i <= n) /\ (n + i) - n = i
      BY <1>2
    <2> QED BY <2>1, <1>4
  <1>7. ASSUME NEW i \in 1..(n + 6) PROVE (s \o x)[i] = t[i]
    <2>1. CASE i \in 1..n
      BY <2>1, <1>3, <1>5
    <2>2. CASE i \in (n + 1)..(n + 6)
      <3>1. i = n + 1 \/ i = n + 2 \/ i = n + 3 \/ i = n + 4 \/ i = n + 5 \/ i = n + 6
        BY <2>2, <1>2
      <3>2. /\ (s \o x)[n + 1] = x[1] /\ (s \o x)[n + 2] = x[2] /\ (s \o x)[n + 3] = x[3]
            /\ (s \o x)[n + 4] = x[4] /\ (s \o x)[n + 5] = x[5] /\ (s \o x)[n + 6] = x[6]
        <4>1. 1 \in 1..6 /\ 2 \in 1..6 /\ 3 \in 1..6 /\ 4 \in 1..6 /\ 5 \in 1..6 /\ 6 \in 1..6
          OBVIOUS
        <4> QED BY <1>6, <4>1, Zenon
      <3> HIDE DEF n
      <3> QED BY <3>1, <3>2, <1>3, Zenon
    <2>3. i \in 1..n \/ i \in (n + 1)..(n + 6)
      BY <1>2
    <2> QED BY <2>1, <2>2, <2>3
  <1>8. s \o x = t
    BY <1>2, <1>4, <1>7, SeqEqual
  <1> QED
    BY <1>8 DEF t

\* The six zeros that createChecksum takes in place of the checksum.
Zeros == <<{}, {}, {}, {}, {}, {}>>

\* polymod of values with six characters behind them is that with six zeros, plus the
\* characters side by side: why createChecksum may take polymod of zeros.
LEMMA ChecksumAdds ==
  ASSUME NEW s \in Seq(Chars), NEW x \in [1..6 -> Chars]
  PROVE  Polymod(s \o x) = SymDiff(Polymod(s \o Zeros), Placed(x))
  <1>1. x \in Seq(Chars) /\ Len(x) = 6
    BY SixAreSeq
  <1>2. Zeros \in Seq(Chars) /\ Len(Zeros) = 6
    BY DEF Zeros, Chars
  <1>3. x[1] \in Chars /\ x[2] \in Chars /\ x[3] \in Chars /\ x[4] \in Chars /\ x[5] \in Chars /\ x[6] \in Chars
    OBVIOUS
  <1> DEFINE s1 == Append(s, x[1])
             s2 == Append(s1, x[2])
             s3 == Append(s2, x[3])
             s4 == Append(s3, x[4])
             s5 == Append(s4, x[5])
             s6 == Append(s5, x[6])
             z1 == Append(s, {})
             z2 == Append(z1, {})
             z3 == Append(z2, {})
             z4 == Append(z3, {})
             z5 == Append(z4, {})
             z6 == Append(z5, {})
             p1 == Shifted({}, x[1])
             p2 == Shifted(p1, x[2])
             p3 == Shifted(p2, x[3])
             p4 == Shifted(p3, x[4])
             p5 == Shifted(p4, x[5])
             p6 == Shifted(p5, x[6])
  <1>4. Beside(s, s, {}, 0)
    BY DEF Beside, SymDiff
  <1>5. /\ 0 \in 0..25 /\ 5 \in 0..25 /\ 10 \in 0..25 /\ 15 \in 0..25 /\ 20 \in 0..25 /\ 25 \in 0..25
        /\ 5 = 0 + 5 /\ 10 = 5 + 5 /\ 15 = 10 + 5 /\ 20 = 15 + 5 /\ 25 = 20 + 5 /\ 30 = 25 + 5
    OBVIOUS
  <1> HIDE DEF s1, z1, p1, s2, z2, p2, s3, z3, p3, s4, z4, p4, s5, z5, p5, s6, z6, p6
  <1>6. Beside(s1, z1, p1, 5)
    BY <1>3, <1>4, <1>5, PlaceOne, Zenon DEF s1, z1, p1
  <1>7. Beside(s2, z2, p2, 10)
    BY <1>3, <1>5, <1>6, PlaceOne, Zenon DEF s2, z2, p2
  <1>8. Beside(s3, z3, p3, 15)
    BY <1>3, <1>5, <1>7, PlaceOne, Zenon DEF s3, z3, p3
  <1>9. Beside(s4, z4, p4, 20)
    BY <1>3, <1>5, <1>8, PlaceOne, Zenon DEF s4, z4, p4
  <1>10. Beside(s5, z5, p5, 25)
    BY <1>3, <1>5, <1>9, PlaceOne, Zenon DEF s5, z5, p5
  <1>11. Beside(s6, z6, p6, 30)
    BY <1>3, <1>5, <1>10, PlaceOne, Zenon DEF s6, z6, p6
  <1>12. s \o x = s6
    BY <1>1, AppendSix DEF s1, s2, s3, s4, s5, s6
  <1>13. s \o Zeros = z6
    <2>1. s \o Zeros = Append(Append(Append(Append(Append(Append(s, Zeros[1]), Zeros[2]), Zeros[3]),
                                                  Zeros[4]), Zeros[5]), Zeros[6])
      BY <1>2, AppendSix
    <2>2. /\ Zeros[1] = {} /\ Zeros[2] = {} /\ Zeros[3] = {}
          /\ Zeros[4] = {} /\ Zeros[5] = {} /\ Zeros[6] = {}
      BY DEF Zeros
    <2> QED BY <2>1, <2>2, Zenon DEF z1, z2, z3, z4, z5, z6
  <1>14. p6 = Placed(x)
    BY PlacedByShifts DEF p1, p2, p3, p4, p5, p6
  <1> QED
    BY <1>11, <1>12, <1>13, <1>14 DEF Beside

\* Concatenating is associative: the lists of createChecksum and verifyChecksum.
LEMMA ConcatAgain ==
  \A u, v, w \in Seq(Chars) : u \o (v \o w) = (u \o v) \o w
  BY ConcatAssociative

\* The six characters that CreateChecksum appends, and no others, bring the
\* register to 1.
THEOREM ChecksumIsTheOne ==
  ASSUME NEW hrp, NEW data \in Seq(Chars), HrpExpand(hrp) \in Seq(Chars)
  PROVE  /\ CreateChecksum(hrp, data) \in [1..6 -> Chars]
         /\ \A x \in [1..6 -> Chars] :
              VerifyChecksum(hrp, data \o x) <=> x = CreateChecksum(hrp, data)
  <1> DEFINE s == HrpExpand(hrp) \o data
             t == Polymod(s \o Zeros)
             pm == SymDiff(t, {0})
  <1>1. s \in Seq(Chars) /\ Zeros \in Seq(Chars)
    BY DEF Zeros, Chars
  <1>2. t \in Registers
    <2>1. s \o Zeros \in Seq(Chars)
      BY <1>1
    <2> QED BY <2>1, PolymodType
  <1>3. pm \in Registers
    BY <1>2 DEF SymDiff, Registers
  <1>4. CreateChecksum(hrp, data) = Digits(pm)
    <2>1. HrpExpand(hrp) \o data \o <<{}, {}, {}, {}, {}, {}>> = s \o Zeros
      BY DEF Zeros
    <2> QED BY <2>1 DEF CreateChecksum, Digits
  <1>5. ASSUME NEW x \in [1..6 -> Chars]
        PROVE  VerifyChecksum(hrp, data \o x) <=> x = Digits(pm)
    <2>1. HrpExpand(hrp) \o (data \o x) = s \o x
      <3>1. x \in Seq(Chars)
        BY SixAreSeq
      <3> HIDE DEF t, pm
      <3> QED BY <3>1, ConcatAgain, Zenon
    <2>2. Polymod(s \o x) = SymDiff(t, Placed(x))
      BY <1>1, ChecksumAdds
    <2> HIDE DEF s, t
    <2>3. SymDiff(t, Placed(x)) = {0} <=> Placed(x) = pm
      BY DEF SymDiff
    <2>4. Placed(x) = pm <=> x = Digits(pm)
      BY <1>3, DigitsOfPlaced, PlacedDigits
    <2> QED BY <2>1, <2>2, <2>3, <2>4 DEF VerifyChecksum
  <1>6. Digits(pm) \in [1..6 -> Chars]
    BY <1>3, DigitsType
  <1> QED
    BY <1>4, <1>5, <1>6

-----------------------------------------------------------------------------
(* The register is the remainder of a division. *)

\* Multiplying by a in GF(32), bit by bit.
LEMMA InTimesA ==
  ASSUME NEW x \in Chars
  PROVE  /\ TimesA(x) \in Chars
         /\ 0 \in TimesA(x) <=> 4 \in x
         /\ 1 \in TimesA(x) <=> 0 \in x
         /\ 2 \in TimesA(x) <=> 1 \in x
         /\ 3 \in TimesA(x) <=> ~ (2 \in x <=> 4 \in x)
         /\ 4 \in TimesA(x) <=> 3 \in x
  <1>1. x \in SUBSET Nat /\ 1 \in Nat
    BY DEF Chars
  <1>2. \A p : p \in Low(ShiftLeft(x, 1), 5) <=> p \in 0..4 /\ p - 1 \in x
    <2>1. \A p : p \in ShiftLeft(x, 1) <=> p \in Nat /\ p - 1 \in x
      BY <1>1, InShiftLeft
    <2> QED BY <2>1 DEF Low
  <1> DEFINE add == IF 4 \in x THEN {0, 3} ELSE {}
  <1>3. \A p : p \in add <=> 4 \in x /\ (p = 0 \/ p = 3)
    OBVIOUS
  <1> HIDE DEF add
  <1>4. \A p : p \in TimesA(x) <=> ~ (p \in Low(ShiftLeft(x, 1), 5) <=> p \in add)
    BY InXor DEF TimesA, add
  <1>5. \A p : p \in TimesA(x) <=> ~ ((p \in 0..4 /\ p - 1 \in x) <=> (4 \in x /\ (p = 0 \/ p = 3)))
    BY <1>2, <1>3, <1>4
  <1>6. ~ (0 - 1 \in x) /\ 1 - 1 = 0 /\ 2 - 1 = 1 /\ 3 - 1 = 2 /\ 4 - 1 = 3
    BY DEF Chars
  <1>7. TimesA(x) \in Chars
    BY <1>5 DEF Chars
  <1>8. 0 \in TimesA(x) <=> 4 \in x
    BY <1>5, <1>6
  <1>9. 1 \in TimesA(x) <=> 0 \in x
    BY <1>5, <1>6
  <1>10. 2 \in TimesA(x) <=> 1 \in x
    BY <1>5, <1>6
  <1>11. 3 \in TimesA(x) <=> ~ (2 \in x <=> 4 \in x)
    BY <1>5, <1>6
  <1>12. 4 \in TimesA(x) <=> 3 \in x
    BY <1>5, <1>6
  <1> QED
    BY <1>7, <1>8, <1>9, <1>10, <1>11, <1>12

\* The product of GF(32), bit by bit.
LEMMA InTimes ==
  ASSUME NEW x, NEW y, NEW x1, NEW x2, NEW x3, NEW x4, NEW p,
         x1 = TimesA(x), x2 = TimesA(x1), x3 = TimesA(x2), x4 = TimesA(x3)
  PROVE  p \in Times(x, y)
           <=> ~ (~ (~ (~ ((0 \in y /\ p \in x)
                     <=> (1 \in y /\ p \in x1))
                     <=> (2 \in y /\ p \in x2))
                     <=> (3 \in y /\ p \in x3))
                     <=> (4 \in y /\ p \in x4))
  <1> DEFINE add(k, xa, sum) == IF k \in y THEN SymDiff(sum, xa) ELSE sum
  <1>1. Times(x, y) = add(4, x4, add(3, x3, add(2, x2, add(1, x1, add(0, x, {})))))
    BY DEF Times
  <1>2. \A k, xa, sum : p \in add(k, xa, sum) <=> ~ (p \in sum <=> (k \in y /\ p \in xa))
    BY InXor
  <1> HIDE DEF add
  <1>3. p \in add(0, x, {}) <=> (0 \in y /\ p \in x)
    BY <1>2
  <1> QED
    BY <1>1, <1>2, <1>3

\* A coefficient of the generator times y, and its five bits of the feedback.
LEMMA InColumn ==
  ASSUME NEW x, NEW y \in Chars, NEW x1, NEW x2, NEW x3, NEW x4, NEW b, NEW p,
         x1 = TimesA(x), x2 = TimesA(x1), x3 = TimesA(x2), x4 = TimesA(x3),
         b \in x <=> p \in GEN[1], b \in x1 <=> p \in GEN[2], b \in x2 <=> p \in GEN[3],
         b \in x3 <=> p \in GEN[4], b \in x4 <=> p \in GEN[5]
  PROVE  b \in Times(x, y) <=> p \in Feedback[y]
  <1>1. b \in Times(x, y)
           <=> ~ (~ (~ (~ ((0 \in y /\ b \in x)
                     <=> (1 \in y /\ b \in x1))
                     <=> (2 \in y /\ b \in x2))
                     <=> (3 \in y /\ b \in x3))
                     <=> (4 \in y /\ b \in x4))
    BY InTimes
  <1>2. p \in Feedback[y]
           <=> ~ (~ (~ (~ ((0 \in y /\ p \in GEN[1])
                     <=> (1 \in y /\ p \in GEN[2]))
                     <=> (2 \in y /\ p \in GEN[3]))
                     <=> (3 \in y /\ p \in GEN[4]))
                     <=> (4 \in y /\ p \in GEN[5]))
    BY InFeedback
  <1> QED
    BY <1>1, <1>2

\* A word is a times another when its bits are.
LEMMA TimesAIs ==
  ASSUME NEW x \in Chars, NEW z \in Chars,
         0 \in z <=> 4 \in x, 1 \in z <=> 0 \in x, 2 \in z <=> 1 \in x,
         3 \in z <=> ~ (2 \in x <=> 4 \in x), 4 \in z <=> 3 \in x
  PROVE  z = TimesA(x)
  <1>1. TimesA(x) \in Chars
    BY InTimesA
  <1>2. \A b \in 0..4 : b \in z <=> b \in TimesA(x)
    BY InTimesA
  <1> QED
    BY <1>1, <1>2 DEF Chars

\* The table GEN, cut into words: the coefficient at a place, times a power of a.
Cell(k, i) == {b \in 0..4 : b + 5 * (6 - i) \in GEN[k]}

\* Each row of the table is a times the row before.
LEMMA CellsGrow ==
  ASSUME NEW i \in 1..6, NEW k \in 1..4
  PROVE  LET at == 5 * (6 - i) IN
         /\ 0 + at \in GEN[k + 1] <=> 4 + at \in GEN[k]
         /\ 1 + at \in GEN[k + 1] <=> 0 + at \in GEN[k]
         /\ 2 + at \in GEN[k + 1] <=> 1 + at \in GEN[k]
         /\ 3 + at \in GEN[k + 1] <=> ~ (2 + at \in GEN[k] <=> 4 + at \in GEN[k])
         /\ 4 + at \in GEN[k + 1] <=> 3 + at \in GEN[k]
  <1>1. CASE k = 1
    BY <1>1 DEF GEN
  <1>2. CASE k = 2
    BY <1>2 DEF GEN
  <1>3. CASE k = 3
    BY <1>3 DEF GEN
  <1>4. CASE k = 4
    BY <1>4 DEF GEN
  <1> QED
    BY <1>1, <1>2, <1>3, <1>4

\* Each row of the table GEN is a times the row before, coefficient by coefficient.
LEMMA CellIsTimes ==
  ASSUME NEW i \in 1..6, NEW k \in 1..4
  PROVE  Cell(k + 1, i) = TimesA(Cell(k, i))
  <1>1. \A j : Cell(j, i) \in Chars /\ \A b \in 0..4 : b \in Cell(j, i) <=> b + 5 * (6 - i) \in GEN[j]
    BY DEF Cell, Chars
  <1>2. 0 \in 0..4 /\ 1 \in 0..4 /\ 2 \in 0..4 /\ 3 \in 0..4 /\ 4 \in 0..4
    OBVIOUS
  <1> DEFINE x == Cell(k, i)
             z == Cell(k + 1, i)
  <1>3. /\ 0 \in z <=> 4 \in x
        /\ 1 \in z <=> 0 \in x
        /\ 2 \in z <=> 1 \in x
        /\ 3 \in z <=> ~ (2 \in x <=> 4 \in x)
        /\ 4 \in z <=> 3 \in x
    BY <1>1, <1>2, CellsGrow
  <1>4. x \in Chars /\ z \in Chars
    BY <1>1
  <1> HIDE DEF x, z
  <1>5. z = TimesA(x)
    BY <1>3, <1>4, TimesAIs
  <1> QED
    BY <1>5 DEF x, z

\* Its first row holds the generator.
LEMMA CellIsGenerator ==
  ASSUME NEW i \in 1..6
  PROVE  Cell(1, i) = Generator[i]
  <1>1. \A b \in 0..4 : b + 5 * (6 - i) \in GEN[1] <=> b \in Generator[i]
    BY DEF GEN, Generator
  <1>2. Generator[i] \in SUBSET (0..4)
    BY DEF Generator
  <1> QED
    BY <1>1, <1>2 DEF Cell

\* So a coefficient of the generator times y is five bits of the feedback.
LEMMA TimesIsFeedback ==
  ASSUME NEW y \in Chars
  PROVE  \A i \in 1..6 : \A b \in 0..4 : b \in Times(Generator[i], y) <=> b + 5 * (6 - i) \in Feedback[y]
  <1> SUFFICES ASSUME NEW i \in 1..6, NEW b \in 0..4
               PROVE  b \in Times(Generator[i], y) <=> b + 5 * (6 - i) \in Feedback[y]
    OBVIOUS
  <1> DEFINE p == b + 5 * (6 - i)
  <1>1. \A k \in 1..5 : b \in Cell(k, i) <=> p \in GEN[k]
    BY DEF Cell
  <1>2. /\ Cell(2, i) = TimesA(Cell(1, i)) /\ Cell(3, i) = TimesA(Cell(2, i))
        /\ Cell(4, i) = TimesA(Cell(3, i)) /\ Cell(5, i) = TimesA(Cell(4, i))
    <2>1. 1 + 1 = 2 /\ 2 + 1 = 3 /\ 3 + 1 = 4 /\ 4 + 1 = 5 /\ 1 \in 1..4 /\ 2 \in 1..4 /\ 3 \in 1..4 /\ 4 \in 1..4
      OBVIOUS
    <2> QED BY <2>1, CellIsTimes
  <1>3. 1 \in 1..5 /\ 2 \in 1..5 /\ 3 \in 1..5 /\ 4 \in 1..5 /\ 5 \in 1..5
    OBVIOUS
  <1> HIDE DEF p
  <1>4. b \in Times(Cell(1, i), y) <=> p \in Feedback[y]
    BY <1>1, <1>2, <1>3, InColumn
  <1> QED
    BY <1>4, CellIsGenerator DEF p

\* A product is an element of GF(32).
LEMMA TimesType ==
  ASSUME NEW i \in 1..6, NEW y \in Chars
  PROVE  Times(Generator[i], y) \in Chars
  <1>1. Generator[i] \in Chars
    BY DEF Generator, Chars
  <1> DEFINE x == Generator[i]
             x1 == TimesA(x)
             x2 == TimesA(x1)
             x3 == TimesA(x2)
             x4 == TimesA(x3)
  <1> HIDE DEF x, x1, x2, x3, x4
  <1>2. x \in Chars /\ x1 \in Chars
    BY <1>1, InTimesA DEF x, x1
  <1>3. x2 \in Chars
    BY <1>2, InTimesA DEF x2
  <1>4. x3 \in Chars
    BY <1>3, InTimesA DEF x3
  <1>5. x4 \in Chars
    BY <1>4, InTimesA DEF x4
  <1>6. \A p : p \in Times(x, y) => p \in x \/ p \in x1 \/ p \in x2 \/ p \in x3 \/ p \in x4
    BY InTimes DEF x1, x2, x3, x4
  <1>7. Times(x, y) \in Chars
    BY <1>2, <1>3, <1>4, <1>5, <1>6 DEF Chars
  <1> QED
    BY <1>7 DEF x

\* A step of the division leaves a polynomial of degree below six.
LEMMA DivideType ==
  ASSUME NEW r \in [1..6 -> Chars], NEW v \in Chars
  PROVE  Divide(v)[r] \in [1..6 -> Chars]
  <1> DEFINE e(i) == SymDiff(IF i = 6 THEN v ELSE r[i + 1], Times(Generator[i], r[1]))
  <1>1. Divide(v)[r] = [i \in 1..6 |-> e(i)]
    BY DEF Divide, Chars
  <1>2. ASSUME NEW i \in 1..6 PROVE e(i) \in Chars
    <2> DEFINE w == IF i = 6 THEN v ELSE r[i + 1]
    <2>1. w \in Chars
      <3>1. i # 6 => i + 1 \in 1..6
        OBVIOUS
      <3> QED BY <3>1
    <2>2. r[1] \in Chars
      OBVIOUS
    <2>3. Times(Generator[i], r[1]) \in Chars
      BY <2>2, TimesType
    <2> HIDE DEF w
    <2>4. SymDiff(w, Times(Generator[i], r[1])) \in Chars
      BY <2>1, <2>3 DEF SymDiff, Chars
    <2> QED BY <2>4 DEF w
  <1> HIDE DEF e
  <1> QED
    BY <1>1, <1>2

\* A turn of polymod is a step of the division.
LEMMA DivideIsAbsorb ==
  ASSUME NEW r \in [1..6 -> Chars], NEW v \in Chars
  PROVE  Placed(Divide(v)[r]) = Absorb(v)[Placed(r)]
  <1> DEFINE chk == Absorb(v)[Placed(r)]
             R == Placed(r)
  <1>1. R \in Registers
    BY PlacedType
  <1>2. chk \in Registers
    BY <1>1, AbsorbType
  <1>3. Divide(v)[r] \in [1..6 -> Chars]
    BY DivideType
  <1>4. \A i \in 1..6 : \A b : b \in 0..4 => (b \in r[i] <=> b + 5 * (6 - i) \in R)
    <2>1. Digits(R) = r
      BY DigitsOfPlaced
    <2>2. \A i \in 1..6 : \A b : b \in Digits(R)[i] <=> b \in 0..4 /\ b + 5 * (6 - i) \in R
      BY <1>1, InDigits
    <2> HIDE DEF R
    <2> QED BY <2>1, <2>2, Zenon
  <1>5. r[1] = ShiftRight(R, 25)
    <2>1. ShiftRight(R, 25) \in Chars /\ \A k : k \in ShiftRight(R, 25) <=> k \in Nat /\ k + 25 \in R
      BY <1>1, InOverflow
    <2>2. r[1] \in Chars /\ \A k \in 0..4 : k \in r[1] <=> k + 25 \in R
      <3>1. 1 \in 1..6 /\ 5 * (6 - 1) = 25
        OBVIOUS
      <3> QED BY <3>1, <1>4
    <2> HIDE DEF R
    <2> QED BY <2>1, <2>2 DEF Chars
  <1>6. ASSUME NEW i \in 1..6, NEW b \in 0..4
        PROVE  b \in Divide(v)[r][i] <=> b + 5 * (6 - i) \in chk
    <2> DEFINE p == b + 5 * (6 - i)
               w == IF i = 6 THEN v ELSE r[i + 1]
    <2>1. Divide(v)[r][i] = SymDiff(w, Times(Generator[i], r[1]))
      BY DEF Divide, Chars
    <2>2. b \in Times(Generator[i], r[1]) <=> p \in Feedback[r[1]]
      <3>1. r[1] \in Chars
        OBVIOUS
      <3> QED BY <3>1, TimesIsFeedback
    <2>3. b \in w <=> ~ ((p \in 5..29 /\ p - 5 \in R) <=> p \in v)
      <3>1. CASE i = 6
        <4>1. p = b /\ ~(p \in 5..29)
          BY <3>1
        <4> HIDE DEF p
        <4> QED BY <4>1, <3>1
      <3>2. CASE i # 6
        <4>1. i + 1 \in 1..6 /\ p - 5 = b + 5 * (6 - (i + 1)) /\ p \in 5..29
          BY <3>2
        <4>2. p \notin v
          BY <4>1 DEF Chars
        <4>3. b \in r[i + 1] <=> b + 5 * (6 - (i + 1)) \in R
          BY <4>1, <1>4
        <4> HIDE DEF p, R
        <4> QED BY <3>2, <4>1, <4>2, <4>3
      <3> QED BY <3>1, <3>2
    <2>4. p \in chk <=> ~ (~ ((p \in 5..29 /\ p - 5 \in R) <=> p \in v) <=> p \in Feedback[ShiftRight(R, 25)])
      BY <1>1, InAbsorb
    <2> HIDE DEF p, w, R, chk
    <2>5. b \in Divide(v)[r][i] <=> ~ (b \in w <=> b \in Times(Generator[i], r[1]))
      BY <2>1, InXor
    <2>6. b \in Divide(v)[r][i] <=> p \in chk
      BY <1>5, <2>2, <2>3, <2>4, <2>5
    <2> QED BY <2>6 DEF p
  <1> HIDE DEF chk, R
  <1>7. \A i \in 1..6 : \A b : b \in Digits(chk)[i] <=> b \in 0..4 /\ b + 5 * (6 - i) \in chk
    BY <1>2, InDigits
  <1>8. ASSUME NEW i \in 1..6 PROVE Divide(v)[r][i] = Digits(chk)[i]
    <2>1. Divide(v)[r][i] \in Chars
      BY <1>3
    <2> QED BY <1>6, <1>7, <2>1 DEF Chars
  <1>9. Divide(v)[r] = Digits(chk)
    <2>1. Digits(chk) \in [1..6 -> Chars]
      BY <1>2, DigitsType
    <2> HIDE DEF Chars
    <2> QED BY <1>3, <1>8, <2>1
  <1> QED
    BY <1>2, <1>9, PlacedDigits DEF chk, R

\* What the remainder is after each value.
IsRemainder(rem, values) ==
  /\ rem \in [Nat -> [1..6 -> Chars]]
  /\ rem[0] = <<{}, {}, {}, {}, {}, {0}>>
  /\ \A i \in 1..Len(values) : rem[i] = Divide(values[i])[rem[i - 1]]

\* The polynomial 1, the register's initial value.
LEMMA OneType == <<{}, {}, {}, {}, {}, {0}>> \in [1..6 -> Chars]
  BY DEF Chars

\* The division, one step at a time.
LEMMA RemainderUnfolds ==
  ASSUME NEW values \in Seq(Chars)
  PROVE  \E rem : IsRemainder(rem, values) /\ Remainder(values) = rem[Len(values)]
  <1> DEFINE D == [1..6 -> Chars]
             one == <<{}, {}, {}, {}, {}, {0}>>
             next(i, c) == IF i \in DOMAIN values THEN Divide(values[i])[c] ELSE one
             step == [x \in Nat \X D |-> next(x[1], x[2])]
             IsLoop(f) == f = [i \in Nat |-> IF i \in DOMAIN values THEN Divide(values[i])[f[i - 1]] ELSE one]
             rem == CHOOSE g : IsLoop(g)
  <1>0. Remainder(values) = rem[Len(values)]
    BY DEF Remainder
  <1>1. DOMAIN values = 1..Len(values) /\ Len(values) \in Nat /\ \A i \in DOMAIN values : values[i] \in Chars
    OBVIOUS
  <1>2. one \in D
    BY OneType
  <1>3. \A i \in Nat, c \in D : next(i, c) \in D
    <2> HIDE DEF one
    <2>1. ASSUME NEW i \in DOMAIN values, NEW c \in D PROVE Divide(values[i])[c] \in D
      BY <1>1, DivideType
    <2> HIDE DEF D
    <2> QED BY <1>2, <2>1
  <1> HIDE DEF D, one
  <1>4. step \in [Nat \X D -> D] /\ \A i \in Nat, c \in D : step[<<i, c>>] = next(i, c)
    <2> HIDE DEF next
    <2> QED BY <1>3
  <1> HIDE DEF step, next
  <1>5. PICK f \in [Nat -> D] : IsRecursive(f, one, step)
    BY <1>2, <1>4, RecursionExists
  <1> USE DEF next
  <1>6. IsLoop(f)
    <2>1. \A i \in Nat : (IF i = 0 THEN one ELSE step[<<i, f[i - 1]>>])
                          = IF i \in DOMAIN values THEN Divide(values[i])[f[i - 1]] ELSE one
      BY <1>1, <1>4, <1>5
    <2> QED BY <1>5, <2>1 DEF IsRecursive
  <1>7. IsLoop(rem)
    BY <1>6
  <1> HIDE DEF rem
  <1>9. rem[0] = one /\ \A i \in 1..Len(values) : rem[i] = Divide(values[i])[rem[i - 1]]
    <2>1. \A i \in Nat : rem[i] = IF i \in DOMAIN values THEN Divide(values[i])[rem[i - 1]] ELSE one
      BY <1>7
    <2>2. 0 \notin DOMAIN values /\ \A i \in 1..Len(values) : i \in Nat /\ i \in DOMAIN values
      BY <1>1
    <2> QED BY <2>1, <2>2
  <1>10. rem \in [Nat -> D]
    <2> DEFINE S == {i \in Nat : rem[i] \in D}
    <2>1. 0 \in S
      BY <1>2, <1>9
    <2>2. ASSUME NEW i \in Nat, i \in S PROVE i + 1 \in S
      <3>1. i + 1 \in Nat /\ (i + 1) - 1 = i
        OBVIOUS
      <3>2. \A j \in Nat : rem[j] = IF j \in DOMAIN values THEN Divide(values[j])[rem[j - 1]] ELSE one
        BY <1>7
      <3>3. rem[i + 1] = next(i + 1, rem[i])
        BY <3>1, <3>2
      <3>4. rem[i] \in D
        BY <2>2
      <3> HIDE DEF next
      <3>5. rem[i + 1] \in D
        BY <1>3, <3>1, <3>3, <3>4
      <3> QED BY <3>1, <3>5
    <2> HIDE DEF S
    <2>3. Nat \subseteq S
      BY <2>1, <2>2, Induction
    <2> QED BY <1>7, <2>3 DEF S
  <1> QED
    BY <1>0, <1>9, <1>10 DEF IsRemainder, D, one

\* A remainder has degree below six.
LEMMA RemainderType ==
  ASSUME NEW values \in Seq(Chars)
  PROVE  Remainder(values) \in [1..6 -> Chars]
  <1>1. PICK rem : IsRemainder(rem, values) /\ Remainder(values) = rem[Len(values)]
    BY RemainderUnfolds
  <1>2. Len(values) \in Nat
    OBVIOUS
  <1> QED
    BY <1>1, <1>2 DEF IsRemainder

\* polymod, with its shifts, its masks and its table, computes the remainder of the
\* division by the generator of Bech32, for every sequence of values.
THEOREM PolymodIsRemainder ==
  ASSUME NEW values \in Seq(Chars)
  PROVE  Polymod(values) = Placed(Remainder(values))
  <1>1. PICK f : IsRegister(f, values) /\ Polymod(values) = f[Len(values)]
    BY PolymodUnfolds
  <1>2. PICK g : IsRemainder(g, values) /\ Remainder(values) = g[Len(values)]
    BY RemainderUnfolds
  <1> DEFINE S == {i \in Nat : i <= Len(values) => f[i] = Placed(g[i])}
  <1>3. 0 \in S
    <2>1. f[0] = {0} /\ g[0] = <<{}, {}, {}, {}, {}, {0}>>
      BY <1>1, <1>2 DEF IsRegister, IsRemainder
    <2>2. Placed(<<{}, {}, {}, {}, {}, {0}>>) = {0}
      <3> DEFINE one == <<{}, {}, {}, {}, {}, {0}>>
      <3>1. \A i \in 1..6 : \A p : p \in one[i] <=> i = 6 /\ p = 0
        OBVIOUS
      <3>2. one \in [1..6 -> Chars]
        BY OneType
      <3> HIDE DEF one
      <3>3. \A p : p \in Placed(one) <=> \E i \in 1..6 : p \in Nat /\ p - 5 * (6 - i) \in one[i]
        BY <3>2, InPlaced
      <3>4. \A p : p \in Placed(one) <=> p = 0
        <4>1. 6 \in 1..6 /\ 5 * (6 - 6) = 0
          OBVIOUS
        <4> QED BY <3>1, <3>3, <4>1
      <3>5. Placed(one) = {0}
        BY <3>4
      <3> QED BY <3>5 DEF one
    <2> QED BY <2>1, <2>2
  <1>4. ASSUME NEW i \in Nat, i \in S PROVE i + 1 \in S
    <2>1. SUFFICES ASSUME i + 1 <= Len(values) PROVE f[i + 1] = Placed(g[i + 1])
      OBVIOUS
    <2>2. i + 1 \in 1..Len(values) /\ (i + 1) - 1 = i /\ i <= Len(values)
      BY <2>1
    <2>3. f[i + 1] = Absorb(values[i + 1])[f[i]] /\ g[i + 1] = Divide(values[i + 1])[g[i]]
      BY <1>1, <1>2, <2>2 DEF IsRegister, IsRemainder
    <2>4. values[i + 1] \in Chars /\ g[i] \in [1..6 -> Chars] /\ f[i] = Placed(g[i])
      BY <1>2, <1>4, <2>2 DEF IsRemainder
    <2>5. Placed(Divide(values[i + 1])[g[i]]) = Absorb(values[i + 1])[Placed(g[i])]
      BY <2>4, DivideIsAbsorb
    <2> QED BY <2>3, <2>4, <2>5
  <1> HIDE DEF S
  <1>5. Nat \subseteq S
    BY <1>3, <1>4, Induction
  <1>6. Len(values) \in Nat
    OBVIOUS
  <1> QED
    BY <1>1, <1>2, <1>5, <1>6 DEF S

\* The prefix gives characters of five bits, whatever its codes below 128 are.
LEMMA ExpandType ==
  ASSUME NEW s \in Seq(0..127)
  PROVE  HrpExpand(s) \in Seq(Chars) /\ Len(HrpExpand(s)) = 2 * Len(s) + 1
  <1> DEFINE hi == [i \in DOMAIN s |-> Bits(s[i] \div 32)]
             lo == [i \in DOMAIN s |-> Bits(s[i] % 32)]
  <1>1. DOMAIN s = 1..Len(s) /\ Len(s) \in Nat
    OBVIOUS
  <1>2. ASSUME NEW i \in DOMAIN s PROVE Bits(s[i] \div 32) \in Chars /\ Bits(s[i] % 32) \in Chars
    <2>1. s[i] \in 0..127
      BY <1>1, <1>2, ElementOfSeq
    <2>2. s[i] \div 32 \in 0..31 /\ s[i] % 32 \in 0..31
      <3>1. \A c \in 0..127 : c \div 32 \in 0..31 /\ c % 32 \in 0..31
        OBVIOUS
      <3> QED BY <2>1, <3>1
    <2>3. \A n \in 0..31 : Bits(n) \in Chars
      <3>1. \A n \in 0..31 : n \in 0..255 /\ n < 32
        OBVIOUS
      <3>2. \A n \in 0..255 : n < 32 => Bits(n) \subseteq 0..4
        BY ShortWords, Zenon
      <3> QED BY <3>1, <3>2 DEF Chars
    <2> QED BY <2>2, <2>3
  <1> HIDE DEF Chars
  <1>3. hi \in Seq(Chars) /\ Len(hi) = Len(s) /\ lo \in Seq(Chars) /\ Len(lo) = Len(s)
    <2>1. hi \in [1..Len(s) -> Chars] /\ lo \in [1..Len(s) -> Chars]
      BY <1>1, <1>2
    <2> HIDE DEF hi, lo
    <2> QED BY <1>1, <2>1
  <1>4. <<{}>> \in Seq(Chars) /\ Len(<<{}>>) = 1
    BY DEF Chars
  <1>5. HrpExpand(s) = hi \o <<{}>> \o lo
    BY DEF HrpExpand
  <1> HIDE DEF hi, lo
  <1>6. hi \o <<{}>> \in Seq(Chars) /\ Len(hi \o <<{}>>) = Len(s) + 1
    BY <1>1, <1>3, <1>4, ConcatProperties
  <1> DEFINE front == hi \o <<{}>>
  <1> HIDE DEF front
  <1>7. front \o lo \in Seq(Chars) /\ Len(front \o lo) = (Len(s) + 1) + Len(s)
    <2>1. front \in Seq(Chars) /\ Len(front) = Len(s) + 1
      BY <1>6 DEF front
    <2>2. lo \in Seq(Chars) /\ Len(lo) = Len(s)
      BY <1>3
    <2>3. front \o lo \in Seq(Chars) /\ Len(front \o lo) = Len(front) + Len(lo)
      BY <2>1, <2>2, ConcatProperties, Zenon
    <2> QED BY <2>1, <2>2, <2>3
  <1> QED
    BY <1>1, <1>5, <1>7 DEF front

-----------------------------------------------------------------------------
(* Regrouping the bits. *)

\* The bits of a sequence of words in the order in which they are written, and
\* the m bits before position a of such a stream, as a word.
Stream(data, width) ==
  {n \in Nat : \E j \in DOMAIN data : \E p \in data[j] : n = width * j - 1 - p}
Window(S, a, m) == {q \in 0..(m - 1) : a - 1 - q \in S}

\* The widths between which convertBits is used.
Widths == {5, 8}

\* A turn of convertBits leaves an accumulator, a count and an output.
LEMMA ConvertType ==
  ASSUME NEW from \in Widths, NEW to \in Widths, NEW v \in SUBSET Nat, NEW r \in Accumulators
  PROVE  Convert(v, from, to)[r] \in Accumulators
  <1> DEFINE acc == Low(ShiftLeft(r.acc, from) \union v, from + to - 1)
             bits == r.bits + from
             new == [k \in 1..(bits \div to) |-> Low(ShiftRight(acc, bits - k * to), to)]
  <1>1. Convert(v, from, to)[r] = [acc |-> acc, bits |-> bits % to, out |-> r.out \o new]
    BY DEF Convert
  <1>2. r.acc \in SUBSET Nat /\ r.bits \in Nat /\ r.out \in Seq(SUBSET Nat)
    BY DEF Accumulators
  <1>3. acc \in SUBSET Nat
    BY DEF Low, Widths
  <1>4. bits \in Nat /\ bits % to \in Nat /\ bits \div to \in Nat
    <2>1. bits \in Nat
      BY <1>2 DEF Widths
    <2> HIDE DEF bits
    <2>2. \A b \in Nat : b % 5 \in Nat /\ b % 8 \in Nat /\ b \div 5 \in Nat /\ b \div 8 \in Nat
      OBVIOUS
    <2> QED BY <2>1, <2>2 DEF Widths
  <1> HIDE DEF acc, bits
  <1>5. new \in Seq(SUBSET Nat)
    <2>1. \A k \in 1..(bits \div to) : Low(ShiftRight(acc, bits - k * to), to) \in SUBSET Nat
      BY DEF Low, Widths
    <2> QED BY <1>4, <2>1, IsASeq
  <1> HIDE DEF new
  <1>6. r.out \o new \in Seq(SUBSET Nat)
    BY <1>2, <1>5, ConcatProperties
  <1> QED
    BY <1>1, <1>3, <1>4, <1>6 DEF Accumulators

\* After the first bits of the stream, the accumulator holds the last ones, and
\* what is out is the stream in words of the new width.
Converted(r, S, a, from, to) ==
  /\ r.acc = Window(S, a, from + to - 1)
  /\ r.bits \in 0..(to - 1)
  /\ r.bits = a - to * Len(r.out)
  /\ \A j \in 1..Len(r.out) : r.out[j] = Window(S, to * j, to)

\* How many words of the output a turn of convertBits takes from so many bits.
LEMMA Quotient ==
  ASSUME NEW b \in Nat, NEW to \in Widths
  PROVE  /\ b \div to \in Nat /\ b % to \in 0..(to - 1) /\ b % to = b - to * (b \div to)
         /\ \A k \in 1..(b \div to) : k * to \in Nat /\ to <= k * to /\ k * to <= b
  <1>1. CASE to = 5
    <2>1. b \div 5 \in Nat /\ b % 5 \in 0..4 /\ b % 5 = b - 5 * (b \div 5)
      OBVIOUS
    <2>2. \A k \in 1..(b \div 5) : k * 5 \in Nat /\ 5 <= k * 5 /\ k * 5 <= b
      BY <2>1
    <2> QED BY <1>1, <2>1, <2>2
  <1>2. CASE to = 8
    <2>1. b \div 8 \in Nat /\ b % 8 \in 0..7 /\ b % 8 = b - 8 * (b \div 8)
      OBVIOUS
    <2>2. \A k \in 1..(b \div 8) : k * 8 \in Nat /\ 8 <= k * 8 /\ k * 8 <= b
      BY <2>1
    <2> QED BY <1>2, <2>1, <2>2
  <1> QED
    BY <1>1, <1>2 DEF Widths

\* Arithmetic of places in a stream.
LEMMA Multiples ==
  ASSUME NEW to \in Widths, NEW n \in Nat, NEW k \in Nat
  PROVE  to * (n + k) = to * n + k * to /\ to * k = k * to /\ to * n \in Nat /\ k * to \in Nat
  <1>1. CASE to = 5
    BY <1>1
  <1>2. CASE to = 8
    BY <1>2
  <1> QED
    BY <1>1, <1>2 DEF Widths

\* A turn of convertBits: it takes one word of the stream and puts out the words that
\* are then complete, in order; the rest stays in the accumulator.
LEMMA ConvertTurn ==
  ASSUME NEW from \in Widths, NEW to \in Widths, NEW S \in SUBSET Nat, NEW a \in Nat,
         NEW r \in Accumulators, Converted(r, S, a, from, to), NEW v, v = Window(S, a + from, from)
  PROVE  Converted(Convert(v, from, to)[r], S, a + from, from, to)
  <1> DEFINE acc == Low(ShiftLeft(r.acc, from) \union v, from + to - 1)
             bits == r.bits + from
             d == bits \div to
             new == [k \in 1..d |-> Low(ShiftRight(acc, bits - k * to), to)]
             n == Len(r.out)
             b == to * n
  <1>1. Convert(v, from, to)[r] = [acc |-> acc, bits |-> bits % to, out |-> r.out \o new]
    BY DEF Convert
  <1>2. r.acc \in SUBSET Nat /\ r.bits \in Nat /\ r.out \in Seq(SUBSET Nat) /\ n \in Nat
    BY DEF Accumulators
  <1>3. /\ r.acc = Window(S, a, from + to - 1) /\ r.bits \in 0..(to - 1) /\ r.bits = a - b
        /\ \A j \in 1..n : r.out[j] = Window(S, to * j, to)
    BY DEF Converted
  <1>4. from \in Nat /\ to \in Nat /\ from >= 1 /\ to >= 1 /\ b \in Nat
    <2>1. b \in Nat
      BY <1>2, Multiples
    <2> QED BY <2>1 DEF Widths
  <1> HIDE DEF b, n
  <1>5. bits \in Nat /\ bits = a + from - b /\ bits <= from + to - 1
    BY <1>3, <1>4
  <1>6. acc = Window(S, a + from, from + to - 1)
    <2>1. \A q : q \in ShiftLeft(r.acc, from) <=> q \in Nat /\ q - from \in r.acc
      BY <1>2, <1>4, InShiftLeft
    <2>2. ASSUME NEW q \in 0..(from + to - 2)
          PROVE  q \in ShiftLeft(r.acc, from) \union v <=> (a + from) - 1 - q \in S
      <3>1. CASE q \in 0..(from - 1)
        <4>1. q \in v <=> (a + from) - 1 - q \in S
          BY <3>1 DEF Window
        <4>2. ~(q - from \in Nat)
          BY <1>4, <3>1
        <4> QED BY <1>2, <2>1, <4>1, <4>2
      <3>2. CASE q - from \in 0..(from + to - 2)
        <4>1. q - from \in r.acc <=> a - 1 - (q - from) \in S
          BY <1>3, <1>4, <3>2 DEF Window
        <4>2. a - 1 - (q - from) = (a + from) - 1 - q /\ q \in Nat /\ ~(q \in 0..(from - 1))
          BY <1>4, <3>2
        <4>3. q \notin v
          BY <4>2 DEF Window
        <4> QED BY <2>1, <4>1, <4>2, <4>3
      <3> QED BY <1>4, <3>1, <3>2
    <2> DEFINE u == ShiftLeft(r.acc, from) \union v
    <2>3. \A q : q \in acc <=> q \in u /\ q \in 0..(from + to - 2)
      <3>1. from + to - 1 \in Nat /\ (from + to - 1) - 1 = from + to - 2
        BY <1>4
      <3> QED BY <3>1 DEF Low
    <2>4. \A q : q \in Window(S, a + from, from + to - 1) <=> q \in 0..(from + to - 2) /\ (a + from) - 1 - q \in S
      <3>1. (from + to - 1) - 1 = from + to - 2
        BY <1>4
      <3> QED BY <3>1 DEF Window
    <2> HIDE DEF u, acc
    <2>5. \A q : q \in acc <=> q \in Window(S, a + from, from + to - 1)
      BY <2>2, <2>3, <2>4 DEF u
    <2> QED BY <2>5
  <1> HIDE DEF acc, bits, d
  <1>7. /\ d \in Nat /\ bits % to \in 0..(to - 1) /\ bits % to = bits - to * d
        /\ \A k \in 1..d : k * to \in Nat /\ to <= k * to /\ k * to <= bits
    BY <1>5, Quotient DEF d
  <1>8. \A k \in 1..d : new[k] = Window(S, to * (n + k), to)
    <2> TAKE k \in 1..d
    <2> DEFINE c == k * to
    <2>1. to * (n + k) = b + c
      BY <1>2, Multiples DEF b
    <2>2. c \in Nat /\ to <= c /\ c <= bits
      BY <1>7
    <2>3. new[k] = Low(ShiftRight(acc, bits - c), to)
      OBVIOUS
    <2> HIDE DEF c
    <2>4. \A q : q \in ShiftRight(acc, bits - c) <=> q \in Nat /\ q + (bits - c) \in acc
      <3>1. acc \in SUBSET Nat /\ bits - c \in Nat
        BY <1>4, <1>5, <1>6, <2>2 DEF Window
      <3> QED BY <3>1, InShiftRight
    <2>5. ASSUME NEW q \in 0..(to - 1) PROVE q + (bits - c) \in acc <=> (b + c) - 1 - q \in S
      <3>1. q + (bits - c) \in 0..((from + to - 1) - 1) /\ (a + from) - 1 - (q + (bits - c)) = (b + c) - 1 - q
        BY <1>4, <1>5, <2>2
      <3> QED BY <1>6, <3>1 DEF Window
    <2>6. \A q : q \in Low(ShiftRight(acc, bits - c), to) <=> q \in ShiftRight(acc, bits - c) /\ q \in 0..(to - 1)
      BY DEF Low
    <2>7. \A q : q \in Low(ShiftRight(acc, bits - c), to) <=> q \in Window(S, b + c, to)
      BY <1>4, <2>4, <2>5, <2>6 DEF Window
    <2>8. Low(ShiftRight(acc, bits - c), to) = Window(S, b + c, to)
      BY <2>7
    <2> HIDE DEF new
    <2> QED BY <2>1, <2>3, <2>8, Zenon
  <1>9. new \in Seq(SUBSET Nat) /\ Len(new) = d
    <2>1. \A k \in 1..d : Low(ShiftRight(acc, bits - k * to), to) \in SUBSET Nat
      BY DEF Low, Widths
    <2>2. new \in Seq(SUBSET Nat)
      BY <1>7, <2>1, IsASeq
    <2> QED BY <1>7, <2>2
  <1> HIDE DEF new
  <1> DEFINE out == r.out \o new
  <1>10. /\ Len(out) = n + d
         /\ \A i \in 1..(n + d) : out[i] = IF i <= n THEN r.out[i] ELSE new[i - n]
    <2>1. /\ Len(out) = Len(r.out) + Len(new)
          /\ \A i \in 1..Len(r.out) + Len(new) : out[i] = IF i <= Len(r.out) THEN r.out[i] ELSE new[i - Len(r.out)]
      BY <1>2, <1>9, ConcatProperties, Zenon
    <2> QED BY <1>9, <2>1 DEF n
  <1> HIDE DEF out
  <1>11. ASSUME NEW j \in 1..(n + d) PROVE out[j] = Window(S, to * j, to)
    <2>1. CASE j <= n
      <3>1. j \in 1..n
        BY <1>2, <2>1
      <3> QED BY <1>3, <1>10, <2>1, <3>1
    <2>2. CASE ~(j <= n)
      <3>1. j - n \in 1..d /\ n + (j - n) = j
        BY <1>2, <1>7, <2>2
      <3>2. new[j - n] = Window(S, to * (n + (j - n)), to)
        BY <1>8, <3>1
      <3> QED BY <1>10, <2>2, <3>1, <3>2
    <2> QED BY <2>1, <2>2
  <1>12. bits % to = (a + from) - to * (n + d)
    <2>1. to * (n + d) = b + d * to /\ to * d = d * to /\ d * to \in Nat
      BY <1>2, <1>7, Multiples DEF b
    <2> QED BY <1>4, <1>5, <1>7, <2>1
  <1> DEFINE r1 == Convert(v, from, to)[r]
  <1>13. r1.acc = acc /\ r1.bits = bits % to /\ r1.out = out
    BY <1>1 DEF out
  <1> HIDE DEF r1
  <1>14. Converted(r1, S, a + from, from, to)
    BY <1>6, <1>7, <1>10, <1>11, <1>12, <1>13 DEF Converted
  <1> QED
    BY <1>14 DEF r1

\* What the loop of convertBits holds after each word.
IsConversion(loop, data, from, to) ==
  /\ loop \in [Nat -> Accumulators]
  /\ loop[0] = [acc |-> {}, bits |-> 0, out |-> <<>>]
  /\ \A i \in 1..Len(data) : loop[i] = Convert(data[i], from, to)[loop[i - 1]]

\* The loop of convertBits, one turn at a time.
LEMMA RegroupUnfolds ==
  ASSUME NEW from \in Widths, NEW to \in Widths, NEW data \in Seq(SUBSET Nat)
  PROVE  \E loop : IsConversion(loop, data, from, to) /\ Regroup(data, from, to) = loop[Len(data)]
  <1> DEFINE D == Accumulators
             one == [acc |-> {}, bits |-> 0, out |-> <<>>]
             next(i, c) == IF i \in DOMAIN data THEN Convert(data[i], from, to)[c] ELSE one
             step == [x \in Nat \X D |-> next(x[1], x[2])]
             IsLoop(f) == f = [i \in Nat |-> IF i \in DOMAIN data THEN Convert(data[i], from, to)[f[i - 1]] ELSE one]
             loop == CHOOSE g : IsLoop(g)
  <1>0. Regroup(data, from, to) = loop[Len(data)]
    BY DEF Regroup
  <1>1. DOMAIN data = 1..Len(data) /\ Len(data) \in Nat /\ \A i \in DOMAIN data : data[i] \in SUBSET Nat
    OBVIOUS
  <1>2. one \in D
    BY DEF Accumulators
  <1>3. \A i \in Nat, c \in D : next(i, c) \in D
    <2> HIDE DEF one
    <2>1. ASSUME NEW i \in DOMAIN data, NEW c \in D PROVE Convert(data[i], from, to)[c] \in D
      BY <1>1, ConvertType
    <2> HIDE DEF D
    <2> QED BY <1>2, <2>1
  <1> HIDE DEF D, one
  <1>4. step \in [Nat \X D -> D] /\ \A i \in Nat, c \in D : step[<<i, c>>] = next(i, c)
    <2> HIDE DEF next
    <2> QED BY <1>3
  <1> HIDE DEF step, next
  <1>5. PICK f \in [Nat -> D] : IsRecursive(f, one, step)
    BY <1>2, <1>4, RecursionExists
  <1> USE DEF next
  <1>6. IsLoop(f)
    <2>1. \A i \in Nat : (IF i = 0 THEN one ELSE step[<<i, f[i - 1]>>])
                          = IF i \in DOMAIN data THEN Convert(data[i], from, to)[f[i - 1]] ELSE one
      BY <1>1, <1>4, <1>5
    <2> QED BY <1>5, <2>1 DEF IsRecursive
  <1>7. IsLoop(loop)
    BY <1>6
  <1> HIDE DEF loop
  <1>9. loop[0] = one /\ \A i \in 1..Len(data) : loop[i] = Convert(data[i], from, to)[loop[i - 1]]
    <2>1. \A i \in Nat : loop[i] = IF i \in DOMAIN data THEN Convert(data[i], from, to)[loop[i - 1]] ELSE one
      BY <1>7
    <2>2. 0 \notin DOMAIN data /\ \A i \in 1..Len(data) : i \in Nat /\ i \in DOMAIN data
      BY <1>1
    <2> QED BY <2>1, <2>2
  <1>10. loop \in [Nat -> D]
    <2> DEFINE T == {i \in Nat : loop[i] \in D}
    <2>1. 0 \in T
      BY <1>2, <1>9
    <2>2. ASSUME NEW i \in Nat, i \in T PROVE i + 1 \in T
      <3>1. i + 1 \in Nat /\ (i + 1) - 1 = i
        OBVIOUS
      <3>2. \A j \in Nat : loop[j] = IF j \in DOMAIN data THEN Convert(data[j], from, to)[loop[j - 1]] ELSE one
        BY <1>7
      <3>3. loop[i + 1] = next(i + 1, loop[i])
        BY <3>1, <3>2
      <3>4. loop[i] \in D
        BY <2>2
      <3> HIDE DEF next
      <3>5. loop[i + 1] \in D
        BY <1>3, <3>1, <3>3, <3>4
      <3> QED BY <3>1, <3>5
    <2> HIDE DEF T
    <2>3. Nat \subseteq T
      BY <2>1, <2>2, Induction
    <2> QED BY <1>7, <2>3 DEF T
  <1> QED
    BY <1>0, <1>9, <1>10 DEF IsConversion, D, one

\* The word at position j of a sequence is what its stream holds there.
LEMMA WindowOfStream ==
  ASSUME NEW width \in Widths, NEW data \in Seq(SUBSET (0..(width - 1))), NEW j \in 1..Len(data)
  PROVE  Window(Stream(data, width), width * j, width) = data[j]
  <1>1. DOMAIN data = 1..Len(data) /\ Len(data) \in Nat /\ \A i \in DOMAIN data : data[i] \in SUBSET (0..(width - 1))
    OBVIOUS
  <1>2. ASSUME NEW q \in 0..(width - 1), width * j - 1 - q \in Stream(data, width) PROVE q \in data[j]
    <2>0. PICK i \in 1..Len(data) : \E p \in data[i] : width * j - 1 - q = width * i - 1 - p
      BY <1>1, <1>2 DEF Stream
    <2>1. PICK p \in data[i] : width * j - 1 - q = width * i - 1 - p
      BY <2>0
    <2>2. p \in 0..(width - 1)
      BY <1>1
    <2>3. i = j /\ p = q
      <3>1. CASE width = 5
        BY <2>1, <2>2, <3>1
      <3>2. CASE width = 8
        BY <2>1, <2>2, <3>2
      <3> QED BY <3>1, <3>2 DEF Widths
    <2> QED BY <2>3
  <1>3. ASSUME NEW q \in data[j] PROVE q \in 0..(width - 1) /\ width * j - 1 - q \in Stream(data, width)
    <2>1. q \in 0..(width - 1)
      BY <1>1
    <2>2. width * j - 1 - q \in Nat
      <3>1. CASE width = 5
        BY <2>1, <3>1
      <3>2. CASE width = 8
        BY <2>1, <3>2
      <3> QED BY <3>1, <3>2 DEF Widths
    <2> QED BY <1>1, <2>1, <2>2 DEF Stream
  <1>4. \A q : q \in Window(Stream(data, width), width * j, width) <=> q \in data[j]
    BY <1>2, <1>3 DEF Window
  <1>5. data[j] \in SUBSET (0..(width - 1))
    BY <1>1
  <1> QED
    BY <1>4

\* A sequence whose words are what a stream holds has that stream.
LEMMA StreamOfWindows ==
  ASSUME NEW width \in Widths, NEW S, NEW c, NEW m \in Nat, DOMAIN c = 1..m,
         S \subseteq 0..(width * m - 1),
         \A j \in 1..m : c[j] = Window(S, width * j, width)
  PROVE  Stream(c, width) = S
  <1>1. ASSUME NEW x \in Stream(c, width) PROVE x \in S
    <2>0. PICK j \in 1..m : \E p \in c[j] : x = width * j - 1 - p
      BY <1>1 DEF Stream
    <2>1. PICK p \in c[j] : x = width * j - 1 - p
      BY <2>0
    <2> QED BY <2>1 DEF Window
  <1>2. ASSUME NEW x \in S PROVE x \in Stream(c, width)
    <2>1. x \in 0..(width * m - 1) /\ x \in Nat
      <3>1. width * m - 1 \in Int
        BY DEF Widths
      <3> QED BY <1>2, <3>1
    <2>2. \E j \in 1..m : \E p \in 0..(width - 1) : x = width * j - 1 - p
      <3>1. CASE width = 5
        <4> DEFINE j == 1 + (x \div 5)
                   p == 4 - (x % 5)
        <4>1. j \in 1..m /\ p \in 0..4 /\ x = 5 * j - 1 - p
          BY <2>1, <3>1
        <4> HIDE DEF j, p
        <4>2. p \in 0..(width - 1) /\ x = width * j - 1 - p
          BY <3>1, <4>1
        <4> QED BY <4>1, <4>2, Zenon
      <3>2. CASE width = 8
        <4> DEFINE j == 1 + (x \div 8)
                   p == 7 - (x % 8)
        <4>1. j \in 1..m /\ p \in 0..7 /\ x = 8 * j - 1 - p
          BY <2>1, <3>2
        <4> HIDE DEF j, p
        <4>2. p \in 0..(width - 1) /\ x = width * j - 1 - p
          BY <3>2, <4>1
        <4> QED BY <4>1, <4>2, Zenon
      <3> QED BY <3>1, <3>2 DEF Widths
    <2>3. PICK j \in 1..m, p \in 0..(width - 1) : x = width * j - 1 - p
      BY <2>2
    <2>4. p \in c[j]
      BY <1>2, <2>3 DEF Window
    <2> QED BY <2>1, <2>3, <2>4 DEF Stream
  <1> QED
    BY <1>1, <1>2

\* A stream is no longer than its words are.
LEMMA StreamBound ==
  ASSUME NEW width \in Widths, NEW data \in Seq(SUBSET (0..(width - 1)))
  PROVE  Stream(data, width) \subseteq 0..(width * Len(data) - 1)
  <1>1. ASSUME NEW x \in Stream(data, width) PROVE x \in 0..(width * Len(data) - 1)
    <2>0. PICK j \in 1..Len(data) : \E p \in data[j] : x = width * j - 1 - p /\ x \in Nat
      BY <1>1 DEF Stream
    <2>1. PICK p \in data[j] : x = width * j - 1 - p /\ x \in Nat
      BY <2>0
    <2>2. p \in 0..(width - 1) /\ Len(data) \in Nat
      OBVIOUS
    <2>3. CASE width = 5
      BY <2>1, <2>2, <2>3
    <2>4. CASE width = 8
      BY <2>1, <2>2, <2>4
    <2> QED BY <2>3, <2>4 DEF Widths
  <1> QED
    BY <1>1

\* What convertBits computes.
LEMMA RegroupIs ==
  ASSUME NEW from \in Widths, NEW to \in Widths, NEW data \in Seq(SUBSET (0..(from - 1)))
  PROVE  /\ Regroup(data, from, to) \in Accumulators
         /\ Converted(Regroup(data, from, to), Stream(data, from), from * Len(data), from, to)
  <1> DEFINE S == Stream(data, from)
  <1>1. data \in Seq(SUBSET Nat) /\ Len(data) \in Nat
    <2>1. SUBSET (0..(from - 1)) \subseteq SUBSET Nat
      BY DEF Widths
    <2>2. data \in Seq(SUBSET Nat)
      BY <2>1, SeqMonotonic
    <2> QED BY <2>2
  <1>2. PICK f : IsConversion(f, data, from, to) /\ Regroup(data, from, to) = f[Len(data)]
    BY <1>1, RegroupUnfolds
  <1>3. S \in SUBSET Nat
    BY DEF Stream
  <1>4. \A j \in 1..Len(data) : data[j] = Window(S, from * j, from)
    BY WindowOfStream
  <1> HIDE DEF S
  <1> DEFINE T == {i \in Nat : i <= Len(data) => Converted(f[i], S, from * i, from, to)}
  <1>5. 0 \in T
    <2>1. f[0].acc = {} /\ f[0].bits = 0 /\ f[0].out = <<>> /\ Len(<<>>) = 0
      BY <1>2 DEF IsConversion
    <2>2. from * 0 = 0 /\ to * 0 = 0 /\ 0 \in 0..(to - 1)
      BY DEF Widths
    <2>3. Window(S, 0, from + to - 1) = {}
      <3>1. \A q \in 0..((from + to - 1) - 1) : ~(0 - 1 - q \in Nat)
        BY DEF Widths
      <3> QED BY <1>3, <3>1 DEF Window
    <2>4. Converted(f[0], S, from * 0, from, to)
      <3>1. f[0].bits = from * 0 - to * Len(f[0].out)
        BY <2>1, <2>2
      <3>2. \A j \in 1..Len(f[0].out) : f[0].out[j] = Window(S, to * j, to)
        BY <2>1
      <3>3. f[0].acc = Window(S, from * 0, from + to - 1)
        BY <2>1, <2>2, <2>3
      <3>4. f[0].bits \in 0..(to - 1)
        BY <2>1, <2>2
      <3> QED BY <3>1, <3>2, <3>3, <3>4 DEF Converted
    <2> QED BY <2>4
  <1>6. ASSUME NEW i \in Nat, i \in T PROVE i + 1 \in T
    <2>1. SUFFICES ASSUME i + 1 <= Len(data) PROVE Converted(f[i + 1], S, from * (i + 1), from, to)
      OBVIOUS
    <2>2. i + 1 \in 1..Len(data) /\ (i + 1) - 1 = i /\ i <= Len(data)
      BY <1>1, <2>1
    <2>3. f[i + 1] = Convert(data[i + 1], from, to)[f[i]] /\ f[i] \in Accumulators
      BY <1>2, <2>2 DEF IsConversion
    <2>4. from * (i + 1) = from * i + from /\ from * i \in Nat
      BY DEF Widths
    <2>5. data[i + 1] = Window(S, from * i + from, from)
      BY <1>4, <2>2, <2>4
    <2>6. Converted(f[i], S, from * i, from, to)
      BY <1>6, <2>2
    <2>7. Converted(Convert(data[i + 1], from, to)[f[i]], S, from * i + from, from, to)
      BY <1>3, <2>3, <2>4, <2>5, <2>6, ConvertTurn
    <2> QED BY <2>3, <2>4, <2>7
  <1> HIDE DEF T
  <1>7. Nat \subseteq T
    BY <1>5, <1>6, Induction
  <1>8. Converted(f[Len(data)], S, from * Len(data), from, to) /\ f[Len(data)] \in Accumulators
    BY <1>1, <1>2, <1>7 DEF T, IsConversion
  <1> QED
    BY <1>2, <1>8 DEF S

\* Words of eight bits.
Bytes == SUBSET (0..7)

\* The two widths, and the words that have them.
LEMMA WidthsAre ==
  /\ 5 \in Widths /\ 8 \in Widths
  /\ Chars = SUBSET (0..(5 - 1)) /\ Bytes = SUBSET (0..(8 - 1))
  <1>1. 5 - 1 = 4 /\ 8 - 1 = 7
    OBVIOUS
  <1> QED
    BY <1>1 DEF Widths, Chars, Bytes

\* A sequence whose elements lie in S.
LEMMA SeqFrom ==
  ASSUME NEW S, NEW T, NEW s \in Seq(T), \A i \in 1..Len(s) : s[i] \in S
  PROVE  s \in Seq(S)
  <1>1. s = [i \in 1..Len(s) |-> s[i]] /\ Len(s) \in Nat
    OBVIOUS
  <1> QED
    BY <1>1, SeqDef

\* What the regrouping to characters gives.
IsChars(c, payload) ==
  /\ c \in Seq(Chars)
  /\ 8 * Len(payload) <= 5 * Len(c) /\ 5 * Len(c) <= 8 * Len(payload) + 4
  /\ \A j \in 1..Len(c) : c[j] = Window(Stream(payload, 8), 5 * j, 5)

\* convertBits of a payload, 8 to 5 with padding: the same stream, filled up with zeros.
LEMMA ToCharsIs ==
  ASSUME NEW payload \in Seq(Bytes)
  PROVE  IsChars(ToChars(payload), payload)
  <1> DEFINE S == Stream(payload, 8)
             r == Regroup(payload, 8, 5)
             n == Len(r.out)
             L == Len(payload)
             last == Low(ShiftLeft(r.acc, 5 - r.bits), 5)
  <1>1. r \in Accumulators /\ Converted(r, S, 8 * L, 8, 5)
    BY WidthsAre, RegroupIs
  <1>2. S \subseteq 0..(8 * L - 1)
    BY WidthsAre, StreamBound
  <1>3. ToChars(payload) = IF r.bits = 0 THEN r.out ELSE Append(r.out, last)
    BY DEF ToChars
  <1>4. L \in Nat
    OBVIOUS
  <1> HIDE DEF S, r, L
  <1>5. r.acc \in SUBSET Nat /\ r.out \in Seq(SUBSET Nat) /\ n \in Nat
    BY <1>1 DEF Accumulators
  <1>6. /\ r.acc = Window(S, 8 * L, 12) /\ r.bits \in 0..4 /\ r.bits = 8 * L - 5 * n
        /\ \A j \in 1..n : r.out[j] = Window(S, 5 * j, 5)
    <2>1. 8 + 5 - 1 = 12 /\ 5 - 1 = 4
      OBVIOUS
    <2> QED BY <1>1, <2>1 DEF Converted
  <1>7. r.out \in Seq(Chars)
    <2>1. \A j \in 1..Len(r.out) : r.out[j] \in Chars
      BY <1>6, WidthsAre DEF Window
    <2>2. r.out \in Seq(SUBSET Nat)
      BY <1>5
    <2> QED BY <2>1, <2>2, SeqFrom, Zenon
  <1> HIDE DEF n
  <1>8. last = Window(S, 5 * (n + 1), 5)
    <2> DEFINE k == 5 - r.bits
    <2>1. k \in Nat /\ k \in 1..5 /\ 5 * (n + 1) = 8 * L + k
      BY <1>4, <1>5, <1>6
    <2> HIDE DEF k
    <2>2. \A q : q \in ShiftLeft(r.acc, k) <=> q \in Nat /\ q - k \in r.acc
      BY <1>5, <2>1, InShiftLeft
    <2>3. \A q : q \in Low(ShiftLeft(r.acc, k), 5) <=> q \in ShiftLeft(r.acc, k) /\ q \in 0..4
      BY DEF Low
    <2>4. \A q : q \in Window(S, 8 * L + k, 5) <=> q \in 0..4 /\ (8 * L + k) - 1 - q \in S
      BY DEF Window
    <2>5. ASSUME NEW q \in 0..4 PROVE q - k \in r.acc <=> (8 * L + k) - 1 - q \in S
      <3>1. CASE q < k
        <4>1. ~(q - k \in Nat)
          BY <2>1, <3>1
        <4>2. (8 * L + k) - 1 - q >= 8 * L
          BY <1>4, <2>1, <3>1
        <4>3. ~((8 * L + k) - 1 - q \in 0..(8 * L - 1))
          BY <1>4, <2>1, <4>2
        <4> QED BY <1>2, <1>5, <4>1, <4>3
      <3>2. CASE ~(q < k)
        <4>1. q - k \in 0..(12 - 1) /\ 8 * L - 1 - (q - k) = (8 * L + k) - 1 - q
          BY <1>4, <2>1, <3>2
        <4> QED BY <1>6, <4>1 DEF Window
      <3> QED BY <3>1, <3>2
    <2>6. \A q : q \in Low(ShiftLeft(r.acc, k), 5) <=> q \in Window(S, 8 * L + k, 5)
      BY <2>2, <2>3, <2>4, <2>5
    <2>7. Low(ShiftLeft(r.acc, k), 5) = Window(S, 8 * L + k, 5)
      BY <2>6
    <2> QED BY <2>1, <2>7 DEF k
  <1> HIDE DEF last
  <1> DEFINE c == ToChars(payload)
  <1> HIDE DEF c
  <1>9. CASE r.bits = 0
    <2>1. c = r.out
      BY <1>3, <1>9 DEF c
    <2>2. 8 * L <= 5 * n /\ 5 * n <= 8 * L + 4
      BY <1>4, <1>5, <1>6, <1>9
    <2>3. IsChars(c, payload)
      BY <1>6, <1>7, <2>1, <2>2 DEF IsChars, n, L, S
    <2> QED BY <2>3 DEF c
  <1>10. CASE r.bits # 0
    <2>1. c = Append(r.out, last)
      BY <1>3, <1>10 DEF c
    <2>2. last \in Chars
      BY <1>8, WidthsAre DEF Window
    <2>3. c \in Seq(Chars) /\ Len(c) = n + 1 /\ (\A j \in 1..n : c[j] = r.out[j]) /\ c[n + 1] = last
      BY <1>7, <2>1, <2>2 DEF n
    <2>4. 8 * L <= 5 * (n + 1) /\ 5 * (n + 1) <= 8 * L + 4
      BY <1>4, <1>5, <1>6, <1>10
    <2>5. ASSUME NEW j \in 1..(n + 1) PROVE c[j] = Window(S, 5 * j, 5)
      <3>1. j \in 1..n \/ j = n + 1
        BY <1>5
      <3> QED BY <1>6, <1>8, <2>3, <3>1
    <2>6. IsChars(c, payload)
      BY <2>3, <2>4, <2>5 DEF IsChars, L, S
    <2> QED BY <2>6 DEF c
  <1> QED
    BY <1>9, <1>10

\* What the regrouping to bytes gives, and what is left over.
IsBytes(p, data) ==
  /\ p \in Seq(Bytes)
  /\ 8 * Len(p) <= 5 * Len(data) /\ 5 * Len(data) <= 8 * Len(p) + 7
  /\ \A j \in 1..Len(p) : p[j] = Window(Stream(data, 5), 8 * j, 8)

\* convertBits of characters, 5 to 8 without: the whole bytes of the stream; and what
\* its refusal of excess or dirty padding means for the stream.
LEMMA ToBytesIs ==
  ASSUME NEW data \in Seq(Chars)
  PROVE  /\ IsBytes(ToBytes(data), data)
         /\ CleanPadding(data) <=> /\ 5 * Len(data) <= 8 * Len(ToBytes(data)) + 4
                                   /\ Stream(data, 5) \subseteq 0..(8 * Len(ToBytes(data)) - 1)
  <1> DEFINE S == Stream(data, 5)
             r == Regroup(data, 5, 8)
             n == Len(r.out)
             L == Len(data)
             k == 8 - r.bits
  <1>1. r \in Accumulators /\ Converted(r, S, 5 * L, 5, 8)
    BY WidthsAre, RegroupIs
  <1>2. S \subseteq 0..(5 * L - 1)
    BY WidthsAre, StreamBound
  <1>3. ToBytes(data) = r.out /\ CleanPadding(data) = (r.bits < 5 /\ Low(ShiftLeft(r.acc, k), 8) = {})
    BY DEF ToBytes, CleanPadding
  <1>4. L \in Nat
    OBVIOUS
  <1> HIDE DEF S, r, L
  <1>5. r.acc \in SUBSET Nat /\ r.out \in Seq(SUBSET Nat) /\ n \in Nat
    BY <1>1 DEF Accumulators
  <1>6. /\ r.acc = Window(S, 5 * L, 12) /\ r.bits \in 0..7 /\ r.bits = 5 * L - 8 * n
        /\ \A j \in 1..n : r.out[j] = Window(S, 8 * j, 8)
    <2>1. 5 + 8 - 1 = 12 /\ 8 - 1 = 7
      OBVIOUS
    <2> QED BY <1>1, <2>1 DEF Converted
  <1>7. r.out \in Seq(Bytes)
    <2>1. \A j \in 1..Len(r.out) : r.out[j] \in Bytes
      BY <1>6, WidthsAre DEF Window
    <2>2. r.out \in Seq(SUBSET Nat)
      BY <1>5
    <2> QED BY <2>1, <2>2, SeqFrom, Zenon
  <1> HIDE DEF n
  <1>8. 8 * n <= 5 * L /\ 5 * L <= 8 * n + 7 /\ (r.bits < 5 <=> 5 * L <= 8 * n + 4)
    BY <1>4, <1>5, <1>6
  <1>9. IsBytes(ToBytes(data), data)
    BY <1>3, <1>6, <1>7, <1>8 DEF IsBytes, n, L, S
  <1>10. Low(ShiftLeft(r.acc, k), 8) = {} <=> S \subseteq 0..(8 * n - 1)
    <2>1. k \in Nat /\ k \in 1..8 /\ 5 * L + k = 8 * n + 8
      BY <1>4, <1>5, <1>6
    <2> HIDE DEF k
    <2>2. \A q : q \in ShiftLeft(r.acc, k) <=> q \in Nat /\ q - k \in r.acc
      BY <1>5, <2>1, InShiftLeft
    <2>3. \A q : q \in Low(ShiftLeft(r.acc, k), 8) <=> q \in ShiftLeft(r.acc, k) /\ q \in 0..7
      BY DEF Low
    <2>4. ASSUME NEW q \in Low(ShiftLeft(r.acc, k), 8), S \subseteq 0..(8 * n - 1) PROVE FALSE
      <3>1. q \in 0..7 /\ q - k \in r.acc
        BY <2>2, <2>3, <2>4
      <3>2. 5 * L - 1 - (q - k) \in S
        BY <1>6, <3>1 DEF Window
      <3>3. 5 * L - 1 - (q - k) \in 0..(8 * n - 1)
        BY <2>4, <3>2
      <3> QED BY <1>4, <1>5, <2>1, <3>1, <3>3
    <2>5. ASSUME NEW x \in S, x \notin 0..(8 * n - 1) PROVE Low(ShiftLeft(r.acc, k), 8) # {}
      <3>1. x \in 0..(5 * L - 1)
        BY <1>2
      <3>2. x \in Nat /\ x >= 8 * n /\ x <= 5 * L - 1
        BY <1>4, <1>5, <2>5, <3>1
      <3> DEFINE q == 8 * n + 7 - x
      <3>3. q \in 0..7 /\ q - k \in 0..(12 - 1) /\ 5 * L - 1 - (q - k) = x
        BY <1>4, <1>5, <2>1, <3>2
      <3> HIDE DEF q
      <3>4. q - k \in r.acc
        BY <1>6, <2>5, <3>3 DEF Window
      <3>5. q \in Low(ShiftLeft(r.acc, k), 8)
        BY <2>2, <2>3, <3>3, <3>4
      <3> QED BY <3>5
    <2> QED BY <2>4, <2>5
  <1> QED
    BY <1>3, <1>8, <1>9, <1>10 DEF n, L, S

\* A payload that bech32Encode regroups is what bech32Decode regroups it to, and the
\* padding it adds is one that bech32Decode accepts.
THEOREM BytesSurvive ==
  ASSUME NEW payload \in Seq(Bytes)
  PROVE  ToBytes(ToChars(payload)) = payload /\ CleanPadding(ToChars(payload))
  <1> DEFINE S == Stream(payload, 8)
             c == ToChars(payload)
             p == ToBytes(c)
  <1>1. c \in Seq(Chars) /\ 8 * Len(payload) <= 5 * Len(c) /\ 5 * Len(c) <= 8 * Len(payload) + 4
        /\ \A j \in 1..Len(c) : c[j] = Window(S, 5 * j, 5)
    BY ToCharsIs DEF IsChars
  <1>2. S \subseteq 0..(8 * Len(payload) - 1)
    BY WidthsAre, StreamBound
  <1>3. Len(payload) \in Nat
    OBVIOUS
  <1>4. \A j \in 1..Len(payload) : payload[j] = Window(S, 8 * j, 8)
    BY WidthsAre, WindowOfStream
  <1> HIDE DEF S, c
  <1>5. Len(c) \in Nat /\ DOMAIN c = 1..Len(c)
    BY <1>1
  <1>6. Stream(c, 5) = S
    <2>1. S \subseteq 0..(5 * Len(c) - 1)
      BY <1>1, <1>2, <1>3, <1>5
    <2> QED BY <1>1, <1>5, <2>1, WidthsAre, StreamOfWindows
  <1>7. /\ IsBytes(p, c)
        /\ CleanPadding(c) <=> 5 * Len(c) <= 8 * Len(p) + 4 /\ S \subseteq 0..(8 * Len(p) - 1)
    BY <1>1, <1>6, ToBytesIs
  <1> HIDE DEF p
  <1>8. p \in Seq(Bytes) /\ 8 * Len(p) <= 5 * Len(c) /\ 5 * Len(c) <= 8 * Len(p) + 7
        /\ \A j \in 1..Len(p) : p[j] = Window(S, 8 * j, 8)
    BY <1>6, <1>7 DEF IsBytes
  <1>9. Len(p) = Len(payload)
    <2>1. Len(p) \in Nat
      BY <1>8
    <2> QED BY <1>1, <1>3, <1>5, <1>8, <2>1
  <1>10. p = payload
    BY <1>4, <1>8, <1>9, SeqEqual
  <1>11. CleanPadding(c)
    BY <1>1, <1>2, <1>7, <1>9
  <1> QED
    BY <1>10, <1>11 DEF p, c

\* Characters whose padding bech32Decode accepts are what bech32Encode regroups their
\* bytes to.
THEOREM CharsSurvive ==
  ASSUME NEW data \in Seq(Chars), CleanPadding(data)
  PROVE  ToChars(ToBytes(data)) = data
  <1> DEFINE S == Stream(data, 5)
             p == ToBytes(data)
             c == ToChars(p)
  <1>1. /\ IsBytes(p, data)
        /\ 5 * Len(data) <= 8 * Len(p) + 4 /\ S \subseteq 0..(8 * Len(p) - 1)
    BY ToBytesIs
  <1>2. Len(data) \in Nat
    OBVIOUS
  <1>3. \A j \in 1..Len(data) : data[j] = Window(S, 5 * j, 5)
    BY WidthsAre, WindowOfStream
  <1> HIDE DEF S, p
  <1>4. p \in Seq(Bytes) /\ 8 * Len(p) <= 5 * Len(data) /\ \A j \in 1..Len(p) : p[j] = Window(S, 8 * j, 8)
    BY <1>1 DEF IsBytes, S
  <1>5. Len(p) \in Nat /\ DOMAIN p = 1..Len(p)
    BY <1>4
  <1>6. Stream(p, 8) = S
    BY <1>1, <1>4, <1>5, WidthsAre, StreamOfWindows
  <1>7. c \in Seq(Chars) /\ 8 * Len(p) <= 5 * Len(c) /\ 5 * Len(c) <= 8 * Len(p) + 4
        /\ \A j \in 1..Len(c) : c[j] = Window(S, 5 * j, 5)
    BY <1>4, <1>6, ToCharsIs DEF IsChars
  <1> HIDE DEF c
  <1>8. Len(c) = Len(data)
    <2>1. Len(c) \in Nat
      BY <1>7
    <2> QED BY <1>1, <1>2, <1>4, <1>5, <1>7, <2>1
  <1>9. c = data
    BY <1>3, <1>7, <1>8, SeqEqual
  <1> QED
    BY <1>9 DEF c, p

-----------------------------------------------------------------------------
(* Characters. *)

\* CHARSET of the code has 32 printable characters.
LEMMA CharsetType == CHARSET \in [1..32 -> Printable] /\ DOMAIN CHARSET = 1..32
  BY DEF CHARSET, Printable

\* No character of CHARSET stands for two words.
LEMMA CharsetInjective ==
  ASSUME NEW i \in 1..32, NEW j \in 1..32, CHARSET[i] = CHARSET[j]
  PROVE  i = j
  BY DEF CHARSET

\* No character of CHARSET is a capital or the separator.
LEMMA CharsetPlain == \A i \in 1..32 : ~ IsUpper(CHARSET[i]) /\ CHARSET[i] # Separator
  BY DEF CHARSET, IsUpper, Separator

\* The character that bech32Encode writes for a word.
Symbol(w) == CHARSET[Number[w] + 1]

\* A word of five bits is a place of CHARSET.
LEMMA CharNumber ==
  ASSUME NEW w \in Chars
  PROVE  Number[w] \in 0..31 /\ Bits(Number[w]) = w /\ Number[w] + 1 \in 1..32
  <1>1. w \in SUBSET (0..7)
    BY DEF Chars
  <1>2. Number[w] \in 0..255 /\ Bits(Number[w]) = w
    BY <1>1, NumberOfWord
  <1>3. Number[w] < 32
    BY <1>2, ShortWords DEF Chars
  <1> QED
    BY <1>2, <1>3

\* What bech32Encode writes for a word is of CHARSET: printable, small, no separator.
LEMMA SymbolType ==
  ASSUME NEW w \in Chars
  PROVE  /\ Symbol(w) \in Range(CHARSET) /\ Symbol(w) \in Printable
         /\ ~ IsUpper(Symbol(w)) /\ Symbol(w) # Separator
  BY CharNumber, CharsetType, CharsetPlain DEF Symbol, Range

\* The place of a character, and its word.
LEMMA CharsetRev ==
  ASSUME NEW i \in 1..32
  PROVE  CHARSET_REV[CHARSET[i]] = Bits(i - 1)
  <1>1. CHARSET[i] \in Range(CHARSET)
    BY CharsetType DEF Range
  <1> DEFINE k == CHOOSE n \in 1..32 : CHARSET[n] = CHARSET[i]
  <1>2. k \in 1..32 /\ CHARSET[k] = CHARSET[i]
    OBVIOUS
  <1>3. CHARSET_REV[CHARSET[i]] = Bits(k - 1)
    BY <1>1 DEF CHARSET_REV
  <1> HIDE DEF k
  <1>4. k = i
    BY <1>2, CharsetInjective
  <1> QED
    BY <1>3, <1>4

\* CHARSET_REV takes a character that bech32Encode wrote back to its word.
LEMMA SymbolRead ==
  ASSUME NEW w \in Chars
  PROVE  CHARSET_REV[Symbol(w)] = w
  <1>1. Number[w] + 1 \in 1..32 /\ (Number[w] + 1) - 1 = Number[w] /\ Bits(Number[w]) = w
    BY CharNumber
  <1>2. CHARSET_REV[CHARSET[Number[w] + 1]] = Bits((Number[w] + 1) - 1)
    BY <1>1, CharsetRev
  <1> QED
    BY <1>1, <1>2 DEF Symbol

\* A character of CHARSET is what bech32Encode writes for its word.
LEMMA SymbolWritten ==
  ASSUME NEW c \in Range(CHARSET)
  PROVE  CHARSET_REV[c] \in Chars /\ Symbol(CHARSET_REV[c]) = c
  <1>1. PICK i \in 1..32 : c = CHARSET[i]
    BY CharsetType DEF Range
  <1>2. CHARSET_REV[c] = Bits(i - 1)
    BY <1>1, CharsetRev
  <1>3. i - 1 \in 0..255 /\ i - 1 < 32 /\ (i - 1) + 1 = i
    OBVIOUS
  <1>4. Bits(i - 1) \in Chars /\ Number[Bits(i - 1)] = i - 1
    BY <1>3, ShortWords, NumberOfBits DEF Chars
  <1> QED
    BY <1>1, <1>2, <1>3, <1>4 DEF Symbol

\* Different words are written as different characters.
LEMMA SymbolInjective ==
  ASSUME NEW v \in Chars, NEW w \in Chars, Symbol(v) = Symbol(w)
  PROVE  v = w
  BY SymbolRead

-----------------------------------------------------------------------------
(* The quotas. *)

\* A field of the quota word, as decodeQuotas takes it: shifted down and masked.
LEMMA InField ==
  ASSUME NEW word \in SUBSET Nat, NEW at \in Nat, NEW width \in 1..8
  PROVE  /\ Low(ShiftRight(word, at), width) \in SUBSET (0..(width - 1))
         /\ Low(ShiftRight(word, at), width) \in SUBSET (0..7)
         /\ \A p : p \in Low(ShiftRight(word, at), width) <=> p \in 0..(width - 1) /\ p + at \in word
         /\ Field(word, at, width) \in 0..255
         /\ Bits(Field(word, at, width)) = Low(ShiftRight(word, at), width)
  <1> DEFINE w == Low(ShiftRight(word, at), width)
  <1>1. \A p : p \in w <=> p \in 0..(width - 1) /\ p + at \in word
    <2>1. \A p : p \in ShiftRight(word, at) <=> p \in Nat /\ p + at \in word
      BY InShiftRight
    <2>2. \A p : p \in w <=> p \in ShiftRight(word, at) /\ p \in 0..(width - 1)
      BY DEF Low
    <2> QED BY <2>1, <2>2
  <1>2. w \in SUBSET (0..(width - 1))
    BY DEF Low
  <1>3. w \in SUBSET (0..7)
    BY <1>2
  <1> HIDE DEF w
  <1>4. Number[w] \in 0..255 /\ Bits(Number[w]) = w
    BY <1>3, NumberOfWord
  <1> QED
    BY <1>1, <1>2, <1>3, <1>4 DEF w, Field

\* A field of the word holds n if its bits do.
LEMMA FieldIs ==
  ASSUME NEW word \in SUBSET Nat, NEW at \in Nat, NEW width \in 1..8, NEW n \in 0..255,
         Bits(n) \subseteq 0..(width - 1),
         \A p \in 0..(width - 1) : p + at \in word <=> p \in Bits(n)
  PROVE  Field(word, at, width) = n
  <1>1. Low(ShiftRight(word, at), width) = Bits(n)
    <2>1. \A p : p \in Low(ShiftRight(word, at), width) <=> p \in 0..(width - 1) /\ p + at \in word
      BY InField
    <2>2. \A p : p \in Low(ShiftRight(word, at), width) <=> p \in Bits(n)
      BY <2>1
    <2> QED BY <2>2
  <1> QED
    BY <1>1, NumberOfBits DEF Field

\* Words of 32 bits, as writeU32LE takes them.
Words == SUBSET (0..31)

\* Numbers that fit a field of five bits.
LEMMA ShortFields ==
  ASSUME NEW n \in 0..255
  PROVE  n < 32 => Bits(n) \subseteq 0..(5 - 1)
  <1>1. 5 - 1 = 4
    OBVIOUS
  <1> QED
    BY <1>1, ShortWords

\* Four bytes and a word of 32 bits are the same.
LEMMA InReadWord ==
  ASSUME NEW bytes, \A i \in 1..4 : bytes[i] \in Bytes
  PROVE  /\ ReadWord(bytes) \in Words
         /\ \A i \in 1..4 : \A q \in 0..7 : q + 8 * (i - 1) \in ReadWord(bytes) <=> q \in bytes[i]
  <1>1. \A p : p \in ReadWord(bytes) <=> \E i \in 1..4 : p \in ShiftLeft(bytes[i], 8 * (i - 1))
    BY DEF ReadWord
  <1>2. \A i \in 1..4 : bytes[i] \in SUBSET Nat /\ 8 * (i - 1) \in Nat
    BY DEF Bytes
  <1>3. \A i \in 1..4 : \A p : p \in ShiftLeft(bytes[i], 8 * (i - 1)) <=> p \in Nat /\ p - 8 * (i - 1) \in bytes[i]
    BY <1>2, InShiftLeft
  <1>4. ASSUME NEW p, p \in ReadWord(bytes) PROVE p \in 0..31
    <2>1. PICK i \in 1..4 : p \in Nat /\ p - 8 * (i - 1) \in bytes[i]
      BY <1>1, <1>3, <1>4
    <2>2. p - 8 * (i - 1) \in 0..7
      BY <2>1 DEF Bytes
    <2> QED BY <2>1, <2>2
  <1>5. ASSUME NEW i \in 1..4, NEW q \in 0..7, q + 8 * (i - 1) \in ReadWord(bytes) PROVE q \in bytes[i]
    <2>1. PICK j \in 1..4 : (q + 8 * (i - 1)) - 8 * (j - 1) \in bytes[j]
      BY <1>1, <1>3, <1>5
    <2>2. (q + 8 * (i - 1)) - 8 * (j - 1) \in 0..7
      BY <2>1 DEF Bytes
    <2>3. j = i /\ (q + 8 * (i - 1)) - 8 * (i - 1) = q
      BY <2>2
    <2> QED BY <2>1, <2>3
  <1>6. ASSUME NEW i \in 1..4, NEW q \in bytes[i] PROVE q + 8 * (i - 1) \in ReadWord(bytes)
    <2>1. q \in 0..7
      BY DEF Bytes
    <2>2. (q + 8 * (i - 1)) - 8 * (i - 1) = q /\ q + 8 * (i - 1) \in Nat
      BY <2>1
    <2> QED BY <1>1, <1>3, <2>2
  <1> QED
    BY <1>4, <1>5, <1>6 DEF Words

\* The four bytes that writeU32LE writes.
LEMMA InWordBytes ==
  ASSUME NEW word \in Words
  PROVE  /\ WordBytes(word) \in Seq(Bytes) /\ Len(WordBytes(word)) = 4
         /\ \A i \in 1..4 : WordBytes(word)[i] \in Bytes
         /\ \A i \in 1..4 : \A q \in 0..7 : q \in WordBytes(word)[i] <=> q + 8 * (i - 1) \in word
  <1>1. \A i \in 1..4 : WordBytes(word)[i] = Low(ShiftRight(word, 8 * (i - 1)), 8)
    BY DEF WordBytes
  <1>2. \A i \in 1..4 : 8 * (i - 1) \in Nat /\ word \in SUBSET Nat /\ 8 \in 1..8 /\ 8 - 1 = 7
    BY DEF Words
  <1>3. \A i \in 1..4 : /\ Low(ShiftRight(word, 8 * (i - 1)), 8) \in SUBSET (0..7)
                        /\ \A p : p \in Low(ShiftRight(word, 8 * (i - 1)), 8)
                                     <=> p \in 0..(8 - 1) /\ p + 8 * (i - 1) \in word
    <2>1. ASSUME NEW at \in Nat
          PROVE  /\ Low(ShiftRight(word, at), 8) \in SUBSET (0..7)
                 /\ \A p : p \in Low(ShiftRight(word, at), 8) <=> p \in 0..(8 - 1) /\ p + at \in word
      <3>1. word \in SUBSET Nat /\ 8 \in 1..8
        BY <1>2
      <3>2. ASSUME NEW n \in 1..8
            PROVE  /\ Low(ShiftRight(word, at), n) \in SUBSET (0..7)
                   /\ \A p : p \in Low(ShiftRight(word, at), n) <=> p \in 0..(n - 1) /\ p + at \in word
        BY <3>1, InField
      <3> QED BY <3>1, <3>2, Zenon
    <2> QED BY <1>2, <2>1
  <1>4. \A i \in 1..4 : WordBytes(word)[i] \in Bytes
    BY <1>1, <1>3 DEF Bytes
  <1>5. WordBytes(word) \in [1..4 -> Bytes]
    BY <1>4 DEF WordBytes
  <1>6. WordBytes(word) \in Seq(Bytes) /\ Len(WordBytes(word)) = 4
    <2>1. WordBytes(word) \in Seq(Bytes)
      BY <1>5, SeqDef
    <2> QED BY <1>5, <2>1
  <1> QED
    BY <1>1, <1>2, <1>3, <1>4, <1>6

\* readU32LE reads what writeU32LE wrote.
LEMMA WordSurvives ==
  ASSUME NEW word \in Words
  PROVE  ReadWord(WordBytes(word)) = word
  <1> DEFINE bytes == WordBytes(word)
  <1>1. \A i \in 1..4 : bytes[i] \in Bytes /\ \A q \in 0..7 : q \in bytes[i] <=> q + 8 * (i - 1) \in word
    BY InWordBytes
  <1> HIDE DEF bytes
  <1>2. ReadWord(bytes) \in Words
        /\ \A i \in 1..4 : \A q \in 0..7 : q + 8 * (i - 1) \in ReadWord(bytes) <=> q \in bytes[i]
    BY <1>1, InReadWord
  <1>3. \A i \in 1..4 : \A q \in 0..7 : q + 8 * (i - 1) \in ReadWord(bytes) <=> q + 8 * (i - 1) \in word
    BY <1>1, <1>2
  <1>4. ASSUME NEW p \in 0..31 PROVE p \in ReadWord(bytes) <=> p \in word
    <2>1. PICK i \in 1..4 : p - 8 * (i - 1) \in 0..7
      <3>1. \/ p - 8 * (1 - 1) \in 0..7 \/ p - 8 * (2 - 1) \in 0..7 \/ p - 8 * (3 - 1) \in 0..7 \/ p - 8 * (4 - 1) \in 0..7
        OBVIOUS
      <3> QED BY <3>1
    <2>2. (p - 8 * (i - 1)) + 8 * (i - 1) = p
      OBVIOUS
    <2> QED BY <1>3, <2>1, <2>2
  <1>5. ReadWord(bytes) = word
    BY <1>2, <1>4 DEF Words
  <1> QED
    BY <1>5 DEF bytes

\* writeU32LE writes what readU32LE read.
LEMMA BytesOfWord ==
  ASSUME NEW bytes \in Seq(Bytes), Len(bytes) = 4
  PROVE  WordBytes(ReadWord(bytes)) = bytes
  <1>1. \A i \in 1..4 : bytes[i] \in Bytes
    BY ElementOfSeq
  <1>2. ReadWord(bytes) \in Words
        /\ \A i \in 1..4 : \A q \in 0..7 : q + 8 * (i - 1) \in ReadWord(bytes) <=> q \in bytes[i]
    BY <1>1, InReadWord
  <1> DEFINE word == ReadWord(bytes)
             b == WordBytes(word)
  <1> HIDE DEF word
  <1>3. b \in Seq(Bytes) /\ Len(b) = 4 /\ \A i \in 1..4 : b[i] \in Bytes /\ \A q \in 0..7 : q \in b[i] <=> q + 8 * (i - 1) \in word
    BY <1>2, InWordBytes DEF word
  <1> HIDE DEF b
  <1>4. ASSUME NEW i \in 1..4 PROVE b[i] = bytes[i]
    <2>1. \A q \in 0..7 : q \in b[i] <=> q \in bytes[i]
      BY <1>2, <1>3 DEF word
    <2> QED BY <1>1, <1>3, <2>1 DEF Bytes
  <1>5. b = bytes
    BY <1>3, <1>4, SeqEqual
  <1> QED
    BY <1>5 DEF b, word

\* The word of the quotas, and its fields.
Pack(a, b, c, d, e, f) ==
  UNION {Bits(a), ShiftLeft(Bits(b), 5), ShiftLeft(Bits(c), 10), ShiftLeft(Bits(d), 15),
         ShiftLeft(Bits(e), 19), ShiftLeft(Bits(f), 27)}
\* The quota word of encodeQuotas, and a word of six fields.
QuotaWord(q) ==
  Pack(q.rate, q.latency, q.labels, q.buffer, q.dedup \div 10, IF q.window = Unlimited THEN 31 ELSE q.window)

\* The six fields of a word hold the given numbers.
Unpacks(w, a, b, c, d, e, f) ==
  /\ w \in Words
  /\ Field(w, 0, 5) = a /\ Field(w, 5, 5) = b /\ Field(w, 10, 5) = c
  /\ Field(w, 15, 4) = d /\ Field(w, 19, 8) = e /\ Field(w, 27, 5) = f

\* Six numbers, each within its width, share the quota word without touching each other.
LEMMA Packed ==
  ASSUME NEW a \in 0..31, NEW b \in 0..31, NEW c \in 0..31, NEW d \in 0..15, NEW e \in 0..255, NEW f \in 0..31
  PROVE  Unpacks(Pack(a, b, c, d, e, f), a, b, c, d, e, f)
  <1> DEFINE w == Pack(a, b, c, d, e, f)
  <1>1. /\ a \in 0..255 /\ b \in 0..255 /\ c \in 0..255 /\ d \in 0..255 /\ e \in 0..255 /\ f \in 0..255
        /\ a < 32 /\ b < 32 /\ c < 32 /\ d < 16 /\ f < 32
    OBVIOUS
  <1> DEFINE A == Bits(a)
             B == Bits(b)
             C == Bits(c)
             D == Bits(d)
             E == Bits(e)
             F == Bits(f)
  <1>2. /\ A \subseteq 0..4 /\ B \subseteq 0..4 /\ C \subseteq 0..4 /\ D \subseteq 0..3 /\ F \subseteq 0..4
    BY <1>1, ShortWords
  <1>3. E \subseteq 0..7
    BY <1>1, NumberOfBits
  <1> HIDE DEF A, B, C, D, E, F, w
  <1>4. \A p : p \in w <=> \/ p \in A \/ (p \in Nat /\ p - 5 \in B) \/ (p \in Nat /\ p - 10 \in C)
                           \/ (p \in Nat /\ p - 15 \in D) \/ (p \in Nat /\ p - 19 \in E) \/ (p \in Nat /\ p - 27 \in F)
    <2>1. \A p : p \in w <=> \/ p \in A \/ p \in ShiftLeft(B, 5) \/ p \in ShiftLeft(C, 10) \/ p \in ShiftLeft(D, 15)
                             \/ p \in ShiftLeft(E, 19) \/ p \in ShiftLeft(F, 27)
      BY DEF A, B, C, D, E, F, Pack, w
    <2>2. /\ B \in SUBSET Nat /\ C \in SUBSET Nat /\ D \in SUBSET Nat /\ E \in SUBSET Nat /\ F \in SUBSET Nat
          /\ 5 \in Nat /\ 10 \in Nat /\ 15 \in Nat /\ 19 \in Nat /\ 27 \in Nat
      BY <1>2, <1>3
    <2>3. /\ \A p : p \in ShiftLeft(B, 5) <=> p \in Nat /\ p - 5 \in B
          /\ \A p : p \in ShiftLeft(C, 10) <=> p \in Nat /\ p - 10 \in C
          /\ \A p : p \in ShiftLeft(D, 15) <=> p \in Nat /\ p - 15 \in D
          /\ \A p : p \in ShiftLeft(E, 19) <=> p \in Nat /\ p - 19 \in E
          /\ \A p : p \in ShiftLeft(F, 27) <=> p \in Nat /\ p - 27 \in F
      BY <2>2, InShiftLeft
    <2> QED BY <2>1, <2>3
  <1>5. w \in Words
    <2>1. ASSUME NEW p \in w PROVE p \in 0..31
      <3>1. \/ p \in A \/ (p \in Nat /\ p - 5 \in B) \/ (p \in Nat /\ p - 10 \in C)
            \/ (p \in Nat /\ p - 15 \in D) \/ (p \in Nat /\ p - 19 \in E) \/ (p \in Nat /\ p - 27 \in F)
        BY <1>4
      <3>2. \/ p \in 0..4 \/ (p \in Nat /\ p - 5 \in 0..4) \/ (p \in Nat /\ p - 10 \in 0..4)
            \/ (p \in Nat /\ p - 15 \in 0..3) \/ (p \in Nat /\ p - 19 \in 0..7) \/ (p \in Nat /\ p - 27 \in 0..4)
        BY <1>2, <1>3, <3>1
      <3> QED BY <3>2
    <2> QED BY <2>1 DEF Words
  <1>6. w \in SUBSET Nat
    BY <1>5 DEF Words
  <1>7. Field(w, 0, 5) = a
    <2>1. \A p \in 0..4 : p + 0 \in w <=> p \in A
      BY <1>2, <1>3, <1>4
    <2>2. 5 - 1 = 4 /\ 0 \in Nat /\ 5 \in 1..8
      OBVIOUS
    <2> QED BY <1>1, <1>2, <1>6, <2>1, <2>2, FieldIs DEF A
  <1>8. Field(w, 5, 5) = b
    <2>1. \A p \in 0..4 : p + 5 \in w <=> p \in B
      BY <1>2, <1>3, <1>4
    <2>2. 5 - 1 = 4 /\ 5 \in Nat /\ 5 \in 1..8
      OBVIOUS
    <2> QED BY <1>1, <1>2, <1>6, <2>1, <2>2, FieldIs DEF B
  <1>9. Field(w, 10, 5) = c
    <2>1. \A p \in 0..4 : p + 10 \in w <=> p \in C
      BY <1>2, <1>3, <1>4
    <2>2. 5 - 1 = 4 /\ 10 \in Nat /\ 5 \in 1..8
      OBVIOUS
    <2> QED BY <1>1, <1>2, <1>6, <2>1, <2>2, FieldIs DEF C
  <1>10. Field(w, 15, 4) = d
    <2>1. \A p \in 0..3 : p + 15 \in w <=> p \in D
      BY <1>2, <1>3, <1>4
    <2>2. 4 - 1 = 3 /\ 15 \in Nat /\ 4 \in 1..8
      OBVIOUS
    <2> QED BY <1>1, <1>2, <1>6, <2>1, <2>2, FieldIs DEF D
  <1>11. Field(w, 19, 8) = e
    <2>1. \A p \in 0..7 : p + 19 \in w <=> p \in E
      BY <1>2, <1>3, <1>4
    <2>2. 8 - 1 = 7 /\ 19 \in Nat /\ 8 \in 1..8
      OBVIOUS
    <2> QED BY <1>1, <1>3, <1>6, <2>1, <2>2, FieldIs DEF E
  <1>12. Field(w, 27, 5) = f
    <2>1. \A p \in 0..4 : p + 27 \in w <=> p \in F
      BY <1>2, <1>3, <1>4
    <2>2. 5 - 1 = 4 /\ 27 \in Nat /\ 5 \in 1..8
      OBVIOUS
    <2> QED BY <1>1, <1>2, <1>6, <2>1, <2>2, FieldIs DEF F
  <1> QED
    BY <1>5, <1>7, <1>8, <1>9, <1>10, <1>11, <1>12 DEF Unpacks, w

\* Quotas as a caller may give them.
QuotaTypes == [rate : Exponents, latency : Exponents, labels : Exponents, buffer : Exponents,
               dedup : Nat, window : Exponents \union {Unlimited}]

\* The dedup TTL is kept in tens.
LEMMA Tenth ==
  ASSUME NEW x \in 10..2000, x % 10 = 0
  PROVE  x \div 10 \in 1..200 /\ 10 * (x \div 10) = x
  OBVIOUS

\* decodeQuotas accepts what encodeQuotas wrote of quotas within the limits, and reads
\* them back as they were given.
THEOREM QuotasSurvive ==
  ASSUME NEW q \in QuotaTypes, WithinLimits(q), CodecAssumption
  PROVE  /\ EncodeQuotas(q) \in Seq(Bytes) /\ Len(EncodeQuotas(q)) = 4
         /\ ValidQuotas(EncodeQuotas(q))
         /\ DecodeQuotas(EncodeQuotas(q)) = q
  <1> DEFINE a == q.rate
             b == q.latency
             c == q.labels
             d == q.buffer
             e == q.dedup \div 10
             f == IF q.window = Unlimited THEN 31 ELSE q.window
             w == QuotaWord(q)
  <1>1. /\ a \in 0..24 /\ b \in 0..24 /\ c \in 0..31 /\ d \in 0..15
        /\ q.dedup % 10 = 0 /\ q.dedup \in 10..2000 /\ q.window \in (0..30) \union {Unlimited}
    BY DEF WithinLimits
  <1>2. Unlimited \notin Nat
    BY DEF CodecAssumption, Exponents
  <1>3. e \in 1..200 /\ 10 * e = q.dedup
    <2>0. q.dedup \in Nat
      BY DEF QuotaTypes
    <2>1. ASSUME NEW x \in Nat, x = q.dedup PROVE x \div 10 \in 1..200 /\ 10 * (x \div 10) = x
      <3>1. x \in 10..2000 /\ x % 10 = 0
        BY <1>1, <2>1, <2>0
      <3> QED BY <3>1, Tenth
    <2> QED BY <2>0, <2>1, Zenon
  <1>4. f \in 0..31 /\ (IF f = 31 THEN Unlimited ELSE f) = q.window
    BY <1>1, <1>2
  <1>5. w = Pack(a, b, c, d, e, f)
    BY DEF QuotaWord
  <1> HIDE DEF w, a, b, c, d, e, f
  <1>6. /\ w \in Words
        /\ Field(w, 0, 5) = a /\ Field(w, 5, 5) = b /\ Field(w, 10, 5) = c
        /\ Field(w, 15, 4) = d /\ Field(w, 19, 8) = e /\ Field(w, 27, 5) = f
    <2>1. a \in 0..31 /\ b \in 0..31 /\ c \in 0..31 /\ d \in 0..15 /\ e \in 0..255 /\ f \in 0..31
      BY <1>1, <1>3, <1>4
    <2>2. Unpacks(w, a, b, c, d, e, f)
      BY <1>5, <2>1, Packed
    <2> QED BY <2>2 DEF Unpacks
  <1>7. EncodeQuotas(q) = WordBytes(w)
    BY DEF EncodeQuotas, QuotaWord, Pack, w
  <1>8. ReadWord(EncodeQuotas(q)) = w
    BY <1>6, <1>7, WordSurvives
  <1>9. EncodeQuotas(q) \in Seq(Bytes) /\ Len(EncodeQuotas(q)) = 4
    BY <1>6, <1>7, InWordBytes
  <1>10. ValidQuotas(EncodeQuotas(q))
    BY <1>1, <1>3, <1>6, <1>8 DEF ValidQuotas
  <1>11. DecodeQuotas(EncodeQuotas(q)) = [rate |-> a, latency |-> b, labels |-> c, buffer |-> d,
                                          dedup |-> 10 * e, window |-> IF f = 31 THEN Unlimited ELSE f]
    BY <1>6, <1>8 DEF DecodeQuotas
  <1>12. q = [rate |-> q.rate, latency |-> q.latency, labels |-> q.labels, buffer |-> q.buffer,
              dedup |-> q.dedup, window |-> q.window]
    BY DEF QuotaTypes
  <1>13. DecodeQuotas(EncodeQuotas(q)) = q
    BY <1>3, <1>4, <1>11, <1>12 DEF a, b, c, d
  <1> QED
    BY <1>9, <1>10, <1>13

\* Quotas that decodeQuotas accepts are within the limits of encodeQuotas, which would
\* write the same four bytes.
THEOREM QuotasWritten ==
  ASSUME NEW bytes \in Seq(Bytes), Len(bytes) = 4, ValidQuotas(bytes), CodecAssumption
  PROVE  /\ WithinLimits(DecodeQuotas(bytes))
         /\ EncodeQuotas(DecodeQuotas(bytes)) = bytes
  <1> DEFINE w == ReadWord(bytes)
             q == DecodeQuotas(bytes)
             a == Field(w, 0, 5)
             b == Field(w, 5, 5)
             c == Field(w, 10, 5)
             d == Field(w, 15, 4)
             e == Field(w, 19, 8)
             f == Field(w, 27, 5)
  <1>1. \A i \in 1..4 : bytes[i] \in Bytes
    BY ElementOfSeq
  <1>2. w \in Words
    BY <1>1, InReadWord
  <1>3. Unlimited \notin Nat
    BY DEF CodecAssumption, Exponents
  <1>4. /\ q.rate = a /\ q.latency = b /\ q.labels = c /\ q.buffer = d /\ q.dedup = 10 * e
        /\ q.window = IF f = 31 THEN Unlimited ELSE f
    BY DEF DecodeQuotas
  <1>5. a <= 24 /\ b <= 24 /\ e \in 1..200
    BY DEF ValidQuotas
  <1> HIDE DEF w, q
  <1>6. w \in SUBSET Nat
    BY <1>2 DEF Words
  <1> DEFINE Holds(at, width) ==
               /\ \A p : p \in Bits(Field(w, at, width)) <=> p \in 0..(width - 1) /\ p + at \in w
               /\ Field(w, at, width) \in 0..255
  <1>7. \A at \in Nat, width \in 1..8 : Holds(at, width)
    <2>1. ASSUME NEW at \in Nat, NEW width \in 1..8 PROVE Holds(at, width)
      <3>1. /\ \A p : p \in Low(ShiftRight(w, at), width) <=> p \in 0..(width - 1) /\ p + at \in w
            /\ Field(w, at, width) \in 0..255
            /\ Bits(Field(w, at, width)) = Low(ShiftRight(w, at), width)
        <4>1. /\ Low(ShiftRight(w, at), width) \in SUBSET (0..(width - 1))
              /\ Low(ShiftRight(w, at), width) \in SUBSET (0..7)
              /\ \A p : p \in Low(ShiftRight(w, at), width) <=> p \in 0..(width - 1) /\ p + at \in w
              /\ Field(w, at, width) \in 0..255
              /\ Bits(Field(w, at, width)) = Low(ShiftRight(w, at), width)
          BY <1>6, InField
        <4> QED BY <4>1
      <3>2. \A p : p \in Bits(Field(w, at, width)) <=> p \in 0..(width - 1) /\ p + at \in w
        <4> DEFINE X == Bits(Field(w, at, width))
                   L == Low(ShiftRight(w, at), width)
        <4>1. X = L /\ \A p : p \in L <=> p \in 0..(width - 1) /\ p + at \in w
          BY <3>1
        <4> HIDE DEF X, L
        <4>2. \A p : p \in X <=> p \in 0..(width - 1) /\ p + at \in w
          BY <4>1
        <4> QED BY <4>2 DEF X
      <3> QED BY <3>1, <3>2 DEF Holds
    <2> HIDE DEF Holds
    <2> QED BY <2>1, Zenon
  <1>8. /\ \A p : p \in Bits(a) <=> p \in 0..4 /\ p + 0 \in w
        /\ \A p : p \in Bits(b) <=> p \in 0..4 /\ p + 5 \in w
        /\ \A p : p \in Bits(c) <=> p \in 0..4 /\ p + 10 \in w
        /\ \A p : p \in Bits(d) <=> p \in 0..3 /\ p + 15 \in w
        /\ \A p : p \in Bits(e) <=> p \in 0..7 /\ p + 19 \in w
        /\ \A p : p \in Bits(f) <=> p \in 0..4 /\ p + 27 \in w
        /\ a \in 0..255 /\ b \in 0..255 /\ c \in 0..255 /\ d \in 0..255 /\ e \in 0..255 /\ f \in 0..255
    <2>1. /\ 0 \in Nat /\ 5 \in Nat /\ 10 \in Nat /\ 15 \in Nat /\ 19 \in Nat /\ 27 \in Nat
          /\ 5 \in 1..8 /\ 4 \in 1..8 /\ 8 \in 1..8 /\ 5 - 1 = 4 /\ 4 - 1 = 3 /\ 8 - 1 = 7
      OBVIOUS
    <2>2. Holds(0, 5) /\ Holds(5, 5) /\ Holds(10, 5) /\ Holds(15, 4) /\ Holds(19, 8) /\ Holds(27, 5)
      <3> HIDE DEF Holds
      <3> QED BY <1>7, <2>1, Zenon
    <2> QED BY <2>1, <2>2, Zenon
  <1> HIDE DEF Holds, a, b, c, d, e, f
  <1>9. a < 32 /\ b < 32 /\ c < 32 /\ d < 16 /\ f < 32
    <2>1. Bits(a) \subseteq 0..4 /\ Bits(b) \subseteq 0..4 /\ Bits(c) \subseteq 0..4 /\ Bits(f) \subseteq 0..4
      BY <1>8
    <2>2. Bits(d) \subseteq 0..3
      BY <1>8
    <2> QED BY <1>8, <2>1, <2>2, ShortWords
  <1>10. WithinLimits(q)
    <2>1. 10 * e \in 10..2000 /\ (10 * e) % 10 = 0
      BY <1>5
    <2>2. f \in 0..30 \/ f = 31
      BY <1>8, <1>9
    <2>3. a \in 0..24 /\ b \in 0..24 /\ c \in 0..31 /\ d \in 0..15
      BY <1>5, <1>8, <1>9
    <2> QED BY <1>4, <2>1, <2>2, <2>3 DEF WithinLimits
  <1>11. QuotaWord(q) = w
    <2>1. (10 * e) \div 10 = e
      BY <1>8
    <2>2. (IF (IF f = 31 THEN Unlimited ELSE f) = Unlimited THEN 31 ELSE (IF f = 31 THEN Unlimited ELSE f)) = f
      BY <1>3, <1>8
    <2>3. QuotaWord(q) = Pack(a, b, c, d, e, f)
      BY <1>4, <2>1, <2>2, Zenon DEF QuotaWord
    <2> DEFINE A == Bits(a)
               B == Bits(b)
               C == Bits(c)
               D == Bits(d)
               E == Bits(e)
               F == Bits(f)
    <2>4. /\ A \in SUBSET Nat /\ B \in SUBSET Nat /\ C \in SUBSET Nat /\ D \in SUBSET Nat
          /\ E \in SUBSET Nat /\ F \in SUBSET Nat
          /\ 5 \in Nat /\ 10 \in Nat /\ 15 \in Nat /\ 19 \in Nat /\ 27 \in Nat
      <3>1. \A x \in 0..255 : Bits(x) \in SUBSET Nat
        <4>1. \A x \in 0..255 : Bits(x) \in SUBSET (0..7)
          BY NumberOfBits, Zenon
        <4> QED BY <4>1
      <3>2. a \in 0..255 /\ b \in 0..255 /\ c \in 0..255 /\ d \in 0..255 /\ e \in 0..255 /\ f \in 0..255
        BY <1>8, Zenon
      <3> QED BY <3>1, <3>2
    <2>5. /\ \A p : p \in A <=> p \in 0..4 /\ p + 0 \in w
          /\ \A p : p \in B <=> p \in 0..4 /\ p + 5 \in w
          /\ \A p : p \in C <=> p \in 0..4 /\ p + 10 \in w
          /\ \A p : p \in D <=> p \in 0..3 /\ p + 15 \in w
          /\ \A p : p \in E <=> p \in 0..7 /\ p + 19 \in w
          /\ \A p : p \in F <=> p \in 0..4 /\ p + 27 \in w
      BY <1>8
    <2> HIDE DEF A, B, C, D, E, F
    <2>6. /\ \A p : p \in ShiftLeft(B, 5) <=> p \in Nat /\ p - 5 \in B
          /\ \A p : p \in ShiftLeft(C, 10) <=> p \in Nat /\ p - 10 \in C
          /\ \A p : p \in ShiftLeft(D, 15) <=> p \in Nat /\ p - 15 \in D
          /\ \A p : p \in ShiftLeft(E, 19) <=> p \in Nat /\ p - 19 \in E
          /\ \A p : p \in ShiftLeft(F, 27) <=> p \in Nat /\ p - 27 \in F
      BY <2>4, InShiftLeft
    <2>7. /\ \A p : p \in A <=> p \in 0..4 /\ p \in w
          /\ \A p : p \in ShiftLeft(B, 5) <=> p \in 5..9 /\ p \in w
          /\ \A p : p \in ShiftLeft(C, 10) <=> p \in 10..14 /\ p \in w
          /\ \A p : p \in ShiftLeft(D, 15) <=> p \in 15..18 /\ p \in w
          /\ \A p : p \in ShiftLeft(E, 19) <=> p \in 19..26 /\ p \in w
          /\ \A p : p \in ShiftLeft(F, 27) <=> p \in 27..31 /\ p \in w
      <3>1. ASSUME NEW p PROVE p \in A <=> p \in 0..4 /\ p \in w
        <4>1. p \in 0..4 => p + 0 = p
          OBVIOUS
        <4> QED BY <2>5, <4>1
      <3>2. ASSUME NEW p PROVE p \in ShiftLeft(B, 5) <=> p \in 5..9 /\ p \in w
        <4>1. p \in Nat => (p - 5) + 5 = p /\ (p - 5 \in 0..4 <=> p \in 5..9)
          OBVIOUS
        <4>2. p \in 5..9 => p \in Nat
          OBVIOUS
        <4> QED BY <2>5, <2>6, <4>1, <4>2
      <3>3. ASSUME NEW p PROVE p \in ShiftLeft(C, 10) <=> p \in 10..14 /\ p \in w
        <4>1. p \in Nat => (p - 10) + 10 = p /\ (p - 10 \in 0..4 <=> p \in 10..14)
          OBVIOUS
        <4>2. p \in 10..14 => p \in Nat
          OBVIOUS
        <4> QED BY <2>5, <2>6, <4>1, <4>2
      <3>4. ASSUME NEW p PROVE p \in ShiftLeft(D, 15) <=> p \in 15..18 /\ p \in w
        <4>1. p \in Nat => (p - 15) + 15 = p /\ (p - 15 \in 0..3 <=> p \in 15..18)
          OBVIOUS
        <4>2. p \in 15..18 => p \in Nat
          OBVIOUS
        <4> QED BY <2>5, <2>6, <4>1, <4>2
      <3>5. ASSUME NEW p PROVE p \in ShiftLeft(E, 19) <=> p \in 19..26 /\ p \in w
        <4>1. p \in Nat => (p - 19) + 19 = p /\ (p - 19 \in 0..7 <=> p \in 19..26)
          OBVIOUS
        <4>2. p \in 19..26 => p \in Nat
          OBVIOUS
        <4> QED BY <2>5, <2>6, <4>1, <4>2
      <3>6. ASSUME NEW p PROVE p \in ShiftLeft(F, 27) <=> p \in 27..31 /\ p \in w
        <4>1. p \in Nat => (p - 27) + 27 = p /\ (p - 27 \in 0..4 <=> p \in 27..31)
          OBVIOUS
        <4>2. p \in 27..31 => p \in Nat
          OBVIOUS
        <4> QED BY <2>5, <2>6, <4>1, <4>2
      <3> QED BY <3>1, <3>2, <3>3, <3>4, <3>5, <3>6
    <2> DEFINE U == UNION {A, ShiftLeft(B, 5), ShiftLeft(C, 10), ShiftLeft(D, 15), ShiftLeft(E, 19), ShiftLeft(F, 27)}
    <2>8. \A p : p \in U <=> \/ p \in A \/ p \in ShiftLeft(B, 5) \/ p \in ShiftLeft(C, 10)
                             \/ p \in ShiftLeft(D, 15) \/ p \in ShiftLeft(E, 19) \/ p \in ShiftLeft(F, 27)
      OBVIOUS
    <2> HIDE DEF U
    <2>9. \A p : p \in w => \/ p \in 0..4 \/ p \in 5..9 \/ p \in 10..14 \/ p \in 15..18 \/ p \in 19..26 \/ p \in 27..31
      <3>1. \A p \in 0..31 : \/ p \in 0..4 \/ p \in 5..9 \/ p \in 10..14 \/ p \in 15..18 \/ p \in 19..26 \/ p \in 27..31
        OBVIOUS
      <3> QED BY <1>2, <3>1 DEF Words
    <2>10. \A p : p \in U <=> p \in w
      BY <2>7, <2>8, <2>9, Zenon
    <2>11. U = w
      BY <2>10
    <2> QED BY <2>3, <2>11 DEF U, A, B, C, D, E, F, Pack
  <1>12. EncodeQuotas(q) = WordBytes(QuotaWord(q))
    BY DEF EncodeQuotas, QuotaWord, Pack
  <1>13. EncodeQuotas(q) = bytes
    BY <1>11, <1>12, BytesOfWord DEF w
  <1> QED
    BY <1>10, <1>13 DEF q
=============================================================================
