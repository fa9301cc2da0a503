---------------------------- MODULE ApiKeyCodec ----------------------------
(***************************************************************************)
(* The codec of src/api_key_codec.js: an API key as text.  The fields are  *)
(* packed into bytes, the bytes regrouped into characters of 5 bits, and a *)
(* checksum of six characters appended (Bech32).  A key is issued, copied  *)
(* by hand, perhaps damaged, and given to a client.                        *)
(*                                                                         *)
(* A text is the sequence of its character codes.  A word (a byte, five    *)
(* bits, the register of the checksum, the quotas) is the set of the       *)
(* positions of its ones; SymDiff is the exclusive or.  A quota that must  *)
(* be a power of two is its exponent.                                      *)
(***************************************************************************)
EXTENDS Integers, Sequences, SequencesExt, FiniteSetsExt

CONSTANTS Keys,        \* what callers hand to encodeApiKey
          Published,   \* keys with their texts, as the service issues them
          Foreign,     \* what other tools write, with a right checksum
          Codes,       \* characters that a copyist writes by mistake
          MaxDamages,  \* bound: slips of the copyist
          NotPower,    \* a quota that is no power of two
          Unlimited,   \* a window of 0xffffffff
          Refused,     \* an exception
          None         \* no key

\* The characters that Bech32 admits, and a quota as a caller may give it.
Printable == 33..126
Exponents == Nat \union {NotPower}
KeyTypes ==
  [method : STRING, id : [1..8 -> SUBSET (0..7)], secret : Seq(SUBSET Nat),
   quotas : [rate : Exponents, latency : Exponents, labels : Exponents, buffer : Exponents,
             dedup : Nat, window : Exponents \union {Unlimited}]]

CodecAssumption ==
  /\ Keys \subseteq KeyTypes
  /\ \A p \in Published : p.key \in KeyTypes /\ p.text \in Seq(Printable)
  /\ \A f \in Foreign : f.hrp \in Seq(Printable) /\ f.data \in Seq(SUBSET (0..4))
  /\ Codes \subseteq Nat
  /\ MaxDamages \in Nat
  /\ NotPower \notin Nat /\ Unlimited \notin Exponents /\ Refused \notin Seq(Nat)

ASSUME CodecAssumption

VARIABLES key,         \* the key that was encoded, None for a foreign text
          text,        \* the text of it
          damages      \* slips so far

vars == <<key, text, damages>>

-----------------------------------------------------------------------------
(* Words. *)

Low(w, n) == w \cap 0..(n - 1)
ShiftLeft(w, n) == {b + n : b \in w}
ShiftRight(w, n) == {b - n : b \in w \ 0..(n - 1)}

Weight == <<1, 2, 4, 8, 16, 32, 64, 128>>
Bits(n) == {k \in 0..7 : (n \div Weight[k + 1]) % 2 = 1}
Number == [w \in SUBSET (0..7) |-> CHOOSE n \in 0..255 : Bits(n) = w]

-----------------------------------------------------------------------------
(* Bech32. *)

\* "qpzry9x8gf2tvdw0s3jn54khce6mua7l"
CHARSET == <<113, 112, 122, 114, 121, 57, 120, 56, 103, 102, 50, 116, 118, 100, 119, 48,
             115, 51, 106, 110, 53, 52, 107, 104, 99, 101, 54, 109, 117, 97, 55, 108>>
CHARSET_REV == [c \in Range(CHARSET) |-> Bits((CHOOSE i \in 1..32 : CHARSET[i] = c) - 1)]

GEN_Typo == << {1, 4, 5, 7, 8, 9, 10, 12, 14, 17, 19, 21, 22, 24, 25, 27, 28, 29},
               {0, 2, 3, 5, 6, 9, 10, 11, 15, 20, 22, 25, 26, 29},
               {1, 3, 4, 5, 6, 7, 8, 11, 12, 16, 21, 23, 25, 26, 27, 28},
               {2, 3, 4, 6, 7, 8, 9, 12, 13, 17, 22, 24, 26, 27, 28, 29},
               {0, 1, 4, 5, 7, 9, 13, 14, 18, 20, 25, 27, 29} >>
GEN == << {1, 4, 5, 7, 8, 9, 10, 12, 14, 17, 19, 21, 22, 24, 25, 27, 28, 29},
          {0, 2, 3, 5, 6, 9, 10, 11, 15, 20, 22, 25, 26, 29},
          {1, 3, 4, 5, 6, 7, 8, 11, 12, 16, 21, 23, 25, 26, 27, 28},
          {0, 2, 3, 4, 6, 7, 8, 9, 12, 13, 17, 22, 24, 26, 27, 28, 29},
          {0, 1, 4, 5, 7, 9, 13, 14, 18, 20, 25, 27, 29} >>
Separator == 49
FORMAT_VERSION == 1

\* "rl-none", "rl-cookie", "rl-aes"
Hrp == [none |-> <<114, 108, 45, 110, 111, 110, 101>>,
        cookie |-> <<114, 108, 45, 99, 111, 111, 107, 105, 101>>,
        aes |-> <<114, 108, 45, 97, 101, 115>>]

HrpExpand(hrp) ==
  [i \in DOMAIN hrp |-> Bits(hrp[i] \div 32)] \o <<{}>> \o [i \in DOMAIN hrp |-> Bits(hrp[i] % 32)]

\* What the five bits that leave the register add to it, as GEN has it.
Feedback ==
  [b \in SUBSET (0..4) |->
     LET add(i, x) == IF i \in b THEN SymDiff(x, GEN[i + 1]) ELSE x
     IN  add(4, add(3, add(2, add(1, add(0, {})))))]

Absorb(v) ==
  [chk \in SUBSET (0..29) |->
     SymDiff(SymDiff(ShiftLeft(Low(chk, 25), 5), v), Feedback[ShiftRight(chk, 25)])]

Polymod(values) ==
  LET chk[i \in Nat] == IF i \in DOMAIN values THEN Absorb(values[i])[chk[i - 1]] ELSE {0}
  IN  chk[Len(values)]

VerifyChecksum_Never(hrp, data) == TRUE
VerifyChecksum(hrp, data) == Polymod(HrpExpand(hrp) \o data) = {0}

CreateChecksum(hrp, data) ==
  LET pm == SymDiff(Polymod(HrpExpand(hrp) \o data \o <<{}, {}, {}, {}, {}, {}>>), {0})
  IN  [i \in 1..6 |-> Low(ShiftRight(pm, 5 * (6 - i)), 5)]

\* A turn of the loop of convertBits, and the loop: the accumulator, the bits
\* left over in it, and what was put out.
Accumulators == [acc : SUBSET Nat, bits : Nat, out : Seq(SUBSET Nat)]
Convert(v, from, to) ==
  [r \in Accumulators |->
     LET acc == Low(ShiftLeft(r.acc, from) \union v, from + to - 1)
         bits == r.bits + from
     IN  [acc |-> acc, bits |-> bits % to,
          out |-> r.out \o [k \in 1..(bits \div to) |-> Low(ShiftRight(acc, bits - k * to), to)]]]

Regroup(data, from, to) ==
  LET loop[i \in Nat] == IF i \in DOMAIN data THEN Convert(data[i], from, to)[loop[i - 1]]
                         ELSE [acc |-> {}, bits |-> 0, out |-> <<>>]
  IN  loop[Len(data)]

\* convertBits(payload, 8, 5, true)
ToChars(payload) ==
  LET r == Regroup(payload, 8, 5)
  IN  IF r.bits = 0 THEN r.out ELSE Append(r.out, Low(ShiftLeft(r.acc, 5 - r.bits), 5))

\* convertBits(data, 5, 8): at most 4 bits may be left over, all zero.
ToBytes(data) == Regroup(data, 5, 8).out
CleanPadding_Any(data) == TRUE
CleanPadding(data) ==
  LET r == Regroup(data, 5, 8)
  IN  r.bits < 5 /\ Low(ShiftLeft(r.acc, 8 - r.bits), 8) = {}

IsUpper(c) == c \in 65..90
IsLower(c) == c \in 97..122

LowerCase(s) == [i \in DOMAIN s |-> IF IsUpper(s[i]) THEN s[i] + 32 ELSE s[i]]

\* Position of the last separator, 0 if there is none; what is before and after.
Split(s) == SelectLastInSeq(s, LAMBDA c : c = Separator)
HrpOf(s) == SubSeq(s, 1, Split(s) - 1)
DataOf(s) ==
  LET chars == SubSeq(s, Split(s) + 1, Len(s)) IN [i \in DOMAIN chars |-> CHARSET_REV[chars[i]]]
WithoutChecksum(data) == SubSeq(data, 1, Len(data) - 6)

\* bech32Decode throws no exception.
Readable(addr) ==
  LET s == LowerCase(addr)
  IN  /\ addr # <<>>
      /\ \A i \in DOMAIN addr : addr[i] \in Printable
      /\ ~ \E i, j \in DOMAIN addr : IsUpper(addr[i]) /\ IsLower(addr[j])
      /\ Split(s) > 1
      /\ Len(s) - Split(s) >= 6
      /\ \A i \in (Split(s) + 1)..Len(s) : s[i] \in Range(CHARSET)
      /\ VerifyChecksum(HrpOf(s), DataOf(s))
      /\ CleanPadding(WithoutChecksum(DataOf(s)))

\* The end of bech32Encode: characters and their checksum.
Write(hrp, data) ==
  LET chars == data \o CreateChecksum(hrp, data)
  IN  hrp \o <<Separator>> \o [i \in DOMAIN chars |-> CHARSET[Number[chars[i]] + 1]]

-----------------------------------------------------------------------------
(* The fields. *)

Field(word, at, width) == Number[Low(ShiftRight(word, at), width)]

WordBytes(word) == [i \in 1..4 |-> Low(ShiftRight(word, 8 * (i - 1)), 8)]
ReadWord(bytes) == UNION {ShiftLeft(bytes[i], 8 * (i - 1)) : i \in 1..4}

\* exponent(key, maxExp) and the check of the dedup TTL.
WithinLimits_OneMore(q) ==
  /\ q.rate \in 0..25 /\ q.latency \in 0..25 /\ q.labels \in 0..32 /\ q.buffer \in 0..16
  /\ q.dedup % 10 = 0 /\ q.dedup \in 10..2000
  /\ q.window \in (0..31) \union {Unlimited}

WithinLimits(q) ==
  /\ q.rate \in 0..24 /\ q.latency \in 0..24 /\ q.labels \in 0..31 /\ q.buffer \in 0..15
  /\ q.dedup % 10 = 0 /\ q.dedup \in 10..2000
  /\ q.window \in (0..30) \union {Unlimited}

EncodeQuotas(q) ==
  WordBytes(UNION {Bits(q.rate), ShiftLeft(Bits(q.latency), 5), ShiftLeft(Bits(q.labels), 10),
                   ShiftLeft(Bits(q.buffer), 15), ShiftLeft(Bits(q.dedup \div 10), 19),
                   ShiftLeft(Bits(IF q.window = Unlimited THEN 31 ELSE q.window), 27)})

ValidQuotas(bytes) ==
  LET word == ReadWord(bytes)
  IN  Field(word, 0, 5) <= 24 /\ Field(word, 5, 5) <= 24 /\ Field(word, 19, 8) \in 1..200

DecodeQuotas(bytes) ==
  LET word == ReadWord(bytes)
      window == Field(word, 27, 5)
  IN  [rate |-> Field(word, 0, 5), latency |-> Field(word, 5, 5),
       labels |-> Field(word, 10, 5), buffer |-> Field(word, 15, 4),
       dedup |-> 10 * Field(word, 19, 8), window |-> IF window = 31 THEN Unlimited ELSE window]

SecretLength(method) == IF method = "none" THEN 0 ELSE 32

\* Uint8Array.from keeps the low 8 bits of a number.
NormalizeSecret(secret) == [i \in DOMAIN secret |-> Low(secret[i], 8)]

EncodeApiKey(k) ==
  IF /\ k.method \in DOMAIN Hrp
     /\ WithinLimits(k.quotas)
     /\ Len(k.secret) = SecretLength(k.method)
  THEN Write(Hrp[k.method], ToChars(<<Bits(FORMAT_VERSION)>> \o k.id \o NormalizeSecret(k.secret)
                                      \o EncodeQuotas(k.quotas)))
  ELSE Refused

MethodOf(hrp) == CHOOSE m \in DOMAIN Hrp : Hrp[m] = hrp

DecodeApiKey(encoded) ==
  LET s == LowerCase(encoded)
      payload == ToBytes(WithoutChecksum(DataOf(s)))
      method == MethodOf(HrpOf(s))
      end == 9 + SecretLength(method)
      quotas == SubSeq(payload, end + 1, end + 4)
  IN  IF /\ Readable(encoded)
         /\ HrpOf(s) \in Range(Hrp)
         /\ Len(payload) = end + 4
         /\ payload[1] = Bits(FORMAT_VERSION)
         /\ ValidQuotas(quotas)
      THEN [method |-> method, id |-> SubSeq(payload, 2, 9),
            secret |-> SubSeq(payload, 10, end), quotas |-> DecodeQuotas(quotas)]
      ELSE Refused

-----------------------------------------------------------------------------
(* Issuing and copying. *)

Init == key = None /\ text = Refused /\ damages = 0

Issue(k) ==
  /\ text = Refused
  /\ EncodeApiKey(k) # Refused
  /\ key' = k
  /\ text' = EncodeApiKey(k)
  /\ UNCHANGED damages

\* A key of the service, issued by an implementation in another language.
IssuePublished(p) ==
  /\ text = Refused
  /\ key' = p.key /\ text' = p.text
  /\ UNCHANGED damages

\* Another tool writes a key: any characters, with the right checksum.
IssueForeign(f) ==
  /\ text = Refused
  /\ text' = Write(f.hrp, f.data)
  /\ UNCHANGED <<key, damages>>

\* Copying a foreign text shows no more than copying one of the codec.
Copy(t) ==
  /\ key # None
  /\ damages < MaxDamages
  /\ damages' = damages + 1
  /\ text' = t
  /\ UNCHANGED key

WrongCharacter == \E i \in DOMAIN text, c \in Codes : Copy(ReplaceAt(text, i, c))
WrongCase == \E i \in DOMAIN text : IsLower(text[i]) /\ Copy(ReplaceAt(text, i, text[i] - 32))
AllCapitals == Copy([i \in DOMAIN text |-> IF IsLower(text[i]) THEN text[i] - 32 ELSE text[i]])
Swapped ==
  \E i \in 1..(Len(text) - 1) :
    Copy(ReplaceAt(ReplaceAt(text, i, text[i + 1]), i + 1, text[i]))
LeftOut == \E i \in DOMAIN text : Copy(RemoveAt(text, i))
Twice == \E i \in DOMAIN text : Copy(InsertAt(text, i, text[i]))

Damage ==
  /\ text # Refused
  /\ WrongCharacter \/ WrongCase \/ AllCapitals \/ Swapped \/ LeftOut \/ Twice

Next ==
  \/ \E k \in Keys : Issue(k)
  \/ \E p \in Published : IssuePublished(p)
  \/ \E f \in Foreign : IssueForeign(f)
  \/ Damage

Spec == Init /\ [][Next]_vars

-----------------------------------------------------------------------------
(* Properties. *)

\* A key that was issued, by this codec or by the service, is read back as it
\* was given, with quotas at the edge of each field; and a slip in copying it
\* is refused, or harmless, never taken for another key.
Normalized(k) == [k EXCEPT !.secret = NormalizeSecret(k.secret)]
KeyOrRefusal ==
  key # None =>
    /\ DecodeApiKey(text) \in {Normalized(key), Refused}
    /\ damages = 0 => DecodeApiKey(text) = Normalized(key)

\* A key has one text: whatever is accepted, from this codec or another, would
\* be written the same again, but for capitals.
AcceptedIsCanonical ==
  LET k == DecodeApiKey(text)
  IN  text # Refused /\ k # Refused => EncodeApiKey(k) = LowerCase(text)

\* Arithmetic of GF(32), with a^5 = a^3 + 1.
TimesA(x) == SymDiff(Low(ShiftLeft(x, 1), 5), IF 4 \in x THEN {0, 3} ELSE {})
Times(x, y) ==
  LET add(k, xa, sum) == IF k \in y THEN SymDiff(sum, xa) ELSE sum
      x1 == TimesA(x)
      x2 == TimesA(x1)
      x3 == TimesA(x2)
      x4 == TimesA(x3)
  IN  add(4, x4, add(3, x3, add(2, x2, add(1, x1, add(0, x, {})))))

\* Remainder of a polynomial over GF(32) by the generator of Bech32.
Generator == << {0, 2, 3, 4}, {1, 2, 4}, {2, 4}, {0, 2, 4}, {0, 2, 3, 4}, {1, 4} >>
Divide(v) ==
  [r \in [1..6 -> SUBSET (0..4)] |->
     [i \in 1..6 |-> SymDiff(IF i = 6 THEN v ELSE r[i + 1], Times(Generator[i], r[1]))]]
Remainder(values) ==
  LET r[i \in Nat] == IF i \in DOMAIN values THEN Divide(values[i])[r[i - 1]]
                      ELSE <<{}, {}, {}, {}, {}, {0}>>
  IN  r[Len(values)]

\* The shifts, masks and table of polymod compute the remainder of a cyclic
\* code: what the promise to notice slips of a copyist rests on.
ChecksumIsRemainder ==
  text # Refused /\ damages = 0 =>
    LET values == HrpExpand(LowerCase(text))
    IN  Polymod(values) = UNION {ShiftLeft(Remainder(values)[i], 5 * (6 - i)) : i \in 1..6}
=============================================================================
