--------------------------- MODULE MCApiKeyCodec ---------------------------
(* An instance of ApiKeyCodec for TLC. *)
EXTENDS ApiKeyCodec, TLC

Quotas(r, l, b, s, d, w) ==
  [rate |-> r, latency |-> l, labels |-> b, buffer |-> s, dedup |-> d, window |-> w]

Least == Quotas(0, 0, 0, 0, 10, 0)
Most == Quotas(24, 24, 31, 15, 2000, Unlimited)
Default == Quotas(16, 10, 12, 5, 300, Unlimited)
TooMuch == { [Most EXCEPT !.rate = 25], [Most EXCEPT !.latency = 25], [Most EXCEPT !.labels = 32],
             [Most EXCEPT !.buffer = 16], [Most EXCEPT !.dedup = 2010], [Most EXCEPT !.window = 31],
             [Least EXCEPT !.dedup = 0], [Least EXCEPT !.dedup = 15], [Least EXCEPT !.rate = NotPower] }

\* Bytes from their numbers.
Words(s) == [i \in DOMAIN s |-> Bits(s[i])]
Bytes(n, b) == [i \in 1..n |-> Bits(b)]
Key(m, id, secret, quotas) == [method |-> m, id |-> id, secret |-> secret, quotas |-> quotas]

MCKeys ==
  { Key("none", Words(<<8, 7, 6, 5, 4, 3, 2, 1>>), <<>>, q) : q \in {Default, Least} \union TooMuch }
  \union { Key("none", Bytes(8, 255), Bytes(32, 1), Most),
           Key("aes", Bytes(8, 255), <<>>, Most),
           Key("cookie", Bytes(8, 0), Bytes(32, 1), [Least EXCEPT !.window = 30]),
           Key("cookie", Bytes(8, 0), [i \in 1..32 |-> {8, i % 9}], [Least EXCEPT !.window = 30]),
           Key("aes", Bytes(8, 255), Bytes(32, 255), Most) }

\* Payloads of other tools: a version, a length, a quota word or padding that
\* the codec does not write, and a method that it does not know.
Payload(version, id, rest) == <<Bits(version)>> \o id \o rest
Word(q) == EncodeQuotas(q)
MCForeign ==
  LET chars(p) == [hrp |-> Hrp.none, data |-> ToChars(p)]
      good == ToChars(Payload(1, Bytes(8, 3), Word(Default)))
  IN  { chars(Payload(v, Bytes(8, 3), Word(Default))) : v \in {0, 1, 2} }
      \union { chars(Payload(1, Bytes(8, 3), Words(w))) :
                 w \in {<<0, 0, 0, 0>>, <<255, 255, 255, 255>>, <<25, 0, 8, 0>>, <<0, 0, 72, 6>>, <<0, 0, 64, 6>>} }
      \union { chars(Payload(1, Bytes(9, 3), Word(Default))), chars(Payload(1, Bytes(7, 3), Word(Default))), chars(<<>>) }
      \union { [hrp |-> Hrp.none, data |-> ReplaceAt(good, Len(good), good[Len(good)] \union {0})],
               [hrp |-> Hrp.none, data |-> good \o <<{}>>],
               [hrp |-> Hrp.aes, data |-> good],
               [hrp |-> <<114, 108, 45, 120>>, data |-> good],
               [hrp |-> <<>>, data |-> good] }

\* "1", "p", "q", "b", " "
MCCodes == {49, 112, 113, 98, 32}

\* The keys of src/test_api_key_v1.js, lines 6 and 8.
MCPublished ==
  { [key |-> Key("none", Words(<<8, 7, 6, 5, 4, 3, 2, 1>>), <<>>, Default),
     text |-> <<114, 108, 45, 110, 111, 110, 101, 49, 113, 121, 121, 113, 119, 112, 115, 57, 113, 115,
      112, 115, 121, 113, 50, 115, 107, 56, 101, 48, 115, 102, 100, 112, 51, 121, 115>>],
    [key |-> Key("aes", Bytes(8, 255), Bytes(32, 255), Most),
     text |-> <<114, 108, 45, 97, 101, 115, 49, 113, 56, 108, 108, 108, 108, 108, 108, 108, 108, 108,
      108, 108, 108, 108, 108, 108, 108, 108, 108, 108, 108, 108, 108, 108, 108, 108, 108,
      108, 108, 108, 108, 108, 108, 108, 108, 108, 108, 108, 108, 108, 108, 108, 108, 108,
      108, 108, 108, 108, 108, 108, 108, 108, 108, 108, 108, 108, 108, 108, 108, 108, 108,
      108, 108, 108, 117, 118, 48, 55, 51, 108, 55, 114, 56, 56, 120, 102, 52>>] }
=============================================================================
