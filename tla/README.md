# A verification of ratelimitly-client

TLA+ modules that model the JavaScript client of the RateLimitly service
(`src/client.js`, `src/steering.js`, `src/api_key_codec.js`), the TLC configurations that check them on
small instances, and proofs, checked by TLAPS, of what must hold for any
number of calls, sockets, servers, ports and lookups, and for packets and
schedules of any length.

`PROJECT.json` lists the runs, the theorems, the hazards in the code, and for
every definition the lines of the source that it stands for.

## 1. The system

A client answers two calls of the application: `checkRateLimit()`, which asks
several servers over UDP and takes one decision, and `reportLatency()`, which
sends and forgets. Node runs one handler at a time and to its end, so what is
hard is not data races but the *order of handlers*, state that is captured
before an `await` and used after it, and the application calling the client
again from inside one of the client's own loops.

| component | state it keeps | operations | modelled in |
|---|---|---|---|
| client lifecycle and transport (`RClient`) | `_destroyed`, active calls, `_transports`, `_transportInitQueue`, `inFlightCount`, `drainCallbacks`, `_steeringPending`, `_steeringApplying`, `_retiredTransports` | `checkRateLimit`, `reportLatency`, `_getTransport`, `_flushTransportQueue`, `_applySteeringFeedback`, socket error, `destroy` | `RClient`, `CallContract` |
| HA rate request (`_sendRateRequest`) | round, candidate, servers heard, one timer, send callbacks outstanding | first round, replay, final wait, answers, send failures, completion delivery, cancel | `RateRequest`, `AdmissionDecision` |
| request policy (`HaSchedule`, `RequestPolicy`) | none | constructors, `units`, `horizonMs` | `RequestPolicy` (used by `RateRequest` and `WireProtocol`) |
| source-port scan (`steering.js`) | next port, candidate, attempts | `bindNextSteeringSocket`, `nextSteeringPort` | `PortScan` |
| discovery (`_refreshServers`) | `servers`, `lastDnsRefresh`; per lookup: `pending`, the servers found | SRV answer, A answers, publication, expiry | `Discovery`, `LookupContract`; `RClient` uses the latter |
| wire protocol (`WireProtocol`, `CanonicalIds`) | the decoded key cached in the tenant configuration, the client's `quotas` | `createRateRequest`, `createLatencyReport`, `parseRateResponse` | `WireProtocol` |
| API key codec (`api_key_codec.js`) | none | `encodeApiKey`, `decodeApiKey` | `ApiKeyCodec` |
| server tracker, statistics | one record per server | `recordResponse`, `getServerStats` | no: no decision reads it |
| value classes, errors, `createClient` | none | validation | no: no behaviour over time |

**How they interact.** A call looks up the servers if the list is old
(discovery), asks for a transport (which may start the lazy bind, a port scan,
or wait for one), sends (rate request), and settles. An answer may carry advice
to change the source port: when the last call in flight has left the transport,
a rebind (another scan) replaces it, and calls made meanwhile wait in the queue
that the end of the rebind flushes. `destroy()` may come at any moment, also
from a callback.

**What makes each component correct.**

- *Calls*: every accepted call is answered once; `destroy()` answers at once
  whoever waits, and nothing that was under way has an effect after it.
- *Transport*: `inFlightCount` is the number of calls that hold the transport;
  no call is on a socket that was closed or replaced; one bind at a time; no
  socket leaks.
- *Queue*: whoever waits for a transport will be served.
- *Steering*: advice that is accepted is not forgotten, and is acted on only
  when the transport is drained.
- *Rate request*: the oldest server decides, a younger one only after the first
  wait; timeouts come at the horizon the packet announced; a decision is final;
  a delivery failure is that of one whole round.
- *Discovery*: a lookup calls back once; the list is one answer, sorted, and
  never one from before the caller's question; a failure takes nothing away.
- *Packets*: as long as they say they are, within a datagram, sealed with the
  current key and within its quotas; a result says what a server decided about
  the name it is told under.
- *Keys*: read back as they were issued; a slip is refused; one text per key.
- *Port scan*: every port of the range is tried once; the client's own port
  last; the scan ends.

## 2. The modules

### RClient

An action is a handler with everything it calls. Two loops are different: the
flush of the transport queue (`client.js:922-931`) and the delivery of a socket
error (`989-995`, `1061-1067`) call back into the application between one
iteration and the next. The rest of the running loop is in `loop`, one iteration
is `LoopStep`, and while the callback runs (`inUser`) the application may make a
call or destroy the client. No event of the event loop is handled in between.

| code | module |
|---|---|
| `terminal`, `finish`, `callback` | `stage[o]`, `Settle`; `calls[o]` counts the callback's invocations |
| the closure's `transport` | `transport[o]` |
| `_getTransport`, callback run at once / queued / first of the queue | `GetTransport`, `Use` |
| `cleanup()`, drain callbacks, `_applySteeringFeedback()` | `Leave`, `StartRebind` |
| bind of `_getTransport`: `then`, `catch` | `BindDone`, `BindFails` |
| `executeRebind`: success, `catch`, `finally` | `RebindDone`, `RebindFails`, `Publish` |
| `_refreshServers` ends; the list gets old | `LookupDone`, `Expire` |
| an answer; timeout, or failure of all sends | `Answered`, `GivesUp` |
| `destroy()` | `Destroy` |

What is abstracted: the slot of an answered call may be used again (`Reuse`), so
that a behaviour has no end though it has few slots; the order of the queue and
of the handlers of a socket is any order, which includes the code's; a call that
cannot be encoded, is empty, or has a target that discovery refuses (explicit
lists, IP addresses) is a call that fails at once; family `udp6` is never asked
for by a caller and has no model; ports are `PortScan`'s, retries `RateRequest`'s
matter. A bind and a rebind in progress are states of their socket.

`Throwers` are calls whose callback throws when it is told a result. What it
throws ends the running loop. In the lazy bind, `.catch` swallows it; elsewhere
the model assumes the process survives (a handler for uncaught exceptions), which
is the case in which the state of the client still matters.

### CallContract

What the application may rely on, with two variables: whether the client is
gone, and what each call was told. `RClient` implements it under the mapping
`Told`; this is checked by TLC and proved.

### RateRequest and RequestPolicy

One request that holds its transport. The network loses, duplicates, delays and
reorders: a server that a datagram has reached may answer at any later time, any
number of times, or never. A send may throw at once (`unsendable`), or fail in
its callback, which may come in a later round or after the end; it counts for its
own round, and `UndeliveredMeansWholeRound` says that the failures of two rounds
are never added up. Completion delivery is best effort: `completed` are the
endpoints whose send did not throw, and what is told of these sends is ignored,
so no property promises who gets them, only that they change nothing
(`DecisionIsFinal`). `waited` adds up
the units of the timers that fired; it is compared with the horizon.
`Strangers` are servers started after the lookup, behind the same addresses.
A server id carries its start second in its upper bits, so that the code's order
by start second and then by id is the order of the ids (`Discovery` has the order
as the code computes it). What the closures capture, membership and policy, is
in `request`, chosen at the start among `Requests`, whose policies are such as
the constructors accept (`PolicyAssumption`). `parseRateResponse` is
abstracted to: it returns a valid answer (`OnMessage`), or it throws
(`OnInvalidMessage`, whatever the reason). `RequestPolicy` has the schedules;
the loop of the exponential one (`Grown`) and the sum of the waits
(`UnitsBefore`) are recursive functions, which can be proved about.

### AdmissionDecision

The promise behind a rate request, without rounds, sends and timers: the oldest
server decides at once, nobody else before the first wait is over, then the
oldest of those heard; who was heard is not thrown away for a timeout or a
delivery failure. `RateRequest` implements it, with "the first wait is over"
read off the time that the timers have waited.

### Discovery and LookupContract

Every call that finds the list old starts a lookup of its own; the code does not
share them. A lookup is an SRV answer (`SrvAnswer`) and then one A answer for
each record that names a server (`AAnswer`), in any order, interleaved with
those of other lookups, with changes of the zone and with `destroy()`. The last
one publishes (`Publish`), if any server was found. `pending` is the closure's
counter, apart from `inA`, the answers that are really to come. `AsDouble` is
`Number()` on ids up to twice `ExactBelow` (2^53 in the code), where a double
holds every other integer; above it holds fewer, all of which are refused too.
`IdsPerSecond` is what the code shifts an id by to get its start second. The
sort is stated by its result, as a stable sort is unique: `Rank` counts the
entries that come before one, and `Sorted` puts each at its rank.
`NoOlderThanQuestion` is about each step in which a lookup that found servers calls
back, also when the list is fresh already from a lookup that overlapped it: what
is in use then is not older than that caller's question.

`LookupContract` says what calls may rely on: who waits, whether a server is
known, whether the list is fresh. `Discovery` implements it; and `RClient`, which
abstracts a lookup to one event, is checked to stay within it
(`WithinLookupContract`). That is the composition of the two: everything `RClient`
does with lookups is allowed by what `Discovery` provides.

### WireProtocol

A packet is the list of its fields' sizes in the order in which the code writes
them, and apart from it the sizes that the code computes beforehand to allocate
and to announce; `Total` is the position `pos` after the last field. What the
application may pass is in `Requests`, of any length, with any `Names`; what a
key's text decodes to is `ApiKeys`, and a text outside its domain is no key. A canonical id is the tuple that it is the digest of, so that
two ids are equal only if all that was hashed is; what was sealed with a secret
opens with that secret only. Between packet and answer the application may
replace the key in its configuration (`Rotate`), which the client reads at every
packet and answer through the cache `_decodedAuth`, and reuse the arrays it passed
(`Amend`), which the parser reads when the answer comes. The parser's checks are
the conjuncts of `ParseRateResponse`, whose failure is one refusal whatever was
thrown. A refused packet includes the `TypeError` of a client without a key,
whose `quotas` are `null` (`client.js:1696`): `docs/api.md:177` lists only errors
of the library's own classes.

### ApiKeyCodec

Bech32 on characters and bytes as the code does it, bit by bit: a word (a byte,
five bits, the register of `polymod`, the accumulator of `convertBits`, the quota
word) is the set of the positions of its ones, `SymDiff` is the exclusive or, a
shift moves positions and a mask cuts them off. `Bits` and `Number` translate
numbers below 256. The loops of `polymod` and `convertBits` are recursive
functions, with a function for one turn (`Absorb`, `Convert`).

The properties look at texts, not at the encoder alone: `Issue` writes
a key, `IssuePublished` takes the two published ones of `test_api_key_v1.js`,
`IssueForeign` what another tool may write with a right checksum, and a copyist
makes slips. `Readable` is what `bech32Decode` throws no error on. `Remainder` is
an independent definition of the checksum, division
by the generator polynomial over GF(32). A secret given as an array keeps the low
8 bits of each number (`NormalizeSecret`), as `Uint8Array.from` does.

### PortScan

The scan awaits every attempt to bind, so each attempt is a step, and other
programs and clients take and free ports in between. The ring has `PortMin` to
`PortMax`; a client's old socket keeps its port until the new one is there.

Definitions named `X_Something` are slips one could make in `X`; no action uses
them. They serve to see that a property notices: `PROJECT.json` pairs every
property with one that breaks it.

## 3. What is checked

| run | instance | shows |
|---|---|---|
| `safety` | 3 rate requests, 2 reports, 3 sockets, symmetry | all safety properties of `RClient`, `IInv`, `QuietAfterDestroy`, implementation of `CallContract`, use of `LookupContract` |
| `liveness` | 2 rate requests, 1 report, 2 sockets, no symmetry | every accepted call is answered; advice is acted on |
| `throwing` | the same, the report's callback throws | **violation**: calls behind it in the queue wait for ever |
| `background` | the same | **violation**: an idle client's server list is never refreshed |
| `request` | 3 servers, 1 replay, final wait, completion; 2 servers, 3 rounds, gaps 1, 2, 3, neither; 2 servers with 3 endpoints, no replay | the properties of one request, implementation of `AdmissionDecision`, every request ends |
| `undelivered` | 3 servers, 1 replay | **violation**: a delivery error though a round reached servers |
| `rejected` | 3 servers, 1 replay | **violation**: a timeout though answers came |
| `discovery` | 2 lookups, 3 versions of a zone with 4 records, doubles exact below 8, 2 ids a second | one callback, one answer, order, implementation of `LookupContract`, the list catches up |
| `codec` | 15 keys at and beyond the edges, 2 published, 16 foreign texts, 1 slip | a key is read back, or the slip is refused; one text per key; the checksum |
| `wire` | 2 calls, 4 keys, 8 configurations (one with a text that is no key, one without key), 2 policies, packets at 1200 bytes | sizes, current key and its quotas, results |
| `short_answer` | the same | **violation**: success without a word on the last resource |
| `portscan` | 2 clients, 3 ports | the scan leaves out no port, and ends |

*Bounds.* Five calls are enough for one to be in flight, one to leave, two to
wait in the queue and one to be made from a callback; since slots are used again
the sequences are unbounded. Three sockets are the current one, its replacement,
and one more that would have to be opened for a second bind or for a leak to
show; the theorems do not depend on either number. Three endpoints give an oldest
server, a candidate and a better candidate; three rounds give a send callback
that comes two rounds late. Two lookups are one that overtakes and one that is
overtaken; the zone loses a server and gets it back, so that a list can be older
and newer than another. Two calls are one before and one after a change of key;
the large packets are those at 1200 bytes, and just beyond, for each of the three
auth headers. One slip is what is tried exhaustively at every position of a text;
what the checksum promises of several slips at once rests on
`ChecksumIsRemainder`: it is a property of the Bech32 code, which is not proved
here. Three ports are the smallest ring with a port that is neither the first nor
the last.

*Deadlock* is checked for `RClient` and `PortScan`. The others really stop: a
request ends, a destroyed client's lookups end, a key that was copied once stays,
and the packets of `WireProtocol` are bounded.

*Fairness.* The resolver and `bind()` answer, timers fire, a loop goes on:
`LookupDone`, `GivesUp` and the ends of binds are strongly fair in `RClient`
because a loop that runs keeps handlers from running, over and over if there are
loops over and over; Node keeps a due timer and an arrived result queued, and
takes them when the loop has ended. Answers are not fair: they may never come.
`AdviceIsApplied` assumes in addition that the transport is idle again and again:
under calls that overlap for ever, drain-before-rebind never drains.

`Discovery` needs only that the resolver answers each lookup. `ListCatchesUp`
assumes in addition that the list gets old and is looked up again and again: with
no more calls an older list that overtook a newer one stays.

*Violations.* Five runs show where the repository says something else than the
code does; `findings` in `PROJECT.json` quotes both sides. In short:

1. `_flushTransportQueue` drops the rest of the queue when a callback throws,
   and after a lazy bind nobody learns of it (`client.js:926`, `1005`).
2. `docs/configuration.md:75` promises a background refresh that does not exist;
   `docs/api.md:25` has it right.
3. A replay whose sends all fail ends the request though the first round's
   answers may be under way (`client.js:1397`).
4. The errors for a failed tag or a malformed response that `docs/api.md:189-192`
   shows for `checkRateLimit()` cannot reach the caller: such a response is dropped
   (`client.js:1436`).
5. `docs/api.md:135` says that `success` means every resource was admitted; a
   response with fewer results than resources is taken, and what it leaves out
   does not count (`client.js:769-824`, `1715-1716`).

Two more differences need no run: `docs/configuration.md:73` says that targets
are resolved to IPv4 and IPv6 endpoints, but the code asks `resolve4` only; and
the key id of the configuration is compared with the key's only when a key is
decoded, not when the cached one is used (`client.js:326-328`, `344`).

## 4. What is proved

Every safety property that a passing run checks is a theorem for all values of
the constants; that of `KeyOrRefusal` is for one slip in copying. A module `XProofs` holds the
inductive invariant of `X` (`IInv`; for `ApiKeyCodec`, `TextInv` and `KeyInv`), one
lemma or step for each action that preserves it,
and the theorems. Each was checked by TLC on the instance of the run
before it was proved.

| module | theorems | for every |
|---|---|---|
| `RClientProofs` | `Invariance`; `TypeCorrect`, `CallbackOnce`, `CountIsRight`, `NeverOnOldTransport`, `LoopsGrantCurrent`, `NoSocketLeaks`, `BindsOneAtATime`, `RebindsWhenDrained`, `AdviceIsWoken` from it | finite set of calls, set of sockets, throwing callbacks |
| | `Implements` (`CallContract`), `WithinLookup` (steps of `LookupContract`), `SilentAfterDestroy`; `QueueIsServed` if no callback throws | the same |
| `RateRequestProofs` | `WaitsGrowWithinBounds`, `EarlyStopIsExact`, `HorizonCoversRounds` of `RequestPolicy` | schedule, round, number of replays |
| | `RequestInvariance`; `RequestTypeCorrect`, `CandidateIsOldest`, `NobodyHeardInLaterRounds`, `TimesOutAtHorizon`, `UndeliveredIsAWholeRound`, `DecidedOnce`; `DecidesAsPromised` (`AdmissionDecision`) | membership, policy, set of strangers |
| `DiscoveryProofs` | `IdsAreExact`, `BeforeIsById`, `SortIsStable`; `DiscoveryInvariance`; `DiscoveryTypeCorrect`, `EveryCallerIsToldOnce`, `ListComesFromOneAnswer`, `AnswerIsNotOlder`; `ImplementsLookupSteps` (`LookupContract` without its fairness) | number of lookups, sequence of zones, ids |
| `PortScanProofs` | `NextPortTurns`; `ScanInvariance`; `ScanTypeCorrect`, `LeavesNoPortOut`, `TriesOwnPortLast` | range of ports, number of clients |
| `WireProtocolProofs` | `WireInvariance`; `PacketsAreWhole`, `SealsWithCurrentKey`, `ResultsAreDecisions` | tenants, keys, requests, reports, lengths of arrays and labels |
| `ApiKeyCodecLemmas` | `OneChangeIsSeen`, `SwapIsSeen`, `ChecksumIsTheOne`, `PolymodIsRemainder`; `BytesSurvive`, `CharsSurvive`; `QuotasSurvive`, `QuotasWritten` | sequence of values, bytes or characters of any length; quotas |
| `ApiKeyCodecProofs` | `DecodesWhatItEncodes`, `AcceptedIsEncoded`, `OneSlipIsHarmless`; `TextIsSequence`, `CanonicalHolds`, `ChecksumHolds` | key, text, slip; sets of keys, foreign texts and wrong characters, number of slips |
| | `KeyOrRefusalHolds` if the service writes what the codec writes, and the copyist makes at most one slip | sets of keys, foreign texts and wrong characters |

`RecursionLemmas` has what those need about recursive functions: that `Nat` has
induction, in a form about sets (`Induction`), and that a function defined by
recursion exists and has a type (`RecursionExists`, `RecursionTyped`). Both rest
on the library's theorem that the order of `Nat` is well-founded.

*Assumptions* on the constants are those the modules name:

- `OpsAssumption`: finitely many calls, so that they can be counted;
  `SocketsAssumption`: `None` is no socket. `QueueIsServed` assumes
  `Throwers = {}` besides: run `throwing` shows that it fails otherwise.
- `MembershipAssumption`: a request has an endpoint (`_sendRateRequest` refuses
  one without servers, `1292-1302`), and server ids are numbers; `PolicyAssumption`: the
  policy is one that the constructors accept.
- `DiscoveryAssumption`: zones are finite, a name's addresses are distinct, a
  label's number is below twice `ExactBelow`, which is even.
- `PortsAssumption`: a range within the natural numbers, not empty.
- `WireAssumption`: methods are the three there are, policies are accepted ones,
  the fields of resources and guards, and a key's TTL quota, are natural numbers,
  and `None` and `Refused` differ and are no key, request or result.
- `CodecAssumption`: keys have the types that the encoder's checks let through,
  a prefix is printable (`bech32Encode` refuses others), foreign data are values of
  five bits, published texts printable. `KeyOrRefusalHolds` assumes besides
  `PublishedAgrees`, that the service writes a key as `encodeApiKey` does, which
  `test_api_key_v1.js` asserts of its two published keys (and which follows, on the
  instance of run `codec`, from `KeyOrRefusal` and `AcceptedIsCanonical` before any
  slip), and `MaxDamages <= 1`, which is the bound of the run: that no number of
  slips leads to another key is false of any checksum.

### RClient

None of the properties is inductive alone. That a rebind finds
the transport drained (`DrainBeforeRebind`) needs that the count is right
(`CountsCalls`), and that drain callbacks sit only on the current transport, put
there by advice that is still pending (`SteeringIsSane`, `PendingIsWoken`). That
a loop hands out an open transport (`GrantsCurrent`) needs that a running loop
excludes a rebind in progress (`LoopIsSane`), or an answer in a callback could
start one. That one bind is outstanding (`OneBind`) needs that a queue exists
exactly while a bind or rebind will flush it (`QueueIsSane`), and so on; `IInv`
is the conjunction. TLC checks it in run `safety`.

The proof goes by what a handler does to one call, not by handler: it is settled
without a transport, takes the transport, waits for it, waits for its lookup, or
leaves the transport. Each of these is one lemma (`SettledWithoutTransport`,
`TakesTransport`, `WaitsForTransport`, `WaitsForLookup`, `LeavesTransport`), and
the handlers are instances of them. `LeaveOne` says in which three ways a call
can leave: nothing else happens, advice waits, or the rebind starts. The ends of
binds share `FlushInv` and `PublishInv`. For the refinements the steps are classified
again by what they do to a call (`StepOfCall`) and maps each to the contract, and
by whether a call goes on without a lookup (`GoesOn`) for `LookupContract`.

### RateRequest and RequestPolicy

`TimeoutAtHorizon` needs to know at every moment what has been waited:
`ClockIsSane` ties `waited` to the round whose timer runs, and the horizon is
that sum carried to the last round, plus the final wait. `HeardMeansFirstRound`
needs that the candidate settles the request when the first timer fires, so that
no later round has one. The refinement needs one fact more, in `SendsAreSane`: if
the first round has reached a server, one of its sends has told so or will; so a
first round that fails has been answered by nobody, and no answer is thrown away.
`DecisionStep` maps each action: a round's timer is the end of the first wait in
round 0; later it gives up unanswered, or is a stutter.

The lemmas on schedules are inductions over the rounds. `EarlyStopIsExact` is the
one whose proof is not routine: the loop stops as soon as the maximum is reached,
and it caps every product, while the reference caps the power once.

### Discovery

`CallbackOwed` needs `CountsAnswers`: the counter `pending` is the number of
answers to come, so the last one finds 1. `ListIsOneAnswer` needs the same of
the lookup before it publishes (`FindsOneAnswer`): what it has found are the
addresses of those records of one SRV answer whose A answer has come, each
complete, none twice; `SortIsStable` then carries this over the sort. It is proved by
ranks: `Rank` is injective, because of two entries one precedes the other, and so
a bijection, and precedence is transitive as it is that of ids (`BeforeIsById`).

### PortScan

The set of ports tried is an arc of the ring: `Offset(s, p) < tries`, seen from
the port `s` where the scan began (`ScansInOrder`). `NextPortTurns` says that
`nextSteeringPort` moves one further along the ring from wherever one looks. For
`OwnPortLast` the scan of a client that holds a port must have begun after it.

### WireProtocol

That the answer to the call as it stands is taken (the second half of
`ResultIsTheDecision`) rests on the cache: between packet and answer the key kept
is still the packet's (`KeyIsKept`), and any key kept is what its text decodes to
(`KeyIsDecoded`). The first half rests on `AnswerIsSane`: whatever the network
does to an answer, an entry is a decision about what its id was derived from,
and the id has the name in it. For the sizes, `Total` is unfolded by induction
into sums, for fields and for sections; the rest is arithmetic of padding.

### ApiKeyCodec

The codec keeps no state: the work is in what its loops compute, and each needs an
invariant of its own, proved by `Induction`.

*The checksum.* A turn of `polymod` (`Absorb`) is linear (`AbsorbLinear`) and
forgets nothing (`AbsorbInjective`): the low five bits of what `GEN` adds tell
which bits left the register (`FeedbackInjective`). So registers that
differ once stay different as long as the same values follow (`DifferFrom`), which
is why one wrong character or two swapped ones are seen at any length.
`ChecksumIsTheOne` says why `createChecksum` may run `polymod` over six zeros: six
characters, shifted in behind the same prefix and data, change the register by
just themselves, as no bit of theirs can leave it within six turns
(`Beside`, `ChecksumAdds`).
`PolymodIsRemainder` ties the table to the generator: the five numbers of `GEN`,
cut into words of five bits, are its coefficients times 1, a, ..., a^4
(`CellIsTimes`, `CellIsGenerator`), and so a turn is a step of the long division
(`DivideIsAbsorb`). A wrong digit in the table breaks `CellsGrow`.

*Regrouping.* The invariant of `convertBits` (`Converted`) is about the stream of
bits in the order in which they are written: after a number of words, what was put
out is the front of the stream in words of the new width, and the accumulator holds
the rest. Two regroupings give the words back because they have the same stream.
For `CharsSurvive` this needs that the padding is shorter than a character and zero,
the two checks at lines 66 and 67; without them a key would have several texts.

*Texts.* A text is prefix, last separator, characters (`TextRead`, `ReadText`): no
character of `CHARSET` is the separator, which is why the last one is the right one.
Together these give that `encodeApiKey` and `decodeApiKey` are inverse to each other
(`DecodesWhatItEncodes`, `AcceptedIsEncoded`).

*Slips.* A slip changes one place, swaps two neighbours, changes case, or changes
the length by one (`DamageIsSlip`). Accepted texts have 35, 85 or 88 characters,
according to the method (`AcceptedLength`), so a character left out or written twice
is refused although the checksum alone would not tell (Bech32 is known to accept
some insertions). Two accepted texts of one length have one method and prefix, and
differ in their characters only; there the checksum tells. `KeyInv` adds
that an undamaged text is the key's encoding, and goes no further than the first slip.

### Only model-checked

- Liveness, which is outside the prover's reach: `EveryCallSettles`,
  `AdviceIsApplied`, `RequestEnds`, `ListCatchesUp`, `ScanEnds`, and of
  `ImplementsLookup` that `Discovery` is as fair as the contract.

## 5. What is not modelled

Ciphers and digests as functions of bytes: they are perfect in `WireProtocol`.
Time that a call spends before it holds a transport, which is not part of the
horizon its packet announced (`1696`). `getServerStats()` and `ServerTracker`,
which no decision of the client reads. The resolver that `_buildResolver` chooses,
and the resolver hint. The constructors of the value classes, which check one
argument after the other. `bytesToHex` and logging. The number of tokens a
resource asks for: it has its place in the packet, but not its value, nor the
refusal of one beyond 16 bits (`client.js:531`). `ref()`/`unref()`, which matter
to the process only. Programs that use the
library, `example_usage.js` and `examples/`. Hazards in these parts are in `PROJECT.json` with
a note.

## 6. Plan

Done: all modules of section 2, and the proofs of section 4. What one could add:

1. That two or three wrong characters in a key are seen: the distance of the Bech32
   code for texts of up to 88 characters, which needs the order of its generator.
2. A bound on sends: no more datagrams than endpoints times rounds plus
   completion, from `RequestInvariance`.
3. `RClient` composed with `RateRequest`: time in the queue against the dedup TTL.
