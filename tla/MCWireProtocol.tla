--------------------------- MODULE MCWireProtocol ---------------------------
(* Instances of WireProtocol for TLC. *)
EXTENDS WireProtocol, TLC

CONSTANTS s1, s2, k1, k2, k3, k4, k5, n1, n2

\* Keys of one tenant, so that a key can be replaced; the second has a smaller
\* quota.
MCApiKeys ==
  LET key(method, secret, dedup) ==
        [keyId |-> 1, method |-> method, secret |-> secret, quotas |-> [window |-> 7, dedup |-> dedup]]
  IN  (k1 :> key("cookie", s1, 60)) @@ (k2 :> key("cookie", s2, 40))
        @@ (k3 :> key("aes", s1, 60)) @@ (k4 :> key("none", None, 60))

\* The last three have another key id, a text that is no key, or no key.
MCTenants ==
  LET config(id, method, key) == [keyId |-> id, authMethod |-> method, authSecret |-> key]
  IN  { config(1, "cookie", k1), config(1, "cookie", k2), config(1, "aes", k3), config(1, "none", k4),
        config(1, "aes", k1), config(2, "cookie", k1), config(1, "cookie", k5),
        config(1, "none", None) }

\* Policies with horizons of 60 and 40 ms.
MCPolicies ==
  LET rounds(replays, final) ==
        [unitMs |-> 20, replayCount |-> replays, replayGap |-> Fixed(1), finalReceiveUnits |-> final]
  IN  {rounds(1, 1), rounds(1, 0)}

Resource(name, window) == [name |-> name, window |-> window, rate |-> 1]
Guard(name) == [name |-> name, ttl |-> 1, samples |-> 1, minimum |-> 1, threshold |-> 1]
Request(resources, guards, label) == [resources |-> resources, guards |-> guards, label |-> label]
Many(n, x) == [i \in 1..n |-> x]

\* Requests that are answered, a window beyond the quota, a rate that no field holds.
MCSmall ==
  { Request(<<Resource(n1, 1), Resource(n2, 1)>>, <<>>, 1),
    Request(<<Resource(n2, 1), Resource(n1, 1)>>, <<>>, 2),
    Request(<<Resource(n1, 2)>>, <<Guard(n1), Guard(n2)>>, 3),
    Request(<<Resource(n1, 8)>>, <<>>, 0),
    Request(<<[Resource(n1, 1) EXCEPT !.rate = 10]>>, <<>>, 0) }

\* Requests at the limit of a datagram.
MCLarge ==
  { Request(Many(40, Resource(n1, 1)), <<>>, label) : label \in {18, 19} }
    \union { Request(Many(39, Resource(n1, 1)), <<>>, label) : label \in {14, 15} }
    \union { Request(<<>>, Many(31, Guard(n1)), 0) }

MCRequests == MCSmall \union MCLarge
=============================================================================
