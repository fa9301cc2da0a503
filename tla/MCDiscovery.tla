---------------------------- MODULE MCDiscovery ----------------------------
(* An instance of Discovery for TLC. *)
EXTENDS Discovery, TLC

CONSTANTS r1, r2, r3, r4

\* Ids are exact below 8, and two ids in a row share their second.  r4 names no
\* server; r3 names one whose id is beyond what a double holds.
MCLabel ==
  LET server(n) == [isServer |-> TRUE, number |-> n]
  IN  (r1 :> server(5)) @@ (r2 :> server(4)) @@ (r3 :> server(9))
        @@ (r4 :> [isServer |-> FALSE, number |-> 2])

MCAddresses == (r1 :> <<"a", "b">>) @@ (r2 :> <<"c">>) @@ (r3 :> <<"d">>) @@ (r4 :> <<"e">>)

\* Two servers the client can use, then the younger alone, then the older.
MCZones == <<{r1, r2, r3}, {r1, r4}, {r2}>>
=============================================================================
