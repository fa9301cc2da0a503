--------------------------- MODULE LookupContract ---------------------------
(***************************************************************************)
(* The server list as the calls of a client see it: whether any server is  *)
(* known, whether the list is young enough to be used without a lookup,    *)
(* and who waits for a lookup.  Discovery implements this module with the  *)
(* DNS answers and the list itself; RClient, which knows of lookups only   *)
(* this much, is shown to use no more than it promises.                    *)
(***************************************************************************)
CONSTANT Callers                 \* calls that may need the list

VARIABLES gone,                  \* destroy() was called
          known,                 \* the list has servers
          fresh,                 \* and is younger than dnsRefreshIntervalS
          asking                 \* calls that wait for their lookup

vars == <<gone, known, fresh, asking>>

Init == /\ gone = FALSE
        /\ known = FALSE
        /\ fresh = FALSE
        /\ asking = {}

Ask(c) == /\ ~gone
          /\ ~fresh
          /\ asking' = asking \union {c}
          /\ UNCHANGED <<gone, known, fresh>>

Found(c) == /\ c \in asking
            /\ asking' = asking \ {c}
            /\ known' = TRUE
            /\ fresh' = TRUE
            /\ UNCHANGED gone

\* A lookup that fails leaves the list as it is.
NotFound(c) == /\ c \in asking
               /\ asking' = asking \ {c}
               /\ UNCHANGED <<gone, known, fresh>>

Expire == /\ fresh
          /\ fresh' = FALSE
          /\ UNCHANGED <<gone, known, asking>>

\* Nobody waits for a lookup any more, and none has an effect.
Destroy == /\ ~gone
           /\ gone' = TRUE
           /\ asking' = {}
           /\ UNCHANGED <<known, fresh>>

Next == \/ Expire
        \/ Destroy
        \/ \E c \in Callers : Ask(c) \/ Found(c) \/ NotFound(c)

Spec == Init /\ [][Next]_vars

\* Every lookup ends.
FairSpec == Spec /\ \A c \in Callers : WF_vars(Found(c) \/ NotFound(c))
=============================================================================
