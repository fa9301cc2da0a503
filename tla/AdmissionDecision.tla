------------------------- MODULE AdmissionDecision -------------------------
(***************************************************************************)
(* What a rate request promises, without rounds, sends and timers: the     *)
(* oldest server decides as soon as it is heard; before the first wait is  *)
(* over nobody else does; when it is over, the oldest of those heard so    *)
(* far decides, or else whoever is heard first.  A request gives up only   *)
(* if nobody was heard.  What is decided stays decided.                    *)
(***************************************************************************)
EXTENDS Naturals

CONSTANT None                    \* nobody has decided

VARIABLES servers,               \* ids of the membership
          heard,                 \* servers whose answer has come
          waitOver,              \* the first wait is over
          outcome,
          decider                \* the server whose answer was taken

vars == <<servers, heard, waitOver, outcome, decider>>

Oldest(ids) == CHOOSE id \in ids : \A other \in ids : id <= other

Init ==
  /\ servers # {}
  /\ heard = {}
  /\ waitOver = FALSE
  /\ outcome = "none"
  /\ decider = None

Decide(ids) == outcome' = "answer" /\ decider' = Oldest(ids)

Undecided == UNCHANGED <<outcome, decider>>

Hear(id) ==
  /\ outcome = "none"
  /\ heard' = heard \union {id}
  /\ IF waitOver \/ id = Oldest(servers) THEN Decide(heard') ELSE Undecided
  /\ UNCHANGED <<servers, waitOver>>

GiveUp(why) == outcome' = why /\ UNCHANGED decider

WaitEnds ==
  /\ outcome = "none"
  /\ ~waitOver
  /\ waitOver' = TRUE
  /\ IF heard # {} THEN Decide(heard)
     ELSE Undecided \/ \E why \in {"timeout", "undelivered"} : GiveUp(why)
  /\ UNCHANGED <<servers, heard>>

\* Nothing could be sent, or nobody answered.
Unanswered ==
  /\ outcome = "none"
  /\ heard = {}
  /\ \/ GiveUp("undelivered")
     \/ waitOver /\ GiveUp("timeout")
  /\ UNCHANGED <<servers, heard, waitOver>>

\* The socket fails, or the client is destroyed.
Abort ==
  /\ outcome = "none"
  /\ \E why \in {"socketError", "destroyed"} : GiveUp(why)
  /\ UNCHANGED <<servers, heard, waitOver>>

Next ==
  \/ \E id \in servers : Hear(id)
  \/ WaitEnds
  \/ Unanswered
  \/ Abort

Spec == Init /\ [][Next]_vars
=============================================================================
