---------------------------- MODULE CallContract ----------------------------
(***************************************************************************)
(* What RClient promises the application, whatever happens underneath: a   *)
(* call that was accepted is answered once, calls are answered one at a    *)
(* time, and destroy() answers at once, with one error, every call that    *)
(* still waits.  After destroy() a new call gets that same error before it *)
(* returns.  RClient is shown to implement this module.                    *)
(***************************************************************************)
CONSTANT Ops                     \* slots for calls of the application

VARIABLES gone,                  \* destroy() was called
          answer                 \* answer[o]: what the call in slot o was told

vars == <<gone, answer>>

Answers == {"result", "error", "destroyed"}
Waiting == {o \in Ops : answer[o] = "waiting"}

Init == /\ gone = FALSE
        /\ answer = [o \in Ops |-> "idle"]

\* A call is made and waits.
Accept(o) == /\ ~gone
             /\ answer[o] = "idle"
             /\ answer' = [answer EXCEPT ![o] = "waiting"]
             /\ UNCHANGED gone

\* A call is answered, at once or after waiting; never with "destroyed".
Answer(o) == /\ ~gone
             /\ answer[o] \in {"idle", "waiting"}
             /\ \E a \in {"result", "error"} : answer' = [answer EXCEPT ![o] = a]
             /\ UNCHANGED gone

\* A call made after destroy() is refused.
Refuse(o) == /\ gone
             /\ answer[o] = "idle"
             /\ answer' = [answer EXCEPT ![o] = "destroyed"]
             /\ UNCHANGED gone

\* destroy(): no call waits after it.
Destroy == /\ ~gone
           /\ gone' = TRUE
           /\ answer' = [o \in Ops |-> IF o \in Waiting THEN "destroyed" ELSE answer[o]]

\* The slot of an answered call is free again.
Forget(o) == /\ answer[o] \in Answers
             /\ answer' = [answer EXCEPT ![o] = "idle"]
             /\ UNCHANGED gone

Next == \/ Destroy
        \/ \E o \in Ops : Accept(o) \/ Answer(o) \/ Refuse(o) \/ Forget(o)

Spec == Init /\ [][Next]_vars

\* The promise to those who wait: every accepted call is answered.
EveryCallSettles == \A o \in Ops : (o \in Waiting) ~> (o \notin Waiting)
=============================================================================
