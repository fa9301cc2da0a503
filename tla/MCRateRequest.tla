--------------------------- MODULE MCRateRequest ---------------------------
(* Instances of RateRequest for TLC. *)
EXTENDS RateRequest, TLC

CONSTANTS e1, e2, e3

MCStrangers == {2}

\* Three servers, the oldest neither first nor alone; one replay, a last wait,
\* and the answer sent on.
MCReplay ==
  [membership |-> (e1 :> 7) @@ (e2 :> 9) @@ (e3 :> 4),
   policy |-> [unitMs |-> 20, replayCount |-> 1, replayGap |-> Linear(1, 2, 2),
               finalReceiveUnits |-> 1, completionDelivery |-> TRUE]]

\* Two servers; three rounds that wait longer and longer, no last wait,
\* nothing sent on.
MCBackoff ==
  [membership |-> (e1 :> 7) @@ (e3 :> 4),
   policy |-> [unitMs |-> 20, replayCount |-> 2, replayGap |-> Exponential(1, 2, 3),
               finalReceiveUnits |-> 0, completionDelivery |-> FALSE]]

\* Two servers, the younger one with two addresses; no replay at all, and the
\* answer sent on.
MCOnce ==
  [membership |-> (e1 :> 7) @@ (e2 :> 7) @@ (e3 :> 4),
   policy |-> [unitMs |-> 20, replayCount |-> 0, replayGap |-> Fixed(1),
               finalReceiveUnits |-> 1, completionDelivery |-> TRUE]]

MCRequests == {MCReplay, MCBackoff, MCOnce}
MCReplayOnly == {MCReplay}
=============================================================================
