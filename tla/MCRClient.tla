----------------------------- MODULE MCRClient -----------------------------
(* Instances of RClient for TLC. *)
EXTENDS RClient, TLC

CONSTANTS r1, r2, r3, l1, l2, s1, s2, s3

MCOps == {r1, r2, r3, l1, l2}
MCReports == {l1, l2}
MCSockets == {s1, s2, s3}
MCSymmetry == Permutations(MCOps \ MCReports) \union Permutations(MCReports)
                \union Permutations(MCSockets)

MCFewOps == {r1, r2, l1}
MCFewReports == {l1}
MCFewSockets == {s1, s2}
=============================================================================
