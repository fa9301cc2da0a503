----------------------------- MODULE MCPortScan -----------------------------
(* An instance of PortScan for TLC: two clients on a range of three ports. *)
EXTENDS PortScan

CONSTANTS c1, c2

MCClients == {c1, c2}
=============================================================================
