---------------------------- MODULE MCWireGuard ----------------------------
(* A small instance of WireGuard: two peers, two subnets to quarrel about  *)
(* and two admins.                                                         *)
EXTENDS WireGuard, TLC

CONSTANTS k1, k2, n1, n2, c1, c2, p1, p2

TheKeys == {k1, k2}
TheSubnets == {n1, n2}
ThePorts == {p1, p2}
TheAdmins == {c1, c2}
=============================================================================
