---------------------------- MODULE MCDiscovery ----------------------------
(* A small instance of Discovery: one card with two ONU numbers.           *)
EXTENDS Discovery, TLC

CONSTANTS a1, a2, s1, s2

ThePlaces == {a1, a2}
TheNumber == a1 :> 1 @@ a2 :> 2
=============================================================================
