---------------------------- MODULE MCOntStatus ----------------------------
(* A small instance of OntStatus: one subscriber, whom one tier, the trap  *)
(* receiver and a watch write.  "los" is what only a poll can tell,        *)
(* "offline" what a trap can.                                              *)
EXTENDS OntStatus

CONSTANTS o1

TheONTs == {o1}
TheDown == {"los", "offline"}
=============================================================================
