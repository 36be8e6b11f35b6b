---------------------------- MODULE MCWaSession ----------------------------
(* A small instance of WaSession: one number, which may be there and       *)
(* linked from the start.                                                  *)
EXTENDS WaSession

CONSTANTS a1

TheAccounts == {a1}
=============================================================================
