-------------------------- MODULE MCZteProvisioning --------------------------
(* Small instances of ZteProvisioning: a port with one or two ids. *)
EXTENDS ZteProvisioning, TLC

Symmetry == Permutations(Requests) \cup Permutations(Serials) \cup Permutations(Ids) \cup Permutations(Rows)
=============================================================================
