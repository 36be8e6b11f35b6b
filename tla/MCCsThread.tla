----------------------------- MODULE MCCsThread -----------------------------
(* Small instances of CsThread: one or two CS, a few messages, a short clock. *)
EXTENDS CsThread, TLC

CONSTANTS ani, budi

TheCSes == {ani, budi}
Symmetry == Permutations(CSes)
=============================================================================
