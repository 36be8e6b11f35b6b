----------------------------- MODULE MCCsOutbox -----------------------------
(* Small instances of CsOutbox: one thread, or two numbers with a thread each. *)
EXTENDS CsOutbox, TLC

CONSTANTS a1, a2, t1, t2

MCAccountOf == [t \in Threads |-> IF t = t1 THEN a1 ELSE a2]

\* The two numbers are alike, and so are their threads.
Swap == {p \in Permutations({a1, a2, t1, t2}) :
           {p[a1], p[a2]} = {a1, a2} /\ (p[a1] = a1 <=> p[t1] = t1)}
=============================================================================
