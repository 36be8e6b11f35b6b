---------------------------- MODULE ExclusiveWork ----------------------------
(***************************************************************************)
(* What a poll queue promises to the devices it polls, whatever table,     *)
(* leases and clocks it is built from: a job is handed to one worker at a  *)
(* time, a worker has one job at a time, and a job comes back only from    *)
(* the worker that had it.                                                 *)
(***************************************************************************)
CONSTANTS Workers, Items

VARIABLE holders   \* holders[i]: the workers that are in job i

Init == holders = [i \in Items |-> {}]

Idle(w) == \A i \in Items : w \notin holders[i]

Take(w, i) ==
  /\ Idle(w)
  /\ holders[i] = {}
  /\ holders' = [holders EXCEPT ![i] = {w}]

GiveBack(w, i) ==
  /\ w \in holders[i]
  /\ holders' = [holders EXCEPT ![i] = @ \ {w}]

Next == \E w \in Workers, i \in Items : Take(w, i) \/ GiveBack(w, i)

Spec == Init /\ [][Next]_holders
=============================================================================
