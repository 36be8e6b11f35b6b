------------------------------ MODULE PollQueue ------------------------------
(***************************************************************************)
(* The OLT poll queue: table olt_poll_jobs, the workers that claim from    *)
(* it, and the operators who bring a run forward.                          *)
(*   src/backend/internal/services/poll_job_service.go                     *)
(*   src/backend/cmd/worker/jobs.go                                        *)
(*                                                                         *)
(* The code compares absolute timestamps with time.Now().  Every use of    *)
(* one is a difference from now, so the model keeps the differences: `due` *)
(* is due_at - now, `lockedFor` is now - locked_at, and Elapse moves them  *)
(* all by one tick.  The claim reads overdue rows oldest first and uses    *)
(* nothing else of how overdue they are, so Elapse keeps their order and   *)
(* forgets the distance (Sooner).  Both choices keep the state finite with *)
(* no horizon on time, which is what lets liveness be checked.             *)
(***************************************************************************)
EXTENDS Integers, FiniteSets

CONSTANTS
  Workers,          \* worker processes (docker compose --scale worker=n)
  Operators,        \* concurrent POST /olts/:id/discover-now requests
  OLTs,             \* OLT ids; an id is a UUID and is never used twice
  Kinds,            \* the tiers: status, metrics, discovery
  OnDemand,         \* the tiers the API brings forward: discovery
  Interval,         \* ticks between runs, per tier (IntervalFor)
  Lease,            \* ticks a claim stays valid, per tier (LeaseFor)
  MaxRun,           \* the longest a worker can stay in one job, per tier
  MaxBackoffShift,  \* cap of the exponential backoff
  Nobody,           \* locked_by IS NULL
  NoJob             \* a worker or a request that refers to no row

Rows == OLTs \X Kinds

ASSUME ParametersAssumption ==
  /\ IsFiniteSet(OLTs) /\ IsFiniteSet(Kinds) /\ OnDemand \subseteq Kinds
  /\ Interval \in [Kinds -> Nat \ {0}]
  /\ Lease \in [Kinds -> Nat \ {0}]
  /\ MaxRun \in [Kinds -> Nat]
  /\ MaxBackoffShift \in Nat
  /\ Nobody \notin Workers
  /\ NoJob \notin Rows

VARIABLES
  olt,      \* olt[o]: "absent" (not created yet), "present" or "deleted"
  jobs,     \* the table: a function from the rows that exist to their columns
  at,       \* at[w]: where worker w is in runNextJob
  job,      \* job[w]: the row w claimed
  seen,     \* seen[w]: consecutive_failures in w's copy of the row
  held,     \* held[w]: ticks since w's claim
  request,  \* request[p]: the row RunNow of request p found free
  served,   \* history: rows claimed since request p read them
  wanted    \* history: rows brought forward and not claimed since

vars == <<olt, jobs, at, job, seen, held, request, served, wanted>>
workerVars == <<at, job, seen, held>>
requestVars == <<request, served>>

-----------------------------------------------------------------------------
(* Helpers of the queue. *)

MaxOf(a, b) == IF a >= b THEN a ELSE b
MinOf(a, b) == IF a <= b THEN a ELSE b

agentShare == 2

\* A run that took longer than its tier's interval stretches the wait.
SpacingFor(k, took) == MaxOf(Interval[k], took * agentShare)

\* Doubles per consecutive failure, up to the cap (1<<shift is 2^shift).
backoff(k, failures) ==
  Interval[k] * 2^MinOf(failures - 1, MaxBackoffShift)

\* The column counts on; the model stops where the backoff has stopped growing.
FailureCap == MaxBackoffShift + 1

Free(r) == jobs[r].lockedBy = Nobody

\* Mutant: the claim compares the lock's age with the tier's interval.
claimable_ByInterval(r) == Free(r) \/ jobs[r].lockedFor > Interval[r[2]]

\* locked_at IS NULL, or locked_at < now - lease for the row's own tier.
claimable(r) == Free(r) \/ jobs[r].lockedFor > Lease[r[2]]

\* Mutant: RunNow does not look at the lock.
liveLease_Unread(r) == FALSE

\* What RunNow takes for "a worker currently holds it".
liveLease(r) == ~Free(r) /\ jobs[r].lockedFor < Lease[r[2]]

Candidates == {r \in DOMAIN jobs : jobs[r].due <= 0 /\ claimable(r)}

\* Mutant: the claim has no ORDER BY.
MostOverdue_AnyOrder(r) == TRUE

\* ORDER BY due_at: nothing claimable is more overdue.
MostOverdue(r) == \A s \in Candidates : jobs[r].due <= jobs[s].due

\* The row after the UPDATE that gives it back, due again in `wait` ticks.
Released(row, wait) ==
  [row EXCEPT !.due = wait, !.lockedBy = Nobody, !.lockedFor = 0]

\* An UPDATE ... WHERE olt_id = ? AND kind = ?: no row, no effect.
Put(r, row) == [s \in DOMAIN jobs |-> IF s = r THEN row ELSE jobs[s]]

\* One tick less to wait; an overdue row's due is minus the number of rows
\* that are overdue and have been so no longer than it.
Sooner(r) ==
  IF jobs[r].due > 0
  THEN jobs[r].due - 1
  ELSE -Cardinality({s \in DOMAIN jobs : jobs[s].due \in jobs[r].due .. 0})

-----------------------------------------------------------------------------
Init ==
  /\ olt \in [OLTs -> {"absent", "present"}]
  /\ jobs = [r \in {} |-> NoJob]
  /\ at = [w \in Workers |-> "idle"]
  /\ job = [w \in Workers |-> NoJob]
  /\ seen = [w \in Workers |-> 0]
  /\ held = [w \in Workers |-> 0]
  /\ request = [p \in Operators |-> NoJob]
  /\ served = [p \in Operators |-> FALSE]
  /\ wanted = {}

(* The OLT table, as the API's create and delete handlers change it.  The  *)
(* foreign key of olt_poll_jobs is ON DELETE CASCADE.                      *)

CreateOLT(o) ==
  /\ olt[o] = "absent"
  /\ olt' = [olt EXCEPT ![o] = "present"]
  /\ UNCHANGED <<jobs, workerVars, requestVars, wanted>>

\* Mutant: the foreign key does not cascade.
DeleteOLT_NoCascade(o) ==
  /\ olt[o] = "present"
  /\ olt' = [olt EXCEPT ![o] = "deleted"]
  /\ UNCHANGED <<jobs, workerVars, requestVars, wanted>>

DeleteOLT(o) ==
  /\ olt[o] = "present"
  /\ olt' = [olt EXCEPT ![o] = "deleted"]
  /\ jobs' = [r \in {s \in DOMAIN jobs : s[1] # o} |-> jobs[r]]
  /\ wanted' = {r \in wanted : r[1] # o}
  /\ UNCHANGED <<workerVars, requestVars>>

(* One statement of EnsureJobs.  The pass is a loop of them and stops at   *)
(* the first error, so any subset of the missing rows may come out of it.  *)
EnsureJob(w, r) ==
  /\ at[w] = "idle"
  /\ olt[r[1]] = "present"
  /\ r \notin DOMAIN jobs
  /\ jobs' = [s \in DOMAIN jobs \cup {r} |->
                IF s = r
                THEN [due |-> 0, lockedBy |-> Nobody, lockedFor |-> 0,
                      failures |-> 0]
                ELSE jobs[s]]
  /\ UNCHANGED <<olt, workerVars, requestVars, wanted>>

(* The claiming transaction: FOR UPDATE SKIP LOCKED makes it one step.     *)
Claim(w, r) ==
  /\ at[w] = "idle"
  /\ r \in Candidates
  /\ MostOverdue(r)
  /\ jobs' = Put(r, [jobs[r] EXCEPT !.lockedBy = w, !.lockedFor = 0])
  /\ at' = [at EXCEPT ![w] = "claimed"]
  /\ job' = [job EXCEPT ![w] = r]
  /\ seen' = [seen EXCEPT ![w] = jobs[r].failures]
  /\ held' = [held EXCEPT ![w] = 0]
  /\ served' = [p \in Operators |-> served[p] \/ request[p] = r]
  /\ wanted' = wanted \ {r}
  /\ UNCHANGED <<olt, request>>

\* The claimed row's OLT is still there: runJob starts.
StartRun(w) ==
  /\ at[w] = "claimed"
  /\ olt[job[w][1]] = "present"
  /\ at' = [at EXCEPT ![w] = "running"]
  /\ UNCHANGED <<olt, jobs, job, seen, held, requestVars, wanted>>

\* The worker is done with its row and goes round its loop again.
GoIdle(w) ==
  /\ at' = [at EXCEPT ![w] = "idle"]
  /\ job' = [job EXCEPT ![w] = NoJob]
  /\ seen' = [seen EXCEPT ![w] = 0]
  /\ held' = [held EXCEPT ![w] = 0]

(* The three ways a run ends.  None of them looks at who holds the row.    *)

\* `took` is measured from the read of the OLT, so the claim may be older.
Complete(w, took) ==
  /\ at[w] = "running"
  /\ took \in 0 .. held[w]
  /\ LET r == job[w]
     IN jobs' = Put(r, [Released(jobs[r], SpacingFor(r[2], took))
                          EXCEPT !.failures = 0])
  /\ GoIdle(w)
  /\ UNCHANGED <<olt, requestVars, wanted>>

Fail(w) ==
  /\ at[w] = "running"
  /\ LET r == job[w]
         failures == MinOf(seen[w] + 1, FailureCap)
     IN jobs' = Put(r, [Released(jobs[r], backoff(r[2], failures))
                          EXCEPT !.failures = failures])
  /\ GoIdle(w)
  /\ UNCHANGED <<olt, requestVars, wanted>>

\* Before the run: the OLT is gone, or reading it failed.  During the run:
\* its tunnel is down, or another reader in this process has the chassis.
Defer(w) ==
  /\ at[w] \in {"claimed", "running"}
  /\ LET r == job[w]
     IN jobs' = Put(r, Released(jobs[r], Interval[r[2]]))
  /\ GoIdle(w)
  /\ UNCHANGED <<olt, requestVars, wanted>>

(* The process dies and restarts, or the UPDATE of Complete, Fail or Defer *)
(* errors and is only logged: the row stays locked until the lease is over.*)
Abandon(w) ==
  /\ at[w] \in {"claimed", "running"}
  /\ GoIdle(w)
  /\ UNCHANGED <<olt, jobs, requestVars, wanted>>

(* RunNow is a read and, later, an UPDATE: two statements, no transaction. *)

RunNowRead(p, r) ==
  /\ request[p] = NoJob
  /\ r \in DOMAIN jobs /\ r[2] \in OnDemand
  /\ ~liveLease(r)
  /\ request' = [request EXCEPT ![p] = r]
  /\ served' = [served EXCEPT ![p] = FALSE]
  /\ UNCHANGED <<olt, jobs, workerVars, wanted>>

\* The request is over; it is owed a run unless one started since its read.
Answer(p) ==
  /\ wanted' = IF served[p] THEN wanted ELSE wanted \cup ({request[p]} \cap DOMAIN jobs)
  /\ request' = [request EXCEPT ![p] = NoJob]
  /\ served' = [served EXCEPT ![p] = FALSE]
  /\ UNCHANGED <<olt, workerVars>>

\* Mutant: the UPDATE also clears the lock.
RunNowUpdate_Unlocks(p) ==
  /\ request[p] # NoJob
  /\ jobs' = Put(request[p], Released(jobs[request[p]], 0))
  /\ Answer(p)

\* Mutant: the UPDATE also starts the failure count afresh.
RunNowUpdate_ForgetsFailures(p) ==
  /\ request[p] # NoJob
  /\ jobs' = Put(request[p], [jobs[request[p]] EXCEPT !.due = 0, !.failures = 0])
  /\ Answer(p)

RunNowUpdate(p) ==
  /\ request[p] # NoJob
  /\ jobs' = Put(request[p], [jobs[request[p]] EXCEPT !.due = 0])
  /\ Answer(p)

(* Time.  A worker that is in a job stays in it for at most MaxRun ticks.  *)
(* A lease age past the lease is not distinguished from an older one.      *)
Elapse ==
  /\ \A w \in Workers : at[w] # "idle" => held[w] < MaxRun[job[w][2]]
  /\ jobs' = [r \in DOMAIN jobs |->
                [jobs[r] EXCEPT
                   !.due = Sooner(r),
                   !.lockedFor = IF Free(r) THEN 0
                                 ELSE MinOf(@ + 1, Lease[r[2]] + 1)]]
  /\ held' = [w \in Workers |-> IF at[w] = "idle" THEN 0 ELSE held[w] + 1]
  /\ UNCHANGED <<olt, at, job, seen, requestVars, wanted>>

Settle(w) ==
  \/ \E took \in 0 .. held[w] : Complete(w, took)
  \/ Fail(w)
  \/ Defer(w)

Work(w) == (\E r \in Rows : Claim(w, r)) \/ StartRun(w) \/ Settle(w)

WorkerStep(w) == Work(w) \/ Abandon(w) \/ \E r \in Rows : EnsureJob(w, r)

OLTStep(o) == CreateOLT(o) \/ DeleteOLT(o)

RunNow(p) == (\E r \in Rows : RunNowRead(p, r)) \/ RunNowUpdate(p)

Act ==
  \/ \E w \in Workers : WorkerStep(w)
  \/ \E o \in OLTs : OLTStep(o)
  \/ \E p \in Operators : RunNow(p)

Next == Act \/ Elapse

Spec == Init /\ [][Next]_vars

(* Liveness.  A worker that can go on does (every network call in the loop *)
(* has a timeout), every pass of its loop starts with EnsureJobs, and time *)
(* always moves on.  An idle or restarted worker looks at the queue        *)
(* every idleWait (5 s), far below the smallest duration here (1 min): no  *)
(* tick passes while an idle worker has a row to claim.  Nothing is        *)
(* assumed of operators, of deletions or of crashes.                       *)
PromptElapse ==
  /\ Candidates # {} => \A w \in Workers : at[w] # "idle"
  /\ Elapse

FairSpec ==
  /\ Init /\ [][Act \/ PromptElapse]_vars
  /\ SF_vars(PromptElapse)
  /\ \A w \in Workers : /\ WF_vars(Work(w))
                        /\ SF_vars(\E r \in Rows : EnsureJob(w, r))

-----------------------------------------------------------------------------
Columns == [due : Int, lockedBy : Workers \cup {Nobody}, lockedFor : Nat,
            failures : 0 .. FailureCap]

(* Every variable has the type the code gives it; a row exists only for an *)
(* OLT that does, and a worker is busy exactly when it refers to a row.    *)
TypeOK ==
  /\ olt \in [OLTs -> {"absent", "present", "deleted"}]
  /\ DOMAIN jobs \subseteq {r \in Rows : olt[r[1]] = "present"}
  /\ jobs \in [DOMAIN jobs -> Columns]
  /\ at \in [Workers -> {"idle", "claimed", "running"}]
  /\ job \in [Workers -> Rows \cup {NoJob}]
  /\ \A w \in Workers : at[w] = "idle" <=> job[w] = NoJob
  /\ seen \in [Workers -> 0 .. FailureCap]
  /\ held \in [Workers -> Nat]
  /\ request \in [Operators -> Rows \cup {NoJob}]
  /\ served \in [Operators -> BOOLEAN]
  /\ wanted \subseteq DOMAIN jobs

(* No run outlives its lease.  The code sizes its leases for this ("each   *)
(* lease carries roughly an order of magnitude of headroom") and does not  *)
(* enforce it; the properties below say what the queue gives when it holds.*)
RunsWithinLease == \A k \in Kinds : MaxRun[k] < Lease[k]

(* "PollJobService hands out one OLT's work to one worker at a time": two  *)
(* workers are never in the same job.                                      *)
OneWorkerPerJob ==
  \A v, w \in Workers : job[v] = job[w] /\ job[v] # NoJob => v = w

(* A worker inside a job still owns the row's lock, so the UPDATE it ends  *)
(* the run with, which names only the row, cannot free somebody else's     *)
(* claim.                                                                  *)
SettlesItsOwnClaim ==
  \A w \in Workers :
     job[w] \in DOMAIN jobs => jobs[job[w]].lockedBy = w

(* Fail adds one to the failures of the copy read at the claim: that copy  *)
(* still agrees with the row, so a failure streak counts every failure and *)
(* a success is never undone by an older failure.                          *)
FailureCountIsCurrent ==
  \A w \in Workers :
     job[w] \in DOMAIN jobs => seen[w] = jobs[job[w]].failures

(* A run that RunNow promised is not pushed back: from the UPDATE until a  *)
(* worker claims the row, no completion of an earlier run moves its due_at *)
(* into the future.                                                        *)
RunNowIsKept == \A r \in wanted : jobs[r].due <= 0

\* Some worker has taken row r.
Taken(r) == \E w \in Workers : job[w] = r

(* No job starves: as long as its OLT exists every tier is claimed again   *)
(* and again, whichever workers die in it, however often the other tiers   *)
(* are brought forward and however many of its own runs fail.  A tier that *)
(* operators never stop bringing forward is left out: RunNow moves even an *)
(* overdue row to the back of the queue, because its due_at becomes now.   *)
EveryJobIsServed ==
  \A r \in Rows :
     <>[](\A p \in Operators : request[p] # r)
       => []<>(Taken(r) \/ olt[r[1]] # "present")

-----------------------------------------------------------------------------
(* What the queue promises, with the table, the clock and the leases left  *)
(* out: each job is with at most one worker at a time.                     *)
Promise == INSTANCE ExclusiveWork
             WITH Items <- Rows, holders <- [r \in Rows |-> {w \in Workers : job[w] = r}]
ImplementsExclusiveWork == Promise!Spec
=============================================================================
