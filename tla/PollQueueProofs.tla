-------------------------- MODULE PollQueueProofs --------------------------
(***************************************************************************)
(* Theorems about PollQueue for any number of workers, OLTs, tiers and     *)
(* requests, and for any intervals, leases and run times.                  *)
(***************************************************************************)
EXTENDS PollQueue, FiniteSetTheorems, TLAPS

(* A backoff is an interval times a power of two: an integer.              *)
LEMMA BackoffType ==
  ASSUME NEW k \in Kinds, NEW f \in 1 .. FailureCap
  PROVE  backoff(k, f) \in Int
<1>1. MinOf(f - 1, MaxBackoffShift) \in Nat
  BY ParametersAssumption DEF MinOf, FailureCap
<1>2. 2^MinOf(f - 1, MaxBackoffShift) \in Int
  BY <1>1
<1>3. Interval[k] \in Int
  BY ParametersAssumption
<1>. QED
  BY <1>2, <1>3 DEF backoff

(* Time passing leaves a due row due, and every due_at a number.           *)
LEMMA SoonerType ==
  ASSUME TypeOK, NEW r \in DOMAIN jobs
  PROVE  Sooner(r) \in Int /\ (jobs[r].due <= 0 => Sooner(r) <= 0)
<1>. DEFINE S == {s \in DOMAIN jobs : jobs[s].due \in jobs[r].due .. 0}
<1>1. jobs[r].due \in Int
  BY DEF TypeOK, Columns
<1>2. IsFiniteSet(Rows)
  BY ParametersAssumption, FS_Product DEF Rows
<1>3. IsFiniteSet(S)
  BY <1>2, FS_Subset DEF TypeOK
<1>4. Cardinality(S) \in Nat
  BY <1>3, FS_CardinalityType
<1>5. Sooner(r) = IF jobs[r].due > 0 THEN jobs[r].due - 1 ELSE -Cardinality(S)
  BY DEF Sooner
<1>. QED
  BY <1>1, <1>4, <1>5

-----------------------------------------------------------------------------
(* The table only ever holds rows of the right shape.                      *)

LEMMA ReleasedType ==
  ASSUME NEW row \in Columns, NEW wait \in Int
  PROVE  Released(row, wait) \in Columns
BY DEF Released, Columns

LEMMA PutType ==
  ASSUME NEW r, NEW row, jobs \in [DOMAIN jobs -> Columns],
         r \in DOMAIN jobs => row \in Columns
  PROVE  Put(r, row) \in [DOMAIN jobs -> Columns]
BY DEF Put

LEMMA InitType == Init => TypeOK
BY ParametersAssumption DEF Init, TypeOK, FailureCap

(* TypeOK holds whatever the durations are.                                *)
LEMMA NextType == TypeOK /\ [Next]_vars => TypeOK'
<1>. SUFFICES ASSUME TypeOK, [Next]_vars PROVE TypeOK'
  OBVIOUS
<1>. USE ParametersAssumption
<1>1. ASSUME NEW o \in OLTs, OLTStep(o) PROVE TypeOK'
  BY <1>1 DEF OLTStep, CreateOLT, DeleteOLT, TypeOK, workerVars, requestVars, Rows
<1>2. ASSUME NEW w \in Workers, NEW r \in Rows, EnsureJob(w, r) PROVE TypeOK'
  <2>1. jobs' \in [DOMAIN jobs' -> Columns]
    BY <1>2 DEF EnsureJob, TypeOK, Columns, FailureCap
  <2>. QED
    BY <1>2, <2>1 DEF EnsureJob, TypeOK, workerVars, requestVars
<1>3. ASSUME NEW w \in Workers, NEW r \in Rows, Claim(w, r) PROVE TypeOK'
  <2>1. jobs[r] \in Columns
    BY <1>3 DEF Claim, Candidates, TypeOK
  <2>2. [jobs[r] EXCEPT !.lockedBy = w, !.lockedFor = 0] \in Columns
    BY <2>1 DEF Columns
  <2>3. jobs' \in [DOMAIN jobs -> Columns]
    BY <1>3, <2>2, PutType DEF Claim, TypeOK
  <2>4. jobs[r].failures \in 0 .. FailureCap
    BY <2>1 DEF Columns
  <2>. QED
    BY <1>3, <2>3, <2>4 DEF Claim, TypeOK
<1>4. ASSUME NEW w \in Workers, StartRun(w) PROVE TypeOK'
  BY <1>4 DEF StartRun, TypeOK, requestVars
<1>5. ASSUME NEW w \in Workers, GoIdle(w), at[w] # "idle",
             UNCHANGED <<olt, requestVars, wanted>>,
             jobs' \in [DOMAIN jobs -> Columns]
      PROVE  TypeOK'
  BY <1>5 DEF GoIdle, TypeOK, requestVars, FailureCap
<1>6. ASSUME NEW w \in Workers, Settle(w) PROVE TypeOK'
  <2>. DEFINE r == job[w]
  <2>1. at[w] # "idle" /\ r \in Rows /\ r[2] \in Kinds
    <3>1. at[w] # "idle"
      BY <1>6 DEF Settle, Complete, Fail, Defer
    <3>2. r \in Rows
      BY <3>1 DEF TypeOK
    <3>. QED
      BY <3>1, <3>2 DEF Rows
  <2>2. CASE \E took \in 0 .. held[w] : Complete(w, took)
    <3>1. PICK took \in 0 .. held[w] : Complete(w, took)
      BY <2>2
    <3>2. SpacingFor(r[2], took) \in Int
      BY <2>1, <3>1 DEF SpacingFor, MaxOf, agentShare, TypeOK
    <3>3. r \in DOMAIN jobs => [Released(jobs[r], SpacingFor(r[2], took))
                                  EXCEPT !.failures = 0] \in Columns
      BY <3>2, ReleasedType DEF TypeOK, Columns, FailureCap
    <3>4. jobs' \in [DOMAIN jobs -> Columns]
      BY <3>1, <3>3, PutType DEF Complete, TypeOK
    <3>. QED
      BY <1>5, <2>1, <3>1, <3>4 DEF Complete
  <2>3. CASE Fail(w)
    <3>. DEFINE f == MinOf(seen[w] + 1, FailureCap)
    <3>1. f \in 1 .. FailureCap
      BY DEF MinOf, FailureCap, TypeOK
    <3>2. backoff(r[2], f) \in Int
      BY <2>1, <3>1, BackoffType
    <3>3. r \in DOMAIN jobs => [Released(jobs[r], backoff(r[2], f))
                                  EXCEPT !.failures = f] \in Columns
      BY <3>1, <3>2, ReleasedType DEF TypeOK, Columns
    <3>4. jobs' \in [DOMAIN jobs -> Columns]
      BY <2>3, <3>3, PutType DEF Fail, TypeOK
    <3>. QED
      BY <1>5, <2>1, <2>3, <3>4 DEF Fail
  <2>4. CASE Defer(w)
    <3>1. Interval[r[2]] \in Int
      BY <2>1
    <3>2. r \in DOMAIN jobs => Released(jobs[r], Interval[r[2]]) \in Columns
      BY <3>1, ReleasedType DEF TypeOK
    <3>3. jobs' \in [DOMAIN jobs -> Columns]
      BY <2>4, <3>2, PutType DEF Defer, TypeOK
    <3>. QED
      BY <1>5, <2>1, <2>4, <3>3 DEF Defer
  <2>. QED
    BY <1>6, <2>2, <2>3, <2>4 DEF Settle
<1>7. ASSUME NEW w \in Workers, Abandon(w) PROVE TypeOK'
  BY <1>5, <1>7 DEF Abandon, TypeOK
<1>8. ASSUME NEW p \in Operators, RunNow(p) PROVE TypeOK'
  <2>1. CASE \E r \in Rows : RunNowRead(p, r)
    BY <2>1 DEF RunNowRead, TypeOK, workerVars
  <2>2. CASE RunNowUpdate(p)
    <3>. DEFINE r == request[p]
    <3>1. r \in DOMAIN jobs => [jobs[r] EXCEPT !.due = 0] \in Columns
      <4>1. ASSUME NEW row \in Columns PROVE [row EXCEPT !.due = 0] \in Columns
        BY DEF Columns
      <4>. QED
        BY <4>1 DEF TypeOK
    <3>2. jobs' \in [DOMAIN jobs -> Columns]
      BY <2>2, <3>1, PutType DEF RunNowUpdate, TypeOK
    <3>. QED
      <4>1. DOMAIN jobs' = DOMAIN jobs
        BY <3>2
      <4>2. wanted' \subseteq DOMAIN jobs
        BY <2>2 DEF RunNowUpdate, Answer, TypeOK
      <4>3. /\ request' \in [Operators -> Rows \cup {NoJob}]
            /\ served' \in [Operators -> BOOLEAN]
            /\ UNCHANGED <<olt, workerVars>>
        BY <2>2 DEF RunNowUpdate, Answer, TypeOK
      <4>. HIDE DEF r
      <4>. QED
        BY <3>2, <4>1, <4>2, <4>3 DEF TypeOK, workerVars
  <2>. QED
    BY <1>8, <2>1, <2>2 DEF RunNow
<1>9. ASSUME Elapse PROVE TypeOK'
  <2>1. ASSUME NEW r \in DOMAIN jobs
        PROVE  [jobs[r] EXCEPT !.due = Sooner(r),
                  !.lockedFor = IF Free(r) THEN 0 ELSE MinOf(@ + 1, Lease[r[2]] + 1)]
                \in Columns
    <3>1. r[2] \in Kinds /\ jobs[r] \in Columns
      BY <2>1 DEF TypeOK, Rows
    <3>2. MinOf(jobs[r].lockedFor + 1, Lease[r[2]] + 1) \in Nat
      BY <3>1 DEF MinOf, Columns
    <3>. QED
      BY <3>1, <3>2, SoonerType DEF Columns
  <2>2. jobs' \in [DOMAIN jobs -> Columns]
    BY <1>9, <2>1 DEF Elapse
  <2>3. DOMAIN jobs' = DOMAIN jobs /\ jobs' \in [DOMAIN jobs' -> Columns]
    BY <2>2
  <2>4. held' \in [Workers -> Nat]
    <3>1. held' = [w \in Workers |-> IF at[w] = "idle" THEN 0 ELSE held[w] + 1]
      BY <1>9 DEF Elapse
    <3>2. \A w \in Workers : held[w] \in Nat
      BY DEF TypeOK
    <3>. QED
      BY <3>1, <3>2
  <2>5. UNCHANGED <<olt, at, job, seen, request, served, wanted>>
    BY <1>9 DEF Elapse, requestVars
  <2>. QED
    BY <2>3, <2>4, <2>5 DEF TypeOK
<1>10. CASE UNCHANGED vars
  BY <1>10 DEF vars, TypeOK
<1>11. ASSUME NEW w \in Workers, WorkerStep(w) PROVE TypeOK'
  BY <1>2, <1>3, <1>4, <1>6, <1>7, <1>11 DEF WorkerStep, Work
<1>12. CASE Act
  BY <1>1, <1>8, <1>11, <1>12 DEF Act
<1>. QED
  BY <1>9, <1>10, <1>12 DEF Next

(* Every variable keeps its type in every behaviour of the queue.          *)
THEOREM TypeCorrect == Spec => []TypeOK
BY InitType, NextType, PTL DEF Spec

-----------------------------------------------------------------------------
(***************************************************************************)
(* What the leases give when no run outlives its lease.  The properties    *)
(* are not inductive alone: that a claim cannot take a job a worker is in  *)
(* follows from the age of that worker's lock, which is the time since its *)
(* claim, which MaxRun bounds below the lease.                             *)
(***************************************************************************)
OnTime == \A w \in Workers : job[w] # NoJob => held[w] <= MaxRun[job[w][2]]

\* The row a worker is in, if it still exists, is as that worker's claim left it.
OwnsItsRow ==
  \A w \in Workers : job[w] \in DOMAIN jobs =>
     /\ jobs[job[w]].lockedBy = w
     /\ jobs[job[w]].lockedFor = held[w]
     /\ jobs[job[w]].failures = seen[w]

\* A row that vanished under a worker never comes back: its OLT is deleted.
GoneForGood ==
  \A w \in Workers : job[w] # NoJob /\ job[w] \notin DOMAIN jobs
                      => olt[job[w][1]] = "deleted"

\* A request or a promise that no claim has answered concerns a row nobody is in.
Unanswered ==
  /\ \A r \in wanted : jobs[r].due <= 0 /\ ~Taken(r)
  /\ \A p \in Operators : request[p] # NoJob /\ ~served[p] => ~Taken(request[p])

LeaseInv ==
  TypeOK /\ OnTime /\ OwnsItsRow /\ GoneForGood /\ OneWorkerPerJob /\ Unanswered

LEMMA InitLease == Init => LeaseInv
<1>. SUFFICES ASSUME Init PROVE LeaseInv
  OBVIOUS
<1>1. TypeOK
  BY InitType
<1>2. \A w \in Workers : job[w] = NoJob
  BY DEF Init
<1>3. DOMAIN jobs = {} /\ wanted = {}
  BY DEF Init
<1>4. \A p \in Operators : request[p] = NoJob
  BY DEF Init
<1>. QED
  BY <1>1, <1>2, <1>3, <1>4
     DEF LeaseInv, OnTime, OwnsItsRow, GoneForGood, OneWorkerPerJob, Unanswered

(* A worker in a job holds a lock that claims and RunNow both respect.     *)
LEMMA LockRespected ==
  ASSUME LeaseInv, RunsWithinLease,
         NEW w \in Workers, job[w] \in DOMAIN jobs
  PROVE  ~claimable(job[w]) /\ liveLease(job[w])
<1>1. job[w] # NoJob /\ job[w][2] \in Kinds
  BY ParametersAssumption DEF LeaseInv, TypeOK, Rows
<1>2. held[w] < Lease[job[w][2]]
  <2>1. held[w] <= MaxRun[job[w][2]]
    BY <1>1 DEF LeaseInv, OnTime
  <2>2. MaxRun[job[w][2]] < Lease[job[w][2]]
    BY <1>1 DEF RunsWithinLease
  <2>3. held[w] \in Nat /\ MaxRun[job[w][2]] \in Nat /\ Lease[job[w][2]] \in Nat
    BY <1>1, ParametersAssumption DEF LeaseInv, TypeOK
  <2>. QED
    BY <2>1, <2>2, <2>3
<1>3. jobs[job[w]].lockedBy = w /\ jobs[job[w]].lockedFor = held[w]
  BY DEF LeaseInv, OwnsItsRow
<1>4. held[w] \in Nat /\ Lease[job[w][2]] \in Nat
  BY <1>1, ParametersAssumption DEF LeaseInv, TypeOK
<1>. QED
  BY <1>2, <1>3, <1>4, ParametersAssumption DEF claimable, liveLease, Free

LEMMA NextLease == LeaseInv /\ RunsWithinLease /\ [Next]_vars => LeaseInv'
<1>. SUFFICES ASSUME LeaseInv, RunsWithinLease, [Next]_vars PROVE LeaseInv'
  OBVIOUS
<1>. USE ParametersAssumption
<1>t. TypeOK /\ TypeOK'
  BY NextType DEF LeaseInv
<1>1. ASSUME NEW o \in OLTs, OLTStep(o) PROVE LeaseInv'
  <2>1. UNCHANGED <<job, held, seen, request, served>>
    BY <1>1 DEF OLTStep, CreateOLT, DeleteOLT, workerVars, requestVars
  <2>2. /\ DOMAIN jobs' \subseteq DOMAIN jobs /\ wanted' \subseteq wanted
        /\ \A r \in DOMAIN jobs' : jobs'[r] = jobs[r]
    BY <1>1 DEF OLTStep, CreateOLT, DeleteOLT
  <2>3. \A r \in Rows : r \in DOMAIN jobs /\ r \notin DOMAIN jobs' => olt'[r[1]] = "deleted"
    BY <1>1, <1>t DEF OLTStep, CreateOLT, DeleteOLT, TypeOK, Rows
  <2>4. \A c \in OLTs : olt[c] = "deleted" => olt'[c] = "deleted"
    BY <1>1, <1>t DEF OLTStep, CreateOLT, DeleteOLT, TypeOK
  <2>5. GoneForGood'
    BY <2>1, <2>2, <2>3, <2>4, <1>t DEF GoneForGood, LeaseInv, TypeOK, Rows
  <2>6. wanted' \subseteq DOMAIN jobs'
    BY <1>t DEF TypeOK
  <2>. QED
    BY <1>t, <2>1, <2>2, <2>5, <2>6
       DEF LeaseInv, OnTime, OwnsItsRow, OneWorkerPerJob, Unanswered, Taken
<1>2. ASSUME NEW w \in Workers, NEW r \in Rows, EnsureJob(w, r) PROVE LeaseInv'
  <2>1. UNCHANGED <<olt, job, held, seen, request, served, wanted>>
    BY <1>2 DEF EnsureJob, workerVars, requestVars
  <2>2. \A v \in Workers : job[v] # r
    BY <1>2, <1>t DEF EnsureJob, LeaseInv, GoneForGood, TypeOK
  <2>3. DOMAIN jobs' = DOMAIN jobs \cup {r} /\ \A s \in DOMAIN jobs : jobs'[s] = jobs[s]
    BY <1>2 DEF EnsureJob
  <2>4. wanted \subseteq DOMAIN jobs
    BY <1>t DEF TypeOK
  <2>. QED
    BY <1>t, <2>1, <2>2, <2>3, <2>4
       DEF LeaseInv, OnTime, OwnsItsRow, GoneForGood, OneWorkerPerJob, Unanswered, Taken
<1>3. ASSUME NEW w \in Workers, NEW r \in Rows, Claim(w, r) PROVE LeaseInv'
  <2>1. r \in DOMAIN jobs /\ at[w] = "idle" /\ job[w] = NoJob
    BY <1>3, <1>t DEF Claim, Candidates, TypeOK
  <2>2. \A v \in Workers : job[v] # r
    BY <1>3, <2>1, LockRespected DEF Claim, Candidates
  <2>3. /\ job' = [job EXCEPT ![w] = r] /\ seen' = [seen EXCEPT ![w] = jobs[r].failures]
        /\ held' = [held EXCEPT ![w] = 0] /\ wanted' = wanted \ {r}
        /\ served' = [p \in Operators |-> served[p] \/ request[p] = r]
        /\ UNCHANGED <<olt, request>>
    BY <1>3 DEF Claim
  <2>4. /\ DOMAIN jobs' = DOMAIN jobs
        /\ \A s \in DOMAIN jobs : s # r => jobs'[s] = jobs[s]
        /\ jobs'[r] = [jobs[r] EXCEPT !.lockedBy = w, !.lockedFor = 0]
    BY <1>3, <2>1 DEF Claim, Put
  <2>5. jobs[r] \in Columns
    BY <2>1, <1>t DEF TypeOK
  <2>6. /\ jobs'[r].lockedBy = w /\ jobs'[r].lockedFor = 0
        /\ jobs'[r].failures = jobs[r].failures
    BY <2>4, <2>5 DEF Columns
  <2>7. \A v \in Workers : IF v = w
          THEN job'[v] = r /\ held'[v] = 0 /\ seen'[v] = jobs[r].failures
          ELSE job'[v] = job[v] /\ held'[v] = held[v] /\ seen'[v] = seen[v]
    BY <2>3, <1>t DEF TypeOK
  <2>8. OnTime'
    BY <2>7, <1>t DEF LeaseInv, OnTime, Rows
  <2>9. OwnsItsRow'
    <3>1. ASSUME NEW v \in Workers, v # w, job'[v] \in DOMAIN jobs'
          PROVE  /\ jobs'[job'[v]].lockedBy = v
                 /\ jobs'[job'[v]].lockedFor = held'[v]
                 /\ jobs'[job'[v]].failures = seen'[v]
      <4>1. job'[v] = job[v] /\ held'[v] = held[v] /\ seen'[v] = seen[v]
        BY <2>7, <3>1
      <4>2. job[v] \in DOMAIN jobs /\ job[v] # r
        BY <2>2, <2>4, <3>1, <4>1
      <4>3. jobs'[job[v]] = jobs[job[v]]
        BY <2>4, <4>2
      <4>. QED
        BY <4>1, <4>2, <4>3 DEF LeaseInv, OwnsItsRow
    <3>2. /\ jobs'[job'[w]].lockedBy = w
          /\ jobs'[job'[w]].lockedFor = held'[w]
          /\ jobs'[job'[w]].failures = seen'[w]
      BY <2>6, <2>7
    <3>. QED
      BY <3>1, <3>2 DEF OwnsItsRow
  <2>10. GoneForGood'
    BY <2>1, <2>3, <2>4, <2>7 DEF LeaseInv, GoneForGood
  <2>11. OneWorkerPerJob'
    BY <2>2, <2>7 DEF LeaseInv, OneWorkerPerJob
  <2>12. Unanswered'
    <3>1. \A s \in wanted' : jobs'[s].due <= 0 /\ ~Taken(s)'
      BY <2>3, <2>4, <2>7, <1>t DEF LeaseInv, Unanswered, Taken, TypeOK
    <3>2. \A p \in Operators : request'[p] # NoJob /\ ~served'[p] => ~Taken(request[p])'
      <4>1. ASSUME NEW p \in Operators, request'[p] # NoJob, ~served'[p]
            PROVE  ~Taken(request[p])'
        <5>1. request'[p] = request[p] /\ ~served[p] /\ request[p] # r
          BY <4>1, <2>3
        <5>2. \A v \in Workers : job[v] # request[p]
          BY <4>1, <5>1 DEF LeaseInv, Unanswered, Taken
        <5>. QED
          BY <5>1, <5>2, <2>7 DEF Taken
      <4>. QED
        BY <4>1
    <3>. QED
      BY <3>1, <3>2, <2>3 DEF Unanswered, Taken
  <2>. QED
    BY <1>t, <2>8, <2>9, <2>10, <2>11, <2>12 DEF LeaseInv
<1>4. ASSUME NEW w \in Workers, StartRun(w) PROVE LeaseInv'
  BY <1>4, <1>t
     DEF StartRun, requestVars, LeaseInv, OnTime, OwnsItsRow, GoneForGood,
         OneWorkerPerJob, Unanswered, Taken
<1>5. ASSUME NEW w \in Workers, GoIdle(w), job[w] # NoJob,
             UNCHANGED <<olt, requestVars, wanted>>, DOMAIN jobs' = DOMAIN jobs,
             \A s \in DOMAIN jobs : s # job[w] => jobs'[s] = jobs[s]
      PROVE  LeaseInv'
  <2>1. /\ job'[w] = NoJob
        /\ \A v \in Workers \ {w} :
             job'[v] = job[v] /\ held'[v] = held[v] /\ seen'[v] = seen[v]
    BY <1>5, <1>t DEF GoIdle, TypeOK
  <2>2. \A v \in Workers \ {w} : job[v] # job[w]
    BY <1>5 DEF LeaseInv, OneWorkerPerJob
  <2>3. job[w] \notin wanted
    BY DEF LeaseInv, Unanswered, Taken
  <2>4. NoJob \notin DOMAIN jobs
    BY <1>t DEF TypeOK
  <2>5. OnTime'
    BY <2>1 DEF LeaseInv, OnTime
  <2>6. OwnsItsRow'
    BY <1>5, <2>1, <2>2, <2>4 DEF LeaseInv, OwnsItsRow
  <2>7. GoneForGood'
    BY <1>5, <2>1 DEF LeaseInv, GoneForGood
  <2>8. OneWorkerPerJob'
    BY <2>1 DEF LeaseInv, OneWorkerPerJob
  <2>9. \A r \in Rows : Taken(r)' => Taken(r)
    BY <1>t, <2>1 DEF Taken, TypeOK
  <2>10. Unanswered'
    <3>1. wanted' = wanted /\ request' = request /\ served' = served
      BY <1>5 DEF requestVars
    <3>2. wanted \subseteq DOMAIN jobs /\ wanted \subseteq Rows
      BY <1>t DEF TypeOK
    <3>3. \A r \in wanted : jobs'[r].due <= 0 /\ ~Taken(r)'
      BY <1>5, <2>3, <2>9, <3>2 DEF LeaseInv, Unanswered
    <3>4. \A p \in Operators : request'[p] # NoJob /\ ~served'[p] => ~Taken(request[p])'
      BY <1>t, <2>9, <3>1 DEF LeaseInv, Unanswered, TypeOK
    <3>. QED
      BY <3>1, <3>3, <3>4 DEF Unanswered, Taken
  <2>. QED
    BY <1>t, <2>5, <2>6, <2>7, <2>8, <2>10 DEF LeaseInv
<1>6. ASSUME NEW w \in Workers, Settle(w) \/ Abandon(w) PROVE LeaseInv'
  <2>1. /\ GoIdle(w) /\ UNCHANGED <<olt, requestVars, wanted>> /\ at[w] # "idle"
        /\ \/ jobs' = jobs
           \/ \E row : jobs' = Put(job[w], row)
    BY <1>6 DEF Settle, Complete, Fail, Defer, Abandon
  <2>2. job[w] # NoJob
    BY <2>1, <1>t DEF TypeOK
  <2>3. /\ DOMAIN jobs' = DOMAIN jobs
        /\ \A s \in DOMAIN jobs : s # job[w] => jobs'[s] = jobs[s]
    BY <2>1 DEF Put
  <2>. QED
    BY <1>5, <2>1, <2>2, <2>3
<1>7. ASSUME NEW p \in Operators, NEW r \in Rows, RunNowRead(p, r) PROVE LeaseInv'
  <2>1. UNCHANGED <<olt, jobs, job, held, seen, wanted>>
    BY <1>7 DEF RunNowRead, workerVars
  <2>2. ~Taken(r)
    BY <1>7, LockRespected DEF RunNowRead, Taken
  <2>3. \A q \in Operators : IF q = p THEN request'[q] = r
                            ELSE request'[q] = request[q] /\ served'[q] = served[q]
    BY <1>7, <1>t DEF RunNowRead, TypeOK
  <2>4. Unanswered'
    BY <2>1, <2>2, <2>3 DEF LeaseInv, Unanswered, Taken
  <2>. QED
    BY <1>t, <2>1, <2>4 DEF LeaseInv, OnTime, OwnsItsRow, GoneForGood, OneWorkerPerJob
<1>8. ASSUME NEW p \in Operators, RunNowUpdate(p) PROVE LeaseInv'
  <2>. DEFINE r == request[p]
  <2>1. UNCHANGED <<olt, job, held, seen>> /\ r # NoJob
    BY <1>8 DEF RunNowUpdate, Answer, workerVars
  <2>2. /\ DOMAIN jobs' = DOMAIN jobs
        /\ \A s \in DOMAIN jobs : s # r => jobs'[s] = jobs[s]
        /\ r \in DOMAIN jobs => jobs'[r] = [jobs[r] EXCEPT !.due = 0]
    BY <1>8 DEF RunNowUpdate, Put
  <2>3. ASSUME r \in DOMAIN jobs
        PROVE  /\ jobs'[r].due = 0 /\ jobs'[r].lockedBy = jobs[r].lockedBy
               /\ jobs'[r].lockedFor = jobs[r].lockedFor
               /\ jobs'[r].failures = jobs[r].failures
    <3>1. jobs[r] \in Columns
      BY <2>3, <1>t DEF TypeOK
    <3>. QED
      BY <2>2, <2>3, <3>1 DEF Columns
  <2>4. OwnsItsRow'
    BY <2>1, <2>2, <2>3 DEF LeaseInv, OwnsItsRow
  <2>5. \A s \in wanted' : s \in wanted \/ (s = r /\ ~served[p] /\ s \in DOMAIN jobs)
    BY <1>8 DEF RunNowUpdate, Answer
  <2>6. \A q \in Operators : request'[q] # NoJob => request'[q] = request[q] /\ served'[q] = served[q]
    BY <1>8, <1>t DEF RunNowUpdate, Answer, TypeOK
  <2>7. wanted \subseteq DOMAIN jobs
    BY <1>t DEF TypeOK
  <2>8. Unanswered'
    <3>1. \A s \in wanted' : jobs'[s].due <= 0
      BY <2>2, <2>3, <2>5, <2>7 DEF LeaseInv, Unanswered
    <3>2. \A s \in wanted' : ~Taken(s)
      BY <2>1, <2>5 DEF LeaseInv, Unanswered
    <3>. QED
      BY <2>1, <2>6, <3>1, <3>2 DEF LeaseInv, Unanswered, Taken
  <2>. QED
    BY <1>t, <2>1, <2>2, <2>4, <2>8 DEF LeaseInv, OnTime, GoneForGood, OneWorkerPerJob
<1>9. ASSUME Elapse PROVE LeaseInv'
  <2>1. UNCHANGED <<olt, at, job, seen, request, served, wanted>>
    BY <1>9 DEF Elapse, requestVars
  <2>2. DOMAIN jobs' = DOMAIN jobs
    BY <1>9 DEF Elapse
  <2>3. ASSUME NEW r \in DOMAIN jobs
        PROVE  /\ jobs'[r].due = Sooner(r) /\ jobs'[r].lockedBy = jobs[r].lockedBy
               /\ jobs'[r].failures = jobs[r].failures
               /\ jobs'[r].lockedFor = IF Free(r) THEN 0
                                       ELSE MinOf(jobs[r].lockedFor + 1, Lease[r[2]] + 1)
    <3>1. jobs[r] \in Columns
      BY <1>t DEF TypeOK
    <3>. QED
      BY <1>9, <3>1 DEF Elapse, Columns
  <2>4. ASSUME NEW w \in Workers, job[w] # NoJob
        PROVE  /\ held'[w] = held[w] + 1
               /\ held[w] < MaxRun[job[w][2]]
    BY <1>9, <2>4, <1>t DEF Elapse, TypeOK
  <2>5. ASSUME NEW w \in Workers, job[w] # NoJob
        PROVE  /\ job[w][2] \in Kinds /\ held[w] \in Nat
               /\ MaxRun[job[w][2]] \in Nat /\ Lease[job[w][2]] \in Nat
               /\ MaxRun[job[w][2]] < Lease[job[w][2]]
    BY <2>5, <1>t DEF TypeOK, Rows, RunsWithinLease
  <2>6. OnTime'
    BY <2>1, <2>4, <2>5 DEF OnTime
  <2>7. OwnsItsRow'
    <3>1. SUFFICES ASSUME NEW w \in Workers, job[w] \in DOMAIN jobs
                   PROVE  /\ jobs'[job[w]].lockedBy = w
                          /\ jobs'[job[w]].lockedFor = held'[w]
                          /\ jobs'[job[w]].failures = seen[w]
      BY <2>1, <2>2 DEF OwnsItsRow
    <3>2. job[w] # NoJob
      BY <3>1, <1>t DEF TypeOK
    <3>3. jobs[job[w]].lockedBy = w /\ jobs[job[w]].lockedFor = held[w]
          /\ jobs[job[w]].failures = seen[w]
      BY <3>1 DEF LeaseInv, OwnsItsRow
    <3>4. MinOf(held[w] + 1, Lease[job[w][2]] + 1) = held[w] + 1
      BY <2>4, <2>5, <3>2 DEF MinOf
    <3>. QED
      BY <2>3, <2>4, <3>1, <3>2, <3>3, <3>4 DEF Free
  <2>8. Unanswered'
    <3>1. \A r \in wanted : jobs'[r].due <= 0
      BY <2>3, <1>t, SoonerType DEF LeaseInv, Unanswered, TypeOK
    <3>. QED
      BY <2>1, <3>1 DEF LeaseInv, Unanswered, Taken
  <2>. QED
    BY <1>t, <2>1, <2>2, <2>6, <2>7, <2>8 DEF LeaseInv, GoneForGood, OneWorkerPerJob
<1>10. CASE UNCHANGED vars
  BY <1>10, <1>t
     DEF vars, LeaseInv, OnTime, OwnsItsRow, GoneForGood, OneWorkerPerJob,
         Unanswered, Taken
<1>11. ASSUME NEW w \in Workers, WorkerStep(w) PROVE LeaseInv'
  BY <1>2, <1>3, <1>4, <1>6, <1>11 DEF WorkerStep, Work
<1>12. ASSUME NEW p \in Operators, RunNow(p) PROVE LeaseInv'
  BY <1>7, <1>8, <1>12 DEF RunNow
<1>13. CASE Act
  BY <1>1, <1>11, <1>12, <1>13 DEF Act
<1>. QED
  BY <1>9, <1>10, <1>13 DEF Next

THEOREM LeaseInvariant == ASSUME RunsWithinLease PROVE Spec => []LeaseInv
<1>1. LeaseInv /\ [Next]_vars => LeaseInv'
  BY NextLease
<1>. QED
  BY <1>1, InitLease, PTL DEF Spec

(* Two workers are never in the same poll job, for any number of them, as  *)
(* long as every run ends inside its lease.                                *)
THEOREM Exclusive == ASSUME RunsWithinLease PROVE Spec => []OneWorkerPerJob
<1>1. LeaseInv => OneWorkerPerJob
  BY DEF LeaseInv
<1>. QED
  BY <1>1, LeaseInvariant, PTL

(* No run is ever settled over another worker's claim.                     *)
THEOREM NoStaleSettle == ASSUME RunsWithinLease PROVE Spec => []SettlesItsOwnClaim
<1>1. LeaseInv => SettlesItsOwnClaim
  BY DEF LeaseInv, OwnsItsRow, SettlesItsOwnClaim
<1>. QED
  BY <1>1, LeaseInvariant, PTL

(* A worker's copy of consecutive_failures is never stale.                 *)
THEOREM FailuresCurrent == ASSUME RunsWithinLease PROVE Spec => []FailureCountIsCurrent
<1>1. LeaseInv => FailureCountIsCurrent
  BY DEF LeaseInv, OwnsItsRow, FailureCountIsCurrent
<1>. QED
  BY <1>1, LeaseInvariant, PTL

(* A run that RunNow promised is not pushed back by an earlier run's end.  *)
THEOREM RunNowKept == ASSUME RunsWithinLease PROVE Spec => []RunNowIsKept
<1>1. LeaseInv => RunNowIsKept
  BY DEF LeaseInv, Unanswered, RunNowIsKept
<1>. QED
  BY <1>1, LeaseInvariant, PTL

-----------------------------------------------------------------------------
(* The refinement: only Claim and the ends of a run move a job.            *)

LEMMA ClaimTakes ==
  ASSUME LeaseInv, RunsWithinLease, NEW w \in Workers, NEW r \in Rows, Claim(w, r)
  PROVE  Promise!Take(w, r)
<1>1. at[w] = "idle" /\ r \in DOMAIN jobs /\ claimable(r)
  BY DEF Claim, Candidates
<1>2. job[w] = NoJob
  BY <1>1 DEF LeaseInv, TypeOK
<1>3. \A v \in Workers : job[v] # r
  BY <1>1, LockRespected
<1>4. \A v \in Workers : job'[v] = IF v = w THEN r ELSE job[v]
  BY DEF Claim, LeaseInv, TypeOK
<1>5. Promise!Idle(w)
  BY <1>2, ParametersAssumption DEF Promise!Idle
<1>6. {v \in Workers : job[v] = r} = {}
  BY <1>3
<1>7. \A s \in Rows : {v \in Workers : job'[v] = s}
                      = IF s = r THEN {w} ELSE {v \in Workers : job[v] = s}
  BY <1>2, <1>3, <1>4, ParametersAssumption
<1>. QED
  BY <1>5, <1>6, <1>7 DEF Promise!Take

LEMMA IdleGivesBack ==
  ASSUME LeaseInv, NEW w \in Workers, GoIdle(w), NEW r \in Rows, job[w] = r
  PROVE  Promise!GiveBack(w, r)
<1>1. \A v \in Workers : job'[v] = IF v = w THEN NoJob ELSE job[v]
  BY DEF GoIdle, LeaseInv, TypeOK
<1>2. \A s \in Rows : {v \in Workers : job'[v] = s}
                      = IF s = r THEN {v \in Workers : job[v] = s} \ {w}
                                 ELSE {v \in Workers : job[v] = s}
  BY <1>1, ParametersAssumption
<1>3. w \in {v \in Workers : job[v] = r}
  OBVIOUS
<1>4. [s \in Rows |-> {v \in Workers : job[v] = s}]'
      = [[s \in Rows |-> {v \in Workers : job[v] = s}]
           EXCEPT ![r] = {v \in Workers : job[v] = r} \ {w}]
  BY <1>2
<1>. QED
  BY <1>2, <1>3, <1>4 DEF Promise!GiveBack

LEMMA StepRefines ==
  ASSUME LeaseInv, RunsWithinLease, [Next]_vars
  PROVE  [Promise!Next]_([r \in Rows |-> {w \in Workers : job[w] = r}])
<1>. DEFINE held_by == [r \in Rows |-> {w \in Workers : job[w] = r}]
<1>1. ASSUME job' = job PROVE held_by' = held_by
  BY <1>1
<1>2. ASSUME NEW w \in Workers, WorkerStep(w), job' # job PROVE Promise!Next
  <2>1. CASE \E r \in Rows : Claim(w, r)
    BY <2>1, ClaimTakes DEF Promise!Next
  <2>2. CASE GoIdle(w) /\ at[w] # "idle"
    <3>1. PICK r \in Rows : job[w] = r
      BY <2>2 DEF LeaseInv, TypeOK
    <3>2. Promise!GiveBack(w, r)
      BY <2>2, <3>1, IdleGivesBack
    <3>. QED
      BY <3>2 DEF Promise!Next
  <2>3. StartRun(w) \/ (\E r \in Rows : EnsureJob(w, r)) => job' = job
    BY DEF StartRun, EnsureJob, workerVars
  <2>4. Settle(w) \/ Abandon(w) => GoIdle(w) /\ at[w] # "idle"
    BY DEF Settle, Complete, Fail, Defer, Abandon
  <2>. QED
    BY <1>2, <2>1, <2>2, <2>3, <2>4 DEF WorkerStep, Work
<1>3. ASSUME NEW o \in OLTs, OLTStep(o) PROVE job' = job
  BY <1>3 DEF OLTStep, CreateOLT, DeleteOLT, workerVars
<1>4. ASSUME NEW p \in Operators, RunNow(p) PROVE job' = job
  BY <1>4 DEF RunNow, RunNowRead, RunNowUpdate, Answer, workerVars
<1>5. CASE Elapse \/ UNCHANGED vars
  BY <1>1, <1>5 DEF Elapse, vars
<1>6. CASE Act
  BY <1>1, <1>2, <1>3, <1>4, <1>6 DEF Act
<1>. QED
  BY <1>5, <1>6 DEF Next

(* The table with its leases implements exclusive work: however jobs are   *)
(* claimed, abandoned, deleted and brought forward, each is with at most   *)
(* one worker, and comes back from the worker that took it.                *)
THEOREM Refines == ASSUME RunsWithinLease PROVE Spec => ImplementsExclusiveWork
<1>1. Init => Promise!Init
  BY ParametersAssumption DEF Init, Promise!Init
<1>2. LeaseInv /\ [Next]_vars
      => [Promise!Next]_([r \in Rows |-> {w \in Workers : job[w] = r}])
  BY StepRefines
<1>. QED
  BY <1>1, <1>2, LeaseInvariant, PTL DEF Spec, ImplementsExclusiveWork, Promise!Spec
=============================================================================
