--------------------------- MODULE ZteProvisioning ---------------------------
(***************************************************************************)
(* Provisioning of ONUs on one PON port of a ZTE chassis: operators        *)
(* register, configure and remove ONUs; each request holds a copy of the   *)
(* onts row, writes a provisioning_jobs row and talks to the chassis.      *)
(*   src/backend/internal/services/zte_gpon_register_service.go,           *)
(*     zte_gpon_register_execute.go, zte_gpon_onu_id.go, job_service.go    *)
(*   src/backend/internal/services/ont_provisioning_service.go             *)
(*   src/backend/internal/services/rollback_engine.go, zte_onu_removal.go  *)
(*   src/backend/internal/services/ont_service_discovery.go                *)
(*   src/backend/internal/api/ont_handler_write.go                         *)
(*                                                                         *)
(* The chassis is external: it refuses a registration at a taken id or of  *)
(* a serial it has, refuses to remove an ONU that is not there, and its    *)
(* answer can get lost (Telnet).  A call that reads, checks and writes the *)
(* database is one step (an index arbitrates the ones that race), every    *)
(* command that changes which ONUs exist one step, the service lines       *)
(* together one step.  Not here: what the service lines say, audit, status *)
(* polling, pruning, single database errors.                               *)
(***************************************************************************)
EXTENDS Integers, FiniteSets

CONSTANTS
  Requests,   \* API requests; bound: each does one thing
  Serials,
  Ids,        \* ONU ids of the port
  Rows,       \* keys of onts rows (UUIDs), never used twice
  None        \* a free id; no row; no serial

ASSUME ParametersAssumption ==
  /\ IsFiniteSet(Requests) /\ IsFiniteSet(Rows)
  /\ None \notin Requests \cup Serials \cup Ids \cup Rows

VARIABLES
  onts,     \* the table: a function from the rows that exist
  used,     \* history: row keys given out
  chassis,  \* chassis[i]: the ONU at id i, and the request that put it there
  req,      \* req[r]: what request r is, has copied and has come to
  job,      \* job[r]: the status of the provisioning_jobs row of request r
  found,    \* found[i]: the ONU a discovery walk has read at id i
  taken,    \* history: ids an operator had cleared on the chassis
  astray    \* history: requests whose answer was lost, or that died

vars == <<onts, used, chassis, req, job, found, taken, astray>>
histories == <<taken, astray>>

\* An ONU that was there before the run is put there by None.
NoOnu == [serial |-> None, by |-> None]
NewRequest == [kind |-> None, step |-> "new", row |-> None, at |-> None,
               serial |-> None, created |-> FALSE]

Step(r, s) == req' = [req EXCEPT ![r].step = s]
Exists(k) == k \in DOMAIN onts
Over == {"new", "succeeded", "failed", "over"}

\* A unique index on the position and one on the serial.
PositionFree(i) == \A k \in DOMAIN onts : onts[k].at # i
SerialFree(s) == \A k \in DOMAIN onts : onts[k].serial # s

Insert(k, i, s) ==
  /\ k \in Rows \ used
  /\ used' = used \cup {k}
  /\ onts' = [j \in DOMAIN onts \cup {k} |-> IF j = k THEN [at |-> i, serial |-> s] ELSE onts[j]]

\* provisioning_jobs.ont_id is ON DELETE CASCADE.
DeleteRow(k) ==
  /\ onts' = [j \in DOMAIN onts \ {k} |-> onts[j]]
  /\ job' = [r \in Requests |-> IF req[r].row = k /\ job[r] # "none" THEN "gone" ELSE job[r]]

\* Mutant: only jobs that wait to start count as running.
AlreadyRunning_Pending(k, r) == \E q \in Requests \ {r} : req[q].row = k /\ job[q] = "pending"

\* ensureNoRunningJob, and the unique index on running jobs behind it.
AlreadyRunning(k, r) == \E q \in Requests \ {r} : req[q].row = k /\ job[q] = "running"

-----------------------------------------------------------------------------
\* Subscribers that are on the chassis and in the table, and no request yet.
Init ==
  /\ \E K \in SUBSET Rows : \E at \in [K -> Ids], sn \in [K -> Serials] :
       /\ \A j, k \in K : j # k => at[j] # at[k] /\ sn[j] # sn[k]
       /\ onts = [k \in K |-> [at |-> at[k], serial |-> sn[k]]]
       /\ used = K
       /\ chassis = [i \in Ids |-> IF \E k \in K : at[k] = i
                                   THEN [serial |-> sn[CHOOSE k \in K : at[k] = i], by |-> None]
                                   ELSE NoOnu]
  /\ req = [r \in Requests |-> NewRequest]
  /\ job = [r \in Requests |-> "none"]
  /\ found = [i \in Ids |-> None]
  /\ taken = {} /\ astray = {}

\* RegisterAndConfigure reserves an id: the lowest free one, or a requested one.
Reserve(r, k, i, s) ==
  /\ req[r].step = "new" /\ PositionFree(i) /\ SerialFree(s)
  /\ Insert(k, i, s)
  /\ req' = [req EXCEPT ![r] = [kind |-> "register", step |-> "loaded", row |-> k, at |-> i,
                                serial |-> s, created |-> FALSE]]
  /\ UNCHANGED <<chassis, job, found, histories>>

\* ConfigureExisting, ProvisionOnt and Delete start from a copy of the row;
\* the first two need the snapshot of an ONU that is there.
Load(r, k, kind) ==
  /\ req[r].step = "new" /\ Exists(k)
  /\ kind \in {"configure", "provision"} => chassis[onts[k].at] # NoOnu
  /\ req' = [req EXCEPT ![r] = [kind |-> kind, step |-> "loaded", row |-> k, at |-> onts[k].at,
                                serial |-> onts[k].serial, created |-> FALSE]]
  /\ UNCHANGED <<onts, used, chassis, job, found, histories>>

Provisions(r) == req[r].kind \in {"register", "configure", "provision"}

CreateProvisioningJob(r) ==
  /\ req[r].step = "loaded" /\ Provisions(r)
  /\ IF Exists(req[r].row) /\ ~AlreadyRunning(req[r].row, r)
     THEN job' = [job EXCEPT ![r] = "pending"] /\ Step(r, "created")
     ELSE UNCHANGED job /\ Step(r, "over")
  /\ UNCHANGED <<onts, used, chassis, found, histories>>

\* UpdateStatusProvisioning(running).
MarkRunning(r) ==
  /\ req[r].step = "created"
  /\ IF job[r] = "pending" /\ ~AlreadyRunning(req[r].row, r)
     THEN job' = [job EXCEPT ![r] = "running"] /\ Step(r, "running")
     ELSE /\ UNCHANGED job
          /\ Step(r, IF req[r].kind = "provision" THEN "over" ELSE "refused")
  /\ UNCHANGED <<onts, used, chassis, found, histories>>

\* executeJob deletes the ONT of a job that may not run.
Refused(r) ==
  /\ req[r].step = "refused"
  /\ DeleteRow(req[r].row)
  /\ Step(r, "over")
  /\ UNCHANGED <<used, chassis, found, histories>>

Fails(r, created) == req' = [req EXCEPT ![r] = [@ EXCEPT !.step = "failing", !.created = created]]

\* The chassis takes the line "onu N type X sn Y".
Accepts(i, s) == chassis[i] = NoOnu /\ \A j \in Ids : chassis[j].serial # s

RegisterOnu(r) ==
  /\ req[r].step = "running" /\ req[r].kind = "register"
  /\ Accepts(req[r].at, req[r].serial)
  /\ chassis' = [chassis EXCEPT ![req[r].at] = [serial |-> req[r].serial, by |-> r]]
  /\ \/ Step(r, "registered") /\ UNCHANGED astray
     \/ Fails(r, FALSE) /\ astray' = astray \cup {r}     \* the answer is lost
  /\ UNCHANGED <<onts, used, job, found, taken>>

\* Mutant: a job whose registration line was refused counts as its owner.
RegisterRefused_Owns(r) ==
  /\ req[r].step = "running" /\ req[r].kind = "register"
  /\ Fails(r, TRUE)
  /\ UNCHANGED <<onts, used, chassis, job, found, histories>>

\* No session, or a line up to the registration is refused.
RegisterRefused(r) ==
  /\ req[r].step = "running" /\ req[r].kind = "register"
  /\ Fails(r, FALSE)
  /\ UNCHANGED <<onts, used, chassis, job, found, histories>>

AtServiceLines(r) ==
  \/ req[r].step = "registered"
  \/ req[r].step = "running" /\ req[r].kind # "register"

Configure(r) ==
  /\ AtServiceLines(r)
  /\ Step(r, "written")
  /\ UNCHANGED <<onts, used, chassis, job, found, histories>>

\* Mutant: whatever fails, the ONU is not ours to remove.
ConfigureRefused_Disowns(r) ==
  /\ AtServiceLines(r)
  /\ Fails(r, FALSE)
  /\ UNCHANGED <<onts, used, chassis, job, found, histories>>

\* A service line is refused, or its answer is lost.
ConfigureRefused(r) ==
  /\ AtServiceLines(r)
  /\ Fails(r, req[r].kind # "configure")
  /\ UNCHANGED <<onts, used, chassis, job, found, histories>>

\* The after snapshot shows the serial (of a provision: what was there before),
\* or does not, or cannot be read.
Verify(r) ==
  /\ req[r].step = "written"
  /\ \/ /\ chassis[req[r].at].serial \in IF req[r].kind = "provision" THEN Serials ELSE {req[r].serial}
        /\ Step(r, "verified")
     \/ Fails(r, TRUE)
  /\ UNCHANGED <<onts, used, chassis, job, found, histories>>

\* UpdateStatusProvisioning(success); a job that is gone is an error answer.
Succeed(r) ==
  /\ req[r].step = "verified"
  /\ IF job[r] = "running"
     THEN job' = [job EXCEPT ![r] = "success"] /\ Step(r, "succeeded")
     ELSE UNCHANGED job /\ Step(r, "over")
  /\ UNCHANGED <<onts, used, chassis, found, histories>>

(* failJob and abandonJob: mark the job, forget the row of a registration, *)
(* undo what was done.                                                     *)

MarkFailed(r) ==
  /\ req[r].step = "failing"
  /\ job' = IF job[r] = "running" THEN [job EXCEPT ![r] = "failed"] ELSE job
  /\ Step(r, IF req[r].kind = "register" THEN "forgetting"
             ELSE IF req[r].created THEN "undoing" ELSE "failed")
  /\ UNCHANGED <<onts, used, chassis, found, histories>>

ForgetRow(r) ==
  /\ req[r].step = "forgetting"
  /\ DeleteRow(req[r].row)
  /\ Step(r, IF req[r].created THEN "undoing" ELSE "failed")
  /\ UNCHANGED <<used, chassis, found, histories>>

MarkRolledBack(r) ==
  job' = IF job[r] = "failed" /\ req[r].kind # "provision"
         THEN [job EXCEPT ![r] = "rolled_back"] ELSE job

\* "no onu N", by id.
RemoveOnu(r) ==
  /\ req[r].step = "undoing" /\ req[r].kind = "register"
  /\ chassis[req[r].at] # NoOnu
  /\ chassis' = [chassis EXCEPT ![req[r].at] = NoOnu]
  /\ \/ MarkRolledBack(r)
     \/ UNCHANGED job                                     \* the answer is lost
  /\ Step(r, "failed")
  /\ UNCHANGED <<onts, used, found, histories>>

\* The chassis refuses the removal, or cannot be reached.
RemoveOnuFails(r) ==
  /\ req[r].step = "undoing" /\ req[r].kind = "register"
  /\ Step(r, "failed")
  /\ astray' = astray \cup {r}
  /\ UNCHANGED <<onts, used, chassis, job, found, taken>>

\* The lines that restore an existing ONU's profile.
Restore(r) ==
  /\ req[r].step = "undoing" /\ req[r].kind # "register"
  /\ MarkRolledBack(r) \/ UNCHANGED job
  /\ Step(r, "failed")
  /\ UNCHANGED <<onts, used, chassis, found, histories>>

(* DELETE /onts/:id, with or without remove_from_olt.                      *)

ClearFromOLT(r) ==
  /\ req[r].step = "loaded" /\ req[r].kind = "remove" /\ Exists(req[r].row)
  /\ chassis[req[r].at] # NoOnu
  /\ chassis' = [chassis EXCEPT ![req[r].at] = NoOnu]
  /\ taken' = taken \cup {req[r].at}
  /\ Step(r, "cleared") \/ Step(r, "over")                \* or the answer is lost
  /\ UNCHANGED <<onts, used, job, found, astray>>

ClearFails(r) ==
  /\ req[r].step = "loaded" /\ req[r].kind = "remove"
  /\ Step(r, "over")
  /\ UNCHANGED <<onts, used, chassis, job, found, histories>>

Delete(r) ==
  /\ (req[r].step = "loaded" /\ req[r].kind = "delete") \/ req[r].step = "cleared"
  /\ DeleteRow(req[r].row)
  /\ Step(r, "over")
  /\ UNCHANGED <<used, chassis, found, histories>>

(* The worker's discovery: a walk, and later a row for each ONU that none  *)
(* of them stands for.                                                     *)

Walk ==
  /\ found' = [i \in Ids |-> chassis[i].serial]
  /\ UNCHANGED <<onts, used, chassis, req, job, histories>>

BulkRegister(i, k) ==
  /\ found[i] # None
  /\ found' = [found EXCEPT ![i] = None]
  /\ IF PositionFree(i) /\ SerialFree(found[i])
     THEN Insert(k, i, found[i])
     ELSE UNCHANGED <<onts, used>>
  /\ UNCHANGED <<chassis, req, job, histories>>

\* The API process dies with every request in it; their jobs stay as they are.
Crash ==
  /\ req' = [r \in Requests |-> IF req[r].step \in Over THEN req[r]
                                ELSE [req[r] EXCEPT !.step = "over"]]
  /\ astray' = astray \cup {r \in Requests : req[r].step \notin Over}
  /\ UNCHANGED <<onts, used, chassis, job, found, taken>>

Begin(r) ==
  \/ \E k \in Rows, i \in Ids, s \in Serials : Reserve(r, k, i, s)
  \/ \E k \in Rows, kind \in {"configure", "provision", "delete", "remove"} : Load(r, k, kind)

Start(r) == CreateProvisioningJob(r) \/ MarkRunning(r) \/ Refused(r)

Execute(r) ==
  \/ RegisterOnu(r) \/ RegisterRefused(r) \/ Configure(r) \/ ConfigureRefused(r)
  \/ Verify(r) \/ Succeed(r)

FailJob(r) ==
  \/ MarkFailed(r) \/ ForgetRow(r)
  \/ RemoveOnu(r) \/ RemoveOnuFails(r) \/ Restore(r)

DeleteONT(r) == ClearFromOLT(r) \/ ClearFails(r) \/ Delete(r)

Next ==
  \/ \E r \in Requests : Begin(r) \/ Start(r) \/ Execute(r) \/ FailJob(r) \/ DeleteONT(r)
  \/ Walk
  \/ \E i \in Ids, k \in Rows : BulkRegister(i, k)
  \/ Crash

Spec == Init /\ [][Next]_vars

-----------------------------------------------------------------------------
Kinds == {None, "register", "configure", "provision", "delete", "remove"}
Steps == {"new", "loaded", "created", "refused", "running", "registered", "written", "verified",
          "failing", "forgetting", "undoing", "cleared", "succeeded", "failed", "over"}

Request == [kind : Kinds, step : Steps, row : Rows \cup {None}, at : Ids \cup {None},
            serial : Serials \cup {None}, created : BOOLEAN]
JobStatus == {"none", "pending", "running", "success", "failed", "rolled_back", "gone"}
Onu == [serial : Serials, by : Requests \cup {None}] \cup {NoOnu}

\* What the unique indexes and the foreign key of the tables keep.
TablesOK ==
  /\ onts \in [DOMAIN onts -> [at : Ids, serial : Serials]]
  /\ DOMAIN onts \subseteq used
  /\ \A j, k \in DOMAIN onts : j # k => onts[j].at # onts[k].at /\ onts[j].serial # onts[k].serial
  /\ \A r \in Requests : job[r] \notin {"none", "gone"} => Exists(req[r].row)

TypeOK ==
  /\ TablesOK
  /\ used \subseteq Rows
  /\ chassis \in [Ids -> Onu]
  /\ req \in [Requests -> Request]
  /\ job \in [Requests -> JobStatus]
  /\ found \in [Ids -> Serials \cup {None}]
  /\ taken \subseteq Ids /\ astray \subseteq Requests

\* Request r is sending lines to the chassis for its job.
Writing(r) == req[r].step \in {"running", "registered"} /\ job[r] # "gone"

(* "Two writers on the same ONT would interleave config lines and corrupt  *)
(* the device": no two requests write to one ONT, whatever was reserved,   *)
(* refused, failed or left running by a process that died.                 *)
OneWriterPerONT ==
  \A q, r \in Requests : Writing(q) /\ Writing(r) /\ req[q].row = req[r].row => q = r

(* "the ONU is not ours to remove": undoing a registration takes off the   *)
(* chassis what this registration put there, and not another subscriber    *)
(* at the same id, however registrations, retries and rollbacks of freed   *)
(* ids interleave.  An id that an operator had cleared meanwhile is not    *)
(* covered: there the removal by id can hit a later subscriber.            *)
RollbackRemovesOwn ==
  \A r \in Requests :
     /\ req[r].step = "undoing" /\ req[r].kind = "register"
     /\ req[r].at \notin taken
     => chassis[req[r].at].by = r

(* A registration that failed leaves neither a row nor an ONU behind, so   *)
(* that it can be made again, unless an answer of the chassis was lost or  *)
(* the process died.                                                       *)
FailedLeavesNothing ==
  \A r \in Requests \ astray :
     req[r].step = "failed" /\ req[r].kind = "register" =>
       /\ ~Exists(req[r].row)
       /\ \A i \in Ids : chassis[i].by # r

(* "Deleting TikMan's rows first would leave an ONU configured on the OLT  *)
(* that nothing tracks any more": a row goes when its registration fails   *)
(* or an operator deletes it, not because a configuration is refused.      *)
OnlyOwnersForget ==
  [][\A k \in DOMAIN onts \ DOMAIN onts' :
       \E r \in Requests : /\ req[r].row = k /\ req'[r].step # req[r].step
                           /\ req[r].kind \notin {"configure", "provision"}]_vars
=============================================================================
