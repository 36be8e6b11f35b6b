---------------------- MODULE ZteProvisioningProofs ----------------------
(***************************************************************************)
(* Theorems about ZteProvisioning for any number of requests, serials, ids *)
(* and rows.                                                               *)
(***************************************************************************)
EXTENDS ZteProvisioning, TLAPS

(* What the invariants rest on.                                            *)

\* A request that has begun knows a row that was once there, and a position.
Loaded ==
  \A r \in Requests : req[r].step # "new" =>
    req[r].row \in used /\ req[r].at \in Ids /\ req[r].serial \in Serials

NoJobYet == \A r \in Requests : req[r].step \in {"new", "loaded"} => job[r] = "none"

WritersRun ==
  \A r \in Requests : req[r].step \in {"running", "registered"} => job[r] \in {"running", "gone"}

OneRunsPerRow ==
  \A q, r \in Requests :
    job[q] = "running" /\ job[r] = "running" /\ req[q].row = req[r].row => q = r

\* Request r has put an ONU on the chassis and answers for it.
Owns(r) ==
  /\ req[r].kind = "register"
  /\ \/ req[r].step \in {"registered", "written", "verified", "undoing"}
     \/ req[r].step \in {"failing", "forgetting"} /\ req[r].created

OwnersAreRight ==
  \A r \in Requests : Owns(r) /\ req[r].at \notin taken => chassis[req[r].at].by = r

Forgotten ==
  \A r \in Requests : req[r].kind = "register" /\ req[r].step \in {"undoing", "failed"} =>
    req[r].row \notin DOMAIN onts

\* Every ONU a request put on the chassis is where it said, and answered for.
Traceable ==
  \A r \in Requests, i \in Ids : chassis[i].by = r =>
    /\ req[r].step # "new" /\ req[r].kind = "register" /\ req[r].at = i
    /\ r \in astray \/ Owns(r) \/ req[r].step \in {"succeeded", "over"}

TypeInv == TypeOK /\ Loaded /\ NoJobYet
Inv == TypeInv /\ WritersRun /\ OneRunsPerRow /\ OwnersAreRight /\ Forgotten /\ Traceable

-----------------------------------------------------------------------------
(* What the helpers change.                                                *)

\* Request r, which has begun, moves on; what it has copied stays.
Moves(r) ==
  /\ req' \in [Requests -> Request]
  /\ req[r].step # "new" /\ req'[r].step \notin {"new", "loaded"}
  /\ \A q \in Requests : /\ req'[q].kind = req[q].kind /\ req'[q].row = req[q].row
                         /\ req'[q].at = req[q].at /\ req'[q].serial = req[q].serial
  /\ \A q \in Requests \ {r} : req'[q].step = req[q].step /\ req'[q].created = req[q].created

LEMMA StepMoves ==
  ASSUME TypeOK, NEW r \in Requests, NEW s \in Steps, Step(r, s),
         req[r].step # "new", s \notin {"new", "loaded"}
  PROVE  Moves(r) /\ req'[r].step = s /\ req'[r].created = req[r].created
BY DEF Step, Moves, TypeOK, Request

LEMMA FailsMoves ==
  ASSUME TypeOK, NEW r \in Requests, NEW c \in BOOLEAN, Fails(r, c), req[r].step # "new"
  PROVE  Moves(r) /\ req'[r].step = "failing" /\ req'[r].created = c
<1>1. req \in [Requests -> Request] /\ "failing" \in Steps
  BY DEF TypeOK, Steps
<1>2. [req[r] EXCEPT !.step = "failing", !.created = c] \in Request
  BY <1>1 DEF Request
<1>3. /\ req' \in [Requests -> Request]
      /\ req'[r] = [req[r] EXCEPT !.step = "failing", !.created = c]
      /\ \A q \in Requests \ {r} : req'[q] = req[q]
  BY <1>1, <1>2 DEF Fails
<1>4. /\ req'[r].kind = req[r].kind /\ req'[r].row = req[r].row /\ req'[r].at = req[r].at
      /\ req'[r].serial = req[r].serial /\ req'[r].step = "failing" /\ req'[r].created = c
  BY <1>1, <1>3 DEF Request
<1>. QED
  BY <1>3, <1>4 DEF Moves

\* A deleted row takes its jobs along and no other.
LEMMA DeleteRowDeletes ==
  ASSUME TypeOK, NEW k, DeleteRow(k)
  PROVE  /\ DOMAIN onts' = DOMAIN onts \ {k}
         /\ \A j \in DOMAIN onts' : onts'[j] = onts[j]
         /\ \A r \in Requests : job'[r] = IF req[r].row = k /\ job[r] # "none" THEN "gone" ELSE job[r]
         /\ job' \in [Requests -> JobStatus]
         /\ onts' \in [DOMAIN onts' -> [at : Ids, serial : Serials]]
BY DEF DeleteRow, TypeOK, TablesOK, JobStatus

\* An inserted row is new, and the indexes hold with it.
LEMMA InsertInserts ==
  ASSUME TypeOK, NEW k \in Rows, NEW i \in Ids, NEW s \in Serials,
         PositionFree(i), SerialFree(s), Insert(k, i, s)
  PROVE  /\ DOMAIN onts' = DOMAIN onts \cup {k} /\ k \notin DOMAIN onts /\ k \notin used
         /\ onts' \in [DOMAIN onts' -> [at : Ids, serial : Serials]]
         /\ used' \subseteq Rows /\ used \subseteq used' /\ k \in used' /\ DOMAIN onts' \subseteq used'
         /\ \A j, l \in DOMAIN onts' : j # l => onts'[j].at # onts'[l].at /\ onts'[j].serial # onts'[l].serial
BY DEF Insert, TypeOK, TablesOK, PositionFree, SerialFree

-----------------------------------------------------------------------------
LEMMA InitInv == Init => Inv
<1>. SUFFICES ASSUME Init PROVE Inv
  OBVIOUS
<1>0. PICK K \in SUBSET Rows : \E at \in [K -> Ids], sn \in [K -> Serials] :
         /\ \A j, k \in K : j # k => at[j] # at[k] /\ sn[j] # sn[k]
         /\ onts = [k \in K |-> [at |-> at[k], serial |-> sn[k]]]
         /\ used = K
         /\ chassis = [i \in Ids |-> IF \E k \in K : at[k] = i
                                   THEN [serial |-> sn[CHOOSE k \in K : at[k] = i], by |-> None]
                                   ELSE NoOnu]
  BY DEF Init
<1>1. PICK at \in [K -> Ids], sn \in [K -> Serials] :
         /\ \A j, k \in K : j # k => at[j] # at[k] /\ sn[j] # sn[k]
         /\ onts = [k \in K |-> [at |-> at[k], serial |-> sn[k]]]
         /\ used = K
         /\ chassis = [i \in Ids |-> IF \E k \in K : at[k] = i
                                   THEN [serial |-> sn[CHOOSE k \in K : at[k] = i], by |-> None]
                                   ELSE NoOnu]
  BY <1>0
<1>2. chassis \in [Ids -> Onu]
  BY <1>1 DEF Onu
<1>3. TypeOK
  BY <1>1, <1>2 DEF Init, TypeOK, TablesOK, NewRequest, Request, JobStatus, Kinds, Steps
<1>4. Loaded /\ NoJobYet /\ WritersRun /\ OneRunsPerRow /\ OwnersAreRight /\ Forgotten
  BY DEF Init, NewRequest, Loaded, NoJobYet, WritersRun, OneRunsPerRow, OwnersAreRight, Owns, Forgotten
<1>5. ASSUME NEW i \in Ids, NEW r \in Requests PROVE chassis[i].by # r
  BY <1>1, ParametersAssumption DEF NoOnu
<1>. QED
  BY <1>3, <1>4, <1>5 DEF Inv, TypeInv, Traceable

-----------------------------------------------------------------------------
(* Every step keeps the types, the indexes and the foreign keys.           *)

\* A request that moves on, with its job or the chassis, and no row.
LEMMA MoveType ==
  ASSUME TypeInv, NEW r \in Requests, Moves(r), UNCHANGED <<onts, used, found>>,
         chassis' \in [Ids -> Onu], taken' \subseteq Ids, astray' \subseteq Requests,
         job' \in [Requests -> JobStatus], \A q \in Requests \ {r} : job'[q] = job[q],
         job'[r] \notin {"none", "gone"} => Exists(req[r].row)
  PROVE  TypeInv'
<1>1. TypeOK'
  BY DEF TypeInv, TypeOK, TablesOK, Moves, Exists
<1>2. Loaded' /\ NoJobYet'
  BY DEF TypeInv, Loaded, NoJobYet, Moves
<1>. QED
  BY <1>1, <1>2 DEF TypeInv

\* A request that moves on and deletes its row.
LEMMA DeleteType ==
  ASSUME TypeInv, NEW r \in Requests, Moves(r), NEW k, DeleteRow(k),
         UNCHANGED <<used, chassis, found, histories>>
  PROVE  TypeInv'
<1>0. TypeOK
  BY DEF TypeInv
<1>1. TypeOK'
  <2>1. \A q \in Requests : req'[q].row = req[q].row
    BY DEF Moves
  <2>2. TablesOK'
    <3>1. /\ DOMAIN onts' = DOMAIN onts \ {k}
          /\ \A j \in DOMAIN onts' : onts'[j] = onts[j]
          /\ \A q \in Requests : job'[q] = IF req[q].row = k /\ job[q] # "none" THEN "gone" ELSE job[q]
          /\ onts' \in [DOMAIN onts' -> [at : Ids, serial : Serials]]
      BY <1>0, DeleteRowDeletes
    <3>2. \A q \in Requests : job'[q] \notin {"none", "gone"} => req'[q].row \in DOMAIN onts'
      BY <1>0, <2>1, <3>1 DEF TypeOK, TablesOK, Exists
    <3>3. \A j, l \in DOMAIN onts' : j # l => onts'[j].at # onts'[l].at /\ onts'[j].serial # onts'[l].serial
      BY <1>0, <3>1 DEF TypeOK, TablesOK
    <3>4. DOMAIN onts' \subseteq used'
      BY <1>0, <3>1 DEF TypeOK, TablesOK
    <3>. QED
      BY <3>1, <3>2, <3>3, <3>4 DEF TablesOK, Exists
  <2>3. req' \in [Requests -> Request]
    BY DEF Moves
  <2>4. job' \in [Requests -> JobStatus]
    BY <1>0, DeleteRowDeletes
  <2>. QED
    BY <1>0, <2>2, <2>3, <2>4 DEF TypeOK, histories
<1>2. Loaded' /\ NoJobYet'
  BY <1>0, DeleteRowDeletes DEF TypeInv, Loaded, NoJobYet, Moves
<1>. QED
  BY <1>1, <1>2 DEF TypeInv

LEMMA NextType == TypeInv /\ [Next]_vars => TypeInv'
<1>. SUFFICES ASSUME TypeInv, [Next]_vars PROVE TypeInv'
  OBVIOUS
<1>. USE ParametersAssumption
<1>0. TypeOK
  BY DEF TypeInv
<1>1. ASSUME NEW r \in Requests, RegisterOnu(r) PROVE TypeInv'
  <2>1. Moves(r)
    BY <1>0, <1>1, StepMoves, FailsMoves DEF RegisterOnu, Steps
  <2>2. chassis' \in [Ids -> Onu]
    BY <1>0, <1>1 DEF RegisterOnu, TypeInv, TypeOK, Loaded, Onu
  <2>. QED
    BY <1>0, <1>1, <2>1, <2>2, MoveType DEF RegisterOnu, TypeInv, TypeOK, TablesOK, Loaded, JobStatus, Exists, histories
<1>2. ASSUME NEW r \in Requests, RegisterRefused(r) PROVE TypeInv'
  <2>1. Moves(r)
    BY <1>0, <1>2, FailsMoves DEF RegisterRefused, Steps
  <2>. QED
    BY <1>0, <1>2, <2>1, MoveType DEF RegisterRefused, TypeOK, TablesOK, JobStatus, Exists, histories
<1>3. ASSUME NEW r \in Requests, Configure(r) PROVE TypeInv'
  <2>1. Moves(r)
    BY <1>0, <1>3, StepMoves DEF Configure, AtServiceLines, Steps
  <2>. QED
    BY <1>0, <1>3, <2>1, MoveType DEF Configure, AtServiceLines, TypeOK, TablesOK, JobStatus, Exists, histories
<1>4. ASSUME NEW r \in Requests, ConfigureRefused(r) PROVE TypeInv'
  <2>1. Moves(r)
    BY <1>0, <1>4, FailsMoves DEF ConfigureRefused, AtServiceLines, Steps
  <2>. QED
    BY <1>0, <1>4, <2>1, MoveType DEF ConfigureRefused, AtServiceLines, TypeOK, TablesOK, JobStatus, Exists, histories
<1>5. ASSUME NEW r \in Requests, Verify(r) PROVE TypeInv'
  <2>1. Moves(r)
    BY <1>0, <1>5, StepMoves, FailsMoves DEF Verify, Steps
  <2>. QED
    BY <1>0, <1>5, <2>1, MoveType DEF Verify, TypeOK, TablesOK, JobStatus, Exists, histories
<1>6. ASSUME NEW r \in Requests, Succeed(r) PROVE TypeInv'
  <2>1. Moves(r)
    BY <1>0, <1>6, StepMoves DEF Succeed, Steps
  <2>. QED
    BY <1>0, <1>6, <2>1, MoveType DEF Succeed, TypeOK, TablesOK, JobStatus, Exists, histories
<1>7. ASSUME NEW r \in Requests, MarkFailed(r) PROVE TypeInv'
  <2>1. Moves(r)
    BY <1>0, <1>7, StepMoves DEF MarkFailed, Steps
  <2>. QED
    BY <1>0, <1>7, <2>1, MoveType DEF MarkFailed, TypeOK, TablesOK, JobStatus, Exists, histories
<1>8. ASSUME NEW r \in Requests, RemoveOnu(r) PROVE TypeInv'
  <2>1. Moves(r)
    BY <1>0, <1>8, StepMoves DEF RemoveOnu, Steps
  <2>2. chassis' \in [Ids -> Onu]
    BY <1>0, <1>8 DEF RemoveOnu, TypeInv, TypeOK, Loaded, Onu
  <2>. QED
    BY <1>0, <1>8, <2>1, <2>2, MoveType DEF RemoveOnu, MarkRolledBack, TypeInv, TypeOK, TablesOK, Loaded, JobStatus, Exists, histories
<1>9. ASSUME NEW r \in Requests, RemoveOnuFails(r) PROVE TypeInv'
  <2>1. Moves(r)
    BY <1>0, <1>9, StepMoves DEF RemoveOnuFails, Steps
  <2>. QED
    BY <1>0, <1>9, <2>1, MoveType DEF RemoveOnuFails, TypeOK, TablesOK, JobStatus, Exists, histories
<1>10. ASSUME NEW r \in Requests, Restore(r) PROVE TypeInv'
  <2>1. Moves(r)
    BY <1>0, <1>10, StepMoves DEF Restore, Steps
  <2>. QED
    BY <1>0, <1>10, <2>1, MoveType DEF Restore, MarkRolledBack, TypeOK, TablesOK, JobStatus, Exists, histories
<1>11. ASSUME NEW r \in Requests, CreateProvisioningJob(r) PROVE TypeInv'
  <2>1. Moves(r)
    BY <1>0, <1>11, StepMoves DEF CreateProvisioningJob, Steps
  <2>. QED
    BY <1>0, <1>11, <2>1, MoveType DEF CreateProvisioningJob, TypeOK, TablesOK, JobStatus, Exists, histories
<1>12. ASSUME NEW r \in Requests, MarkRunning(r) PROVE TypeInv'
  <2>1. Moves(r)
    BY <1>0, <1>12, StepMoves DEF MarkRunning, Steps
  <2>. QED
    BY <1>0, <1>12, <2>1, MoveType DEF MarkRunning, TypeOK, TablesOK, JobStatus, Exists, histories
<1>13. ASSUME NEW r \in Requests, ClearFromOLT(r) PROVE TypeInv'
  <2>1. Moves(r)
    BY <1>0, <1>13, StepMoves DEF ClearFromOLT, Steps
  <2>2. chassis' \in [Ids -> Onu]
    BY <1>0, <1>13 DEF ClearFromOLT, TypeInv, TypeOK, Loaded, Onu
  <2>. QED
    BY <1>0, <1>13, <2>1, <2>2, MoveType DEF ClearFromOLT, TypeInv, TypeOK, TablesOK, Loaded, JobStatus, Exists, histories
<1>14. ASSUME NEW r \in Requests, ClearFails(r) PROVE TypeInv'
  <2>1. Moves(r)
    BY <1>0, <1>14, StepMoves DEF ClearFails, Steps
  <2>. QED
    BY <1>0, <1>14, <2>1, MoveType DEF ClearFails, TypeOK, TablesOK, JobStatus, Exists, histories
<1>15. ASSUME NEW r \in Requests, ForgetRow(r) PROVE TypeInv'
  <2>1. Moves(r)
    BY <1>0, <1>15, StepMoves DEF ForgetRow, Steps
  <2>. QED
    BY <1>15, <2>1, DeleteType DEF ForgetRow
<1>16. ASSUME NEW r \in Requests, Refused(r) PROVE TypeInv'
  <2>1. Moves(r)
    BY <1>0, <1>16, StepMoves DEF Refused, Steps
  <2>. QED
    BY <1>16, <2>1, DeleteType DEF Refused
<1>17. ASSUME NEW r \in Requests, Delete(r) PROVE TypeInv'
  <2>1. Moves(r)
    BY <1>0, <1>17, StepMoves DEF Delete, Steps
  <2>. QED
    BY <1>17, <2>1, DeleteType DEF Delete
<1>18. ASSUME NEW r \in Requests, NEW k \in Rows, NEW i \in Ids, NEW s \in Serials, Reserve(r, k, i, s)
      PROVE  TypeInv'
  BY <1>18, InsertInserts
  DEF Reserve, TypeInv, TypeOK, TablesOK, Loaded, NoJobYet, Exists, Request, Kinds, Steps, histories
<1>19. ASSUME NEW r \in Requests, NEW k \in Rows, NEW kind \in Kinds, Load(r, k, kind)
      PROVE  TypeInv'
  BY <1>19 DEF Load, TypeInv, TypeOK, TablesOK, Loaded, NoJobYet, Exists, Request, Kinds, Steps, histories
<1>20. CASE Walk
  BY <1>20 DEF Walk, TypeInv, TypeOK, TablesOK, Loaded, NoJobYet, Exists, Onu, NoOnu, histories
<1>21. ASSUME NEW i \in Ids, NEW k \in Rows, BulkRegister(i, k) PROVE TypeInv'
  BY <1>21, InsertInserts DEF BulkRegister, TypeInv, TypeOK, TablesOK, Loaded, NoJobYet, Exists, histories
<1>22. CASE Crash
  BY <1>22 DEF Crash, TypeInv, TypeOK, TablesOK, Loaded, NoJobYet, Exists, Request, Over, Steps
<1>23. CASE UNCHANGED vars
  BY <1>23 DEF vars, TypeInv, TypeOK, TablesOK, Loaded, NoJobYet, Exists, histories
<1>. QED
  BY <1>1, <1>2, <1>3, <1>4, <1>5, <1>6, <1>7, <1>8, <1>9, <1>10, <1>11, <1>12, <1>13, <1>14, <1>15, <1>16, <1>17, <1>18, <1>19, <1>20, <1>21, <1>22, <1>23
  DEF Next, Begin, Start, Execute, FailJob, DeleteONT, Kinds

-----------------------------------------------------------------------------
(* At most one job per row runs, and only its request writes.              *)

\* Jobs end, or go with their row.
LEMMA JobsEnd ==
  ASSUME TypeInv, WritersRun, OneRunsPerRow, NEW r \in Requests, Moves(r),
         \A q \in Requests : job'[q] = "running" => job[q] = "running",
         \A q \in Requests \ {r} : job'[q] \in {job[q], "gone"},
         req'[r].step \in {"running", "registered"} => job'[r] \in {"running", "gone"}
  PROVE  WritersRun' /\ OneRunsPerRow'
BY DEF WritersRun, OneRunsPerRow, Moves

LEMMA NextJobs == Inv /\ [Next]_vars => WritersRun' /\ OneRunsPerRow'
<1>. SUFFICES ASSUME Inv, [Next]_vars PROVE WritersRun' /\ OneRunsPerRow'
  OBVIOUS
<1>. USE ParametersAssumption
<1>0. TypeOK /\ TypeInv /\ WritersRun /\ OneRunsPerRow
  BY DEF Inv, TypeInv
<1>1. ASSUME NEW r \in Requests, RegisterOnu(r) PROVE WritersRun' /\ OneRunsPerRow'
  <2>1. Moves(r)
    BY <1>0, <1>1, StepMoves, FailsMoves DEF RegisterOnu, Steps
  <2>2. req'[r].step \in {"registered", "failing"} /\ job'[r] \in {"running", "gone"}
    BY <1>0, <1>1, StepMoves, FailsMoves DEF RegisterOnu, WritersRun, Steps
  <2>. QED
    BY <1>0, <1>1, <2>1, <2>2, JobsEnd DEF RegisterOnu, TypeOK
<1>2. ASSUME NEW r \in Requests, RegisterRefused(r) PROVE WritersRun' /\ OneRunsPerRow'
  <2>1. Moves(r)
    BY <1>0, <1>2, FailsMoves DEF RegisterRefused, Steps
  <2>2. req'[r].step \notin {"running", "registered"}
    BY <1>0, <1>2, FailsMoves DEF RegisterRefused, Steps
  <2>. QED
    BY <1>0, <1>2, <2>1, <2>2, JobsEnd DEF RegisterRefused, TypeOK
<1>3. ASSUME NEW r \in Requests, Configure(r) PROVE WritersRun' /\ OneRunsPerRow'
  <2>1. Moves(r)
    BY <1>0, <1>3, StepMoves DEF Configure, AtServiceLines, Steps
  <2>2. req'[r].step \notin {"running", "registered"}
    BY <1>0, <1>3, StepMoves DEF Configure, AtServiceLines, Steps
  <2>. QED
    BY <1>0, <1>3, <2>1, <2>2, JobsEnd DEF Configure, TypeOK
<1>4. ASSUME NEW r \in Requests, ConfigureRefused(r) PROVE WritersRun' /\ OneRunsPerRow'
  <2>1. Moves(r)
    BY <1>0, <1>4, FailsMoves DEF ConfigureRefused, AtServiceLines, Steps
  <2>2. req'[r].step \notin {"running", "registered"}
    BY <1>0, <1>4, FailsMoves DEF ConfigureRefused, AtServiceLines, Steps
  <2>. QED
    BY <1>0, <1>4, <2>1, <2>2, JobsEnd DEF ConfigureRefused, TypeOK
<1>5. ASSUME NEW r \in Requests, Verify(r) PROVE WritersRun' /\ OneRunsPerRow'
  <2>1. Moves(r)
    BY <1>0, <1>5, StepMoves, FailsMoves DEF Verify, Steps
  <2>2. req'[r].step \notin {"running", "registered"}
    BY <1>0, <1>5, StepMoves, FailsMoves DEF Verify, Steps
  <2>. QED
    BY <1>0, <1>5, <2>1, <2>2, JobsEnd DEF Verify, TypeOK
<1>6. ASSUME NEW r \in Requests, Succeed(r) PROVE WritersRun' /\ OneRunsPerRow'
  <2>1. Moves(r)
    BY <1>0, <1>6, StepMoves DEF Succeed, Steps
  <2>2. req'[r].step \notin {"running", "registered"}
    BY <1>0, <1>6, StepMoves DEF Succeed, Steps
  <2>. QED
    BY <1>0, <1>6, <2>1, <2>2, JobsEnd DEF Succeed, TypeOK
<1>7. ASSUME NEW r \in Requests, MarkFailed(r) PROVE WritersRun' /\ OneRunsPerRow'
  <2>1. Moves(r)
    BY <1>0, <1>7, StepMoves DEF MarkFailed, Steps
  <2>2. req'[r].step \notin {"running", "registered"}
    BY <1>0, <1>7, StepMoves DEF MarkFailed, Steps
  <2>. QED
    BY <1>0, <1>7, <2>1, <2>2, JobsEnd DEF MarkFailed, TypeOK
<1>8. ASSUME NEW r \in Requests, RemoveOnu(r) PROVE WritersRun' /\ OneRunsPerRow'
  <2>1. Moves(r)
    BY <1>0, <1>8, StepMoves DEF RemoveOnu, Steps
  <2>2. req'[r].step \notin {"running", "registered"}
    BY <1>0, <1>8, StepMoves DEF RemoveOnu, Steps
  <2>. QED
    BY <1>0, <1>8, <2>1, <2>2, JobsEnd DEF RemoveOnu, TypeOK, MarkRolledBack
<1>9. ASSUME NEW r \in Requests, RemoveOnuFails(r) PROVE WritersRun' /\ OneRunsPerRow'
  <2>1. Moves(r)
    BY <1>0, <1>9, StepMoves DEF RemoveOnuFails, Steps
  <2>2. req'[r].step \notin {"running", "registered"}
    BY <1>0, <1>9, StepMoves DEF RemoveOnuFails, Steps
  <2>. QED
    BY <1>0, <1>9, <2>1, <2>2, JobsEnd DEF RemoveOnuFails, TypeOK
<1>10. ASSUME NEW r \in Requests, Restore(r) PROVE WritersRun' /\ OneRunsPerRow'
  <2>1. Moves(r)
    BY <1>0, <1>10, StepMoves DEF Restore, Steps
  <2>2. req'[r].step \notin {"running", "registered"}
    BY <1>0, <1>10, StepMoves DEF Restore, Steps
  <2>. QED
    BY <1>0, <1>10, <2>1, <2>2, JobsEnd DEF Restore, TypeOK, MarkRolledBack
<1>11. ASSUME NEW r \in Requests, CreateProvisioningJob(r) PROVE WritersRun' /\ OneRunsPerRow'
  <2>1. Moves(r)
    BY <1>0, <1>11, StepMoves DEF CreateProvisioningJob, Steps
  <2>2. req'[r].step \notin {"running", "registered"}
    BY <1>0, <1>11, StepMoves DEF CreateProvisioningJob, Steps
  <2>. QED
    BY <1>0, <1>11, <2>1, <2>2, JobsEnd DEF CreateProvisioningJob, TypeOK
<1>12. ASSUME NEW r \in Requests, MarkRunning(r) PROVE WritersRun' /\ OneRunsPerRow'
  <2>1. Moves(r)
    BY <1>0, <1>12, StepMoves DEF MarkRunning, Steps
  <2>2. CASE job[r] = "pending" /\ ~AlreadyRunning(req[r].row, r)
    BY <1>0, <1>12, <2>1, <2>2 DEF MarkRunning, AlreadyRunning, TypeOK, WritersRun, OneRunsPerRow, Moves
  <2>3. CASE ~(job[r] = "pending" /\ ~AlreadyRunning(req[r].row, r))
    <3>1. req'[r].step \in {"over", "refused"}
      BY <1>0, <1>12, <2>3, StepMoves DEF MarkRunning, Steps
    <3>. QED
      BY <1>0, <1>12, <2>1, <2>3, <3>1, JobsEnd DEF MarkRunning
  <2>. QED
    BY <2>2, <2>3
<1>13. ASSUME NEW r \in Requests, ClearFromOLT(r) PROVE WritersRun' /\ OneRunsPerRow'
  <2>1. Moves(r)
    BY <1>0, <1>13, StepMoves DEF ClearFromOLT, Steps
  <2>2. req'[r].step \notin {"running", "registered"}
    BY <1>0, <1>13, StepMoves DEF ClearFromOLT, Steps
  <2>. QED
    BY <1>0, <1>13, <2>1, <2>2, JobsEnd DEF ClearFromOLT, TypeOK
<1>14. ASSUME NEW r \in Requests, ClearFails(r) PROVE WritersRun' /\ OneRunsPerRow'
  <2>1. Moves(r)
    BY <1>0, <1>14, StepMoves DEF ClearFails, Steps
  <2>2. req'[r].step \notin {"running", "registered"}
    BY <1>0, <1>14, StepMoves DEF ClearFails, Steps
  <2>. QED
    BY <1>0, <1>14, <2>1, <2>2, JobsEnd DEF ClearFails, TypeOK
<1>15. ASSUME NEW r \in Requests, ForgetRow(r) PROVE WritersRun' /\ OneRunsPerRow'
  <2>1. Moves(r)
    BY <1>0, <1>15, StepMoves DEF ForgetRow, Steps
  <2>2. req'[r].step \notin {"running", "registered"}
    BY <1>0, <1>15, StepMoves DEF ForgetRow, Steps
  <2>. QED
    BY <1>0, <1>15, <2>1, <2>2, JobsEnd, DeleteRowDeletes DEF ForgetRow
<1>16. ASSUME NEW r \in Requests, Refused(r) PROVE WritersRun' /\ OneRunsPerRow'
  <2>1. Moves(r)
    BY <1>0, <1>16, StepMoves DEF Refused, Steps
  <2>2. req'[r].step \notin {"running", "registered"}
    BY <1>0, <1>16, StepMoves DEF Refused, Steps
  <2>. QED
    BY <1>0, <1>16, <2>1, <2>2, JobsEnd, DeleteRowDeletes DEF Refused
<1>17. ASSUME NEW r \in Requests, Delete(r) PROVE WritersRun' /\ OneRunsPerRow'
  <2>1. Moves(r)
    BY <1>0, <1>17, StepMoves DEF Delete, Steps
  <2>2. req'[r].step \notin {"running", "registered"}
    BY <1>0, <1>17, StepMoves DEF Delete, Steps
  <2>. QED
    BY <1>0, <1>17, <2>1, <2>2, JobsEnd, DeleteRowDeletes DEF Delete
<1>18. ASSUME NEW r \in Requests, NEW k \in Rows, NEW i \in Ids, NEW s \in Serials, Reserve(r, k, i, s)
      PROVE  WritersRun' /\ OneRunsPerRow'
  BY <1>0, <1>18 DEF Reserve, WritersRun, OneRunsPerRow, TypeInv, NoJobYet, TypeOK
<1>19. ASSUME NEW r \in Requests, NEW k \in Rows, NEW kind \in Kinds, Load(r, k, kind)
      PROVE  WritersRun' /\ OneRunsPerRow'
  BY <1>0, <1>19 DEF Load, WritersRun, OneRunsPerRow, TypeInv, NoJobYet, TypeOK
<1>20. CASE Walk
  BY <1>0, <1>20 DEF Walk, WritersRun, OneRunsPerRow
<1>21. ASSUME NEW i \in Ids, NEW k \in Rows, BulkRegister(i, k) PROVE WritersRun' /\ OneRunsPerRow'
  BY <1>0, <1>21 DEF BulkRegister, WritersRun, OneRunsPerRow
<1>22. CASE Crash
  BY <1>0, <1>22 DEF Crash, TypeOK, Request, WritersRun, OneRunsPerRow, Over
<1>23. CASE UNCHANGED vars
  BY <1>0, <1>23 DEF vars, WritersRun, OneRunsPerRow
<1>. QED
  BY <1>1, <1>2, <1>3, <1>4, <1>5, <1>6, <1>7, <1>8, <1>9, <1>10, <1>11, <1>12, <1>13, <1>14, <1>15, <1>16, <1>17, <1>18, <1>19, <1>20, <1>21, <1>22, <1>23
  DEF Next, Begin, Start, Execute, FailJob, DeleteONT, Kinds

-----------------------------------------------------------------------------
(* A request owns what it put on the chassis, and nothing else.            *)

\* A request moves on and the chassis stays: what it owned it still owns,
\* unless it is astray or over, and it owns nothing new.
LEMMA ChassisStays ==
  ASSUME TypeInv, OwnersAreRight, Traceable, NEW r \in Requests, Moves(r),
         UNCHANGED chassis, taken \subseteq taken', astray \subseteq astray',
         Owns(r)' => Owns(r),
         Owns(r) => Owns(r)' \/ r \in astray' \/ req'[r].step \in {"succeeded", "over"},
         req[r].step \notin {"succeeded", "over"}
  PROVE  OwnersAreRight' /\ Traceable'
<1>1. \A q \in Requests \ {r} : Owns(q)' <=> Owns(q)
  BY DEF Moves, Owns
<1>2. OwnersAreRight'
  BY <1>1 DEF OwnersAreRight, Moves
<1>3. Traceable'
  BY <1>1 DEF Traceable, Moves, TypeInv, TypeOK
<1>. QED
  BY <1>2, <1>3

\* An ONU goes that no other request owns.
LEMMA ChassisLoses ==
  ASSUME TypeInv, OwnersAreRight, Traceable, NEW r \in Requests, Moves(r), NEW i \in Ids,
         chassis' = [chassis EXCEPT ![i] = NoOnu], UNCHANGED astray,
         taken \subseteq taken', i \in taken' \/ chassis[i].by = r,
         ~Owns(r)', req[r].kind = "register" => req[r].at = i
  PROVE  OwnersAreRight' /\ Traceable'
<1>1. \A q \in Requests \ {r} : Owns(q)' <=> Owns(q)
  BY DEF Moves, Owns
<1>2. \A j \in Ids : chassis'[j] = IF j = i THEN NoOnu ELSE chassis[j]
  BY DEF TypeInv, TypeOK
<1>3. OwnersAreRight'
  BY <1>1, <1>2 DEF OwnersAreRight, Moves, Owns
<1>4. \A j \in Ids, q \in Requests : chassis'[j].by = q => chassis[j].by = q /\ j # i
  BY <1>2, ParametersAssumption DEF NoOnu
<1>5. \A j \in Ids : chassis'[j].by # r
  BY <1>4 DEF Traceable
<1>6. Traceable'
  BY <1>1, <1>4, <1>5 DEF Traceable, Moves
<1>. QED
  BY <1>3, <1>6

LEMMA NextChassis == Inv /\ [Next]_vars => OwnersAreRight' /\ Traceable'
<1>. SUFFICES ASSUME Inv, [Next]_vars PROVE OwnersAreRight' /\ Traceable'
  OBVIOUS
<1>. USE ParametersAssumption
<1>0. TypeOK /\ TypeInv /\ OwnersAreRight /\ Traceable
  BY DEF Inv, TypeInv
<1>1. ASSUME NEW r \in Requests, RegisterOnu(r) PROVE OwnersAreRight' /\ Traceable'
  <2>. DEFINE i == req[r].at
  <2>1. Moves(r) /\ i \in Ids /\ req[r].step = "running" /\ req[r].kind = "register"
    BY <1>0, <1>1, StepMoves, FailsMoves DEF RegisterOnu, Steps, TypeInv, Loaded
  <2>2. \/ req'[r].step = "registered" /\ astray' = astray
        \/ req'[r].step = "failing" /\ req'[r].created = FALSE /\ astray' = astray \cup {r}
    BY <1>0, <1>1, StepMoves, FailsMoves DEF RegisterOnu, Steps
  <2>3. chassis[i] = NoOnu /\ \A j \in Ids : chassis'[j].by = IF j = i THEN r ELSE chassis[j].by
    BY <1>0, <1>1, <2>1 DEF RegisterOnu, Accepts, TypeOK
  <2>4. \A q \in Requests \ {r} : (Owns(q)' <=> Owns(q)) /\ req'[q].step = req[q].step
    BY <2>1 DEF Moves, Owns
  <2>5. chassis[i].by \notin Requests /\ taken' = taken
    BY <1>1, <2>3 DEF NoOnu, RegisterOnu
  <2>6. OwnersAreRight'
    <3>1. \A q \in Requests \ {r} : Owns(q)' /\ req'[q].at \notin taken' => chassis'[req'[q].at].by = q
      <4>. SUFFICES ASSUME NEW q \in Requests \ {r}, Owns(q), req[q].at \notin taken
                    PROVE  chassis'[req[q].at].by = q
        BY <2>1, <2>4, <2>5 DEF Moves
      <4>1. chassis[req[q].at].by = q
        BY <1>0 DEF OwnersAreRight
      <4>2. req[q].at \in Ids /\ req[q].at # i
        BY <1>0, <2>5, <4>1 DEF TypeInv, Loaded, Owns
      <4>. QED
        BY <2>3, <4>1, <4>2
    <3>2. chassis'[req'[r].at].by = r
      BY <2>1, <2>3 DEF Moves
    <3>. QED
      BY <3>1, <3>2 DEF OwnersAreRight
  <2>7. Traceable'
    <3>. SUFFICES ASSUME NEW q \in Requests, NEW j \in Ids, chassis'[j].by = q
                  PROVE  /\ req'[q].step # "new" /\ req'[q].kind = "register" /\ req'[q].at = j
                         /\ q \in astray' \/ Owns(q)' \/ req'[q].step \in {"succeeded", "over"}
      BY DEF Traceable
    <3>1. CASE j = i
      <4>1. q = r
        BY <2>3, <3>1
      <4>. QED
        BY <2>1, <2>2, <3>1, <4>1 DEF Moves, Owns
    <3>2. CASE j # i
      <4>1. chassis[j].by = q
        BY <2>3, <3>2
      <4>2. /\ req[q].step # "new" /\ req[q].kind = "register" /\ req[q].at = j
            /\ q \in astray \/ Owns(q) \/ req[q].step \in {"succeeded", "over"}
        BY <1>0, <4>1 DEF Traceable
      <4>3. q # r
        BY <3>2, <4>2
      <4>. QED
        BY <2>1, <2>2, <2>4, <4>2, <4>3 DEF Moves
    <3>. QED
      BY <3>1, <3>2
  <2>. QED
    BY <2>6, <2>7
<1>2. ASSUME NEW r \in Requests, RegisterRefused(r) PROVE OwnersAreRight' /\ Traceable'
  <2>1. Moves(r)
    BY <1>0, <1>2, FailsMoves DEF RegisterRefused, Steps
  <2>2. Owns(r)' => Owns(r)
    BY <1>0, <1>2, <2>1, FailsMoves DEF RegisterRefused, Steps, Owns, Moves
  <2>3. Owns(r) => Owns(r)' \/ r \in astray' \/ req'[r].step \in {"succeeded", "over"}
    BY <1>0, <1>2, <2>1, FailsMoves DEF RegisterRefused, Steps, Owns, Moves
  <2>4. req[r].step \notin {"succeeded", "over"}
    BY <1>2 DEF RegisterRefused
  <2>. QED
    BY <1>0, <1>2, <2>1, <2>2, <2>3, <2>4, ChassisStays DEF RegisterRefused, histories
<1>3. ASSUME NEW r \in Requests, Configure(r) PROVE OwnersAreRight' /\ Traceable'
  <2>1. Moves(r)
    BY <1>0, <1>3, StepMoves DEF Configure, AtServiceLines, Steps
  <2>2. Owns(r)' => Owns(r)
    BY <1>0, <1>3, <2>1, StepMoves DEF Configure, AtServiceLines, Steps, Owns, Moves
  <2>3. Owns(r) => Owns(r)' \/ r \in astray' \/ req'[r].step \in {"succeeded", "over"}
    BY <1>0, <1>3, <2>1, StepMoves DEF Configure, AtServiceLines, Steps, Owns, Moves
  <2>4. req[r].step \notin {"succeeded", "over"}
    BY <1>3 DEF Configure, AtServiceLines
  <2>. QED
    BY <1>0, <1>3, <2>1, <2>2, <2>3, <2>4, ChassisStays DEF Configure, histories
<1>4. ASSUME NEW r \in Requests, ConfigureRefused(r) PROVE OwnersAreRight' /\ Traceable'
  <2>1. Moves(r)
    BY <1>0, <1>4, FailsMoves DEF ConfigureRefused, AtServiceLines, Steps
  <2>2. Owns(r)' => Owns(r)
    BY <1>0, <1>4, <2>1, FailsMoves DEF ConfigureRefused, AtServiceLines, Steps, Owns, Moves
  <2>3. Owns(r) => Owns(r)' \/ r \in astray' \/ req'[r].step \in {"succeeded", "over"}
    BY <1>0, <1>4, <2>1, FailsMoves DEF ConfigureRefused, AtServiceLines, Steps, Owns, Moves
  <2>4. req[r].step \notin {"succeeded", "over"}
    BY <1>4 DEF ConfigureRefused, AtServiceLines
  <2>. QED
    BY <1>0, <1>4, <2>1, <2>2, <2>3, <2>4, ChassisStays DEF ConfigureRefused, histories
<1>5. ASSUME NEW r \in Requests, Verify(r) PROVE OwnersAreRight' /\ Traceable'
  <2>1. Moves(r)
    BY <1>0, <1>5, StepMoves, FailsMoves DEF Verify, Steps
  <2>2. Owns(r)' => Owns(r)
    BY <1>0, <1>5, <2>1, StepMoves, FailsMoves DEF Verify, Steps, Owns, Moves
  <2>3. Owns(r) => Owns(r)' \/ r \in astray' \/ req'[r].step \in {"succeeded", "over"}
    BY <1>0, <1>5, <2>1, StepMoves, FailsMoves DEF Verify, Steps, Owns, Moves
  <2>4. req[r].step \notin {"succeeded", "over"}
    BY <1>5 DEF Verify
  <2>. QED
    BY <1>0, <1>5, <2>1, <2>2, <2>3, <2>4, ChassisStays DEF Verify, histories
<1>6. ASSUME NEW r \in Requests, Succeed(r) PROVE OwnersAreRight' /\ Traceable'
  <2>1. Moves(r)
    BY <1>0, <1>6, StepMoves DEF Succeed, Steps
  <2>2. Owns(r)' => Owns(r)
    BY <1>0, <1>6, <2>1, StepMoves DEF Succeed, Steps, Owns, Moves
  <2>3. Owns(r) => Owns(r)' \/ r \in astray' \/ req'[r].step \in {"succeeded", "over"}
    BY <1>0, <1>6, <2>1, StepMoves DEF Succeed, Steps, Owns, Moves
  <2>4. req[r].step \notin {"succeeded", "over"}
    BY <1>6 DEF Succeed
  <2>. QED
    BY <1>0, <1>6, <2>1, <2>2, <2>3, <2>4, ChassisStays DEF Succeed, histories
<1>7. ASSUME NEW r \in Requests, MarkFailed(r) PROVE OwnersAreRight' /\ Traceable'
  <2>1. Moves(r)
    BY <1>0, <1>7, StepMoves DEF MarkFailed, Steps
  <2>2. Owns(r)' => Owns(r)
    BY <1>0, <1>7, <2>1, StepMoves DEF MarkFailed, Steps, Owns, Moves
  <2>3. Owns(r) => Owns(r)' \/ r \in astray' \/ req'[r].step \in {"succeeded", "over"}
    BY <1>0, <1>7, <2>1, StepMoves DEF MarkFailed, Steps, Owns, Moves
  <2>4. req[r].step \notin {"succeeded", "over"}
    BY <1>7 DEF MarkFailed
  <2>. QED
    BY <1>0, <1>7, <2>1, <2>2, <2>3, <2>4, ChassisStays DEF MarkFailed, histories
<1>8. ASSUME NEW r \in Requests, RemoveOnu(r) PROVE OwnersAreRight' /\ Traceable'
  <2>1. Moves(r) /\ req'[r].step = "failed"
    BY <1>0, <1>8, StepMoves DEF RemoveOnu, Steps
  <2>2. req[r].at \in Ids /\ Owns(r) /\ ~Owns(r)'
    BY <1>0, <1>8, <2>1 DEF RemoveOnu, TypeInv, Loaded, Owns
  <2>3. req[r].at \in taken' \/ chassis[req[r].at].by = r
    BY <1>0, <1>8, <2>2 DEF RemoveOnu, OwnersAreRight, histories
  <2>. QED
    BY <1>0, <1>8, <2>1, <2>2, <2>3, ChassisLoses DEF RemoveOnu, histories
<1>9. ASSUME NEW r \in Requests, RemoveOnuFails(r) PROVE OwnersAreRight' /\ Traceable'
  <2>1. Moves(r)
    BY <1>0, <1>9, StepMoves DEF RemoveOnuFails, Steps
  <2>2. Owns(r)' => Owns(r)
    BY <1>0, <1>9, <2>1, StepMoves DEF RemoveOnuFails, Steps, Owns, Moves
  <2>3. Owns(r) => Owns(r)' \/ r \in astray' \/ req'[r].step \in {"succeeded", "over"}
    BY <1>0, <1>9, <2>1, StepMoves DEF RemoveOnuFails, Steps, Owns, Moves
  <2>4. req[r].step \notin {"succeeded", "over"}
    BY <1>9 DEF RemoveOnuFails
  <2>. QED
    BY <1>0, <1>9, <2>1, <2>2, <2>3, <2>4, ChassisStays DEF RemoveOnuFails, histories
<1>10. ASSUME NEW r \in Requests, Restore(r) PROVE OwnersAreRight' /\ Traceable'
  <2>1. Moves(r)
    BY <1>0, <1>10, StepMoves DEF Restore, Steps
  <2>2. Owns(r)' => Owns(r)
    BY <1>0, <1>10, <2>1, StepMoves DEF Restore, Steps, Owns, Moves
  <2>3. Owns(r) => Owns(r)' \/ r \in astray' \/ req'[r].step \in {"succeeded", "over"}
    BY <1>0, <1>10, <2>1, StepMoves DEF Restore, Steps, Owns, Moves
  <2>4. req[r].step \notin {"succeeded", "over"}
    BY <1>10 DEF Restore
  <2>. QED
    BY <1>0, <1>10, <2>1, <2>2, <2>3, <2>4, ChassisStays DEF Restore, histories
<1>11. ASSUME NEW r \in Requests, CreateProvisioningJob(r) PROVE OwnersAreRight' /\ Traceable'
  <2>1. Moves(r)
    BY <1>0, <1>11, StepMoves DEF CreateProvisioningJob, Steps
  <2>2. Owns(r)' => Owns(r)
    BY <1>0, <1>11, <2>1, StepMoves DEF CreateProvisioningJob, Steps, Owns, Moves
  <2>3. Owns(r) => Owns(r)' \/ r \in astray' \/ req'[r].step \in {"succeeded", "over"}
    BY <1>0, <1>11, <2>1, StepMoves DEF CreateProvisioningJob, Steps, Owns, Moves
  <2>4. req[r].step \notin {"succeeded", "over"}
    BY <1>11 DEF CreateProvisioningJob
  <2>. QED
    BY <1>0, <1>11, <2>1, <2>2, <2>3, <2>4, ChassisStays DEF CreateProvisioningJob, histories
<1>12. ASSUME NEW r \in Requests, MarkRunning(r) PROVE OwnersAreRight' /\ Traceable'
  <2>1. Moves(r)
    BY <1>0, <1>12, StepMoves DEF MarkRunning, Steps
  <2>2. Owns(r)' => Owns(r)
    BY <1>0, <1>12, <2>1, StepMoves DEF MarkRunning, Steps, Owns, Moves
  <2>3. Owns(r) => Owns(r)' \/ r \in astray' \/ req'[r].step \in {"succeeded", "over"}
    BY <1>0, <1>12, <2>1, StepMoves DEF MarkRunning, Steps, Owns, Moves
  <2>4. req[r].step \notin {"succeeded", "over"}
    BY <1>12 DEF MarkRunning
  <2>. QED
    BY <1>0, <1>12, <2>1, <2>2, <2>3, <2>4, ChassisStays DEF MarkRunning, histories
<1>13. ASSUME NEW r \in Requests, ClearFromOLT(r) PROVE OwnersAreRight' /\ Traceable'
  <2>1. Moves(r) /\ req'[r].step \in {"cleared", "over"}
    BY <1>0, <1>13, StepMoves DEF ClearFromOLT, Steps
  <2>2. req[r].at \in Ids /\ req[r].kind = "remove" /\ ~Owns(r)'
    BY <1>0, <1>13, <2>1 DEF ClearFromOLT, TypeInv, Loaded, Owns
  <2>. QED
    BY <1>0, <1>13, <2>1, <2>2, ChassisLoses DEF ClearFromOLT
<1>14. ASSUME NEW r \in Requests, ClearFails(r) PROVE OwnersAreRight' /\ Traceable'
  <2>1. Moves(r)
    BY <1>0, <1>14, StepMoves DEF ClearFails, Steps
  <2>2. Owns(r)' => Owns(r)
    BY <1>0, <1>14, <2>1, StepMoves DEF ClearFails, Steps, Owns, Moves
  <2>3. Owns(r) => Owns(r)' \/ r \in astray' \/ req'[r].step \in {"succeeded", "over"}
    BY <1>0, <1>14, <2>1, StepMoves DEF ClearFails, Steps, Owns, Moves
  <2>4. req[r].step \notin {"succeeded", "over"}
    BY <1>14 DEF ClearFails
  <2>. QED
    BY <1>0, <1>14, <2>1, <2>2, <2>3, <2>4, ChassisStays DEF ClearFails, histories
<1>15. ASSUME NEW r \in Requests, ForgetRow(r) PROVE OwnersAreRight' /\ Traceable'
  <2>1. Moves(r)
    BY <1>0, <1>15, StepMoves DEF ForgetRow, Steps
  <2>2. Owns(r)' => Owns(r)
    BY <1>0, <1>15, <2>1, StepMoves DEF ForgetRow, Steps, Owns, Moves
  <2>3. Owns(r) => Owns(r)' \/ r \in astray' \/ req'[r].step \in {"succeeded", "over"}
    BY <1>0, <1>15, <2>1, StepMoves DEF ForgetRow, Steps, Owns, Moves
  <2>4. req[r].step \notin {"succeeded", "over"}
    BY <1>15 DEF ForgetRow
  <2>. QED
    BY <1>0, <1>15, <2>1, <2>2, <2>3, <2>4, ChassisStays DEF ForgetRow, histories
<1>16. ASSUME NEW r \in Requests, Refused(r) PROVE OwnersAreRight' /\ Traceable'
  <2>1. Moves(r)
    BY <1>0, <1>16, StepMoves DEF Refused, Steps
  <2>2. Owns(r)' => Owns(r)
    BY <1>0, <1>16, <2>1, StepMoves DEF Refused, Steps, Owns, Moves
  <2>3. Owns(r) => Owns(r)' \/ r \in astray' \/ req'[r].step \in {"succeeded", "over"}
    BY <1>0, <1>16, <2>1, StepMoves DEF Refused, Steps, Owns, Moves
  <2>4. req[r].step \notin {"succeeded", "over"}
    BY <1>16 DEF Refused
  <2>. QED
    BY <1>0, <1>16, <2>1, <2>2, <2>3, <2>4, ChassisStays DEF Refused, histories
<1>17. ASSUME NEW r \in Requests, Delete(r) PROVE OwnersAreRight' /\ Traceable'
  <2>1. Moves(r)
    BY <1>0, <1>17, StepMoves DEF Delete, Steps
  <2>2. Owns(r)' => Owns(r)
    BY <1>0, <1>17, <2>1, StepMoves DEF Delete, Steps, Owns, Moves
  <2>3. Owns(r) => Owns(r)' \/ r \in astray' \/ req'[r].step \in {"succeeded", "over"}
    BY <1>0, <1>17, <2>1, StepMoves DEF Delete, Steps, Owns, Moves
  <2>4. req[r].step \notin {"succeeded", "over"}
    BY <1>17 DEF Delete
  <2>. QED
    BY <1>0, <1>17, <2>1, <2>2, <2>3, <2>4, ChassisStays DEF Delete, histories
<1>18. ASSUME NEW r \in Requests, NEW k \in Rows, NEW i \in Ids, NEW s \in Serials, Reserve(r, k, i, s)
      PROVE  OwnersAreRight' /\ Traceable'
  BY <1>0, <1>18 DEF Reserve, OwnersAreRight, Traceable, Owns, TypeOK, histories
<1>19. ASSUME NEW r \in Requests, NEW k \in Rows, NEW kind \in Kinds, Load(r, k, kind)
      PROVE  OwnersAreRight' /\ Traceable'
  BY <1>0, <1>19 DEF Load, OwnersAreRight, Traceable, Owns, TypeOK, histories
<1>20. CASE Walk
  BY <1>0, <1>20 DEF Walk, OwnersAreRight, Traceable, Owns, histories
<1>21. ASSUME NEW i \in Ids, NEW k \in Rows, BulkRegister(i, k) PROVE OwnersAreRight' /\ Traceable'
  BY <1>0, <1>21 DEF BulkRegister, OwnersAreRight, Traceable, Owns, histories
<1>22. CASE Crash
  BY <1>0, <1>22 DEF Crash, OwnersAreRight, Traceable, Owns, TypeOK, Request, Over
<1>23. CASE UNCHANGED vars
  BY <1>0, <1>23 DEF vars, OwnersAreRight, Traceable, Owns, histories
<1>. QED
  BY <1>1, <1>2, <1>3, <1>4, <1>5, <1>6, <1>7, <1>8, <1>9, <1>10, <1>11, <1>12, <1>13, <1>14, <1>15, <1>16, <1>17, <1>18, <1>19, <1>20, <1>21, <1>22, <1>23
  DEF Next, Begin, Start, Execute, FailJob, DeleteONT, Kinds

-----------------------------------------------------------------------------
(* The row of a failed registration is gone and does not come back.        *)

LEMMA RowStaysGone ==
  ASSUME TypeInv, Forgotten, NEW r \in Requests, Moves(r), DOMAIN onts' \subseteq DOMAIN onts,
         req[r].kind = "register" /\ req'[r].step \in {"undoing", "failed"} => req[r].row \notin DOMAIN onts'
  PROVE  Forgotten'
BY DEF Forgotten, Moves

LEMMA NextForgotten == Inv /\ [Next]_vars => Forgotten'
<1>. SUFFICES ASSUME Inv, [Next]_vars PROVE Forgotten'
  OBVIOUS
<1>. USE ParametersAssumption
<1>0. TypeOK /\ TypeInv /\ Forgotten
  BY DEF Inv, TypeInv
<1>1. ASSUME NEW r \in Requests, RegisterOnu(r) PROVE Forgotten'
  <2>1. Moves(r)
    BY <1>0, <1>1, StepMoves, FailsMoves DEF RegisterOnu, Steps
  <2>2. DOMAIN onts' \subseteq DOMAIN onts
    BY <1>0, <1>1 DEF RegisterOnu
  <2>3. req[r].kind = "register" /\ req'[r].step \in {"undoing", "failed"} => req[r].row \notin DOMAIN onts'
    BY <1>0, <1>1, StepMoves, FailsMoves DEF RegisterOnu, Steps, Forgotten
  <2>. QED
    BY <1>0, <2>1, <2>2, <2>3, RowStaysGone
<1>2. ASSUME NEW r \in Requests, RegisterRefused(r) PROVE Forgotten'
  <2>1. Moves(r)
    BY <1>0, <1>2, FailsMoves DEF RegisterRefused, Steps
  <2>2. DOMAIN onts' \subseteq DOMAIN onts
    BY <1>0, <1>2 DEF RegisterRefused
  <2>3. req[r].kind = "register" /\ req'[r].step \in {"undoing", "failed"} => req[r].row \notin DOMAIN onts'
    BY <1>0, <1>2, FailsMoves DEF RegisterRefused, Steps, Forgotten
  <2>. QED
    BY <1>0, <2>1, <2>2, <2>3, RowStaysGone
<1>3. ASSUME NEW r \in Requests, Configure(r) PROVE Forgotten'
  <2>1. Moves(r)
    BY <1>0, <1>3, StepMoves DEF Configure, AtServiceLines, Steps
  <2>2. DOMAIN onts' \subseteq DOMAIN onts
    BY <1>0, <1>3 DEF Configure
  <2>3. req[r].kind = "register" /\ req'[r].step \in {"undoing", "failed"} => req[r].row \notin DOMAIN onts'
    BY <1>0, <1>3, StepMoves DEF Configure, AtServiceLines, Steps, Forgotten
  <2>. QED
    BY <1>0, <2>1, <2>2, <2>3, RowStaysGone
<1>4. ASSUME NEW r \in Requests, ConfigureRefused(r) PROVE Forgotten'
  <2>1. Moves(r)
    BY <1>0, <1>4, FailsMoves DEF ConfigureRefused, AtServiceLines, Steps
  <2>2. DOMAIN onts' \subseteq DOMAIN onts
    BY <1>0, <1>4 DEF ConfigureRefused
  <2>3. req[r].kind = "register" /\ req'[r].step \in {"undoing", "failed"} => req[r].row \notin DOMAIN onts'
    BY <1>0, <1>4, FailsMoves DEF ConfigureRefused, AtServiceLines, Steps, Forgotten
  <2>. QED
    BY <1>0, <2>1, <2>2, <2>3, RowStaysGone
<1>5. ASSUME NEW r \in Requests, Verify(r) PROVE Forgotten'
  <2>1. Moves(r)
    BY <1>0, <1>5, StepMoves, FailsMoves DEF Verify, Steps
  <2>2. DOMAIN onts' \subseteq DOMAIN onts
    BY <1>0, <1>5 DEF Verify
  <2>3. req[r].kind = "register" /\ req'[r].step \in {"undoing", "failed"} => req[r].row \notin DOMAIN onts'
    BY <1>0, <1>5, StepMoves, FailsMoves DEF Verify, Steps, Forgotten
  <2>. QED
    BY <1>0, <2>1, <2>2, <2>3, RowStaysGone
<1>6. ASSUME NEW r \in Requests, Succeed(r) PROVE Forgotten'
  <2>1. Moves(r)
    BY <1>0, <1>6, StepMoves DEF Succeed, Steps
  <2>2. DOMAIN onts' \subseteq DOMAIN onts
    BY <1>0, <1>6 DEF Succeed
  <2>3. req[r].kind = "register" /\ req'[r].step \in {"undoing", "failed"} => req[r].row \notin DOMAIN onts'
    BY <1>0, <1>6, StepMoves DEF Succeed, Steps, Forgotten
  <2>. QED
    BY <1>0, <2>1, <2>2, <2>3, RowStaysGone
<1>7. ASSUME NEW r \in Requests, MarkFailed(r) PROVE Forgotten'
  <2>1. Moves(r)
    BY <1>0, <1>7, StepMoves DEF MarkFailed, Steps
  <2>2. DOMAIN onts' \subseteq DOMAIN onts
    BY <1>0, <1>7 DEF MarkFailed
  <2>3. req[r].kind = "register" /\ req'[r].step \in {"undoing", "failed"} => req[r].row \notin DOMAIN onts'
    BY <1>0, <1>7, StepMoves DEF MarkFailed, Steps, Forgotten
  <2>. QED
    BY <1>0, <2>1, <2>2, <2>3, RowStaysGone
<1>8. ASSUME NEW r \in Requests, RemoveOnu(r) PROVE Forgotten'
  <2>1. Moves(r)
    BY <1>0, <1>8, StepMoves DEF RemoveOnu, Steps
  <2>2. DOMAIN onts' \subseteq DOMAIN onts
    BY <1>0, <1>8 DEF RemoveOnu
  <2>3. req[r].kind = "register" /\ req'[r].step \in {"undoing", "failed"} => req[r].row \notin DOMAIN onts'
    BY <1>0, <1>8, StepMoves DEF RemoveOnu, Steps, Forgotten
  <2>. QED
    BY <1>0, <2>1, <2>2, <2>3, RowStaysGone
<1>9. ASSUME NEW r \in Requests, RemoveOnuFails(r) PROVE Forgotten'
  <2>1. Moves(r)
    BY <1>0, <1>9, StepMoves DEF RemoveOnuFails, Steps
  <2>2. DOMAIN onts' \subseteq DOMAIN onts
    BY <1>0, <1>9 DEF RemoveOnuFails
  <2>3. req[r].kind = "register" /\ req'[r].step \in {"undoing", "failed"} => req[r].row \notin DOMAIN onts'
    BY <1>0, <1>9, StepMoves DEF RemoveOnuFails, Steps, Forgotten
  <2>. QED
    BY <1>0, <2>1, <2>2, <2>3, RowStaysGone
<1>10. ASSUME NEW r \in Requests, Restore(r) PROVE Forgotten'
  <2>1. Moves(r)
    BY <1>0, <1>10, StepMoves DEF Restore, Steps
  <2>2. DOMAIN onts' \subseteq DOMAIN onts
    BY <1>0, <1>10 DEF Restore
  <2>3. req[r].kind = "register" /\ req'[r].step \in {"undoing", "failed"} => req[r].row \notin DOMAIN onts'
    BY <1>0, <1>10, StepMoves DEF Restore, Steps, Forgotten
  <2>. QED
    BY <1>0, <2>1, <2>2, <2>3, RowStaysGone
<1>11. ASSUME NEW r \in Requests, CreateProvisioningJob(r) PROVE Forgotten'
  <2>1. Moves(r)
    BY <1>0, <1>11, StepMoves DEF CreateProvisioningJob, Steps
  <2>2. DOMAIN onts' \subseteq DOMAIN onts
    BY <1>0, <1>11 DEF CreateProvisioningJob
  <2>3. req[r].kind = "register" /\ req'[r].step \in {"undoing", "failed"} => req[r].row \notin DOMAIN onts'
    BY <1>0, <1>11, StepMoves DEF CreateProvisioningJob, Steps, Forgotten
  <2>. QED
    BY <1>0, <2>1, <2>2, <2>3, RowStaysGone
<1>12. ASSUME NEW r \in Requests, MarkRunning(r) PROVE Forgotten'
  <2>1. Moves(r)
    BY <1>0, <1>12, StepMoves DEF MarkRunning, Steps
  <2>2. DOMAIN onts' \subseteq DOMAIN onts
    BY <1>0, <1>12 DEF MarkRunning
  <2>3. req[r].kind = "register" /\ req'[r].step \in {"undoing", "failed"} => req[r].row \notin DOMAIN onts'
    BY <1>0, <1>12, StepMoves DEF MarkRunning, Steps, Forgotten
  <2>. QED
    BY <1>0, <2>1, <2>2, <2>3, RowStaysGone
<1>13. ASSUME NEW r \in Requests, ClearFromOLT(r) PROVE Forgotten'
  <2>1. Moves(r)
    BY <1>0, <1>13, StepMoves DEF ClearFromOLT, Steps
  <2>2. DOMAIN onts' \subseteq DOMAIN onts
    BY <1>0, <1>13 DEF ClearFromOLT
  <2>3. req[r].kind = "register" /\ req'[r].step \in {"undoing", "failed"} => req[r].row \notin DOMAIN onts'
    BY <1>0, <1>13, StepMoves DEF ClearFromOLT, Steps, Forgotten
  <2>. QED
    BY <1>0, <2>1, <2>2, <2>3, RowStaysGone
<1>14. ASSUME NEW r \in Requests, ClearFails(r) PROVE Forgotten'
  <2>1. Moves(r)
    BY <1>0, <1>14, StepMoves DEF ClearFails, Steps
  <2>2. DOMAIN onts' \subseteq DOMAIN onts
    BY <1>0, <1>14 DEF ClearFails
  <2>3. req[r].kind = "register" /\ req'[r].step \in {"undoing", "failed"} => req[r].row \notin DOMAIN onts'
    BY <1>0, <1>14, StepMoves DEF ClearFails, Steps, Forgotten
  <2>. QED
    BY <1>0, <2>1, <2>2, <2>3, RowStaysGone
<1>15. ASSUME NEW r \in Requests, ForgetRow(r) PROVE Forgotten'
  <2>1. Moves(r)
    BY <1>0, <1>15, StepMoves DEF ForgetRow, Steps
  <2>2. DOMAIN onts' \subseteq DOMAIN onts
    BY <1>0, <1>15, DeleteRowDeletes DEF ForgetRow
  <2>3. req[r].kind = "register" /\ req'[r].step \in {"undoing", "failed"} => req[r].row \notin DOMAIN onts'
    BY <1>0, <1>15, StepMoves, DeleteRowDeletes DEF ForgetRow, Steps, Forgotten
  <2>. QED
    BY <1>0, <2>1, <2>2, <2>3, RowStaysGone
<1>16. ASSUME NEW r \in Requests, Refused(r) PROVE Forgotten'
  <2>1. Moves(r)
    BY <1>0, <1>16, StepMoves DEF Refused, Steps
  <2>2. DOMAIN onts' \subseteq DOMAIN onts
    BY <1>0, <1>16, DeleteRowDeletes DEF Refused
  <2>3. req[r].kind = "register" /\ req'[r].step \in {"undoing", "failed"} => req[r].row \notin DOMAIN onts'
    BY <1>0, <1>16, StepMoves, DeleteRowDeletes DEF Refused, Steps, Forgotten
  <2>. QED
    BY <1>0, <2>1, <2>2, <2>3, RowStaysGone
<1>17. ASSUME NEW r \in Requests, Delete(r) PROVE Forgotten'
  <2>1. Moves(r)
    BY <1>0, <1>17, StepMoves DEF Delete, Steps
  <2>2. DOMAIN onts' \subseteq DOMAIN onts
    BY <1>0, <1>17, DeleteRowDeletes DEF Delete
  <2>3. req[r].kind = "register" /\ req'[r].step \in {"undoing", "failed"} => req[r].row \notin DOMAIN onts'
    BY <1>0, <1>17, StepMoves, DeleteRowDeletes DEF Delete, Steps, Forgotten
  <2>. QED
    BY <1>0, <2>1, <2>2, <2>3, RowStaysGone
<1>18. ASSUME NEW r \in Requests, NEW k \in Rows, NEW i \in Ids, NEW s \in Serials, Reserve(r, k, i, s)
      PROVE  Forgotten'
  <2>1. req'[r].step = "loaded" /\ \A q \in Requests \ {r} : req'[q] = req[q]
    BY <1>0, <1>18 DEF Reserve, TypeOK
  <2>2. DOMAIN onts' = DOMAIN onts \cup {k} /\ k \notin used
    BY <1>18 DEF Reserve, Insert
  <2>3. \A q \in Requests \ {r} : req[q].step # "new" => req[q].row # k
    BY <1>0, <2>2 DEF TypeInv, Loaded
  <2>. QED
    BY <1>0, <2>1, <2>2, <2>3 DEF Forgotten
<1>19. ASSUME NEW r \in Requests, NEW k \in Rows, NEW kind \in Kinds, Load(r, k, kind)
      PROVE  Forgotten'
  BY <1>0, <1>19 DEF Load, Forgotten, TypeOK
<1>20. CASE Walk
  BY <1>0, <1>20 DEF Walk, Forgotten
<1>21. ASSUME NEW i \in Ids, NEW k \in Rows, BulkRegister(i, k) PROVE Forgotten'
  <2>1. CASE PositionFree(i) /\ SerialFree(found[i])
    <3>1. DOMAIN onts' = DOMAIN onts \cup {k} /\ k \notin used
      BY <1>21, <2>1 DEF BulkRegister, Insert
    <3>. QED
      BY <1>0, <1>21, <3>1 DEF BulkRegister, Forgotten, TypeInv, Loaded
  <2>2. CASE ~(PositionFree(i) /\ SerialFree(found[i]))
    BY <1>0, <1>21, <2>2 DEF BulkRegister, Forgotten
  <2>. QED
    BY <2>1, <2>2
<1>22. CASE Crash
  BY <1>0, <1>22 DEF Crash, Forgotten, TypeOK, Request, Over
<1>23. CASE UNCHANGED vars
  BY <1>0, <1>23 DEF vars, Forgotten
<1>. QED
  BY <1>1, <1>2, <1>3, <1>4, <1>5, <1>6, <1>7, <1>8, <1>9, <1>10, <1>11, <1>12, <1>13, <1>14, <1>15, <1>16, <1>17, <1>18, <1>19, <1>20, <1>21, <1>22, <1>23
  DEF Next, Begin, Start, Execute, FailJob, DeleteONT, Kinds

-----------------------------------------------------------------------------
LEMMA Invariance == Spec => []Inv
<1>1. Inv /\ [Next]_vars => Inv'
  BY NextType, NextJobs, NextChassis, NextForgotten DEF Inv
<1>. QED
  BY InitInv, <1>1, PTL DEF Spec

(* The tables keep their unique positions and serials, a job has its row,  *)
(* and every variable its type.                                            *)
THEOREM TypeCorrect == Spec => []TypeOK
<1>1. Inv => TypeOK
  BY DEF Inv, TypeInv
<1>. QED
  BY Invariance, <1>1, PTL

(* JobService: no two requests ever write to one ONT.                      *)
THEOREM OneWriter == Spec => []OneWriterPerONT
<1>1. Inv => OneWriterPerONT
  BY DEF Inv, WritersRun, OneRunsPerRow, OneWriterPerONT, Writing
<1>. QED
  BY Invariance, <1>1, PTL

(* failJob: a rollback takes off the chassis only what its own             *)
(* registration put there.                                                 *)
THEOREM RollbackIsSafe == Spec => []RollbackRemovesOwn
<1>1. Inv => RollbackRemovesOwn
  BY DEF Inv, OwnersAreRight, Owns, RollbackRemovesOwn
<1>. QED
  BY Invariance, <1>1, PTL

(* failJob: a registration that failed can be made again.                  *)
THEOREM FailureIsClean == Spec => []FailedLeavesNothing
<1>1. Inv => FailedLeavesNothing
  BY DEF Inv, Forgotten, Traceable, Owns, FailedLeavesNothing, Exists
<1>. QED
  BY Invariance, <1>1, PTL
=============================================================================
