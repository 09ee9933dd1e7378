------------------------------ MODULE AdminService ------------------------------
(***************************************************************************)
(* app/api/routes/admin.py: POST /api/v1/admin/override.  An operation     *)
(* reads the attendee's latest job, changes Redis, and commits the row it  *)
(* read, as modified, together with an audit entry.                        *)
(***************************************************************************)
EXTENDS Database, RedisClient

CONSTANTS
  AdminOps,     \* override requests, each handled once
  ActionOf,     \* AdminOverrideRequest.action
  TargetOf      \* AdminOverrideRequest.attendee_id

Actions == {"FORCE_CHECK_IN", "RETRY_PRINT", "CANCEL", "RESET_LOCK"}

ASSUME AdminAssumption ==
  /\ ActionOf \in [AdminOps -> Actions]
  /\ TargetOf \in [AdminOps -> Attendees]
  /\ AdminOps \cap Scans = {}

VARIABLE adm

AdminPcs == {"idle", "setstate", "delstate", "relget", "reldel", "commit",
             "done", "rejected", "error", "lost"}

\* job is the latest print job or None, seen the row as the session loaded it.
AdminRecord == [pc: AdminPcs, job: Scans \cup {None}, seen: Job]

AdminInit ==
  adm = [o \in AdminOps |-> [pc |-> "idle", job |-> None, seen |-> NoJob]]

AdminGoto(o, pc) == adm' = [adm EXCEPT ![o].pc = pc]

IsAction(o, action) == ActionOf[o] = action
--------------------------------------------------------------------------------
\* The first await after the two SELECTs, by action.
FirstStep(o) ==
  CASE ActionOf[o] = "FORCE_CHECK_IN" -> "setstate"
    [] ActionOf[o] \in {"RETRY_PRINT", "CANCEL"} -> "delstate"
    [] OTHER -> "relget"

\* 404 without the attendee; 400 for a retry without a job.
ReadLatest(o) ==
  LET a == TargetOf[o] IN
  /\ adm[o].pc = "idle"
  /\ \/ /\ NoFault
        /\ \/ a \notin Registered /\ AdminGoto(o, "rejected")
           \/ /\ a \in Registered /\ LatestJobs(a) = {}
              /\ AdminGoto(o, IF IsAction(o, "RETRY_PRINT") THEN "rejected"
                              ELSE FirstStep(o))
           \/ /\ a \in Registered
              /\ \E s \in LatestJobs(a) :
                   adm' = [adm EXCEPT ![o] =
                             [pc |-> FirstStep(o), job |-> s, seen |-> jobs[s]]]
     \/ Fault /\ AdminGoto(o, "error")
  /\ UNCHANGED <<dbVars, redisVars>>

\* FORCE_CHECK_IN: set_job_success or set_state, before the commit.
ForceState(o) ==
  /\ adm[o].pc = "setstate"
  /\ SetState(TargetOf[o], "SUCCESS", adm[o].job)
  /\ AdminGoto(o, "commit")
  /\ UNCHANGED <<dbVars, lock>>

\* RETRY_PRINT and CANCEL: delete_state.
ClearState(o) ==
  /\ adm[o].pc = "delstate"
  /\ DeleteState(TargetOf[o])
  /\ AdminGoto(o, IF IsAction(o, "CANCEL") THEN "relget" ELSE "commit")
  /\ UNCHANGED <<dbVars, lock>>

\* CANCEL and RESET_LOCK: release_lock(attendee_id, "admin").
UnlockGet(o) ==
  /\ adm[o].pc = "relget"
  /\ \E owned \in BOOLEAN :
       /\ ReleaseGet(TargetOf[o], AdminOwner, owned)
       /\ AdminGoto(o, IF owned THEN "reldel" ELSE "commit")
  /\ UNCHANGED <<dbVars, redisVars>>

UnlockDelete(o) ==
  /\ adm[o].pc = "reldel"
  /\ ReleaseDelete(TargetOf[o])
  /\ AdminGoto(o, "commit")
  /\ UNCHANGED <<dbVars, rstate>>
--------------------------------------------------------------------------------
\* The job object as the action leaves it, before the flush.
Overridden(o) ==
  LET row == adm[o].seen IN
  CASE ActionOf[o] = "FORCE_CHECK_IN" -> [row EXCEPT !.status = "SUCCESS"]
    [] ActionOf[o] = "RETRY_PRINT" ->
            [status |-> "PENDING", vendor_job_id |-> None, started_at |-> row.started_at]
    [] ActionOf[o] = "CANCEL" -> [row EXCEPT !.status = "FAILED"]
    [] OTHER -> row

\* A forced check-in that touches only the print job.
OverrideJobOnly(o) ==
  /\ jobs' = IF adm[o].job = None THEN jobs
             ELSE [jobs EXCEPT ![adm[o].job] = Flush(@, adm[o].seen, Overridden(o))]
  /\ UNCHANGED badge
  /\ audit' = audit \cup {o}

\* A forced check-in that leaves no trace.
OverrideWithoutAudit(o) ==
  /\ jobs' = IF adm[o].job = None THEN jobs
             ELSE [jobs EXCEPT ![adm[o].job] = Flush(@, adm[o].seen, Overridden(o))]
  /\ badge' = IF IsAction(o, "FORCE_CHECK_IN")
              THEN [badge EXCEPT ![TargetOf[o]] = TRUE] ELSE badge
  /\ UNCHANGED audit

\* A commit that writes the whole row back as the session has it.
OverrideWholeRow(o) ==
  /\ jobs' = IF adm[o].job = None THEN jobs
             ELSE [jobs EXCEPT ![adm[o].job] = Overridden(o)]
  /\ badge' = IF IsAction(o, "FORCE_CHECK_IN")
              THEN [badge EXCEPT ![TargetOf[o]] = TRUE] ELSE badge
  /\ audit' = audit \cup {o}

\* The transaction: job, attendee and audit entry together.
Override(o) ==
  /\ jobs' = IF adm[o].job = None THEN jobs
             ELSE [jobs EXCEPT ![adm[o].job] = Flush(@, adm[o].seen, Overridden(o))]
  /\ badge' = IF IsAction(o, "FORCE_CHECK_IN")
              THEN [badge EXCEPT ![TargetOf[o]] = TRUE] ELSE badge
  /\ audit' = audit \cup {o}

CommitOverride(o) ==
  /\ adm[o].pc = "commit"
  /\ \/ Override(o) /\ NoFault /\ AdminGoto(o, "done")
     \/ Override(o) /\ Fault /\ AdminGoto(o, "error")
     \/ UNCHANGED <<jobs, badge, audit>> /\ Fault /\ AdminGoto(o, "error")
  /\ UNCHANGED <<clock, redisVars>>

AdminStep(o) ==
  \/ ReadLatest(o) \/ ForceState(o) \/ ClearState(o)
  \/ UnlockGet(o) \/ UnlockDelete(o) \/ CommitOverride(o)
==================================================================================
