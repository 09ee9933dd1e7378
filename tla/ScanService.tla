------------------------------- MODULE ScanService -------------------------------
(***************************************************************************)
(* app/services/checkin_service.py: process_scan, from the request to the  *)
(* ScanResponse.  Each step is one await: a Redis command, a database      *)
(* statement or commit, or a step of the publish loop.  Other requests     *)
(* interleave between any two of them.                                     *)
(***************************************************************************)
EXTENDS Database, RedisClient, QueueService

VARIABLE scan

\* The order in which process_scan reaches its awaits.  "except" is the
\* handler of the try block, "finally1" and "finally2" the two commands of
\* release_lock, "crashed" a request whose process died.
Claiming == {"create", "pending", "audit", "publish", "failstate", "failcommit",
             "okcommit", "except", "finally1", "finally2"}
ScanPcs == {"idle", "state", "lock"} \cup Claiming \cup {"done", "crashed"}

\* What the kiosk is told; "ERROR" is an exception that leaves process_scan.
Responses == {"none", "PENDING", "FAILED", "DUPLICATE", "LOCKED", "ERROR"}

\* started is when the scan built its print job, job the id that the response
\* carries, if any.
ScanRecord == [pc: ScanPcs, resp: Responses, started: Nat, job: Scans \cup {None}]

ScanInit ==
  scan = [s \in Scans |->
            [pc |-> "idle", resp |-> "none", started |-> 0, job |-> None]]

Goto(s, pc) == scan' = [scan EXCEPT ![s].pc = pc]

Answer(s, pc, resp, job) ==
  scan' = [scan EXCEPT ![s] = [pc |-> pc, resp |-> resp, started |-> @.started,
                               job |-> job]]

\* The scan may be between taking the lock and giving it back.
InClaim(s) == scan[s].pc \in Claiming
--------------------------------------------------------------------------------
(* Before the try block. *)

ReadAttendee(s) ==
  /\ scan[s].pc = "idle"
  /\ LET a == AttendeeOf[s] IN
       \/ /\ NoFault
          /\ IF a \notin Registered THEN Answer(s, "done", "FAILED", None)
             ELSE IF badge[a] THEN Answer(s, "done", "DUPLICATE", None)
             ELSE Goto(s, "state")
       \/ Fault /\ Answer(s, "done", "ERROR", None)
  /\ UNCHANGED <<dbVars, redisVars, vendorVars, pub>>

\* What the state key answers at once, "none" to go on.
AnswerFromState(state) ==
  CASE state = "SUCCESS" -> "DUPLICATE"
    [] state = "PENDING" -> "PENDING"
    [] OTHER -> "none"

CheckState(s) ==
  /\ scan[s].pc = "state"
  /\ \E state \in {"NONE", "PENDING", "SUCCESS"} :
       /\ GetState(AttendeeOf[s], state)
       /\ IF AnswerFromState(state) = "none"
          THEN Goto(s, "lock")
          ELSE Answer(s, "done", AnswerFromState(state), None)
  /\ UNCHANGED <<dbVars, redisVars, vendorVars, pub>>

\* The print job is built right after the lock is taken, with no await between.
TakeLock(s) ==
  /\ scan[s].pc = "lock"
  /\ \E acquired \in BOOLEAN :
       /\ AcquireLock(AttendeeOf[s], s, acquired)
       /\ IF acquired
          THEN /\ scan' = [scan EXCEPT ![s] = [pc |-> "create", resp |-> "none",
                                               started |-> clock, job |-> None]]
               /\ clock' = clock + 1
          ELSE Answer(s, "done", "LOCKED", None) /\ UNCHANGED clock
  /\ UNCHANGED <<badge, jobs, audit, rstate, vendorVars, pub>>
--------------------------------------------------------------------------------
(* The try block. *)

\* A try block that goes on after a commit that raised.
CommitAnyway(s, next, applied, notApplied) ==
  \/ applied /\ NoFault /\ Goto(s, next)
  \/ (applied \/ notApplied) /\ Fault /\ Goto(s, next)

\* The outcome of db.commit() in the try block: it is applied and the code goes
\* on, or it raises, and may have been applied all the same.
Commit(s, next, applied, notApplied) ==
  \/ applied /\ NoFault /\ Goto(s, next)
  \/ (applied \/ notApplied) /\ Fault /\ Goto(s, "except")

\* _create_print_job: the INSERT, its commit and the refresh.
InsertJob(s) ==
  jobs' = [jobs EXCEPT ![s] = [status |-> "PENDING", vendor_job_id |-> None,
                               started_at |-> scan[s].started]]

CreatePrintJob(s) ==
  /\ scan[s].pc = "create"
  /\ \/ /\ ScanIdFree(s)
        /\ Commit(s, "pending", InsertJob(s), UNCHANGED jobs)
     \/ /\ ~ScanIdFree(s)   \* IntegrityError
        /\ Goto(s, "except") /\ NoFault /\ UNCHANGED jobs
  /\ UNCHANGED <<badge, audit, clock, redisVars, vendorVars, pub>>

\* A scan that leaves the state key to be set later.
ForgetPending(s) ==
  /\ scan[s].pc = "pending"
  /\ NoFault /\ Goto(s, "audit")
  /\ UNCHANGED <<dbVars, redisVars, vendorVars, pub>>

SetPending(s) ==
  /\ scan[s].pc = "pending"
  /\ SetState(AttendeeOf[s], "PENDING", s)
  /\ Goto(s, "audit")
  /\ UNCHANGED <<dbVars, lock, vendorVars, pub>>

LogAudit(s) ==
  /\ scan[s].pc = "audit"
  /\ Commit(s, "publish", audit' = audit \cup {s}, UNCHANGED audit)
  /\ UNCHANGED <<badge, jobs, clock, redisVars, vendorVars, pub>>

\* The step that ends the publish loop also decides what follows it.
AfterPublish(result) ==
  CASE result = "none" -> "publish"
    [] result = "submitted" -> "okcommit"
    [] result = "raised" -> "except"
    [] OTHER -> "failstate"

Publish(s) ==
  /\ scan[s].pc = "publish"
  /\ PublishStep(s)
  /\ Goto(s, AfterPublish(pub'[s].result))
  /\ UNCHANGED <<dbVars, redisVars>>

\* The vendor took the job: remember its id, then answer PENDING.
SaveVendorJobId(s) ==
  /\ scan[s].pc = "okcommit"
  /\ \/ /\ jobs' = [jobs EXCEPT ![s].vendor_job_id = VendorJobOf(s)]
        /\ NoFault /\ Answer(s, "finally1", "PENDING", s)
     \/ /\ jobs' \in {jobs, [jobs EXCEPT ![s].vendor_job_id = VendorJobOf(s)]}
        /\ Fault /\ Goto(s, "except")
  /\ UNCHANGED <<badge, audit, clock, redisVars, vendorVars, pub>>

\* The vendor did not: the state key goes first, the row's status after it.
DropState(s) ==
  /\ scan[s].pc = "failstate"
  /\ DeleteState(AttendeeOf[s])
  /\ Goto(s, "failcommit")
  /\ UNCHANGED <<dbVars, lock, vendorVars, pub>>

SaveFailure(s) ==
  /\ scan[s].pc = "failcommit"
  /\ \/ /\ jobs' = [jobs EXCEPT ![s].status = "FAILED"]
        /\ NoFault /\ Answer(s, "finally1", "FAILED", s)
     \/ /\ jobs' \in {jobs, [jobs EXCEPT ![s].status = "FAILED"]}
        /\ Fault /\ Goto(s, "except")
  /\ UNCHANGED <<badge, audit, clock, redisVars, vendorVars, pub>>
--------------------------------------------------------------------------------
(* The except and finally clauses. *)

HandleException(s) ==
  /\ scan[s].pc = "except"
  /\ DeleteState(AttendeeOf[s])
  /\ Answer(s, "finally1", "FAILED", None)
  /\ UNCHANGED <<dbVars, lock, vendorVars, pub>>

FinallyGet(s) ==
  /\ scan[s].pc = "finally1"
  /\ \E owned \in BOOLEAN :
       /\ ReleaseGet(AttendeeOf[s], KioskOf[s], owned)
       /\ Goto(s, IF owned THEN "finally2" ELSE "done")
  /\ UNCHANGED <<dbVars, redisVars, vendorVars, pub>>

FinallyDelete(s) ==
  /\ scan[s].pc = "finally2"
  /\ ReleaseDelete(AttendeeOf[s])
  /\ Goto(s, "done")
  /\ UNCHANGED <<dbVars, rstate, vendorVars, pub>>

ScanStep(s) ==
  \/ ReadAttendee(s) \/ CheckState(s) \/ TakeLock(s)
  \/ CreatePrintJob(s) \/ SetPending(s) \/ LogAudit(s) \/ Publish(s)
  \/ SaveVendorJobId(s) \/ DropState(s) \/ SaveFailure(s)
  \/ HandleException(s) \/ FinallyGet(s) \/ FinallyDelete(s)
==================================================================================
