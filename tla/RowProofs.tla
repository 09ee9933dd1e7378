-------------------------------- MODULE RowProofs --------------------------------
(***************************************************************************)
(* The life of a print_jobs row, proved for every value of the constants:  *)
(* it is inserted by its own scan once, never removed, and always there    *)
(* before the vendor hears of the scan.                                    *)
(***************************************************************************)
EXTENDS JobProofs

\* Where a scan is after it has inserted its row and before it is done with it.
AfterCreate == {"pending", "audit", "publish", "failstate", "failcommit", "okcommit"}

BlankUntilInserted ==
  \A s \in Scans : ~Inserted(s) => jobs[s].vendor_job_id = None

\* A scan that has come past the INSERT, or was seen by the vendor, has a row.
PublishedHasRow ==
  /\ \A s \in Scans : scan[s].pc \in AfterCreate => Inserted(s)
  /\ \A v \in Attempts : http[v] # "unsent" => Inserted(v[1])

ScanIdsUnique ==
  \A s, t \in Scans : Inserted(s) /\ Inserted(t) /\ ScanIdOf[s] = ScanIdOf[t] => s = t

\* Callbacks and overrides in progress hold rows that exist.
HeldRowsExist ==
  /\ \A d \in Deliveries : hook[d].pc = "commit" => hook[d].job \in Scans /\ Inserted(hook[d].job)
  /\ \A o \in AdminOps : adm[o].job # None => Inserted(adm[o].job)

RowInv == BlankUntilInserted /\ PublishedHasRow /\ ScanIdsUnique /\ HeldRowsExist
--------------------------------------------------------------------------------
(* What a step does to the rows. *)

\* Row t keeps everything but its status.
OnlyStatus(t) ==
  /\ jobs'[t].vendor_job_id = jobs[t].vendor_job_id
  /\ jobs'[t].started_at = jobs[t].started_at

\* A step of scan s does one of four things to its row.
ScanRow(s) ==
  \/ jobs'[s] = jobs[s] /\ (scan'[s].pc \in AfterCreate => scan[s].pc \in AfterCreate)
  \/ /\ scan[s].pc = "create" /\ ScanIdFree(s)
     /\ jobs'[s] = [status |-> "PENDING", vendor_job_id |-> None,
                    started_at |-> scan[s].started]
  \/ /\ scan[s].pc = "okcommit" /\ scan'[s].pc \notin AfterCreate /\ Submitted(s)
     /\ jobs'[s].status = jobs[s].status /\ jobs'[s].vendor_job_id = VendorJobOf(s)
     /\ jobs'[s].started_at = jobs[s].started_at
  \/ /\ scan[s].pc = "failcommit" /\ scan'[s].pc \notin AfterCreate
     /\ jobs'[s].status = "FAILED" /\ OnlyStatus(s)

LEMMA ScanRows ==
  ASSUME TypeInv, NEW s \in Scans, ScanStep(s)
  PROVE  /\ \A t \in Scans \ {s} : jobs'[t] = jobs[t] /\ scan'[t] = scan[t]
         /\ badge' = badge
         /\ ScanRow(s)
  <1> USE DEF TypeInv, TypeOK, AfterCreate
  <1>1. CASE ReadAttendee(s)
    BY <1>1 DEF ReadAttendee, Goto, Answer, ScanRow, dbVars, ScanRecord
  <1>2. CASE CheckState(s)
    BY <1>2 DEF CheckState, Goto, Answer, ScanRow, dbVars, ScanRecord
  <1>3. CASE TakeLock(s)
    BY <1>3 DEF TakeLock, Answer, ScanRow, ScanRecord
  <1>4. CASE CreatePrintJob(s)
    BY <1>4 DEF CreatePrintJob, Commit, InsertJob, Goto, ScanRow, ScanRecord
  <1>5. CASE SetPending(s)
    BY <1>5 DEF SetPending, Goto, ScanRow, dbVars, ScanRecord
  <1>6. CASE LogAudit(s)
    BY <1>6 DEF LogAudit, Commit, Goto, ScanRow, ScanRecord
  <1>7. CASE Publish(s)
    BY <1>7 DEF Publish, Goto, ScanRow, dbVars, ScanRecord
  <1>8. CASE SaveVendorJobId(s)
    <2>1. Submitted(s)
      BY <1>8 DEF SaveVendorJobId, SavesWhenSubmitted
    <2>2. /\ \A t \in Scans \ {s} : scan'[t] = scan[t]
          /\ scan'[s].pc \notin AfterCreate /\ scan[s].pc = "okcommit" /\ badge' = badge
      BY <1>8 DEF SaveVendorJobId, Goto, Answer, ScanRecord
    <2>3. CASE jobs' = jobs
      BY <2>2, <2>3 DEF ScanRow
    <2>4. CASE jobs' = [jobs EXCEPT ![s].vendor_job_id = VendorJobOf(s)]
      BY <2>1, <2>2, <2>4 DEF ScanRow, Job
    <2> QED BY <1>8, <2>3, <2>4 DEF SaveVendorJobId
  <1>9. CASE DropState(s)
    BY <1>9 DEF DropState, Goto, ScanRow, dbVars, ScanRecord
  <1>10. CASE SaveFailure(s)
    <2>2. /\ \A t \in Scans \ {s} : scan'[t] = scan[t]
          /\ scan'[s].pc \notin AfterCreate /\ scan[s].pc = "failcommit" /\ badge' = badge
      BY <1>10 DEF SaveFailure, Goto, Answer, ScanRecord
    <2>3. CASE jobs' = jobs
      BY <2>2, <2>3 DEF ScanRow
    <2>4. CASE jobs' = [jobs EXCEPT ![s].status = "FAILED"]
      BY <2>2, <2>4 DEF ScanRow, OnlyStatus, Job
    <2> QED BY <1>10, <2>3, <2>4 DEF SaveFailure
  <1>11. CASE HandleException(s)
    BY <1>11 DEF HandleException, Answer, ScanRow, dbVars, ScanRecord
  <1>12. CASE FinallyGet(s)
    BY <1>12 DEF FinallyGet, Goto, ScanRow, dbVars, ScanRecord
  <1>13. CASE FinallyDelete(s)
    BY <1>13 DEF FinallyDelete, Goto, ScanRow, dbVars, ScanRecord
  <1> QED BY <1>1, <1>2, <1>3, <1>4, <1>5, <1>6, <1>7, <1>8, <1>9, <1>10, <1>11, <1>12,
             <1>13 DEF ScanStep

\* A callback changes nothing but the status of the row it holds.
LEMMA HookRows ==
  ASSUME TypeInv, NEW d \in Deliveries, HookStep(d)
  PROVE  \/ jobs' = jobs /\ badge' = badge
         \/ /\ hook[d].pc = "commit" /\ ApplyVerdict(hook[d].job, Verdict(d[1]))
            /\ \A t \in Scans \ {hook[d].job} : jobs'[t] = jobs[t]
            /\ hook[d].job \in Scans =>
                 jobs'[hook[d].job].status = Verdict(d[1]) /\ OnlyStatus(hook[d].job)
  BY DEF TypeInv, TypeOK, HookStep, Lookup, CommitCallback, ApplyVerdict, OnlyStatus, Job, dbVars

\* An override that ends changes nothing but the row it holds, and leaves it
\* inserted; a vendor job id is lost only to a RETRY_PRINT that saw one.
LEMMA AdminRows ==
  ASSUME TypeInv, NEW o \in AdminOps, AdminStep(o)
  PROVE  \/ jobs' = jobs
         \/ /\ adm[o].pc = "commit" /\ adm[o].job \in Scans
            /\ \A t \in Scans \ {adm[o].job} : jobs'[t] = jobs[t]
            /\ Inserted(adm[o].job) => jobs'[adm[o].job].status # "NONE"
            /\ \/ jobs'[adm[o].job].vendor_job_id = jobs[adm[o].job].vendor_job_id
               \/ /\ jobs'[adm[o].job].vendor_job_id = None
                  /\ IsAction(o, "RETRY_PRINT")
                  /\ adm[o].seen.vendor_job_id # None
  <1> USE DEF TypeInv, TypeOK
  <1>1. CASE jobs' = jobs
    BY <1>1
  <1>2. CASE jobs' # jobs
    <2> DEFINE s == adm[o].job
    <2>1. adm[o].pc = "commit" /\ Override(o) /\ s # None
      BY <1>2 DEF AdminStep, ReadLatest, ForceState, ClearState, UnlockGet, UnlockDelete,
                  CommitOverride, Override, dbVars
    <2>2. s \in Scans /\ adm[o].seen \in Job /\ jobs[s] \in Job
      BY <2>1 DEF AdminRecord
    <2>3. jobs' = [jobs EXCEPT ![s] = Flush(jobs[s], adm[o].seen, Overridden(o))]
      BY <2>1 DEF Override
    <2>4. jobs'[s] = Flush(jobs[s], adm[o].seen, Overridden(o))
      BY <2>2, <2>3
    <2>5. Overridden(o).status \in {"SUCCESS", "PENDING", "FAILED", adm[o].seen.status}
      BY <2>2 DEF Overridden, Job
    <2>6. jobs'[s].status \in {"SUCCESS", "PENDING", "FAILED", jobs[s].status}
      BY <2>2, <2>4, <2>5 DEF Flush, Job
    <2>7. \/ Overridden(o).vendor_job_id = adm[o].seen.vendor_job_id
          \/ Overridden(o).vendor_job_id = None /\ IsAction(o, "RETRY_PRINT")
      BY <2>2 DEF Overridden, Job, IsAction
    <2>8. \/ jobs'[s].vendor_job_id = jobs[s].vendor_job_id
          \/ /\ jobs'[s].vendor_job_id = None /\ IsAction(o, "RETRY_PRINT")
             /\ adm[o].seen.vendor_job_id # None
      BY <2>2, <2>4, <2>7 DEF Flush, Job
    <2>9. \A t \in Scans \ {s} : jobs'[t] = jobs[t]
      BY <2>3
    <2> QED BY <2>1, <2>2, <2>6, <2>8, <2>9 DEF Inserted
  <1> QED BY <1>1, <1>2
--------------------------------------------------------------------------------
(* The invariant. *)

\* Rows change, but none appears or goes; callbacks and overrides take up only
\* rows that exist.
LEMMA RowFrame ==
  ASSUME RowInv,
         \A s \in Scans : Inserted(s)' <=> Inserted(s),
         \A s \in Scans : ~Inserted(s) => jobs'[s] = jobs[s],
         \A s \in Scans : scan'[s].pc \in AfterCreate => scan[s].pc \in AfterCreate,
         \A v \in Attempts : http'[v] # "unsent" => http[v] # "unsent" \/ Inserted(v[1]),
         HeldRowsExist'
  PROVE  RowInv'
  <1>1. \A v \in Attempts : v[1] \in Scans
    BY DEF Attempts
  <1>2. BlankUntilInserted' /\ ScanIdsUnique'
    BY DEF RowInv, BlankUntilInserted, ScanIdsUnique
  <1>3. PublishedHasRow'
    BY <1>1 DEF RowInv, PublishedHasRow
  <1> QED BY <1>2, <1>3 DEF RowInv

LEMMA HeldFrame ==
  ASSUME TypeInv, RowInv, UNCHANGED <<hook, adm>>,
         \A s \in Scans : Inserted(s) => Inserted(s)'
  PROVE  HeldRowsExist'
  BY DEF TypeInv, TypeOK, RowInv, HeldRowsExist, AdminRecord

\* A POST leaves only while its scan publishes.
LEMMA PostsOnly ==
  ASSUME TypeInv, NEW s \in Scans, PublishStep(s), NEW v \in Attempts,
         http'[v] # "unsent"
  PROVE  http[v] # "unsent" \/ v[1] = s
  <1>1. CASE Send(s)
    <2>1. CASE v = Post(s)
      BY <2>1 DEF Post
    <2>2. CASE v # Post(s)
      BY <1>1, <2>2 DEF Send, TypeInv, TypeOK
    <2> QED BY <2>1, <2>2
  <1>2. CASE ~Send(s)
    BY <1>2 DEF PublishStep, Start, Unreachable, ReadAccepted, ReadPermanent, ReadTransient,
                TimeOut, Raise, vendorVars
  <1> QED BY <1>1, <1>2

LEMMA ScanKeepsRowInv ==
  ASSUME TypeInv, RowInv, NEW s \in Scans, ScanStep(s), UNCHANGED <<hook, adm>>
  PROVE  RowInv'
  <1>1. /\ \A t \in Scans \ {s} : jobs'[t] = jobs[t] /\ scan'[t] = scan[t]
        /\ ScanRow(s)
    BY ScanRows
  <1>2. \A v \in Attempts : http'[v] # "unsent" => http[v] # "unsent" \/ Inserted(v[1])
    <2>1. CASE Publish(s)
      <3>1. Inserted(s)
        BY <2>1 DEF Publish, RowInv, PublishedHasRow, AfterCreate
      <3> QED BY <2>1, <3>1, PostsOnly DEF Publish
    <2>2. CASE ~Publish(s)
      BY <2>2 DEF ScanStep, ReadAttendee, CheckState, TakeLock, CreatePrintJob, SetPending,
                  LogAudit, SaveVendorJobId, DropState, SaveFailure, HandleException,
                  FinallyGet, FinallyDelete, vendorVars
    <2> QED BY <2>1, <2>2
  <1>3. CASE ~(scan[s].pc = "create" /\ ScanIdFree(s))
    <2>1. CASE jobs'[s] = jobs[s] /\ (scan'[s].pc \in AfterCreate => scan[s].pc \in AfterCreate)
      <3>1. \A t \in Scans : jobs'[t] = jobs[t]
        BY <1>1, <2>1
      <3>2. \A t \in Scans : Inserted(t)' <=> Inserted(t)
        BY <3>1 DEF Inserted
      <3>3. \A t \in Scans : scan'[t].pc \in AfterCreate => scan[t].pc \in AfterCreate
        BY <1>1, <2>1
      <3> QED BY <1>2, <3>1, <3>2, <3>3, HeldFrame, RowFrame
    <2>2. CASE /\ scan[s].pc \in {"okcommit", "failcommit"} /\ scan'[s].pc \notin AfterCreate
               /\ jobs'[s].status \in {jobs[s].status, "FAILED"}
      <3>1. Inserted(s)
        BY <2>2 DEF RowInv, PublishedHasRow, AfterCreate
      <3>2. \A t \in Scans : Inserted(t)' <=> Inserted(t)
        BY <1>1, <2>2, <3>1 DEF Inserted
      <3>3. \A t \in Scans : scan'[t].pc \in AfterCreate => scan[t].pc \in AfterCreate
        BY <1>1, <2>2
      <3>4. \A t \in Scans : ~Inserted(t) => jobs'[t] = jobs[t]
        BY <1>1, <3>1
      <3> QED BY <1>2, <3>2, <3>3, <3>4, HeldFrame, RowFrame
    <2> QED BY <1>1, <1>3, <2>1, <2>2 DEF ScanRow
  <1>4. CASE scan[s].pc = "create" /\ ScanIdFree(s)
    <2>1. ~Inserted(s) /\ \A t \in Scans : Inserted(t) => ScanIdOf[t] # ScanIdOf[s]
      BY <1>4 DEF ScanIdFree
    <2>2. \/ jobs'[s] = jobs[s] /\ scan'[s].pc \notin AfterCreate
          \/ jobs'[s] = [status |-> "PENDING", vendor_job_id |-> None,
                         started_at |-> scan[s].started]
      BY <1>1, <1>4 DEF ScanRow, AfterCreate
    <2>3. CASE jobs'[s] = jobs[s] /\ scan'[s].pc \notin AfterCreate
      <3>1. \A t \in Scans : jobs'[t] = jobs[t]
        BY <1>1, <2>3
      <3>2. \A t \in Scans : Inserted(t)' <=> Inserted(t)
        BY <3>1 DEF Inserted
      <3>3. \A t \in Scans : scan'[t].pc \in AfterCreate => scan[t].pc \in AfterCreate
        BY <1>1, <2>3
      <3> QED BY <1>2, <3>1, <3>2, <3>3, HeldFrame, RowFrame
    <2>4. CASE jobs'[s] = [status |-> "PENDING", vendor_job_id |-> None,
                           started_at |-> scan[s].started]
      <3>1. Inserted(s)' /\ \A t \in Scans \ {s} : Inserted(t)' <=> Inserted(t)
        BY <1>1, <2>4 DEF Inserted
      <3>2. \A t \in Scans : Inserted(t) => Inserted(t)'
        BY <3>1
      <3>3. BlankUntilInserted'
        BY <1>1, <3>1 DEF RowInv, BlankUntilInserted
      <3>4. PublishedHasRow'
        <4>1. \A v \in Attempts : v[1] \in Scans
          BY DEF Attempts
        <4> QED BY <1>1, <1>2, <3>1, <3>2, <4>1 DEF RowInv, PublishedHasRow
      <3>5. ScanIdsUnique'
        BY <2>1, <3>1 DEF RowInv, ScanIdsUnique
      <3> QED BY <3>2, <3>3, <3>4, <3>5, HeldFrame DEF RowInv
    <2> QED BY <2>2, <2>3, <2>4
  <1> QED BY <1>3, <1>4

LEMMA HookKeepsRowInv ==
  ASSUME TypeInv, RowInv, NEW d \in Deliveries, DoHook(d)
  PROVE  RowInv'
  <1> USE DEF DoHook
  <1>1. /\ http' = http /\ scan' = scan /\ adm' = adm
    BY DEF HookStep, Lookup, CommitCallback, vendorVars
  <1>2. /\ \A s \in Scans : Inserted(s)' <=> Inserted(s)
        /\ \A s \in Scans : ~Inserted(s) => jobs'[s] = jobs[s]
    <2>1. CASE jobs' = jobs
      BY <2>1 DEF Inserted
    <2>2. CASE jobs' # jobs
      <3>1. /\ hook[d].pc = "commit" /\ hook[d].job \in Scans /\ Inserted(hook[d].job)
            /\ jobs'[hook[d].job].status = Verdict(d[1])
            /\ \A t \in Scans \ {hook[d].job} : jobs'[t] = jobs[t]
        BY <2>2, HookRows DEF RowInv, HeldRowsExist
      <3>2. Verdict(d[1]) # "NONE"
        BY DEF Verdict
      <3> QED BY <3>1, <3>2 DEF Inserted
    <2> QED BY <2>1, <2>2
  <1>3. \A e \in Deliveries : hook'[e].pc = "commit" =>
          \/ hook[e].pc = "commit" /\ hook'[e].job = hook[e].job
          \/ hook'[e].job \in Scans /\ Inserted(hook'[e].job)
    BY DEF TypeInv, TypeOK, HookStep, Lookup, CommitCallback, HookGoto, HookRecord,
           JobsWithVendorId
  <1>4. HeldRowsExist'
    BY <1>1, <1>2, <1>3 DEF TypeInv, TypeOK, RowInv, HeldRowsExist, AdminRecord
  <1> QED BY <1>1, <1>2, <1>4, RowFrame

LEMMA AdminKeepsRowInv ==
  ASSUME TypeInv, RowInv, NEW o \in AdminOps, DoAdmin(o)
  PROVE  RowInv'
  <1> USE DEF DoAdmin
  <1>1. http' = http /\ scan' = scan /\ hook' = hook
    BY DEF vendorVars
  <1>2. /\ \A s \in Scans : Inserted(s)' <=> Inserted(s)
        /\ \A s \in Scans : ~Inserted(s) => jobs'[s] = jobs[s]
    <2>1. CASE jobs' = jobs
      BY <2>1 DEF Inserted
    <2>2. CASE jobs' # jobs
      <3>1. /\ adm[o].job \in Scans /\ Inserted(adm[o].job)
            /\ jobs'[adm[o].job].status # "NONE"
            /\ \A t \in Scans \ {adm[o].job} : jobs'[t] = jobs[t]
        BY <2>2, AdminRows, TypesAssumption DEF RowInv, HeldRowsExist
      <3> QED BY <3>1 DEF Inserted
    <2> QED BY <2>1, <2>2
  <1>3. \A p \in AdminOps : adm'[p].job # None => adm'[p].job = adm[p].job \/ Inserted(adm'[p].job)
    <2>1. ASSUME NEW pc, AdminGoto(o, pc) PROVE \A p \in AdminOps : adm'[p].job = adm[p].job
      BY <2>1 DEF AdminGoto, AdminRecord, TypeInv, TypeOK
    <2>2. ASSUME NEW s \in LatestJobs(TargetOf[o]),
                 adm' = [adm EXCEPT ![o] =
                           [pc |-> FirstStep(o), job |-> s, seen |-> jobs[s]]]
          PROVE  \A p \in AdminOps : adm'[p].job = adm[p].job \/ Inserted(adm'[p].job)
      BY <2>2 DEF LatestJobs, TypeInv, TypeOK
    <2> QED BY <2>1, <2>2 DEF AdminStep, ReadLatest, ForceState, ClearState, UnlockGet,
                              UnlockDelete, CommitOverride
  <1>4. \A p \in AdminOps : adm'[p].job \in Scans \cup {None}
    BY AdminStepType DEF TypeInv, TypeOK, AdminRecord
  <1>5. HeldRowsExist'
    BY <1>1, <1>2, <1>3, <1>4 DEF RowInv, HeldRowsExist
  <1> QED BY <1>1, <1>2, <1>5, RowFrame

LEMMA RowInvNext == TypeInv /\ RowInv /\ [Next]_vars => RowInv'
  <1> SUFFICES ASSUME TypeInv, RowInv, [Next]_vars PROVE RowInv'
    OBVIOUS
  <1>1. ASSUME NEW s \in Scans, DoScan(s) PROVE RowInv'
    BY <1>1, ScanKeepsRowInv DEF DoScan
  <1>2. ASSUME NEW d \in Deliveries, DoHook(d) PROVE RowInv'
    BY <1>2, HookKeepsRowInv
  <1>3. ASSUME NEW o \in AdminOps, DoAdmin(o) PROVE RowInv'
    BY <1>3, AdminKeepsRowInv
  <1>4. ASSUME jobs' = jobs, HeldRowsExist',
               \A s \in Scans : scan'[s].pc \in AfterCreate => scan[s].pc \in AfterCreate,
               \A v \in Attempts : http'[v] # "unsent" => http[v] # "unsent"
        PROVE  RowInv'
    BY <1>4, RowFrame DEF Inserted
  <1>5. ASSUME NEW v \in Attempts, DoVendor(v) PROVE RowInv'
    <2>1. jobs' = jobs /\ scan' = scan /\ hook' = hook /\ adm' = adm
      BY <1>5 DEF DoVendor, dbVars
    <2>2. \A w \in Attempts : http'[w] # "unsent" => http[w] # "unsent"
      BY <1>5 DEF DoVendor, VendorStep, Accept, Refuse, Hold, PrintBadge, TypeInv, TypeOK
    <2>3. HeldRowsExist'
      BY <2>1 DEF RowInv, HeldRowsExist, Inserted
    <2> QED BY <1>4, <2>1, <2>2, <2>3
  <1>6. ASSUME NEW d \in Deliveries, DoDeliver(d) PROVE RowInv'
    <2>1. jobs' = jobs /\ scan' = scan /\ http' = http /\ adm' = adm
      BY <1>6 DEF DoDeliver, Deliver, dbVars, vendorVars
    <2>2. \A e \in Deliveries : hook'[e] = hook[e] \/ hook'[e].pc # "commit"
      BY <1>6 DEF DoDeliver, Deliver, HookGoto, HookRecord, TypeInv, TypeOK
    <2>3. HeldRowsExist'
      BY <2>1, <2>2 DEF RowInv, HeldRowsExist, Inserted
    <2> QED BY <1>4, <2>1, <2>3
  <1>7. CASE Crash
    <2>1. jobs' = jobs /\ http' = http
      BY <1>7 DEF Crash, dbVars, vendorVars
    <2>2. \A s \in Scans : scan'[s].pc \in AfterCreate => scan[s].pc \in AfterCreate
      BY <1>7 DEF Crash, TypeInv, TypeOK, ScanRecord, AfterCreate
    <2>3. /\ \A d \in Deliveries : hook'[d] = hook[d] \/ hook'[d].pc # "commit"
          /\ \A o \in AdminOps : adm'[o].job = adm[o].job
      BY <1>7 DEF Crash, TypeInv, TypeOK, HookRecord, AdminRecord
    <2>4. HeldRowsExist'
      BY <2>1, <2>3 DEF RowInv, HeldRowsExist, Inserted
    <2> QED BY <1>4, <2>1, <2>2, <2>4
  <1>8. ASSUME UNCHANGED <<dbVars, vendorVars, scan, hook, adm>> PROVE RowInv'
    <2>1. HeldRowsExist'
      BY <1>8 DEF RowInv, HeldRowsExist, Inserted, dbVars
    <2> QED BY <1>4, <1>8, <2>1 DEF dbVars, vendorVars
  <1>9. ASSUME NEW a \in Attendees, DoExpire(a) PROVE RowInv'
    BY <1>8, <1>9 DEF DoExpire
  <1>10. CASE UNCHANGED vars
    BY <1>8, <1>10 DEF vars
  <1> QED BY <1>1, <1>2, <1>3, <1>5, <1>6, <1>7, <1>9, <1>10 DEF Next, Work

LEMMA RowInvInit == Init => RowInv
  <1> SUFFICES ASSUME Init PROVE RowInv
    OBVIOUS
  <1> QED BY DEF Init, DbInit, NoJob, VendorInit, ScanInit, HookInit, AdminInit, RowInv,
                 BlankUntilInserted, PublishedHasRow, ScanIdsUnique, HeldRowsExist, Inserted,
                 AfterCreate

LEMMA RowInvAlways == Spec => []RowInv
  BY RowInvInit, RowInvNext, TypeInvAlways, PTL DEF Spec

\* Requests that carry one scan_id put at most one of them in front of the
\* vendor, with a Redis client or without one: a row stands before every POST, and
\* the unique columns let one scan_id have one row.
THEOREM ScanIdPublishedOnceCorrect == Spec => []ScanIdPublishedOnce
  <1>1. RowInv => ScanIdPublishedOnce
    <2>1. \A v \in Attempts : v[1] \in Scans
      BY DEF Attempts
    <2> QED BY <2>1 DEF RowInv, PublishedHasRow, ScanIdsUnique, ScanIdPublishedOnce
  <1> QED BY <1>1, RowInvAlways, PTL
--------------------------------------------------------------------------------
(* The vendor job id outlives the overrides. *)

LEMMA VendorIdSurvivesNext ==
  ASSUME TypeInv, RowInv, [Next]_vars,
         NEW s \in Scans, jobs[s].vendor_job_id # None, jobs'[s].vendor_job_id = None
  PROVE  \E o \in AdminOps :
           /\ IsAction(o, "RETRY_PRINT") /\ adm[o].job = s
           /\ adm[o].seen.vendor_job_id # None
  <1>1. jobs' # jobs
    OBVIOUS
  <1>2. ASSUME NEW t \in Scans, DoScan(t) PROVE FALSE
    <2>1. /\ \A u \in Scans \ {t} : jobs'[u] = jobs[u]
          /\ ScanRow(t)
      BY <1>2, ScanRows DEF DoScan
    <2>2. t = s
      BY <2>1
    <2>3. Inserted(s)
      BY DEF RowInv, BlankUntilInserted
    <2>4. ~ScanIdFree(s)
      BY <2>3 DEF ScanIdFree
    <2>5. Submitted(s) /\ jobs'[s].vendor_job_id = VendorJobOf(s)
      BY <2>1, <2>2, <2>4 DEF ScanRow, OnlyStatus
    <2>6. VendorJobOf(s) \in Attempts
      BY <2>5 DEF TypeInv, AttemptCounted, VendorJobOf, Post, Attempts
    <2> QED BY <2>5, <2>6, TypesAssumption
  <1>3. ASSUME NEW d \in Deliveries, DoHook(d) PROVE FALSE
    BY <1>1, <1>3, HookRows DEF DoHook, RowInv, HeldRowsExist, OnlyStatus
  <1>4. ASSUME NEW o \in AdminOps, DoAdmin(o)
        PROVE  /\ IsAction(o, "RETRY_PRINT") /\ adm[o].job = s
               /\ adm[o].seen.vendor_job_id # None
    BY <1>1, <1>4, AdminRows DEF DoAdmin
  <1>5. \/ \E t \in Scans : DoScan(t)
        \/ \E d \in Deliveries : DoHook(d)
        \/ \E o \in AdminOps : DoAdmin(o)
    BY <1>1 DEF Next, Work, DoVendor, DoDeliver, Deliver, DoExpire, Crash, vars, dbVars
  <1> QED BY <1>2, <1>3, <1>4, <1>5

\* An override that read the row before the id was saved does not erase it: the
\* commit writes the columns that the override changed and no others.
THEOREM VendorIdSurvivesOverrideCorrect == Spec => VendorIdSurvivesOverride
  <1>1. TypeInv /\ RowInv /\ [Next]_vars =>
          [\A s \in Scans :
             jobs[s].vendor_job_id # None /\ jobs'[s].vendor_job_id = None =>
               \E o \in AdminOps :
                 /\ IsAction(o, "RETRY_PRINT") /\ adm[o].job = s
                 /\ adm[o].seen.vendor_job_id # None]_vars
    BY VendorIdSurvivesNext
  <1> QED BY <1>1, TypeInvAlways, RowInvAlways, PTL DEF Spec, VendorIdSurvivesOverride
--------------------------------------------------------------------------------
(* Every final status has a cause, with overrides or without. *)

Checked(s) == Ended(s, "printed") \/ Overrode(s, "FORCE_CHECK_IN")
Dropped(s) == Ended(s, "failed") \/ GaveUp(s) \/ Overrode(s, "CANCEL")

\* A publish that gave up is over, and only then does its scan record a failure.
GaveUpIsFinal ==
  \A s \in Scans :
    /\ GaveUp(s) => pub[s].pc = "done"
    /\ scan[s].pc \in {"failstate", "failcommit"} => GaveUp(s)

\* An audited override will not look for another job.
AuditedHasBegun == \A o \in AdminOps \cap audit : adm[o].pc # "idle"

CauseInv == GaveUpIsFinal /\ AuditedHasBegun /\ StatusHasCause

\* Nothing takes a cause back.
CausesStay ==
  /\ VendorKeepsWord
  /\ \A s \in Scans : GaveUp(s) => GaveUp(s)'
  /\ audit \subseteq audit'
  /\ \A o \in AdminOps \cap audit : adm'[o].job = adm[o].job

\* Only a row whose new status has a cause gets one.
LEMMA CauseFrame ==
  ASSUME StatusHasCause, CausesStay,
         \A s \in Scans : jobs'[s].status = "SUCCESS" =>
           jobs[s].status = "SUCCESS" \/ Checked(s)',
         \A s \in Scans : jobs'[s].status = "FAILED" =>
           jobs[s].status = "FAILED" \/ Dropped(s)'
  PROVE  StatusHasCause'
  <1>1. \A s \in Scans : Ended(s, "printed") => Ended(s, "printed")'
    BY DEF CausesStay, VendorKeepsWord, Ended
  <1>2. \A s \in Scans : Ended(s, "failed") => Ended(s, "failed")'
    BY DEF CausesStay, VendorKeepsWord, Ended
  <1>3. \A s \in Scans : Overrode(s, "FORCE_CHECK_IN") => Overrode(s, "FORCE_CHECK_IN")'
    BY DEF CausesStay, Overrode, IsAction
  <1>4. \A s \in Scans : Overrode(s, "CANCEL") => Overrode(s, "CANCEL")'
    BY DEF CausesStay, Overrode, IsAction
  <1>5. \A s \in Scans : GaveUp(s) => GaveUp(s)'
    BY DEF CausesStay
  <1>6. \A s \in Scans : (Checked(s) => Checked(s)') /\ (Dropped(s) => Dropped(s)')
    BY <1>1, <1>2, <1>3, <1>4, <1>5 DEF Checked, Dropped
  <1>7. \A s \in Scans : /\ jobs'[s].status = "SUCCESS" => Checked(s)'
                         /\ jobs'[s].status = "FAILED" => Dropped(s)'
    BY <1>6 DEF StatusHasCause, Checked, Dropped
  <1> QED BY <1>7 DEF StatusHasCause, Checked, Dropped

\* A publish step of a scan leaves no result that it takes back.
LEMMA PublishGivesUp ==
  ASSUME TypeInv, GaveUpIsFinal, NEW s \in Scans, PublishStep(s)
  PROVE  /\ \A t \in Scans : GaveUp(t) => GaveUp(t)'
         /\ \A t \in Scans : GaveUp(t)' => pub'[t].pc = "done"
  <1> USE DEF TypeInv, TypeOK
  <1>1. pub' \in [Scans -> Publisher] /\ \A t \in Scans \ {s} : pub'[t] = pub[t]
    BY PublishStepType
  <1>2. pub[s].pc # "done" /\ ~GaveUp(s)
    BY DEF GaveUpIsFinal, PublishStep, Start, Send, Unreachable, ReadAccepted, ReadPermanent,
           ReadTransient, TimeOut, Raise
  <1>3. pub'[s].pc = "done" \/ pub'[s].result \in {"none", pub[s].result}
    <2>1. ASSUME NEW result, Return(s, result) PROVE pub'[s].pc = "done"
      BY <2>1 DEF Return
    <2>2. ASSUME NEW error, Retry(s, error)
          PROVE  pub'[s].pc = "done" \/ pub'[s].result = "none"
      BY <2>1, <2>2 DEF Retry, NextAttempt
    <2>3. CASE Send(s)
      BY <2>3 DEF Send, Publisher
    <2>4. CASE ~Send(s)
      BY <2>1, <2>2, <2>4 DEF PublishStep, Start, Unreachable, ReadAccepted, ReadPermanent,
                              ReadTransient, TimeOut, Raise
    <2> QED BY <2>3, <2>4
  <1> QED BY <1>1, <1>2, <1>3 DEF GaveUp, GaveUpIsFinal

LEMMA ScanKeepsCauseInv ==
  ASSUME TypeInv, RowInv, CauseInv, NEW s \in Scans, DoScan(s)
  PROVE  CauseInv'
  <1> USE DEF DoScan, TypeInv, TypeOK
  <1>1. /\ \A t \in Scans \ {s} : jobs'[t] = jobs[t] /\ scan'[t] = scan[t]
        /\ ScanRow(s)
    BY ScanRows
  <1>2. vjob' = vjob /\ audit \subseteq audit'
    BY ScanRowEffect
  <1>3. /\ \A t \in Scans : GaveUp(t) => GaveUp(t)'
        /\ \A t \in Scans : GaveUp(t)' => pub'[t].pc = "done"
    <2>1. CASE Publish(s)
      BY <2>1, PublishGivesUp DEF Publish, CauseInv
    <2>2. CASE ~Publish(s)
      <3>1. pub' = pub
        BY <2>2 DEF ScanStep, ReadAttendee, CheckState, TakeLock, CreatePrintJob, SetPending,
                    LogAudit, SaveVendorJobId, DropState, SaveFailure, HandleException,
                    FinallyGet, FinallyDelete
      <3> QED BY <3>1 DEF GaveUp, CauseInv, GaveUpIsFinal
    <2> QED BY <2>1, <2>2
  <1>4. scan'[s].pc \in {"failstate", "failcommit"} => GaveUp(s)'
    <2>1. CASE Publish(s)
      <3>1. pub'[s].result \in PublishResults
        BY <2>1, PublishStepType DEF Publish, Publisher
      <3>2. scan'[s].pc = AfterPublish(pub'[s].result)
        BY <2>1 DEF Publish, Goto, ScanRecord
      <3> QED BY <3>1, <3>2 DEF AfterPublish, PublishResults, GaveUp
    <2>2. CASE DropState(s)
      BY <1>3, <2>2 DEF DropState, CauseInv, GaveUpIsFinal
    <2>3. CASE ~Publish(s) /\ ~DropState(s)
      BY <2>3 DEF ScanStep, ReadAttendee, CheckState, TakeLock, CreatePrintJob, SetPending,
                  LogAudit, SaveVendorJobId, SaveFailure, HandleException, FinallyGet,
                  FinallyDelete, Commit, Goto, Answer, ScanRecord
    <2> QED BY <2>1, <2>2, <2>3
  <1>5. GaveUpIsFinal'
    <2>1. \A t \in Scans : scan'[t].pc \in {"failstate", "failcommit"} => GaveUp(t)'
      BY <1>1, <1>3, <1>4 DEF CauseInv, GaveUpIsFinal
    <2> QED BY <1>3, <2>1 DEF GaveUpIsFinal, GaveUp
  <1>6. AuditedHasBegun'
    <2>1. audit' \subseteq audit \cup {s}
      BY DEF ScanStep, ReadAttendee, CheckState, TakeLock, CreatePrintJob, SetPending, LogAudit,
             Publish, SaveVendorJobId, DropState, SaveFailure, HandleException, FinallyGet,
             FinallyDelete, Commit, dbVars
    <2> QED BY <2>1, AdminAssumption DEF CauseInv, AuditedHasBegun
  <1>7. CausesStay
    BY <1>2, <1>3 DEF CausesStay, VendorKeepsWord
  <1>8. /\ jobs'[s].status = "SUCCESS" => jobs[s].status = "SUCCESS"
        /\ jobs'[s].status = "FAILED" => jobs[s].status = "FAILED" \/ GaveUp(s)
    BY <1>1 DEF ScanRow, CauseInv, GaveUpIsFinal
  <1>9. StatusHasCause'
    <2>1. \A t \in Scans : jobs'[t].status = "SUCCESS" =>
            jobs[t].status = "SUCCESS" \/ Checked(t)'
      BY <1>1, <1>8
    <2>2. \A t \in Scans : jobs'[t].status = "FAILED" =>
            jobs[t].status = "FAILED" \/ Dropped(t)'
      BY <1>1, <1>3, <1>8 DEF Dropped
    <2> QED BY <1>7, <2>1, <2>2, CauseFrame DEF CauseInv
  <1> QED BY <1>5, <1>6, <1>9 DEF CauseInv

LEMMA HookKeepsCauseInv ==
  ASSUME TypeInv, JobInv, RowInv, CauseInv, NEW d \in Deliveries, DoHook(d)
  PROVE  CauseInv'
  <1> USE DEF DoHook
  <1>1. vjob' = vjob /\ audit' = audit /\ UNCHANGED <<pub, scan, adm>>
    BY DEF HookStep, Lookup, CommitCallback, vendorVars, dbVars
  <1>2. GaveUpIsFinal' /\ AuditedHasBegun' /\ CausesStay
    BY <1>1 DEF CauseInv, GaveUpIsFinal, AuditedHasBegun, CausesStay, VendorKeepsWord, GaveUp
  <1>3. CASE jobs' = jobs
    BY <1>2, <1>3, CauseFrame DEF CauseInv
  <1>4. CASE jobs' # jobs
    <2>1. PICK s \in Scans :
            /\ hook[d].pc = "commit" /\ hook[d].job = s
            /\ jobs'[s].status = Verdict(d[1])
            /\ \A t \in Scans \ {s} : jobs'[t] = jobs[t]
      BY <1>4, HookRows DEF RowInv, HeldRowsExist
    <2>2. d[1] \in Attempts /\ d[1][1] = s /\ vjob'[d[1]] \in {"printed", "failed"}
      BY <1>1, <2>1, DeliveryType DEF JobInv, CallbackIsOwn
    <2>3. /\ jobs'[s].status = "SUCCESS" => Ended(s, "printed")'
          /\ jobs'[s].status = "FAILED" => Ended(s, "failed")'
      BY <1>1, <2>1, <2>2 DEF Verdict, Ended
    <2>4. \A t \in Scans : jobs'[t].status = "SUCCESS" =>
            jobs[t].status = "SUCCESS" \/ Checked(t)'
      BY <2>1, <2>3 DEF Checked
    <2>5. \A t \in Scans : jobs'[t].status = "FAILED" =>
            jobs[t].status = "FAILED" \/ Dropped(t)'
      BY <2>1, <2>3 DEF Dropped
    <2> QED BY <1>2, <2>4, <2>5, CauseFrame DEF CauseInv
  <1> QED BY <1>3, <1>4

\* The flush of an override sets a status only when its action changes it.
LEMMA OverrideStatus ==
  ASSUME TypeInv, NEW o \in AdminOps, Override(o), adm[o].job \in Scans
  PROVE  LET s == adm[o].job
         IN  \/ jobs'[s].status \in {jobs[s].status, "PENDING"}
             \/ IsAction(o, "FORCE_CHECK_IN") /\ jobs'[s].status = "SUCCESS"
             \/ IsAction(o, "CANCEL") /\ jobs'[s].status = "FAILED"
  <1> DEFINE s == adm[o].job
  <1>1. adm[o].seen \in Job /\ jobs[s] \in Job /\ jobs \in [Scans -> Job]
    BY DEF TypeInv, TypeOK, AdminRecord
  <1>2. jobs'[s] = Flush(jobs[s], adm[o].seen, Overridden(o))
    BY <1>1, TypesAssumption DEF Override
  <1>3. \/ Overridden(o).status \in {adm[o].seen.status, "PENDING"}
        \/ IsAction(o, "FORCE_CHECK_IN") /\ Overridden(o).status = "SUCCESS"
        \/ IsAction(o, "CANCEL") /\ Overridden(o).status = "FAILED"
    BY <1>1 DEF Overridden, Job, IsAction
  <1>4. /\ Overridden(o).status # adm[o].seen.status => jobs'[s].status = Overridden(o).status
        /\ Overridden(o).status = adm[o].seen.status => jobs'[s].status = jobs[s].status
    BY <1>1, <1>2 DEF Flush, Job
  <1> QED BY <1>3, <1>4

LEMMA AdminKeepsCauseInv ==
  ASSUME TypeInv, CauseInv, NEW o \in AdminOps, DoAdmin(o)
  PROVE  CauseInv'
  <1> USE DEF DoAdmin, TypeInv, TypeOK
  <1>1. vjob' = vjob /\ UNCHANGED <<pub, scan>> /\ GaveUpIsFinal'
    BY DEF vendorVars, CauseInv, GaveUpIsFinal, GaveUp
  <1>2. \A p \in AdminOps \ {o} : adm'[p] = adm[p]
    BY DEF AdminStep, ReadLatest, ForceState, ClearState, UnlockGet, UnlockDelete,
           CommitOverride, AdminGoto
  <1>3. adm'[o].pc # "idle" /\ (adm[o].pc = "idle" \/ adm'[o].job = adm[o].job)
    <2>1. CASE ReadLatest(o)
      BY <2>1 DEF ReadLatest, AdminGoto, FirstStep, IsAction, AdminRecord
    <2>2. CASE ~ReadLatest(o)
      BY <2>2 DEF AdminStep, ForceState, ClearState, UnlockGet, UnlockDelete, CommitOverride,
                  AdminGoto, AdminRecord
    <2> QED BY <2>1, <2>2
  <1>4. audit' = audit \/ Override(o)
    BY DEF AdminStep, ReadLatest, ForceState, ClearState, UnlockGet, UnlockDelete,
           CommitOverride, dbVars
  <1>5. audit \subseteq audit' /\ audit' \subseteq audit \cup {o}
    BY <1>4 DEF Override
  <1>6. AuditedHasBegun'
    BY <1>2, <1>3, <1>5 DEF CauseInv, AuditedHasBegun
  <1>7. \A p \in AdminOps \cap audit : adm'[p].job = adm[p].job
    BY <1>2, <1>3 DEF CauseInv, AuditedHasBegun
  <1>8. CausesStay
    BY <1>1, <1>5, <1>7 DEF CausesStay, VendorKeepsWord, GaveUp
  <1>9. CASE jobs' = jobs
    BY <1>1, <1>6, <1>8, <1>9, CauseFrame DEF CauseInv
  <1>10. CASE jobs' # jobs
    <2>1. PICK s \in Scans :
            /\ adm[o].pc = "commit" /\ adm[o].job = s /\ Override(o)
            /\ \A t \in Scans \ {s} : jobs'[t] = jobs[t]
      BY <1>10, AdminRows DEF AdminStep, ReadLatest, ForceState, ClearState, UnlockGet,
                              UnlockDelete, CommitOverride, dbVars
    <2>2. o \in audit' /\ adm'[o].job = s
      BY <1>3, <2>1 DEF Override
    <2>3. \/ jobs'[s].status \in {jobs[s].status, "PENDING"}
          \/ IsAction(o, "FORCE_CHECK_IN") /\ jobs'[s].status = "SUCCESS"
          \/ IsAction(o, "CANCEL") /\ jobs'[s].status = "FAILED"
      BY <2>1, OverrideStatus
    <2>4. /\ IsAction(o, "FORCE_CHECK_IN") => Overrode(s, "FORCE_CHECK_IN")'
          /\ IsAction(o, "CANCEL") => Overrode(s, "CANCEL")'
      BY <2>2 DEF Overrode, IsAction
    <2>5. \A t \in Scans : jobs'[t].status = "SUCCESS" =>
            jobs[t].status = "SUCCESS" \/ Checked(t)'
      BY <2>1, <2>3, <2>4 DEF Checked
    <2>6. \A t \in Scans : jobs'[t].status = "FAILED" =>
            jobs[t].status = "FAILED" \/ Dropped(t)'
      BY <2>1, <2>3, <2>4 DEF Dropped
    <2> QED BY <1>1, <1>6, <1>8, <2>5, <2>6, CauseFrame DEF CauseInv
  <1> QED BY <1>9, <1>10

LEMMA CauseInvNext == TypeInv /\ JobInv /\ RowInv /\ CauseInv /\ [Next]_vars => CauseInv'
  <1> SUFFICES ASSUME TypeInv, JobInv, RowInv, CauseInv, [Next]_vars PROVE CauseInv'
    OBVIOUS
  <1>a. ASSUME UNCHANGED <<jobs, audit, pub>>, VendorKeepsWord,
               \A s \in Scans : scan'[s].pc \in {scan[s].pc, "crashed"},
               \A o \in AdminOps : adm'[o].job = adm[o].job /\ adm'[o].pc \in {adm[o].pc, "lost"}
        PROVE  CauseInv'
    <2>1. GaveUpIsFinal' /\ AuditedHasBegun' /\ CausesStay
      BY <1>a DEF CauseInv, GaveUpIsFinal, AuditedHasBegun, CausesStay, GaveUp
    <2> QED BY <1>a, <2>1, CauseFrame DEF CauseInv
  <1>1. ASSUME NEW s \in Scans, DoScan(s) PROVE CauseInv'
    BY <1>1, ScanKeepsCauseInv
  <1>2. ASSUME NEW v \in Attempts, DoVendor(v) PROVE CauseInv'
    <2>1. VendorKeepsWord
      BY <1>2, VendorWord DEF DoVendor, JobInv
    <2> QED BY <1>a, <1>2, <2>1 DEF DoVendor, dbVars
  <1>3. ASSUME NEW d \in Deliveries, DoHook(d) PROVE CauseInv'
    BY <1>3, HookKeepsCauseInv
  <1>4. ASSUME NEW o \in AdminOps, DoAdmin(o) PROVE CauseInv'
    BY <1>4, AdminKeepsCauseInv
  <1>5. CASE Crash
    <2>1. /\ \A s \in Scans : scan'[s].pc \in {scan[s].pc, "crashed"}
          /\ \A o \in AdminOps : adm'[o].job = adm[o].job /\ adm'[o].pc \in {adm[o].pc, "lost"}
      BY <1>5 DEF Crash, TypeInv, TypeOK, ScanRecord, AdminRecord
    <2> QED BY <1>a, <1>5, <2>1 DEF Crash, dbVars, vendorVars, VendorKeepsWord
  <1>6. CASE \/ \E d \in Deliveries : DoDeliver(d)
             \/ \E a \in Attendees : DoExpire(a)
             \/ UNCHANGED vars
    BY <1>a, <1>6 DEF DoDeliver, Deliver, DoExpire, vars, dbVars, vendorVars, VendorKeepsWord
  <1> QED BY <1>1, <1>2, <1>3, <1>4, <1>5, <1>6 DEF Next, Work

\* SUCCESS and FAILED each have a cause of their own, whatever callbacks and
\* overrides overlap: no commit of a stale row puts back a status that nobody,
\* for this very job, stands behind.
THEOREM StatusHasCauseCorrect == Spec => []StatusHasCause
  <1>1. Init => CauseInv
    BY DEF Init, DbInit, NoJob, PublishInit, IdlePublisher, ScanInit, CauseInv, GaveUpIsFinal,
           GaveUp, AuditedHasBegun, StatusHasCause
  <1>2. CauseInv => StatusHasCause
    BY DEF CauseInv
  <1> QED BY <1>1, <1>2, CauseInvNext, TypeInvAlways, JobInvAlways, RowInvAlways, PTL DEF Spec
--------------------------------------------------------------------------------
(* Where there are no overrides: the rows follow the vendor's word, and the  *)
(* service implements CheckinLifecycle.                                      *)


\* Until a scan has saved what became of its publish, its row is as inserted: no
\* callback can find it.
UnsavedIsPending ==
  \A s \in Scans :
    scan[s].pc \in AfterCreate => jobs[s].status = "PENDING" /\ jobs[s].vendor_job_id = None

\* A callback in progress holds the row that carries its vendor job id.
HeldById ==
  \A d \in Deliveries :
    hook[d].pc = "commit" =>
      /\ hook[d].job \in Scans
      /\ jobs[hook[d].job].vendor_job_id = d[1]

WordInv == UnsavedIsPending /\ HeldById /\ StatusIsVendorsWord

\* StatusIsVendorsWord for one row.
RowFollows(status, v) ==
  /\ status = "SUCCESS" => v # None /\ vjob[v] = "printed"
  /\ status = "FAILED" /\ v # None => vjob[v] = "failed"

LEMMA WordByRow ==
  StatusIsVendorsWord <=> \A s \in Scans : RowFollows(jobs[s].status, jobs[s].vendor_job_id)
  BY DEF StatusIsVendorsWord, RowFollows

LEMMA WordByRowNext ==
  StatusIsVendorsWord' <=>
    \A s \in Scans :
      /\ jobs'[s].status = "SUCCESS" =>
           jobs'[s].vendor_job_id # None /\ vjob'[jobs'[s].vendor_job_id] = "printed"
      /\ jobs'[s].status = "FAILED" /\ jobs'[s].vendor_job_id # None =>
           vjob'[jobs'[s].vendor_job_id] = "failed"
  BY DEF StatusIsVendorsWord

LEMMA ScanKeepsWordInv ==
  ASSUME TypeInv, JobInv, RowInv, WordInv, NEW s \in Scans, DoScan(s)
  PROVE  WordInv'
  <1> USE DEF DoScan
  <1>1. /\ \A t \in Scans \ {s} : jobs'[t] = jobs[t] /\ scan'[t] = scan[t]
        /\ ScanRow(s)
    BY ScanRows
  <1>2. vjob' = vjob
    BY ScanRowEffect
  <1>3. \A d \in Deliveries : hook[d].pc = "commit" =>
          /\ hook[d].job = s => Inserted(s) /\ scan[s].pc \notin AfterCreate
    <2> SUFFICES ASSUME NEW d \in Deliveries, hook[d].pc = "commit", hook[d].job = s
                 PROVE  Inserted(s) /\ scan[s].pc \notin AfterCreate
      OBVIOUS
    <2>1. jobs[s].vendor_job_id # None
      BY DeliveryType, TypesAssumption DEF WordInv, HeldById
    <2> QED BY <2>1 DEF WordInv, UnsavedIsPending, RowInv, HeldRowsExist
  <1>4. \A t \in Scans : RowFollows(jobs[t].status, jobs[t].vendor_job_id)
    BY WordByRow DEF WordInv
  <1>5. CASE jobs'[s] = jobs[s] /\ (scan'[s].pc \in AfterCreate => scan[s].pc \in AfterCreate)
    <2>1. \A t \in Scans : jobs'[t] = jobs[t]
      BY <1>1, <1>5
    <2>2. UnsavedIsPending' /\ HeldById'
      BY <1>1, <1>5, <2>1 DEF WordInv, UnsavedIsPending, HeldById
    <2> QED BY <1>2, <1>4, <2>1, <2>2, WordByRowNext DEF WordInv, RowFollows
  <1>6. CASE /\ scan[s].pc = "create" /\ ScanIdFree(s)
             /\ jobs'[s] = [status |-> "PENDING", vendor_job_id |-> None,
                            started_at |-> scan[s].started]
    <2>1. ~Inserted(s)
      BY <1>6 DEF ScanIdFree
    <2>2. UnsavedIsPending'
      BY <1>1, <1>6 DEF WordInv, UnsavedIsPending
    <2>3. HeldById'
      BY <1>1, <1>3, <2>1 DEF WordInv, HeldById
    <2> QED BY <1>1, <1>2, <1>4, <1>6, <2>2, <2>3, WordByRowNext DEF WordInv, RowFollows
  <1>7. CASE /\ scan[s].pc \in AfterCreate /\ scan'[s].pc \notin AfterCreate
             /\ \/ jobs'[s].status = jobs[s].status
                \/ /\ jobs'[s].status = "FAILED"
                   /\ jobs'[s].vendor_job_id = jobs[s].vendor_job_id
    <2>1. jobs[s].status = "PENDING" /\ jobs[s].vendor_job_id = None
      BY <1>7 DEF WordInv, UnsavedIsPending
    <2>2. UnsavedIsPending'
      BY <1>1, <1>7 DEF WordInv, UnsavedIsPending
    <2>3. HeldById'
      BY <1>1, <1>3, <1>7 DEF WordInv, HeldById
    <2> QED BY <1>1, <1>2, <1>4, <1>7, <2>1, <2>2, <2>3, WordByRowNext DEF WordInv, RowFollows
  <1> QED BY <1>1, <1>5, <1>6, <1>7 DEF ScanRow, OnlyStatus, AfterCreate

LEMMA HookKeepsWordInv ==
  ASSUME TypeInv, JobInv, RowInv, WordInv, NEW d \in Deliveries, DoHook(d)
  PROVE  WordInv'
  <1> USE DEF DoHook
  <1>1. vjob' = vjob /\ scan' = scan
    BY DEF HookStep, Lookup, CommitCallback, vendorVars
  <1>2. \A t \in Scans : jobs'[t].vendor_job_id = jobs[t].vendor_job_id
    BY HookRows DEF RowInv, HeldRowsExist, OnlyStatus
  <1>3. HeldById'
    <2>1. \A e \in Deliveries : hook'[e].pc = "commit" =>
            \/ hook[e].pc = "commit" /\ hook'[e].job = hook[e].job
            \/ hook'[e].job \in Scans /\ jobs[hook'[e].job].vendor_job_id = e[1]
      BY DEF TypeInv, TypeOK, HookStep, Lookup, CommitCallback, HookGoto, HookRecord,
             JobsWithVendorId
    <2> QED BY <1>2, <2>1 DEF WordInv, HeldById
  <1>4. \A t \in Scans : RowFollows(jobs[t].status, jobs[t].vendor_job_id)
    BY WordByRow DEF WordInv
  <1>5. CASE jobs' = jobs
    BY <1>1, <1>3, <1>4, <1>5, WordByRowNext DEF WordInv, UnsavedIsPending, RowFollows
  <1>6. CASE jobs' # jobs
    <2> DEFINE s == hook[d].job
    <2>1. /\ hook[d].pc = "commit" /\ s \in Scans /\ jobs[s].vendor_job_id = d[1]
          /\ jobs'[s].status = Verdict(d[1])
          /\ \A t \in Scans \ {s} : jobs'[t] = jobs[t]
      BY <1>6, HookRows DEF WordInv, HeldById
    <2>2. d[1] # None /\ vjob[d[1]] \in {"printed", "failed"}
      BY <2>1, DeliveryType, TypesAssumption DEF JobInv, CallbackIsOwn
    <2>3. UnsavedIsPending'
      BY <1>1, <2>1, <2>2 DEF WordInv, UnsavedIsPending
    <2> QED BY <1>1, <1>2, <1>3, <1>4, <2>1, <2>2, <2>3, WordByRowNext
            DEF WordInv, RowFollows, Verdict
  <1> QED BY <1>5, <1>6

LEMMA WordInvNext ==
  ASSUME AdminOps = {}, TypeInv, JobInv, RowInv, WordInv, [Next]_vars
  PROVE  WordInv'
  <1>1. ASSUME NEW s \in Scans, DoScan(s) PROVE WordInv'
    BY <1>1, ScanKeepsWordInv
  <1>2. ASSUME NEW d \in Deliveries, DoHook(d) PROVE WordInv'
    BY <1>2, HookKeepsWordInv
  <1>3. ASSUME jobs' = jobs, VendorKeepsWord,
               \A s \in Scans : scan'[s].pc \in AfterCreate => scan[s].pc \in AfterCreate,
               \A d \in Deliveries : hook'[d].pc = "commit" =>
                 hook[d].pc = "commit" /\ hook'[d].job = hook[d].job
        PROVE  WordInv'
    <2>1. UnsavedIsPending' /\ HeldById'
      BY <1>3 DEF WordInv, UnsavedIsPending, HeldById
    <2>2. \A s \in Scans : jobs[s].vendor_job_id \in Attempts \cup {None}
      BY DEF TypeInv, TypeOK, Job
    <2>3. StatusIsVendorsWord'
      BY <1>3, <2>2, WordByRow, WordByRowNext DEF WordInv, RowFollows, VendorKeepsWord
    <2> QED BY <2>1, <2>3 DEF WordInv
  <1>4. ASSUME NEW v \in Attempts, DoVendor(v) PROVE WordInv'
    <2>1. VendorKeepsWord
      BY <1>4, VendorWord DEF DoVendor, JobInv
    <2> QED BY <1>3, <1>4, <2>1 DEF DoVendor, dbVars
  <1>5. ASSUME NEW d \in Deliveries, DoDeliver(d) PROVE WordInv'
    <2>1. VendorKeepsWord
      BY <1>5 DEF DoDeliver, Deliver, vendorVars, VendorKeepsWord
    <2>2. \A e \in Deliveries : hook'[e].pc = "commit" =>
            hook[e].pc = "commit" /\ hook'[e].job = hook[e].job
      BY <1>5 DEF DoDeliver, Deliver, HookGoto, HookRecord, TypeInv, TypeOK
    <2> QED BY <1>3, <1>5, <2>1, <2>2 DEF DoDeliver, Deliver, dbVars
  <1>6. CASE Crash
    <2>1. VendorKeepsWord /\ jobs' = jobs
      BY <1>6 DEF Crash, dbVars, vendorVars, VendorKeepsWord
    <2>2. \A e \in Deliveries : hook'[e].pc = "commit" =>
            hook[e].pc = "commit" /\ hook'[e].job = hook[e].job
      BY <1>6 DEF Crash, HookRecord, TypeInv, TypeOK
    <2>3. \A s \in Scans : scan'[s].pc \in AfterCreate => scan[s].pc \in AfterCreate
      BY <1>6 DEF Crash, TypeInv, TypeOK, ScanRecord, AfterCreate
    <2> QED BY <1>3, <2>1, <2>2, <2>3
  <1>7. ASSUME UNCHANGED <<dbVars, vendorVars, scan, hook>> PROVE WordInv'
    <2>1. VendorKeepsWord
      BY <1>7 DEF vendorVars, VendorKeepsWord
    <2> QED BY <1>3, <1>7, <2>1 DEF dbVars
  <1>8. ASSUME NEW a \in Attendees, DoExpire(a) PROVE WordInv'
    BY <1>7, <1>8 DEF DoExpire
  <1>9. CASE UNCHANGED vars
    BY <1>7, <1>9 DEF vars
  <1> QED BY <1>1, <1>2, <1>4, <1>5, <1>6, <1>8, <1>9 DEF Next, Work

LEMMA WordInvInit == Init => WordInv
  <1> SUFFICES ASSUME Init PROVE WordInv
    OBVIOUS
  <1> QED BY WordByRow DEF Init, DbInit, NoJob, ScanInit, HookInit, WordInv, AfterCreate,
                           UnsavedIsPending, HeldById, RowFollows

LEMMA WordInvAlways == ASSUME AdminOps = {} PROVE Spec => []WordInv
  <1>1. TypeInv /\ JobInv /\ RowInv /\ WordInv /\ [Next]_vars => WordInv'
    BY WordInvNext
  <1> QED BY <1>1, WordInvInit, TypeInvAlways, JobInvAlways, RowInvAlways, PTL DEF Spec

\* Where no override speaks, SUCCESS and FAILED are what the vendor said of the
\* very job whose id the row carries, however often and late callbacks come.
THEOREM StatusIsVendorsWordCorrect ==
  ASSUME AdminOps = {} PROVE Spec => []StatusIsVendorsWord
  <1>1. WordInv => StatusIsVendorsWord
    BY DEF WordInv
  <1> QED BY <1>1, WordInvAlways, PTL
--------------------------------------------------------------------------------
(* The refinement. *)

LEMMA LifecycleInitRefined == Init => Lifecycle!LifecycleInit
  BY DEF Init, DbInit, NoJob, Lifecycle!LifecycleInit

LEMMA LifecycleNextRefined ==
  ASSUME AdminOps = {}, TypeInv, JobInv, RowInv, WordInv, [Next]_vars
  PROVE  [Lifecycle!LifecycleNext]_<<[s \in Scans |-> jobs[s].status], badge>>
  <1> DEFINE st == [s \in Scans |-> jobs[s].status]
  <1>1. ASSUME NEW s \in Scans, DoScan(s)
        PROVE  badge' = badge /\ (st' = st \/ Lifecycle!Open(s) \/ Lifecycle!Fail(s))
    <2>1. /\ \A t \in Scans \ {s} : jobs'[t] = jobs[t]
          /\ badge' = badge
          /\ ScanRow(s)
      BY <1>1, ScanRows DEF DoScan
    <2>2. CASE jobs'[s].status = jobs[s].status
      BY <2>1, <2>2
    <2>3. CASE ScanIdFree(s) /\ jobs'[s].status = "PENDING"
      <3>1. jobs[s].status = "NONE"
        BY <2>3 DEF ScanIdFree, Inserted
      <3>2. st' = [st EXCEPT ![s] = "PENDING"]
        BY <2>1, <2>3
      <3> QED BY <2>1, <3>1, <3>2 DEF Lifecycle!Open
    <2>4. CASE scan[s].pc = "failcommit" /\ jobs'[s].status = "FAILED"
      <3>1. jobs[s].status = "PENDING"
        BY <2>4 DEF WordInv, UnsavedIsPending, AfterCreate
      <3>2. st' = [st EXCEPT ![s] = "FAILED"]
        BY <2>1, <2>4
      <3> QED BY <2>1, <3>1, <3>2 DEF Lifecycle!Fail
    <2> QED BY <2>1, <2>2, <2>3, <2>4 DEF ScanRow
  <1>2. ASSUME NEW d \in Deliveries, DoHook(d)
        PROVE  \/ badge' = badge /\ st' = st
               \/ \E s \in Scans : Lifecycle!Succeed(s) \/ Lifecycle!Fail(s)
    <2>1. CASE jobs' = jobs /\ badge' = badge
      BY <2>1
    <2>2. CASE ~(jobs' = jobs /\ badge' = badge)
      <3> DEFINE s == hook[d].job
      <3>1. /\ hook[d].pc = "commit" /\ s \in Scans /\ Inserted(s)
            /\ jobs[s].vendor_job_id = d[1]
            /\ ApplyVerdict(s, Verdict(d[1]))
            /\ \A t \in Scans \ {s} : jobs'[t] = jobs[t]
            /\ jobs'[s].status = Verdict(d[1])
        BY <1>2, <2>2, HookRows DEF DoHook, WordInv, HeldById, RowInv, HeldRowsExist
      <3>2. d[1] # None /\ vjob[d[1]] \in {"printed", "failed"}
        BY <3>1, DeliveryType, TypesAssumption DEF JobInv, CallbackIsOwn
      <3>3. st' = [st EXCEPT ![s] = Verdict(d[1])]
        BY <3>1
      <3>4. badge' = IF Verdict(d[1]) = "SUCCESS" THEN [badge EXCEPT ![AttendeeOf[s]] = TRUE]
                     ELSE badge
        BY <3>1 DEF ApplyVerdict
      <3>5. CASE jobs[s].status = "PENDING"
        BY <3>1, <3>3, <3>4, <3>5 DEF Lifecycle!Succeed, Lifecycle!Fail, Verdict
      <3>6. CASE jobs[s].status # "PENDING"
        <4>1. RowFollows(jobs[s].status, jobs[s].vendor_job_id)
          BY <3>1, WordByRow DEF WordInv
        <4>2. jobs[s].status \in {"SUCCESS", "FAILED"}
          BY <3>1, <3>6 DEF Inserted, TypeInv, TypeOK, Job, Statuses
        <4>3. jobs[s].status = Verdict(d[1])
          BY <3>1, <3>2, <4>1, <4>2 DEF RowFollows, Verdict
        <4>4. jobs[s].status = "SUCCESS" => badge[AttendeeOf[s]]
          BY <3>1 DEF JobInv, SuccessImpliesCheckedIn
        <4>5. AttendeeOf[s] \in Attendees
          BY <3>1, TypesAssumption
        <4>6. badge' = badge
          BY <3>4, <4>3, <4>4, <4>5 DEF TypeInv, TypeOK
        <4> QED BY <3>3, <4>3, <4>6
      <3> QED BY <3>5, <3>6
    <2> QED BY <2>1, <2>2
  <1>3. \/ \E s \in Scans : DoScan(s)
        \/ \E d \in Deliveries : DoHook(d)
        \/ jobs' = jobs /\ badge' = badge
    BY DEF Next, Work, DoVendor, DoDeliver, Deliver, DoExpire, Crash, vars, dbVars
  <1> QED BY <1>1, <1>2, <1>3 DEF Lifecycle!LifecycleNext

\* The service implements the life cycle of a check-in, under every interleaving
\* of scans and callbacks with any faults and crashes.
THEOREM LifecycleRefinedCorrect ==
  ASSUME AdminOps = {} PROVE Spec => LifecycleRefined
  <1>1. TypeInv /\ JobInv /\ RowInv /\ WordInv /\ [Next]_vars =>
          [Lifecycle!LifecycleNext]_<<[s \in Scans |-> jobs[s].status], badge>>
    BY LifecycleNextRefined
  <1> QED BY <1>1, LifecycleInitRefined, WordInvAlways, TypeInvAlways, JobInvAlways,
             RowInvAlways, PTL DEF Spec, LifecycleRefined, Lifecycle!LifecycleSpec
==================================================================================
