-------------------------------- MODULE JobProofs --------------------------------
(***************************************************************************)
(* What the database says about check-ins, proved for every value of the   *)
(* constants.  The chain of facts runs from the vendor to the badge: an    *)
(* answer that is read names a job the vendor has; the id that is saved is *)
(* that job's; a callback is applied to the row that carries its id, hence *)
(* to its own scan; an override is applied to a job of its own target.     *)
(***************************************************************************)
EXTENDS CheckinProofs

\* A callback in progress comes from a finished vendor job, and is applied to
\* the scan that the job was made for.
CallbackIsOwn ==
  \A d \in Deliveries :
    /\ hook[d].pc \in {"lookup", "commit"} => vjob[d[1]] \in {"printed", "failed"}
    /\ hook[d].pc = "commit" => hook[d].job = d[1][1]

\* An override holds a job of its target.
OverrideIsOwn ==
  \A o \in AdminOps : adm[o].job # None => AttendeeOf[adm[o].job] = TargetOf[o]

\* LoopInv has the first link: a submitted result names a job the vendor has.
JobInv ==
  /\ LoopInv /\ VendorIdIsOwn /\ CallbackIsOwn /\ OverrideIsOwn
  /\ SuccessImpliesCheckedIn /\ CheckedInWasPrintedOrForced
--------------------------------------------------------------------------------
LEMMA JobInvInit == Init => JobInv
  <1> SUFFICES ASSUME Init PROVE JobInv
    OBVIOUS
  <1> USE DEF Init
  <1>1. LoopInv
    BY LoopInvInit DEF LoopInit
  <1>2. VendorIdIsOwn /\ SuccessImpliesCheckedIn /\ CheckedInWasPrintedOrForced
    BY TypesAssumption
       DEF VendorIdIsOwn, SuccessImpliesCheckedIn, CheckedInWasPrintedOrForced, DbInit, NoJob
  <1>3. CallbackIsOwn /\ OverrideIsOwn
    BY DEF CallbackIsOwn, OverrideIsOwn, HookInit, AdminInit
  <1> QED BY <1>1, <1>2, <1>3 DEF JobInv
--------------------------------------------------------------------------------
(* What each part's steps do to the facts above. *)

\* The vendor never takes back a job or a verdict.
VendorKeepsWord ==
  \A v \in Attempts :
    /\ vjob[v] # "none" => vjob'[v] # "none"
    /\ vjob[v] \in {"printed", "failed"} => vjob'[v] = vjob[v]

LEMMA VendorWord ==
  ASSUME LoopInv, NEW v \in Attempts, VendorStep(v)
  PROVE  VendorKeepsWord
  <1>1. CASE Accept(v)
    BY <1>1 DEF Accept, VendorKeepsWord, LoopInv, LoopTypeOK, AnswerIsReal
  <1>2. CASE Refuse(v) \/ Hold(v) \/ PrintBadge(v)
    BY <1>2 DEF Refuse, Hold, PrintBadge, VendorKeepsWord, LoopInv, LoopTypeOK
  <1> QED BY <1>1, <1>2 DEF VendorStep

\* A scan never makes a job SUCCESS, never checks anyone in, and saves no
\* vendor job id but the one its own publish returned.
LEMMA ScanRowEffect ==
  ASSUME TypeInv, NEW s \in Scans, ScanStep(s)
  PROVE  /\ badge' = badge /\ vjob' = vjob /\ audit \subseteq audit'
         /\ \A t \in Scans : jobs'[t].status = "SUCCESS" => jobs[t].status = "SUCCESS"
         /\ \A t \in Scans :
              \/ jobs'[t].vendor_job_id \in {None, jobs[t].vendor_job_id}
              \/ /\ t = s /\ Submitted(s)
                 /\ jobs'[t].vendor_job_id = VendorJobOf(s)
  <1> USE DEF TypeInv, TypeOK
  <1>a. ASSUME jobs' = jobs
        PROVE  /\ \A t \in Scans : jobs'[t].status = "SUCCESS" => jobs[t].status = "SUCCESS"
               /\ \A t \in Scans : jobs'[t].vendor_job_id = jobs[t].vendor_job_id
    BY <1>a
  <1>1. CASE ReadAttendee(s) \/ CheckState(s) \/ FinallyGet(s)
    BY <1>1, <1>a DEF ReadAttendee, CheckState, FinallyGet, dbVars, vendorVars
  <1>2. CASE TakeLock(s)
    BY <1>2, <1>a DEF TakeLock, vendorVars
  <1>3. CASE CreatePrintJob(s)
    <2>1. jobs' = jobs \/ InsertJob(s)
      BY <1>3 DEF CreatePrintJob, Commit
    <2>2. CASE InsertJob(s)
      BY <1>3, <2>2 DEF InsertJob, CreatePrintJob, vendorVars
    <2> QED BY <1>3, <2>1, <2>2, <1>a DEF CreatePrintJob, vendorVars
  <1>4. CASE SetPending(s) \/ DropState(s) \/ HandleException(s) \/ FinallyDelete(s)
    BY <1>4, <1>a DEF SetPending, DropState, HandleException, FinallyDelete, dbVars, vendorVars
  <1>5. CASE LogAudit(s)
    BY <1>5, <1>a DEF LogAudit, Commit, vendorVars
  <1>6. CASE Publish(s)
    BY <1>6, <1>a, PublishStepType DEF Publish, dbVars
  <1>7. CASE SaveVendorJobId(s)
    <2>1. Submitted(s)
      BY <1>7 DEF SaveVendorJobId, SavesWhenSubmitted
    <2>2. jobs' = jobs \/ jobs' = [jobs EXCEPT ![s].vendor_job_id = VendorJobOf(s)]
      BY <1>7 DEF SaveVendorJobId
    <2>3. CASE jobs' = [jobs EXCEPT ![s].vendor_job_id = VendorJobOf(s)]
      BY <1>7, <2>1, <2>3 DEF SaveVendorJobId, Job, vendorVars
    <2> QED BY <1>7, <2>2, <2>3, <1>a DEF SaveVendorJobId, vendorVars
  <1>8. CASE SaveFailure(s)
    <2>1. jobs' = jobs \/ jobs' = [jobs EXCEPT ![s].status = "FAILED"]
      BY <1>8 DEF SaveFailure
    <2>2. CASE jobs' = [jobs EXCEPT ![s].status = "FAILED"]
      BY <1>8, <2>2 DEF SaveFailure, Job, vendorVars
    <2> QED BY <1>8, <2>1, <2>2, <1>a DEF SaveFailure, vendorVars
  <1> QED BY <1>1, <1>2, <1>3, <1>4, <1>5, <1>6, <1>7, <1>8 DEF ScanStep

LEMMA ScanKeepsJobInv ==
  ASSUME TypeInv, JobInv, LoopInv', NEW s \in Scans, ScanStep(s), UNCHANGED <<hook, adm>>
  PROVE  JobInv'
  <1> USE DEF TypeInv, TypeOK, JobInv
  <1>1. LoopInv'
    OBVIOUS
  <1>2. VendorIdIsOwn'
    <2> SUFFICES ASSUME NEW t \in Scans, jobs'[t].vendor_job_id # None
                 PROVE  /\ jobs'[t].vendor_job_id[1] = t
                        /\ vjob'[jobs'[t].vendor_job_id] # "none"
      BY DEF VendorIdIsOwn
    <2>1. CASE jobs'[t].vendor_job_id = jobs[t].vendor_job_id
      BY <2>1, ScanRowEffect DEF VendorIdIsOwn
    <2>2. CASE t = s /\ Submitted(s) /\ jobs'[t].vendor_job_id = VendorJobOf(s)
      <3>1. Post(s) \in Attempts /\ Post(s)[1] = s
        BY <2>2 DEF AttemptCounted, Post, Attempts
      <3>2. VendorJobOf(s)[1] = s
        BY <3>1 DEF VendorJobOf
      <3> QED BY <2>2, <3>2, ScanRowEffect DEF LoopInv, SubmittedIsAccepted
    <2> QED BY <2>1, <2>2, ScanRowEffect
  <1>3. CallbackIsOwn' /\ OverrideIsOwn'
    BY ScanRowEffect DEF CallbackIsOwn, OverrideIsOwn
  <1>4. SuccessImpliesCheckedIn'
    BY ScanRowEffect DEF SuccessImpliesCheckedIn
  <1>5. CheckedInWasPrintedOrForced'
    BY ScanRowEffect DEF CheckedInWasPrintedOrForced, Printed, Forced
  <1> QED BY <1>1, <1>2, <1>3, <1>4, <1>5

LEMMA VendorKeepsJobInv ==
  ASSUME TypeInv, JobInv, LoopInv', NEW v \in Attempts, DoVendor(v)
  PROVE  JobInv'
  <1> USE DEF TypeInv, TypeOK, JobInv, DoVendor, dbVars
  <1>1. VendorKeepsWord
    BY VendorWord
  <1>2. VendorIdIsOwn'
    BY <1>1 DEF VendorIdIsOwn, VendorKeepsWord, Job
  <1>3. CallbackIsOwn'
    BY <1>1, DeliveryType DEF CallbackIsOwn, VendorKeepsWord
  <1>4. OverrideIsOwn' /\ SuccessImpliesCheckedIn'
    BY DEF OverrideIsOwn, SuccessImpliesCheckedIn
  <1>5. CheckedInWasPrintedOrForced'
    <2>1. \A a \in Attendees : Printed(a) \subseteq Printed(a)'
      BY <1>1 DEF Printed, VendorKeepsWord
    <2> QED BY <2>1 DEF CheckedInWasPrintedOrForced, Forced
  <1> QED BY <1>1, <1>2, <1>3, <1>4, <1>5

LEMMA DeliverKeepsJobInv ==
  ASSUME TypeInv, JobInv, LoopInv', NEW d \in Deliveries, DoDeliver(d)
  PROVE  JobInv'
  <1> USE DEF TypeInv, TypeOK, JobInv, DoDeliver, Deliver, HookGoto, dbVars, vendorVars
  <1>1. LoopInv'
    OBVIOUS
  <1>2. CallbackIsOwn'
    BY DEF CallbackIsOwn, HookRecord
  <1>3. /\ VendorIdIsOwn' /\ OverrideIsOwn' /\ SuccessImpliesCheckedIn'
        /\ CheckedInWasPrintedOrForced'
    BY DEF VendorIdIsOwn, OverrideIsOwn, SuccessImpliesCheckedIn,
           CheckedInWasPrintedOrForced, Printed, Forced
  <1> QED BY <1>1, <1>2, <1>3

\* The lookup finds the row by the vendor's id, so the row is the one of the
\* scan that the vendor made the job for.
LEMMA LookupFindsOwn ==
  ASSUME TypeInv, VendorIdIsOwn, NEW v \in Attempts, NEW s \in JobsWithVendorId(v)
  PROVE  s = v[1]
  <1>1. v # None
    BY TypesAssumption
  <1> QED BY <1>1 DEF JobsWithVendorId, VendorIdIsOwn

LEMMA HookKeepsJobInv ==
  ASSUME TypeInv, JobInv, LoopInv', NEW d \in Deliveries, DoHook(d)
  PROVE  JobInv'
  <1> USE DEF TypeInv, TypeOK, JobInv, DoHook
  <1>a. d[1] \in Attempts /\ d[1][1] \in Scans
    BY DeliveryType
  <1>b. \A s \in Scans : AttendeeOf[s] \in Attendees
    BY TypesAssumption
  <1>c. http' = http /\ vjob' = vjob
    BY DEF HookStep, Lookup, CommitCallback, vendorVars
  <1>1. LoopInv'
    OBVIOUS
  <1>2. CASE Lookup(d)
    <2>1. CallbackIsOwn'
      <3>1. CASE HookGoto(d, "done")
        BY <1>c, <3>1 DEF HookGoto, CallbackIsOwn, HookRecord
      <3>2. CASE \E s \in JobsWithVendorId(d[1]) :
                   hook' = [hook EXCEPT ![d] = [pc |-> "commit", job |-> s]]
        <4>1. PICK s \in JobsWithVendorId(d[1]) :
                hook' = [hook EXCEPT ![d] = [pc |-> "commit", job |-> s]]
          BY <3>2
        <4>2. s = d[1][1]
          BY <1>a, LookupFindsOwn
        <4>3. vjob[d[1]] \in {"printed", "failed"}
          BY <1>2 DEF Lookup, CallbackIsOwn
        <4> QED BY <1>c, <4>1, <4>2, <4>3 DEF CallbackIsOwn
      <3> QED BY <1>2, <3>1, <3>2 DEF Lookup
    <2> QED
      BY <1>1, <1>2, <1>c, <2>1
         DEF Lookup, dbVars, VendorIdIsOwn, OverrideIsOwn, SuccessImpliesCheckedIn,
             CheckedInWasPrintedOrForced, Printed, Forced
  <1>3. CASE CommitCallback(d)
    <2> DEFINE s == d[1][1]
    <2>1. hook[d].job = s /\ vjob[d[1]] \in {"printed", "failed"}
      BY <1>3 DEF CommitCallback, CallbackIsOwn
    <2>2. CallbackIsOwn' /\ OverrideIsOwn'
      BY <1>3, <1>c DEF CommitCallback, HookGoto, CallbackIsOwn, OverrideIsOwn, HookRecord
    <2>3. audit' = audit
      BY <1>3 DEF CommitCallback
    <2>4. CASE UNCHANGED <<badge, jobs>>
      BY <1>1, <1>c, <2>2, <2>3, <2>4
         DEF VendorIdIsOwn, SuccessImpliesCheckedIn, CheckedInWasPrintedOrForced, Printed,
             Forced
    <2>5. CASE ApplyVerdict(s, Verdict(d[1]))
      <3>1. jobs' = [jobs EXCEPT ![s].status = Verdict(d[1])]
        BY <2>5 DEF ApplyVerdict
      <3>2. VendorIdIsOwn'
        BY <1>a, <1>c, <3>1 DEF VendorIdIsOwn, Job
      <3>3. badge' = IF Verdict(d[1]) = "SUCCESS"
                     THEN [badge EXCEPT ![AttendeeOf[s]] = TRUE] ELSE badge
        BY <2>5 DEF ApplyVerdict
      <3>4. SuccessImpliesCheckedIn'
        BY <1>a, <1>b, <3>1, <3>3 DEF SuccessImpliesCheckedIn, Job
      <3>5. CheckedInWasPrintedOrForced'
        <4> SUFFICES ASSUME NEW a \in Attendees, badge'[a]
                     PROVE  Printed(a)' # {} \/ Forced(a)' \cap audit' # {}
          BY DEF CheckedInWasPrintedOrForced
        <4>1. CASE badge[a]
          BY <1>c, <2>3, <4>1 DEF CheckedInWasPrintedOrForced, Printed, Forced
        <4>2. CASE ~badge[a]
          <5>1. Verdict(d[1]) = "SUCCESS" /\ a = AttendeeOf[s]
            BY <1>b, <3>3, <4>2
          <5>2. vjob[d[1]] = "printed"
            BY <5>1 DEF Verdict
          <5> QED BY <1>a, <1>c, <5>1, <5>2 DEF Printed
        <4> QED BY <4>1, <4>2
      <3> QED BY <1>1, <2>2, <3>2, <3>4, <3>5
    <2> QED BY <1>3, <2>1, <2>4, <2>5 DEF CommitCallback
  <1> QED BY <1>2, <1>3 DEF HookStep

\* What the commit of an override may do to the row it is about.
LEMMA OverrideEffect ==
  ASSUME TypeInv, NEW o \in AdminOps, Override(o)
  PROVE  /\ \A t \in Scans \ {adm[o].job} : jobs'[t] = jobs[t]
         /\ \A t \in Scans : jobs'[t].vendor_job_id \in {None, jobs[t].vendor_job_id}
         /\ \A t \in Scans : jobs'[t].status = "SUCCESS" =>
              \/ jobs[t].status = "SUCCESS"
              \/ t = adm[o].job /\ ActionOf[o] = "FORCE_CHECK_IN"
  <1> USE DEF TypeInv, TypeOK
  <1>1. CASE adm[o].job = None
    BY <1>1 DEF Override
  <1>2. CASE adm[o].job # None
    <2> DEFINE s == adm[o].job
    <2>1. s \in Scans /\ adm[o].seen \in Job /\ jobs[s] \in Job
      BY <1>2 DEF AdminRecord
    <2>2. jobs' = [jobs EXCEPT ![s] = Flush(jobs[s], adm[o].seen, Overridden(o))]
      BY <1>2 DEF Override
    <2>3. jobs'[s] = Flush(jobs[s], adm[o].seen, Overridden(o))
      BY <2>1, <2>2
    <2>4. Overridden(o).vendor_job_id \in {None, adm[o].seen.vendor_job_id}
      BY <2>1 DEF Overridden, Job
    <2>5. Overridden(o).status = "SUCCESS" =>
            adm[o].seen.status = "SUCCESS" \/ ActionOf[o] = "FORCE_CHECK_IN"
      BY <2>1 DEF Overridden, Job
    <2>6. jobs'[s].vendor_job_id \in {None, jobs[s].vendor_job_id}
      BY <2>1, <2>3, <2>4 DEF Flush, Job
    <2>7. jobs'[s].status = "SUCCESS" =>
            jobs[s].status = "SUCCESS" \/ ActionOf[o] = "FORCE_CHECK_IN"
      BY <2>1, <2>3, <2>5 DEF Flush, Job
    <2>8. \A t \in Scans \ {s} : jobs'[t] = jobs[t]
      BY <2>2
    <2> QED BY <2>6, <2>7, <2>8
  <1> QED BY <1>1, <1>2

LEMMA AdminKeepsJobInv ==
  ASSUME TypeInv, JobInv, LoopInv', NEW o \in AdminOps, DoAdmin(o)
  PROVE  JobInv'
  <1> USE DEF TypeInv, TypeOK, JobInv, DoAdmin, vendorVars
  <1>1. CallbackIsOwn'
    BY DEF CallbackIsOwn
  <1>2. OverrideIsOwn'
    <2>1. ASSUME NEW pc, AdminGoto(o, pc) PROVE OverrideIsOwn'
      BY <2>1 DEF AdminGoto, AdminRecord, OverrideIsOwn
    <2>2. ASSUME NEW s \in LatestJobs(TargetOf[o]),
                 adm' = [adm EXCEPT ![o] =
                           [pc |-> FirstStep(o), job |-> s, seen |-> jobs[s]]]
          PROVE  OverrideIsOwn'
      BY <2>2 DEF LatestJobs, OverrideIsOwn
    <2> QED BY <2>1, <2>2 DEF AdminStep, ReadLatest, ForceState, ClearState, UnlockGet,
                              UnlockDelete, CommitOverride
  <1>3. CASE UNCHANGED <<badge, jobs, audit>>
    BY <1>1, <1>2, <1>3 DEF VendorIdIsOwn, SuccessImpliesCheckedIn,
                            CheckedInWasPrintedOrForced, Printed, Forced
  <1>4. CASE Override(o)
    <2>1. VendorIdIsOwn'
      BY <1>4, OverrideEffect DEF VendorIdIsOwn
    <2>2. badge' = IF ActionOf[o] = "FORCE_CHECK_IN"
                   THEN [badge EXCEPT ![TargetOf[o]] = TRUE] ELSE badge
      BY <1>4 DEF Override, IsAction
    <2>3. \A t \in Scans : AttendeeOf[t] \in Attendees
      BY TypesAssumption
    <2>4. SuccessImpliesCheckedIn'
      <3> SUFFICES ASSUME NEW t \in Scans, jobs'[t].status = "SUCCESS"
                   PROVE  badge'[AttendeeOf[t]]
        BY DEF SuccessImpliesCheckedIn
      <3>1. CASE jobs[t].status = "SUCCESS"
        BY <2>2, <2>3, <3>1 DEF SuccessImpliesCheckedIn
      <3>2. CASE t = adm[o].job /\ ActionOf[o] = "FORCE_CHECK_IN"
        <4>1. AttendeeOf[t] = TargetOf[o]
          BY <3>2, TypesAssumption DEF OverrideIsOwn
        <4> QED BY <2>2, <2>3, <3>2, <4>1
      <3> QED BY <1>4, <3>1, <3>2, OverrideEffect
    <2>5. CheckedInWasPrintedOrForced'
      <3> SUFFICES ASSUME NEW a \in Attendees, badge'[a]
                   PROVE  Printed(a)' # {} \/ Forced(a)' \cap audit' # {}
        BY DEF CheckedInWasPrintedOrForced
      <3>1. audit' = audit \cup {o}
        BY <1>4 DEF Override
      <3>2. CASE badge[a]
        BY <3>1, <3>2 DEF CheckedInWasPrintedOrForced, Printed, Forced
      <3>3. CASE ~badge[a]
        <4>1. ActionOf[o] = "FORCE_CHECK_IN" /\ TargetOf[o] = a
          BY <2>2, <3>3
        <4> QED BY <3>1, <4>1 DEF Forced
      <3> QED BY <3>2, <3>3
    <2> QED BY <1>1, <1>2, <2>1, <2>4, <2>5
  <1> QED BY <1>3, <1>4 DEF AdminStep, ReadLatest, ForceState, ClearState, UnlockGet,
                            UnlockDelete, CommitOverride, dbVars

LEMMA CrashKeepsJobInv ==
  ASSUME TypeInv, JobInv, LoopInv', Crash
  PROVE  JobInv'
  <1> USE DEF TypeInv, TypeOK, JobInv, Crash, dbVars, vendorVars
  <1>1. LoopInv'
    OBVIOUS
  <1>2. CallbackIsOwn'
    BY DEF CallbackIsOwn, HookRecord
  <1>3. OverrideIsOwn'
    BY DEF OverrideIsOwn, AdminRecord
  <1>4. /\ VendorIdIsOwn' /\ SuccessImpliesCheckedIn' /\ CheckedInWasPrintedOrForced'
    BY DEF VendorIdIsOwn, SuccessImpliesCheckedIn, CheckedInWasPrintedOrForced, Printed, Forced
  <1> QED BY <1>1, <1>2, <1>3, <1>4
--------------------------------------------------------------------------------
LEMMA JobInvNext == TypeInv /\ JobInv /\ [Next]_vars => JobInv'
  <1> SUFFICES ASSUME TypeInv, JobInv, [Next]_vars PROVE JobInv'
    OBVIOUS
  <1>0. LoopInv'
    BY LoopNextRefined, LoopInvNext DEF JobInv
  <1>1. ASSUME NEW s \in Scans, DoScan(s) PROVE JobInv'
    BY <1>0, <1>1, ScanKeepsJobInv DEF DoScan
  <1>2. ASSUME NEW v \in Attempts, DoVendor(v) PROVE JobInv'
    BY <1>0, <1>2, VendorKeepsJobInv
  <1>3. ASSUME NEW d \in Deliveries, DoDeliver(d) \/ DoHook(d) PROVE JobInv'
    BY <1>0, <1>3, DeliverKeepsJobInv, HookKeepsJobInv
  <1>4. ASSUME NEW o \in AdminOps, DoAdmin(o) PROVE JobInv'
    BY <1>0, <1>4, AdminKeepsJobInv
  <1>5. ASSUME UNCHANGED <<dbVars, vendorVars, pub, hook, adm>> PROVE JobInv'
    BY <1>0, <1>5 DEF JobInv, CallbackIsOwn, OverrideIsOwn, VendorIdIsOwn,
                SuccessImpliesCheckedIn, CheckedInWasPrintedOrForced, Printed, Forced,
                dbVars, vendorVars
  <1>6. ASSUME NEW a \in Attendees, DoExpire(a) PROVE JobInv'
    BY <1>5, <1>6 DEF DoExpire
  <1>7. CASE UNCHANGED vars
    BY <1>5, <1>7 DEF vars
  <1> QED BY <1>0, <1>1, <1>2, <1>3, <1>4, <1>6, <1>7, CrashKeepsJobInv DEF Next, Work

LEMMA JobInvAlways == Spec => []JobInv
  BY JobInvInit, JobInvNext, TypeInvAlways, PTL DEF Spec

\* A job is SUCCESS only if its attendee is checked in, under every interleaving
\* of scans, callbacks and overrides, with any faults and crashes.
THEOREM SuccessImpliesCheckedInCorrect == Spec => []SuccessImpliesCheckedIn
  <1>1. JobInv => SuccessImpliesCheckedIn
    BY DEF JobInv
  <1> QED BY <1>1, JobInvAlways, PTL

\* Nobody is checked in without a printed badge of their own or an audited
\* forced check-in.
THEOREM CheckedInWasPrintedOrForcedCorrect == Spec => []CheckedInWasPrintedOrForced
  <1>1. JobInv => CheckedInWasPrintedOrForced
    BY DEF JobInv
  <1> QED BY <1>1, JobInvAlways, PTL

\* A stored vendor job id is that of a job the vendor made for that very scan.
THEOREM VendorIdIsOwnCorrect == Spec => []VendorIdIsOwn
  <1>1. JobInv => VendorIdIsOwn
    BY DEF JobInv
  <1> QED BY <1>1, JobInvAlways, PTL
==================================================================================
