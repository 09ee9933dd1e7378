------------------------------ MODULE CheckinProofs ------------------------------
(***************************************************************************)
(* Proofs for every value of the constants: any number of attendees,       *)
(* scans, kiosks, retries, deliveries, overrides and faults.               *)
(*                                                                         *)
(* The first part shows that every step keeps the types.  The vendor job   *)
(* id that a scan saves is in range only because the publish loop has made *)
(* a POST by then, so TypeInv says of the loop what that takes.  The last  *)
(* part carries the invariant of LoopProofs over to the service.  The      *)
(* clocks of PublishTiming, which LoopProofs brings along, play no part.   *)
(***************************************************************************)
EXTENDS CheckinProperties, LoopProofs

\* The loop of scan s has counted a POST whenever it sends, waits or has been
\* accepted.
AttemptCounted ==
  \A s \in Scans :
    pub[s].pc \in {"send", "wait"} \/ Submitted(s) => pub[s].attempt \in 1..MaxRetries

\* A scan saves a vendor job id only after its publish was submitted.
SavesWhenSubmitted ==
  \A s \in Scans : scan[s].pc = "okcommit" => Submitted(s)

TypeInv == TypeOK /\ AttemptCounted /\ SavesWhenSubmitted
--------------------------------------------------------------------------------
(* What the building blocks of the actions do. *)

LEMMA FaultType ==
  ASSUME faults \in 0..MaxFaults, Fault \/ NoFault
  PROVE  faults' \in 0..MaxFaults
  BY FaultsAssumption DEF Fault, NoFault

LEMMA GotoEffect ==
  ASSUME scan \in [Scans -> ScanRecord], NEW s \in Scans, NEW pc \in ScanPcs, Goto(s, pc)
  PROVE  /\ scan' \in [Scans -> ScanRecord]
         /\ scan'[s].pc = pc
         /\ \A t \in Scans \ {s} : scan'[t] = scan[t]
  BY DEF Goto, ScanRecord

LEMMA AnswerEffect ==
  ASSUME scan \in [Scans -> ScanRecord], NEW s \in Scans, NEW pc \in ScanPcs,
         NEW resp \in Responses, NEW job \in Scans \cup {None}, Answer(s, pc, resp, job)
  PROVE  /\ scan' \in [Scans -> ScanRecord]
         /\ scan'[s].pc = pc
         /\ \A t \in Scans \ {s} : scan'[t] = scan[t]
  BY DEF Answer, ScanRecord

LEMMA InsertType ==
  ASSUME jobs \in [Scans -> Job], scan \in [Scans -> ScanRecord], NEW s \in Scans, InsertJob(s)
  PROVE  jobs' \in [Scans -> Job]
  BY DEF InsertJob, Job, Statuses, ScanRecord

LEMMA FlushType ==
  ASSUME NEW row \in Job, NEW loaded \in Job, NEW object \in Job
  PROVE  Flush(row, loaded, object) \in Job
  BY DEF Flush, Job

LEMMA PutStateType ==
  ASSUME rstate \in [Attendees -> State], NEW a \in Attendees, NEW value \in State,
         PutState(a, value)
  PROVE  rstate' \in [Attendees -> State] /\ (Fault \/ NoFault)
  BY DEF PutState

LEMMA ReturnEffect ==
  ASSUME pub \in [Scans -> Publisher], AttemptCounted, NEW s \in Scans,
         NEW result \in PublishResults, Return(s, result),
         result = "submitted" => pub[s].pc = "wait"
  PROVE  /\ pub' \in [Scans -> Publisher] /\ AttemptCounted'
         /\ pub'[s].result = result
         /\ \A t \in Scans \ {s} : pub'[t] = pub[t]
  BY DEF Return, Publisher, PublishResults, AttemptCounted, Submitted

LEMMA NextAttemptEffect ==
  ASSUME pub \in [Scans -> Publisher], AttemptCounted, NEW s \in Scans,
         NEW error \in BOOLEAN, NextAttempt(s, error), pub[s].attempt < MaxRetries
  PROVE  /\ pub' \in [Scans -> Publisher] /\ AttemptCounted'
         /\ pub'[s].result = "none"
         /\ \A t \in Scans \ {s} : pub'[t] = pub[t]
  <1>1. pub[s].attempt + 1 \in 1..MaxRetries
    BY TypesAssumption DEF Publisher
  <1>2. /\ pub' \in [Scans -> Publisher]
        /\ \A t \in Scans \ {s} : pub'[t] = pub[t]
        /\ pub'[s].attempt = pub[s].attempt + 1 /\ pub'[s].result = "none"
    BY <1>1, TypesAssumption DEF NextAttempt, Publisher, PublishResults
  <1>3. AttemptCounted'
    BY <1>1, <1>2 DEF AttemptCounted, Submitted
  <1> QED BY <1>2, <1>3

LEMMA RetryEffect ==
  ASSUME pub \in [Scans -> Publisher], AttemptCounted, NEW s \in Scans,
         NEW error \in BOOLEAN, Retry(s, error)
  PROVE  /\ pub' \in [Scans -> Publisher] /\ AttemptCounted'
         /\ pub'[s].result \in {"none", "TIMEOUT_ERROR", "VENDOR_ERROR"}
         /\ \A t \in Scans \ {s} : pub'[t] = pub[t]
  <1>1. CASE Exhausted(s)
    <2>1. ErrorAfterRetries(s, error) \in PublishResults
      BY DEF ErrorAfterRetries, PublishResults
    <2>2. ErrorAfterRetries(s, error) \in {"TIMEOUT_ERROR", "VENDOR_ERROR"}
      BY DEF ErrorAfterRetries
    <2> QED BY <1>1, <2>1, <2>2, ReturnEffect DEF Retry
  <1>2. CASE ~Exhausted(s)
    <2>1. pub[s].attempt < MaxRetries
      BY <1>2, TypesAssumption DEF Exhausted, Publisher
    <2> QED BY <1>2, <2>1, NextAttemptEffect DEF Retry
  <1> QED BY <1>1, <1>2
--------------------------------------------------------------------------------
(* The steps of each part keep the types of the variables they change. *)

LEMMA PublishStepType ==
  ASSUME TypeInv, NEW s \in Scans, PublishStep(s)
  PROVE  /\ pub' \in [Scans -> Publisher] /\ AttemptCounted'
         /\ \A t \in Scans \ {s} : pub'[t] = pub[t]
         /\ http' \in [Attempts -> HttpStates]
         /\ vjob' = vjob
         /\ Fault \/ NoFault
  <1> USE DEF TypeInv, TypeOK
  <1>1. CASE Start(s)
    <2>1. "CONFIG_ERROR" \in PublishResults
      BY DEF PublishResults
    <2> QED BY <1>1, <2>1, ReturnEffect, RetryEffect DEF Start, vendorVars
  <1>2. CASE Send(s)
    <2>1. pub' \in [Scans -> Publisher] /\ AttemptCounted'
      BY <1>2 DEF Send, Publisher, AttemptCounted, Submitted
    <2>2. http' \in [Attempts -> HttpStates]
      BY <1>2 DEF Send, HttpStates
    <2> QED BY <1>2, <2>1, <2>2 DEF Send
  <1>3. CASE Unreachable(s)
    BY <1>3, RetryEffect DEF Unreachable, vendorVars
  <1>4. CASE ReadAccepted(s)
    BY <1>4, ReturnEffect DEF ReadAccepted, vendorVars, PublishResults
  <1>5. CASE ReadPermanent(s)
    BY <1>5, ReturnEffect DEF ReadPermanent, vendorVars, PublishResults
  <1>6. CASE ReadTransient(s)
    <2>1. pub[s].last_error \in BOOLEAN
      BY DEF Publisher
    <2> QED BY <1>6, <2>1, RetryEffect DEF ReadTransient, vendorVars
  <1>7. CASE TimeOut(s)
    BY <1>7, RetryEffect DEF TimeOut, vendorVars
  <1>8. CASE Raise(s)
    BY <1>8, ReturnEffect DEF Raise, vendorVars, PublishResults
  <1> QED BY <1>1, <1>2, <1>3, <1>4, <1>5, <1>6, <1>7, <1>8 DEF PublishStep

LEMMA VendorStepType ==
  ASSUME TypeOK, NEW v \in Attempts, VendorStep(v)
  PROVE  http' \in [Attempts -> HttpStates] /\ vjob' \in [Attempts -> VendorJobStates]
  BY DEF TypeOK, VendorStep, Accept, Refuse, Hold, PrintBadge, HttpStates, VendorJobStates

\* What a step of scan s owes when it leaves the publish loop alone.
LEMMA ScanFrame ==
  ASSUME TypeInv, NEW s \in Scans, UNCHANGED <<pub, vendorVars, hook, adm>>,
         scan' \in [Scans -> ScanRecord],
         \A t \in Scans \ {s} : scan'[t] = scan[t],
         scan'[s].pc # "okcommit",
         badge' = badge, jobs' \in [Scans -> Job], audit' \subseteq Scans \cup AdminOps,
         clock' \in Nat, lock' \in [Attendees -> Scans \cup {None}],
         rstate' \in [Attendees -> State], Fault \/ NoFault
  PROVE  TypeInv'
  <1>1. faults' \in 0..MaxFaults
    BY FaultType DEF TypeInv, TypeOK
  <1>2. TypeOK'
    BY <1>1 DEF TypeInv, TypeOK, vendorVars
  <1>3. AttemptCounted'
    BY DEF TypeInv, AttemptCounted, Submitted
  <1>4. SavesWhenSubmitted'
    BY DEF TypeInv, SavesWhenSubmitted, Submitted
  <1> QED BY <1>2, <1>3, <1>4 DEF TypeInv

LEMMA StateValues ==
  ASSUME NEW s \in Scans \cup {None}, NEW name \in {"PENDING", "SUCCESS"}
  PROVE  [state |-> name, job |-> s] \in State /\ NoState \in State
  BY DEF State, NoState

LEMMA ScanFaults ==
  ASSUME TypeInv, NEW s \in Scans, ScanStep(s)
  PROVE  Fault \/ NoFault
  <1>1. CASE Publish(s)
    BY <1>1, PublishStepType DEF Publish
  <1>2. CASE ~Publish(s)
    BY <1>2 DEF ScanStep, ReadAttendee, CheckState, GetState, TakeLock, AcquireLock,
                CreatePrintJob, Commit, SetPending, SetState, LogAudit, SaveVendorJobId,
                DropState, DeleteState, PutState, SaveFailure, HandleException, FinallyGet,
                ReleaseGet, FinallyDelete, ReleaseDelete
  <1> QED BY <1>1, <1>2

LEMMA ScanStepType ==
  ASSUME TypeInv, NEW s \in Scans, ScanStep(s), UNCHANGED <<hook, adm>>
  PROVE  TypeInv'
  <1> USE DEF TypeInv, TypeOK
  <1>a. AttendeeOf[s] \in Attendees
    BY TypesAssumption
  <1>b. {"state", "lock", "create", "pending", "audit", "publish", "failstate",
         "failcommit", "okcommit", "except", "finally1", "finally2", "done"} \subseteq ScanPcs
    BY DEF ScanPcs, Claiming
  <1>c. {"FAILED", "DUPLICATE", "ERROR", "PENDING", "LOCKED"} \subseteq Responses
    BY DEF Responses
  <1>1. CASE ReadAttendee(s)
    BY <1>1, <1>b, <1>c, GotoEffect, AnswerEffect, ScanFrame
       DEF ReadAttendee, dbVars, redisVars
  <1>2. CASE CheckState(s)
    <2>1. PICK state \in {"NONE", "PENDING", "SUCCESS"} :
            /\ GetState(AttendeeOf[s], state)
            /\ IF AnswerFromState(state) = "none" THEN Goto(s, "lock")
               ELSE Answer(s, "done", AnswerFromState(state), None)
      BY <1>2 DEF CheckState
    <2>2. AnswerFromState(state) \in {"DUPLICATE", "PENDING", "none"}
      BY DEF AnswerFromState
    <2>3. Fault \/ NoFault
      BY <2>1 DEF GetState
    <2>4. /\ scan' \in [Scans -> ScanRecord]
          /\ \A t \in Scans \ {s} : scan'[t] = scan[t]
          /\ scan'[s].pc # "okcommit"
      BY <2>1, <2>2, <1>b, <1>c, GotoEffect, AnswerEffect
    <2> QED BY <1>2, <2>3, <2>4, ScanFrame DEF CheckState, dbVars, redisVars
  <1>3. CASE TakeLock(s)
    <2>1. PICK acquired \in BOOLEAN :
            /\ AcquireLock(AttendeeOf[s], s, acquired)
            /\ IF acquired
               THEN /\ scan' = [scan EXCEPT ![s] = [pc |-> "create", resp |-> "none",
                                                    started |-> clock, job |-> None]]
                    /\ clock' = clock + 1
               ELSE Answer(s, "done", "LOCKED", None) /\ UNCHANGED clock
      BY <1>3 DEF TakeLock
    <2>2. lock' \in [Attendees -> Scans \cup {None}] /\ (Fault \/ NoFault)
      BY <2>1, <1>a DEF AcquireLock
    <2>3. [pc |-> "create", resp |-> "none", started |-> clock, job |-> None] \in ScanRecord
      BY DEF ScanRecord, ScanPcs, Claiming, Responses
    <2>4. /\ scan' \in [Scans -> ScanRecord]
          /\ \A t \in Scans \ {s} : scan'[t] = scan[t]
          /\ scan'[s].pc # "okcommit"
      <3>1. CASE acquired
        BY <2>1, <2>3, <3>1
      <3>2. CASE ~acquired
        BY <2>1, <3>2, <1>b, <1>c, AnswerEffect
      <3> QED BY <3>1, <3>2
    <2>5. clock' \in Nat
      BY <2>1
    <2> QED BY <1>3, <2>2, <2>4, <2>5, ScanFrame DEF TakeLock
  <1>4. CASE CreatePrintJob(s)
    BY <1>4, <1>b, GotoEffect, InsertType, ScanFrame
       DEF CreatePrintJob, Commit, redisVars
  <1>5. CASE SetPending(s)
    BY <1>5, <1>a, <1>b, GotoEffect, StateValues, PutStateType, ScanFrame
       DEF SetPending, SetState, dbVars
  <1>6. CASE LogAudit(s)
    BY <1>6, <1>b, GotoEffect, ScanFrame DEF LogAudit, Commit, redisVars
  <1>7. CASE Publish(s)
    <2>1. /\ pub' \in [Scans -> Publisher] /\ AttemptCounted'
          /\ \A t \in Scans \ {s} : pub'[t] = pub[t]
          /\ http' \in [Attempts -> HttpStates] /\ vjob' = vjob
          /\ Fault \/ NoFault
      BY <1>7, PublishStepType DEF Publish
    <2>2. /\ AfterPublish(pub'[s].result) \in ScanPcs
          /\ AfterPublish(pub'[s].result) = "okcommit" => Submitted(s)'
      BY <1>b DEF AfterPublish, Submitted
    <2>3. /\ scan' \in [Scans -> ScanRecord]
          /\ scan'[s].pc = AfterPublish(pub'[s].result)
          /\ \A t \in Scans \ {s} : scan'[t] = scan[t]
      BY <1>7, <2>2, GotoEffect DEF Publish
    <2>4. SavesWhenSubmitted'
      BY <2>1, <2>2, <2>3 DEF SavesWhenSubmitted, Submitted
    <2>5. faults' \in 0..MaxFaults
      BY <2>1, FaultType
    <2> QED BY <1>7, <2>1, <2>3, <2>4, <2>5 DEF Publish, dbVars, redisVars
  <1>8. CASE SaveVendorJobId(s)
    <2>1. Post(s) \in Attempts
      BY <1>8 DEF SaveVendorJobId, SavesWhenSubmitted, AttemptCounted, Post, Attempts
    <2>2. VendorJobOf(s) \in Attempts
      BY <2>1 DEF VendorJobOf
    <2>3. jobs' \in [Scans -> Job]
      BY <1>8, <2>2 DEF SaveVendorJobId, Job
    <2> QED
      BY <1>8, <2>3, <1>b, <1>c, GotoEffect, AnswerEffect, ScanFrame
         DEF SaveVendorJobId, redisVars
  <1>9. CASE DropState(s)
    BY <1>9, <1>a, <1>b, GotoEffect, StateValues, PutStateType, ScanFrame
       DEF DropState, DeleteState, dbVars
  <1>10. CASE SaveFailure(s)
    <2>1. jobs' \in [Scans -> Job]
      BY <1>10 DEF SaveFailure, Job, Statuses
    <2> QED
      BY <1>10, <2>1, <1>b, <1>c, GotoEffect, AnswerEffect, ScanFrame
         DEF SaveFailure, redisVars
  <1>11. CASE HandleException(s)
    BY <1>11, <1>a, <1>b, <1>c, AnswerEffect, StateValues, PutStateType, ScanFrame
       DEF HandleException, DeleteState, dbVars
  <1>12. CASE FinallyGet(s)
    BY <1>12, <1>b, GotoEffect, ScanFrame DEF FinallyGet, ReleaseGet, dbVars, redisVars
  <1>13. CASE FinallyDelete(s)
    <2>1. lock' \in [Attendees -> Scans \cup {None}] /\ (Fault \/ NoFault)
      BY <1>13, <1>a DEF FinallyDelete, ReleaseDelete
    <2> QED BY <1>13, <2>1, <1>b, GotoEffect, ScanFrame DEF FinallyDelete, dbVars
  <1> QED
    BY <1>1, <1>2, <1>3, <1>4, <1>5, <1>6, <1>7, <1>8, <1>9, <1>10, <1>11, <1>12, <1>13
       DEF ScanStep

LEMMA DeliveryType ==
  ASSUME NEW d \in Deliveries
  PROVE  d[1] \in Attempts /\ d[1][1] \in Scans
  BY DEF Deliveries, Attempts

LEMMA HookGotoType ==
  ASSUME hook \in [Deliveries -> HookRecord], NEW d \in Deliveries, NEW pc \in HookPcs,
         HookGoto(d, pc)
  PROVE  hook' \in [Deliveries -> HookRecord]
  BY DEF HookGoto, HookRecord

LEMMA HookStepType ==
  ASSUME TypeOK, NEW d \in Deliveries, HookStep(d)
  PROVE  /\ hook' \in [Deliveries -> HookRecord]
         /\ jobs' \in [Scans -> Job] /\ badge' \in [Attendees -> BOOLEAN]
         /\ audit' = audit /\ clock' = clock
         /\ Fault \/ NoFault
  <1> USE DEF TypeOK
  <1>a. {"lookup", "commit", "done"} \subseteq HookPcs
    BY DEF HookPcs
  <1>1. CASE Lookup(d)
    <2>1. hook' \in [Deliveries -> HookRecord]
      <3>1. CASE HookGoto(d, "done")
        BY <3>1, <1>a, HookGotoType
      <3>2. CASE \E s \in JobsWithVendorId(d[1]) :
                   hook' = [hook EXCEPT ![d] = [pc |-> "commit", job |-> s]]
        BY <3>2, <1>a DEF HookRecord, JobsWithVendorId
      <3> QED BY <1>1, <3>1, <3>2 DEF Lookup
    <2> QED BY <1>1, <2>1 DEF Lookup, dbVars
  <1>2. CASE CommitCallback(d)
    <2>1. Verdict(d[1]) \in Statuses
      BY DEF Verdict, Statuses
    <2>2. jobs' \in [Scans -> Job] /\ badge' \in [Attendees -> BOOLEAN]
      BY <1>2, <2>1 DEF CommitCallback, ApplyVerdict, Job
    <2>3. hook' \in [Deliveries -> HookRecord]
      BY <1>2, <1>a, HookGotoType DEF CommitCallback
    <2> QED BY <1>2, <2>2, <2>3 DEF CommitCallback
  <1> QED BY <1>1, <1>2 DEF HookStep

LEMMA AdminGotoType ==
  ASSUME adm \in [AdminOps -> AdminRecord], NEW o \in AdminOps, NEW pc \in AdminPcs,
         AdminGoto(o, pc)
  PROVE  adm' \in [AdminOps -> AdminRecord]
  BY DEF AdminGoto, AdminRecord

LEMMA OverriddenType ==
  ASSUME adm \in [AdminOps -> AdminRecord], NEW o \in AdminOps
  PROVE  Overridden(o) \in Job
  BY DEF Overridden, AdminRecord, Job, Statuses

\* A commit of an override writes a well-formed row.
LEMMA OverrideType ==
  ASSUME TypeOK, NEW o \in AdminOps, Override(o)
  PROVE  /\ jobs' \in [Scans -> Job] /\ badge' \in [Attendees -> BOOLEAN]
         /\ audit' \subseteq Scans \cup AdminOps
  <1> USE DEF TypeOK
  <1>1. adm[o].seen \in Job /\ adm[o].job \in Scans \cup {None}
    BY DEF AdminRecord
  <1>2. jobs' \in [Scans -> Job]
    <2>1. CASE adm[o].job = None
      BY <2>1 DEF Override
    <2>2. CASE adm[o].job # None
      <3> DEFINE s == adm[o].job
      <3>1. s \in Scans /\ jobs[s] \in Job
        BY <1>1, <2>2
      <3>2. Flush(jobs[s], adm[o].seen, Overridden(o)) \in Job
        BY <3>1, <1>1, OverriddenType, FlushType
      <3>3. jobs' = [jobs EXCEPT ![s] = Flush(jobs[s], adm[o].seen, Overridden(o))]
        BY <2>2 DEF Override
      <3> QED BY <3>1, <3>2, <3>3
    <2> QED BY <2>1, <2>2
  <1>3. badge' \in [Attendees -> BOOLEAN] /\ audit' \subseteq Scans \cup AdminOps
    BY DEF Override
  <1> QED BY <1>2, <1>3

LEMMA AdminStepType ==
  ASSUME TypeOK, NEW o \in AdminOps, AdminStep(o)
  PROVE  /\ adm' \in [AdminOps -> AdminRecord]
         /\ jobs' \in [Scans -> Job] /\ badge' \in [Attendees -> BOOLEAN]
         /\ audit' \subseteq Scans \cup AdminOps /\ clock' = clock
         /\ lock' \in [Attendees -> Scans \cup {None}]
         /\ rstate' \in [Attendees -> State]
         /\ Fault \/ NoFault
  <1> USE DEF TypeOK
  <1>a. TargetOf[o] \in Attendees
    BY AdminAssumption
  <1>b. {"setstate", "delstate", "relget", "reldel", "commit", "done", "rejected",
         "error"} \subseteq AdminPcs
    BY DEF AdminPcs
  <1>c. FirstStep(o) \in AdminPcs
    BY <1>b DEF FirstStep
  <1>1. CASE ReadLatest(o)
    <2>1. adm' \in [AdminOps -> AdminRecord]
      <3>1. ASSUME NEW pc \in AdminPcs, AdminGoto(o, pc)
            PROVE  adm' \in [AdminOps -> AdminRecord]
        BY <3>1, AdminGotoType
      <3>2. ASSUME NEW s \in LatestJobs(TargetOf[o]),
                   adm' = [adm EXCEPT ![o] =
                             [pc |-> FirstStep(o), job |-> s, seen |-> jobs[s]]]
            PROVE  adm' \in [AdminOps -> AdminRecord]
        BY <3>2, <1>c DEF LatestJobs, AdminRecord
      <3> QED BY <1>1, <1>b, <1>c, <3>1, <3>2 DEF ReadLatest
    <2> QED BY <1>1, <2>1 DEF ReadLatest, dbVars, redisVars
  <1>2. CASE ForceState(o)
    <2>1. adm[o].job \in Scans \cup {None}
      BY DEF AdminRecord
    <2> QED
      BY <1>2, <2>1, <1>a, <1>b, AdminGotoType, StateValues, PutStateType
         DEF ForceState, SetState, dbVars
  <1>3. CASE ClearState(o)
    BY <1>3, <1>a, <1>b, AdminGotoType, StateValues, PutStateType
       DEF ClearState, DeleteState, dbVars
  <1>4. CASE UnlockGet(o)
    BY <1>4, <1>b, AdminGotoType DEF UnlockGet, ReleaseGet, dbVars, redisVars
  <1>5. CASE UnlockDelete(o)
    <2>1. lock' \in [Attendees -> Scans \cup {None}] /\ (Fault \/ NoFault)
      BY <1>5, <1>a DEF UnlockDelete, ReleaseDelete
    <2> QED BY <1>5, <2>1, <1>b, AdminGotoType DEF UnlockDelete, dbVars
  <1>6. CASE CommitOverride(o)
    <2>1. /\ jobs' \in [Scans -> Job] /\ badge' \in [Attendees -> BOOLEAN]
          /\ audit' \subseteq Scans \cup AdminOps
      BY <1>6, OverrideType DEF CommitOverride
    <2> QED BY <1>6, <2>1, <1>b, AdminGotoType DEF CommitOverride, redisVars
  <1> QED BY <1>1, <1>2, <1>3, <1>4, <1>5, <1>6 DEF AdminStep
--------------------------------------------------------------------------------
(* The system. *)

LEMMA TypeInvInit == Init => TypeInv
  <1> SUFFICES ASSUME Init PROVE TypeInv
    OBVIOUS
  <1> USE DEF Init
  <1>1. badge \in [Attendees -> BOOLEAN] /\ jobs \in [Scans -> Job]
        /\ audit \subseteq Scans \cup AdminOps /\ clock \in Nat
    BY DEF DbInit, NoJob, Job, Statuses
  <1>2. lock \in [Attendees -> Scans \cup {None}] /\ rstate \in [Attendees -> State]
    BY DEF RedisInit, NoState, State
  <1>3. http \in [Attempts -> HttpStates] /\ vjob \in [Attempts -> VendorJobStates]
    BY DEF VendorInit, HttpStates, VendorJobStates
  <1>4. faults \in 0..MaxFaults
    BY FaultsAssumption
  <1>5. pub \in [Scans -> Publisher]
    BY TypesAssumption DEF PublishInit, IdlePublisher, Publisher, PublishResults
  <1>6. scan \in [Scans -> ScanRecord]
    BY DEF ScanInit, ScanRecord, ScanPcs, Responses
  <1>7. hook \in [Deliveries -> HookRecord]
    BY DEF HookInit, HookRecord, HookPcs
  <1>8. adm \in [AdminOps -> AdminRecord]
    BY DEF AdminInit, AdminRecord, AdminPcs, NoJob, Job, Statuses
  <1>9. AttemptCounted /\ SavesWhenSubmitted
    BY DEF PublishInit, IdlePublisher, ScanInit, AttemptCounted, SavesWhenSubmitted,
           Submitted
  <1> QED
    BY <1>1, <1>2, <1>3, <1>4, <1>5, <1>6, <1>7, <1>8, <1>9 DEF TypeInv, TypeOK

\* AttemptCounted and SavesWhenSubmitted depend on two variables only.
LEMMA PublishFrame ==
  ASSUME TypeInv, TypeOK', UNCHANGED pub,
         \A s \in Scans : scan'[s] = scan[s] \/ scan'[s].pc = "crashed"
  PROVE  TypeInv'
  BY DEF TypeInv, AttemptCounted, SavesWhenSubmitted, Submitted

LEMMA CrashType ==
  ASSUME TypeOK, Crash
  PROVE  /\ scan' \in [Scans -> ScanRecord]
         /\ hook' \in [Deliveries -> HookRecord]
         /\ adm' \in [AdminOps -> AdminRecord]
  <1> USE DEF TypeOK
  <1>1. scan' \in [Scans -> ScanRecord]
    <2>1. \A s \in Scans : [scan[s] EXCEPT !.pc = "crashed"] \in ScanRecord
      BY DEF ScanRecord, ScanPcs
    <2> QED BY <2>1 DEF Crash
  <1>2. hook' \in [Deliveries -> HookRecord]
    <2>1. \A d \in Deliveries : [hook[d] EXCEPT !.pc = "lost"] \in HookRecord
      BY DEF HookRecord, HookPcs
    <2> QED BY <2>1 DEF Crash
  <1>3. adm' \in [AdminOps -> AdminRecord]
    <2>1. \A o \in AdminOps : [adm[o] EXCEPT !.pc = "lost"] \in AdminRecord
      BY DEF AdminRecord, AdminPcs
    <2> QED BY <2>1 DEF Crash
  <1> QED BY <1>1, <1>2, <1>3

LEMMA TypeInvNext == TypeInv /\ [Next]_vars => TypeInv'
  <1> SUFFICES ASSUME TypeInv, [Next]_vars PROVE TypeInv'
    OBVIOUS
  <1>1. ASSUME NEW s \in Scans, DoScan(s) PROVE TypeInv'
    BY <1>1, ScanStepType DEF DoScan
  <1>2. ASSUME NEW v \in Attempts, DoVendor(v) PROVE TypeInv'
    <2>1. TypeOK'
      BY <1>2, VendorStepType DEF DoVendor, TypeInv, TypeOK, dbVars, redisVars
    <2> QED BY <1>2, <2>1, PublishFrame DEF DoVendor
  <1>3. ASSUME NEW d \in Deliveries, DoDeliver(d) PROVE TypeInv'
    <2>1. hook' \in [Deliveries -> HookRecord]
      BY <1>3, HookGotoType DEF DoDeliver, Deliver, TypeInv, TypeOK, HookPcs
    <2>2. TypeOK'
      BY <1>3, <2>1
         DEF DoDeliver, Deliver, NoFault, TypeInv, TypeOK, dbVars, redisVars, vendorVars
    <2> QED BY <1>3, <2>2, PublishFrame DEF DoDeliver
  <1>4. ASSUME NEW d \in Deliveries, DoHook(d) PROVE TypeInv'
    <2>1. http' = http /\ vjob' = vjob
      BY <1>4 DEF DoHook, HookStep, Lookup, CommitCallback, vendorVars
    <2>2. faults' \in 0..MaxFaults
      BY <1>4, HookStepType, FaultType DEF DoHook, TypeInv, TypeOK
    <2>3. TypeOK'
      BY <1>4, <2>1, <2>2, HookStepType DEF DoHook, TypeInv, TypeOK, redisVars
    <2> QED BY <1>4, <2>3, PublishFrame DEF DoHook
  <1>5. ASSUME NEW o \in AdminOps, DoAdmin(o) PROVE TypeInv'
    <2>1. faults' \in 0..MaxFaults
      BY <1>5, AdminStepType, FaultType DEF DoAdmin, TypeInv, TypeOK
    <2>2. TypeOK'
      BY <1>5, <2>1, AdminStepType DEF DoAdmin, TypeInv, TypeOK, vendorVars
    <2> QED BY <1>5, <2>2, PublishFrame DEF DoAdmin
  <1>6. ASSUME NEW a \in Attendees, DoExpire(a) PROVE TypeInv'
    <2>1. /\ lock' \in [Attendees -> Scans \cup {None}]
          /\ rstate' \in [Attendees -> State]
      BY <1>6 DEF DoExpire, ExpireLock, ExpireState, NoState, State, TypeInv, TypeOK
    <2>2. TypeOK'
      BY <1>6, <2>1 DEF DoExpire, TypeInv, TypeOK, dbVars, vendorVars
    <2> QED BY <1>6, <2>2, PublishFrame DEF DoExpire
  <1>7. CASE Crash
    <2>1. faults' \in 0..MaxFaults
      BY <1>7, FaultType DEF Crash, TypeInv, TypeOK
    <2>2. TypeOK'
      BY <1>7, <2>1, CrashType DEF Crash, TypeInv, TypeOK, dbVars, redisVars, vendorVars
    <2>3. \A s \in Scans : scan'[s] = scan[s] \/ scan'[s].pc = "crashed"
      BY <1>7 DEF Crash, TypeInv, TypeOK, ScanRecord
    <2> QED BY <1>7, <2>2, <2>3, PublishFrame DEF Crash
  <1>8. CASE UNCHANGED vars
    BY <1>8 DEF vars, dbVars, redisVars, vendorVars, TypeInv, TypeOK, AttemptCounted,
                SavesWhenSubmitted, Submitted
  <1> QED BY <1>1, <1>2, <1>3, <1>4, <1>5, <1>6, <1>7, <1>8 DEF Next, Work

\* The counter of faults only grows: as long as it is 0 nothing has failed.
LEMMA NothingFailed ==
  ASSUME TypeInv, [Next]_vars, faults' = 0
  PROVE  faults = 0 /\ NoFault
  <1>1. faults \in Nat
    BY FaultsAssumption DEF TypeInv, TypeOK
  <1>2. Fault \/ NoFault
    <2>1. ASSUME NEW s \in Scans, DoScan(s) PROVE Fault \/ NoFault
      BY <2>1, ScanFaults DEF DoScan
    <2>2. ASSUME NEW d \in Deliveries, DoHook(d) PROVE Fault \/ NoFault
      BY <2>2, HookStepType DEF DoHook, TypeInv
    <2>3. ASSUME NEW o \in AdminOps, DoAdmin(o) PROVE Fault \/ NoFault
      BY <2>3, AdminStepType DEF DoAdmin, TypeInv
    <2>4. CASE /\ ~\E s \in Scans : DoScan(s)
               /\ ~\E d \in Deliveries : DoHook(d)
               /\ ~\E o \in AdminOps : DoAdmin(o)
      BY <2>4 DEF Next, Work, DoVendor, DoDeliver, Deliver, DoExpire, Crash, NoFault, vars
    <2> QED BY <2>1, <2>2, <2>3, <2>4
  <1> QED BY <1>1, <1>2 DEF Fault, NoFault

LEMMA TypeInvAlways == Spec => []TypeInv
  BY TypeInvInit, TypeInvNext, PTL DEF Spec

\* Every variable keeps its type whatever interleaves, fails or crashes.
THEOREM TypeCorrect == Spec => []TypeOK
  <1>1. TypeInv => TypeOK
    BY DEF TypeInv
  <1> QED BY <1>1, TypeInvAlways, PTL
--------------------------------------------------------------------------------
(* The loop in the service is the loop alone. *)

\* Only Publish touches the variables of the loop.
LEMMA OnlyPublish ==
  ASSUME NEW s \in Scans, ScanStep(s), ~Publish(s)
  PROVE  UNCHANGED <<http, vjob, pub>>
  BY DEF ScanStep, ReadAttendee, CheckState, TakeLock, CreatePrintJob, SetPending, LogAudit,
         SaveVendorJobId, DropState, SaveFailure, HandleException, FinallyGet, FinallyDelete,
         vendorVars

\* A step that leaves the loop alone is a fault elsewhere, or nothing.
LEMMA LeavesLoop ==
  ASSUME UNCHANGED <<http, vjob, pub>>, Fault \/ NoFault
  PROVE  [LoopNext]_loopVars
  BY DEF LoopNext, Elsewhere, loopVars, NoFault

LEMMA LoopNextRefined == TypeInv /\ [Next]_vars => [LoopNext]_loopVars
  <1> SUFFICES ASSUME TypeInv, [Next]_vars PROVE [LoopNext]_loopVars
    OBVIOUS
  <1>0. TypeOK
    BY DEF TypeInv
  <1>1. ASSUME NEW s \in Scans, DoScan(s) PROVE [LoopNext]_loopVars
    <2>1. CASE Publish(s)
      BY <2>1 DEF Publish, LoopNext
    <2>2. CASE ~Publish(s)
      BY <1>1, <2>2, OnlyPublish, ScanFaults, LeavesLoop DEF DoScan
    <2> QED BY <2>1, <2>2
  <1>2. ASSUME NEW v \in Attempts, DoVendor(v) PROVE [LoopNext]_loopVars
    BY <1>2 DEF DoVendor, Serve, LoopNext
  <1>3. ASSUME NEW d \in Deliveries, DoDeliver(d) \/ DoHook(d) PROVE [LoopNext]_loopVars
    <2>1. UNCHANGED <<http, vjob, pub>>
      BY <1>3 DEF DoDeliver, Deliver, DoHook, HookStep, Lookup, CommitCallback, vendorVars
    <2>2. Fault \/ NoFault
      BY <1>0, <1>3, HookStepType DEF DoDeliver, Deliver, DoHook
    <2> QED BY <2>1, <2>2, LeavesLoop
  <1>4. ASSUME NEW o \in AdminOps, DoAdmin(o) PROVE [LoopNext]_loopVars
    BY <1>0, <1>4, AdminStepType, LeavesLoop DEF DoAdmin, vendorVars
  <1>5. CASE Crash \/ (\E a \in Attendees : DoExpire(a)) \/ UNCHANGED vars
    BY <1>5, LeavesLoop DEF Crash, DoExpire, vars, vendorVars, NoFault
  <1> QED BY <1>1, <1>2, <1>3, <1>4, <1>5 DEF Next, Work

LEMMA LoopInvInService == Spec => []LoopInv
  <1>1. Init => LoopInv
    BY LoopInvInit DEF Init, LoopInit
  <1>2. TypeInv /\ LoopInv /\ [Next]_vars => LoopInv'
    BY LoopNextRefined, LoopInvNext
  <1> QED BY <1>1, <1>2, TypeInvAlways, PTL DEF Spec
==================================================================================
