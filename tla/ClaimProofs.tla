------------------------------- MODULE ClaimProofs -------------------------------
(***************************************************************************)
(* Mutual exclusion of the claim, for any number of scans, under           *)
(* LeaseIntact.  The argument is the usual one for a lock kept in one      *)
(* place: a scan in its claim finds its own value in the lock, and two     *)
(* scans of one attendee cannot both find theirs.  Same-kiosk scans are    *)
(* covered too: the owner text does not tell them apart, but a scan that   *)
(* reaches release_lock still holds the key.                               *)
(***************************************************************************)
EXTENDS CheckinProofs

HoldsLock == \A s \in Scans : InClaim(s) => lock[AttendeeOf[s]] = s

\* An override never gets as far as deleting a kiosk's lock.
NoAdminDelete == \A o \in AdminOps : adm[o].pc # "reldel"

ClaimInv == HoldsLock /\ NoAdminDelete
--------------------------------------------------------------------------------
LEMMA ClaimInvInit == Init => ClaimInv
  BY DEF Init, ScanInit, AdminInit, ClaimInv, HoldsLock, NoAdminDelete, InClaim, Claiming

\* Only TakeLock enters the claim, only release_lock leaves it, and only its DELETE
\* gives the lock back.
LEMMA ScanClaim ==
  ASSUME TypeInv, NEW s \in Scans, ScanStep(s)
  PROVE  /\ \A t \in Scans \ {s} : scan'[t] = scan[t]
         /\ TakeLock(s) \/ (scan'[s].pc \in Claiming => InClaim(s))
         /\ TakeLock(s) \/ FinallyDelete(s) \/ lock' = lock
         /\ FinallyGet(s) \/ FinallyDelete(s) \/ (InClaim(s) => scan'[s].pc \in Claiming)
  <1> USE DEF TypeInv, TypeOK, InClaim
  <1>1. CASE ReadAttendee(s)
    BY <1>1 DEF ReadAttendee, Answer, Goto, Claiming, redisVars, ScanRecord
  <1>2. CASE CheckState(s)
    BY <1>2 DEF CheckState, Answer, Goto, Claiming, redisVars, ScanRecord
  <1>3. CASE TakeLock(s)
    BY <1>3 DEF TakeLock, Answer, Claiming
  <1>4. CASE CreatePrintJob(s)
    BY <1>4 DEF CreatePrintJob, Commit, Goto, Claiming, ScanRecord, redisVars
  <1>5. CASE SetPending(s)
    BY <1>5 DEF SetPending, Goto, Claiming, ScanRecord
  <1>6. CASE LogAudit(s)
    BY <1>6 DEF LogAudit, Commit, Goto, Claiming, ScanRecord, redisVars
  <1>7. CASE Publish(s)
    BY <1>7 DEF Publish, Goto, AfterPublish, Claiming, ScanRecord, redisVars
  <1>8. CASE SaveVendorJobId(s)
    BY <1>8 DEF SaveVendorJobId, Answer, Goto, Claiming, ScanRecord, redisVars
  <1>9. CASE DropState(s)
    BY <1>9 DEF DropState, Goto, Claiming, ScanRecord
  <1>10. CASE SaveFailure(s)
    BY <1>10 DEF SaveFailure, Answer, Goto, Claiming, ScanRecord, redisVars
  <1>11. CASE HandleException(s)
    BY <1>11 DEF HandleException, Answer, Claiming
  <1>12. CASE FinallyGet(s)
    BY <1>12 DEF FinallyGet, Goto, Claiming, redisVars
  <1>13. CASE FinallyDelete(s)
    BY <1>13 DEF FinallyDelete, Goto, Claiming
  <1> QED
    BY <1>1, <1>2, <1>3, <1>4, <1>5, <1>6, <1>7, <1>8, <1>9, <1>10, <1>11, <1>12, <1>13
       DEF ScanStep

LEMMA ScanKeepsClaim ==
  ASSUME LeaseIntact, TypeInv, ClaimInv, NEW s \in Scans, ScanStep(s)
  PROVE  HoldsLock'
  <1> USE DEF TypeInv, TypeOK
  <1>a. \A t \in Scans : AttendeeOf[t] \in Attendees
    BY TypesAssumption
  <1>b. \A t \in Scans \ {s} : scan'[t] = scan[t]
    BY ScanClaim
  <1>1. CASE TakeLock(s)
    <2>1. PICK acquired \in BOOLEAN :
            /\ AcquireLock(AttendeeOf[s], s, acquired)
            /\ IF acquired THEN TRUE ELSE Answer(s, "done", "LOCKED", None)
      BY <1>1 DEF TakeLock
    <2>2. CASE acquired
      <3>1. /\ lock[AttendeeOf[s]] = None
            /\ lock' = [lock EXCEPT ![AttendeeOf[s]] = s]
        BY <2>1, <2>2 DEF AcquireLock, LeaseIntact
      <3>2. ASSUME NEW t \in Scans, InClaim(t)' PROVE lock'[AttendeeOf[t]] = t
        <4>1. CASE t = s
          BY <3>1, <1>a, <4>1
        <4>2. CASE t # s
          <5>1. lock[AttendeeOf[t]] = t
            BY <1>b, <3>2, <4>2 DEF ClaimInv, HoldsLock, InClaim
          <5>2. AttendeeOf[t] # AttendeeOf[s]
            BY <3>1, <5>1, TypesAssumption
          <5> QED BY <3>1, <5>1, <5>2, <1>a
        <4> QED BY <4>1, <4>2
      <3> QED BY <3>2 DEF HoldsLock
    <2>3. CASE ~acquired
      <3>1. lock' = lock \/ /\ lock[AttendeeOf[s]] = None
                            /\ lock' = [lock EXCEPT ![AttendeeOf[s]] = s]
        BY <2>1, <2>3, <1>a DEF AcquireLock
      <3>2. scan'[s].pc = "done"
        BY <2>1, <2>3, AnswerEffect DEF ScanPcs, Responses
      <3>3. ASSUME NEW t \in Scans, InClaim(t)' PROVE lock'[AttendeeOf[t]] = t
        <4>1. t # s
          BY <3>2, <3>3 DEF InClaim, Claiming
        <4>2. lock[AttendeeOf[t]] = t
          BY <1>b, <3>3, <4>1 DEF ClaimInv, HoldsLock, InClaim
        <4> QED BY <3>1, <4>2, <1>a, TypesAssumption
      <3> QED BY <3>3 DEF HoldsLock
    <2> QED BY <2>2, <2>3
  <1>2. CASE FinallyDelete(s)
    <2>1. lock[AttendeeOf[s]] = s /\ scan'[s].pc = "done"
      BY <1>2, GotoEffect
         DEF FinallyDelete, ClaimInv, HoldsLock, InClaim, Claiming, ScanPcs
    <2>2. ASSUME NEW t \in Scans, InClaim(t)' PROVE lock'[AttendeeOf[t]] = t
      <3>1. t # s
        BY <2>1, <2>2 DEF InClaim, Claiming
      <3>2. lock[AttendeeOf[t]] = t
        BY <1>b, <2>2, <3>1 DEF ClaimInv, HoldsLock, InClaim
      <3>3. AttendeeOf[t] # AttendeeOf[s]
        BY <2>1, <3>1, <3>2
      <3> QED BY <1>2, <3>2, <3>3, <1>a DEF FinallyDelete, ReleaseDelete
    <2> QED BY <2>2 DEF HoldsLock
  <1>3. CASE ~TakeLock(s) /\ ~FinallyDelete(s)
    <2>1. lock' = lock /\ (scan'[s].pc \in Claiming => InClaim(s))
      BY <1>3, ScanClaim
    <2> QED BY <1>b, <2>1 DEF ClaimInv, HoldsLock, InClaim
  <1> QED BY <1>1, <1>2, <1>3

\* release_lock("admin") does not find its name in any kiosk's lock.
LEMMA AdminKeepsClaim ==
  ASSUME LeaseIntact, TypeInv, ClaimInv, NEW o \in AdminOps, AdminStep(o)
  PROVE  lock' = lock /\ NoAdminDelete'
  <1> USE DEF TypeInv, TypeOK, ClaimInv, NoAdminDelete
  <1>a. TargetOf[o] \in Attendees
    BY AdminAssumption
  <1>b. ASSUME NEW pc \in AdminPcs \ {"reldel"}, AdminGoto(o, pc) PROVE NoAdminDelete'
    BY <1>b DEF AdminGoto, AdminRecord
  <1>c. {"delstate", "setstate", "relget", "commit", "done", "rejected", "error"}
          \subseteq AdminPcs \ {"reldel"}
    BY DEF AdminPcs
  <1>d. FirstStep(o) \in AdminPcs \ {"reldel"}
    BY <1>c DEF FirstStep
  <1>1. CASE ReadLatest(o)
    <2>1. ASSUME NEW s \in LatestJobs(TargetOf[o]),
                 adm' = [adm EXCEPT ![o] =
                           [pc |-> FirstStep(o), job |-> s, seen |-> jobs[s]]]
          PROVE  NoAdminDelete'
      BY <2>1, <1>d
    <2> QED BY <1>1, <2>1, <1>b, <1>c, <1>d DEF ReadLatest, redisVars
  <1>2. CASE ForceState(o)
    BY <1>2, <1>b, <1>c DEF ForceState
  <1>3. CASE ClearState(o)
    BY <1>3, <1>b, <1>c DEF ClearState
  <1>4. CASE UnlockGet(o)
    <2>1. ~OwnedBy(AdminOwner, TargetOf[o])
      BY <1>a DEF OwnedBy, LeaseIntact
    <2>2. AdminGoto(o, "commit") /\ lock' = lock
      BY <1>4, <2>1 DEF UnlockGet, ReleaseGet, LeaseIntact, redisVars
    <2> QED BY <2>2, <1>b, <1>c
  <1>5. CASE UnlockDelete(o)
    BY <1>5 DEF UnlockDelete
  <1>6. CASE CommitOverride(o)
    BY <1>6, <1>b, <1>c DEF CommitOverride, redisVars
  <1> QED BY <1>1, <1>2, <1>3, <1>4, <1>5, <1>6 DEF AdminStep

LEMMA ClaimInvNext ==
  ASSUME LeaseIntact
  PROVE  TypeInv /\ ClaimInv /\ [Next]_vars => ClaimInv'
  <1> SUFFICES ASSUME TypeInv, ClaimInv, [Next]_vars PROVE ClaimInv'
    OBVIOUS
  <1>a. ASSUME UNCHANGED <<lock, scan, adm>> PROVE ClaimInv'
    BY <1>a DEF ClaimInv, HoldsLock, NoAdminDelete, InClaim
  <1>1. ASSUME NEW s \in Scans, DoScan(s) PROVE ClaimInv'
    BY <1>1, ScanKeepsClaim DEF DoScan, ClaimInv, NoAdminDelete
  <1>2. ASSUME NEW v \in Attempts, DoVendor(v) PROVE ClaimInv'
    BY <1>2, <1>a DEF DoVendor, redisVars
  <1>3. ASSUME NEW d \in Deliveries, DoDeliver(d) \/ DoHook(d) PROVE ClaimInv'
    BY <1>3, <1>a DEF DoDeliver, DoHook, redisVars
  <1>4. ASSUME NEW o \in AdminOps, DoAdmin(o) PROVE ClaimInv'
    BY <1>4, AdminKeepsClaim DEF DoAdmin, ClaimInv, HoldsLock, InClaim
  <1>5. ASSUME NEW a \in Attendees, DoExpire(a) PROVE ClaimInv'
    BY <1>5, <1>a DEF DoExpire, ExpireLock, LeaseIntact
  <1>6. CASE Crash
    <2>1. \A s \in Scans : InClaim(s)' => InClaim(s)
      BY <1>6 DEF Crash, Active, InClaim, Claiming, TypeInv, TypeOK, ScanRecord
    <2>2. NoAdminDelete'
      BY <1>6 DEF Crash, ClaimInv, NoAdminDelete, TypeInv, TypeOK, AdminRecord
    <2> QED BY <1>6, <2>1, <2>2 DEF Crash, redisVars, ClaimInv, HoldsLock
  <1>7. CASE UNCHANGED vars
    BY <1>7, <1>a DEF vars, redisVars
  <1> QED BY <1>1, <1>2, <1>3, <1>4, <1>5, <1>6, <1>7 DEF Next, Work

\* While the lease holds, no two scans of one attendee are in their claims at
\* once: process_scan's try block is a critical section per attendee.
THEOREM ClaimExclusionCorrect ==
  ASSUME LeaseIntact
  PROVE  Spec => []ClaimExclusion
  <1>1. ClaimInv => ClaimExclusion
    BY DEF ClaimInv, HoldsLock, ClaimExclusion
  <1>2. TypeInv /\ ClaimInv /\ [Next]_vars => ClaimInv'
    BY ClaimInvNext
  <1> QED BY <1>1, <1>2, ClaimInvInit, TypeInvAlways, PTL DEF Spec
--------------------------------------------------------------------------------
(* A lock has a working owner until something fails, with or without a TTL. *)

\* Without a client no lock is ever set.
LockNeedsRedis == RedisUp \/ \A a \in Attendees : lock[a] = None

WorkerInv == LockNeedsRedis /\ LockHasWorker

LEMMA ScanKeepsLockNeedsRedis ==
  ASSUME TypeInv, LockNeedsRedis, NEW s \in Scans, ScanStep(s)
  PROVE  LockNeedsRedis'
  <1> SUFFICES ASSUME ~RedisUp, NEW a \in Attendees PROVE lock'[a] = None
    BY DEF LockNeedsRedis
  <1>1. CASE TakeLock(s)
    BY <1>1 DEF TakeLock, AcquireLock, LockNeedsRedis
  <1>2. CASE FinallyDelete(s)
    BY <1>2, TypesAssumption
       DEF FinallyDelete, ReleaseDelete, LockNeedsRedis, TypeInv, TypeOK
  <1>3. CASE ~TakeLock(s) /\ ~FinallyDelete(s)
    BY <1>3, ScanClaim DEF LockNeedsRedis
  <1> QED BY <1>1, <1>2, <1>3

\* Taking the lock enters the claim with it, and a release that finds its own
\* value does not go without deleting it.
LEMMA ScanKeepsWorker ==
  ASSUME TypeInv, WorkerInv, faults = 0, NoFault, NEW s \in Scans, ScanStep(s),
         NEW a \in Attendees, lock'[a] # None
  PROVE  InClaim(lock[a])' /\ AttendeeOf[lock'[a]] = a
  <1> USE DEF TypeInv, TypeOK, InClaim
  <1>a. AttendeeOf[s] \in Attendees /\ faults' = 0 /\ ~Fault /\ None \notin Scans
    BY TypesAssumption DEF NoFault, Fault
  <1>b. lock[a] # None => lock[a] \in Scans /\ InClaim(lock[a]) /\ AttendeeOf[lock[a]] = a
    BY DEF WorkerInv, LockHasWorker
  <1>c. \A t \in Scans \ {s} : scan'[t] = scan[t]
    BY ScanClaim
  <1>1. CASE TakeLock(s)
    <2>1. PICK acquired \in BOOLEAN :
            /\ AcquireLock(AttendeeOf[s], s, acquired)
            /\ IF acquired THEN scan'[s].pc = "create" ELSE TRUE
      BY <1>1 DEF TakeLock
    <2>2. scan[s].pc = "lock"
      BY <1>1 DEF TakeLock
    <2>3. lock'[a] = lock[a] \/ (lock'[a] = s /\ a = AttendeeOf[s] /\ acquired)
      BY <1>a, <2>1 DEF AcquireLock
    <2>4. lock[a] # s
      BY <1>a, <1>b, <2>2 DEF Claiming
    <2> QED BY <1>b, <1>c, <2>1, <2>3, <2>4 DEF Claiming
  <1>2. CASE FinallyGet(s)
    <2>1. PICK owned \in BOOLEAN :
            /\ ReleaseGet(AttendeeOf[s], KioskOf[s], owned)
            /\ Goto(s, IF owned THEN "finally2" ELSE "done")
      BY <1>2 DEF FinallyGet
    <2>2. lock' = lock
      BY <1>2 DEF FinallyGet, redisVars
    <2>3. CASE lock[a] = s
      <3>1. a = AttendeeOf[s] /\ RedisUp
        BY <1>a, <1>b, <2>3 DEF WorkerInv, LockNeedsRedis
      <3>2. OwnedBy(KioskOf[s], a)
        BY <1>a, <2>3, TypesAssumption DEF OwnedBy
      <3>3. owned
        BY <1>a, <2>1, <3>1, <3>2 DEF ReleaseGet
      <3>4. scan'[s].pc = "finally2"
        BY <2>1, <3>3 DEF Goto, ScanRecord
      <3> QED BY <1>a, <1>b, <2>2, <2>3, <3>4 DEF Claiming
    <2>4. CASE lock[a] # s
      BY <1>b, <1>c, <2>2, <2>4
    <2> QED BY <2>3, <2>4
  <1>3. CASE FinallyDelete(s)
    <2>1. lock' = [lock EXCEPT ![AttendeeOf[s]] = None]
      BY <1>3, <1>a DEF FinallyDelete, ReleaseDelete
    <2>2. a # AttendeeOf[s] /\ lock'[a] = lock[a]
      BY <1>a, <2>1
    <2> QED BY <1>b, <1>c, <2>2
  <1>4. CASE ~TakeLock(s) /\ ~FinallyGet(s) /\ ~FinallyDelete(s)
    BY <1>4, <1>b, <1>c, ScanClaim
  <1> QED BY <1>1, <1>2, <1>3, <1>4

LEMMA ScanKeepsWorkerInv ==
  ASSUME TypeInv, WorkerInv, faults' = 0 => faults = 0 /\ NoFault,
         NEW s \in Scans, ScanStep(s)
  PROVE  WorkerInv'
  <1>1. LockNeedsRedis'
    BY ScanKeepsLockNeedsRedis DEF WorkerInv
  <1>2. ASSUME faults' = 0, NEW a \in Attendees, lock'[a] # None
        PROVE  InClaim(lock[a])' /\ AttendeeOf[lock'[a]] = a
    BY <1>2, ScanKeepsWorker
  <1> QED BY <1>1, <1>2 DEF WorkerInv, LockHasWorker

\* No lock is taken, and nobody leaves a claim.
LEMMA WorkerFrame ==
  ASSUME WorkerInv, faults' = 0 => faults = 0 /\ scan' = scan,
         \A a \in Attendees : lock'[a] \in {lock[a], None}
  PROVE  WorkerInv'
  <1>1. LockNeedsRedis'
    BY DEF WorkerInv, LockNeedsRedis
  <1>2. LockHasWorker'
    BY DEF WorkerInv, LockHasWorker, InClaim
  <1> QED BY <1>1, <1>2 DEF WorkerInv

LEMMA WorkerInvNext == TypeInv /\ WorkerInv /\ [Next]_vars => WorkerInv'
  <1> SUFFICES ASSUME TypeInv, WorkerInv, [Next]_vars PROVE WorkerInv'
    OBVIOUS
  <1>a. faults' = 0 => faults = 0 /\ NoFault
    BY NothingFailed
  <1>1. ASSUME NEW s \in Scans, DoScan(s) PROVE WorkerInv'
    BY <1>a, <1>1, ScanKeepsWorkerInv DEF DoScan
  <1>2. ASSUME NEW o \in AdminOps, DoAdmin(o) PROVE WorkerInv'
    <2>1. \A a \in Attendees : lock'[a] \in {lock[a], None}
      BY <1>2 DEF DoAdmin, AdminStep, ReadLatest, ForceState, ClearState, UnlockGet,
                  UnlockDelete, ReleaseDelete, CommitOverride, redisVars, TypeInv, TypeOK
    <2> QED BY <1>a, <1>2, <2>1, WorkerFrame DEF DoAdmin
  <1>3. ASSUME NEW a \in Attendees, DoExpire(a) PROVE WorkerInv'
    <2>1. \A b \in Attendees : lock'[b] \in {lock[b], None}
      BY <1>3 DEF DoExpire, ExpireLock, TypeInv, TypeOK
    <2> QED BY <1>a, <1>3, <2>1, WorkerFrame DEF DoExpire
  <1>4. CASE Crash
    <2>1. faults' # 0
      BY <1>4, FaultsAssumption DEF Crash, Fault, TypeInv, TypeOK
    <2> QED BY <1>4, <2>1, WorkerFrame DEF Crash, redisVars
  <1>5. CASE \/ \E v \in Attempts : DoVendor(v)
             \/ \E d \in Deliveries : DoDeliver(d) \/ DoHook(d)
             \/ UNCHANGED vars
    <2>1. lock' = lock /\ scan' = scan
      BY <1>5 DEF DoVendor, DoDeliver, DoHook, vars, redisVars
    <2> QED BY <1>a, <2>1, WorkerFrame
  <1> QED BY <1>1, <1>2, <1>3, <1>4, <1>5 DEF Next, Work

\* Until something fails, a lock in Redis belongs to a scan at work for that very
\* attendee, whatever expires and whatever the overrides delete.
THEOREM LockHasWorkerCorrect == Spec => []LockHasWorker
  <1>1. Init => WorkerInv
    BY DEF Init, RedisInit, WorkerInv, LockNeedsRedis, LockHasWorker
  <1>2. WorkerInv => LockHasWorker
    BY DEF WorkerInv
  <1> QED BY <1>1, <1>2, WorkerInvNext, TypeInvAlways, PTL DEF Spec
--------------------------------------------------------------------------------
(* The refinement of AttendeeLock. *)

Working == {s \in Scans : InClaim(s)}

LEMMA TakeLockRefines ==
  ASSUME LeaseIntact, TypeInv, ClaimInv, NEW s \in Scans, TakeLock(s)
  PROVE  Claim!Enter(s) \/ Claim!Orphan(s) \/ UNCHANGED <<lock, Working>>
  <1> USE DEF TypeInv, TypeOK
  <1>a. AttendeeOf[s] \in Attendees /\ ~InClaim(s)
    BY TypesAssumption DEF TakeLock, InClaim, Claiming
  <1>b. \A t \in Scans \ {s} : InClaim(t)' <=> InClaim(t)
    BY ScanClaim DEF ScanStep, InClaim
  <1>1. PICK acquired \in BOOLEAN :
          /\ AcquireLock(AttendeeOf[s], s, acquired)
          /\ scan'[s].pc = IF acquired THEN "create" ELSE "done"
    BY DEF TakeLock, Answer
  <1>2. CASE acquired
    <2>1. /\ lock[AttendeeOf[s]] = None
          /\ lock' = [lock EXCEPT ![AttendeeOf[s]] = s]
      BY <1>1, <1>2 DEF AcquireLock, LeaseIntact
    <2>2. Working' = Working \cup {s}
      BY <1>b, <1>1, <1>2 DEF Working, InClaim, Claiming
    <2> QED BY <1>a, <2>1, <2>2 DEF Claim!Enter, Claim!Take, Working
  <1>3. CASE ~acquired
    <2>1. ~InClaim(s)'
      BY <1>1, <1>3 DEF InClaim, Claiming
    <2>2. Working' = Working
      BY <1>a, <1>b, <2>1 DEF Working
    <2>3. \/ lock' = lock
          \/ lock[AttendeeOf[s]] = None /\ lock' = [lock EXCEPT ![AttendeeOf[s]] = s]
      BY <1>a, <1>1, <1>3 DEF AcquireLock
    <2> QED BY <1>a, <2>2, <2>3 DEF Claim!Orphan, Claim!Take, Working
  <1> QED BY <1>2, <1>3

\* Whoever goes without touching the lock abandons it.
LEMMA LeavingRefines ==
  ASSUME lock' = lock, Working' \subseteq Working
  PROVE  Claim!LockNext
  <1>1. (Working \ Working') \subseteq Working /\ Working' = Working \ (Working \ Working')
    OBVIOUS
  <1> QED BY <1>1 DEF Claim!LockNext, Claim!Abandon, Working

LEMMA FinallyDeleteRefines ==
  ASSUME LeaseIntact, TypeInv, ClaimInv, NEW s \in Scans, FinallyDelete(s)
  PROVE  Claim!LockNext
  <1>1. InClaim(s) /\ scan'[s].pc = "done"
    BY GotoEffect DEF FinallyDelete, InClaim, Claiming, ScanPcs, TypeInv, TypeOK
  <1>2. \A t \in Scans \ {s} : InClaim(t)' <=> InClaim(t)
    BY ScanClaim DEF ScanStep, InClaim
  <1>3. Working' = Working \ {s}
    BY <1>1, <1>2 DEF Working, InClaim, Claiming
  <1>4. lock[AttendeeOf[s]] = s
    BY <1>1 DEF ClaimInv, HoldsLock
  <1>5. CASE lock' = [lock EXCEPT ![AttendeeOf[s]] = None]
    BY <1>1, <1>3, <1>4, <1>5 DEF Claim!LockNext, Claim!Leave, Working
  <1>6. CASE lock' = lock
    BY <1>3, <1>6, LeavingRefines
  <1> QED BY <1>5, <1>6 DEF FinallyDelete, ReleaseDelete

LEMMA ClaimNextRefined ==
  ASSUME LeaseIntact, TypeInv, ClaimInv, [Next]_vars
  PROVE  [Claim!LockNext]_<<lock, Working>>
  <1>1. ASSUME NEW s \in Scans, DoScan(s)
        PROVE  [Claim!LockNext]_<<lock, Working>>
    <2>1. CASE TakeLock(s)
      BY <2>1, TakeLockRefines DEF Claim!LockNext
    <2>2. CASE FinallyDelete(s)
      BY <2>2, FinallyDeleteRefines
    <2>3. CASE ~TakeLock(s) /\ ~FinallyDelete(s)
      <3>1. lock' = lock /\ \A t \in Scans : InClaim(t)' => InClaim(t)
        BY <1>1, <2>3, ScanClaim DEF DoScan, InClaim
      <3>2. Working' \subseteq Working
        BY <3>1 DEF Working
      <3> QED BY <3>1, <3>2, LeavingRefines
    <2> QED BY <2>1, <2>2, <2>3
  <1>2. ASSUME NEW o \in AdminOps, DoAdmin(o) PROVE UNCHANGED <<lock, Working>>
    BY <1>2, AdminKeepsClaim DEF DoAdmin, Working, InClaim
  <1>3. CASE Crash
    <2>1. lock' = lock /\ \A t \in Scans : InClaim(t)' => InClaim(t)
      BY <1>3 DEF Crash, redisVars, Active, InClaim, Claiming, TypeInv, TypeOK, ScanRecord
    <2>2. Working' \subseteq Working
      BY <2>1 DEF Working
    <2> QED BY <2>1, <2>2, LeavingRefines
  <1>4. CASE \/ \E v \in Attempts : DoVendor(v)
             \/ \E d \in Deliveries : DoDeliver(d) \/ DoHook(d)
             \/ \E a \in Attendees : DoExpire(a)
             \/ UNCHANGED vars
    BY <1>4 DEF DoVendor, DoDeliver, DoHook, DoExpire, ExpireLock, LeaseIntact, vars,
                redisVars, Working, InClaim
  <1> QED BY <1>1, <1>2, <1>3, <1>4 DEF Next, Work

LEMMA ClaimInitRefined == Init => Claim!LockInit
  BY DEF Init, RedisInit, ScanInit, Claim!LockInit, InClaim, Claiming

\* While the lease holds, the lock key of Redis and the scans in their claims
\* are the abstract lock: it passes from hand to hand only through its owner.
THEOREM ClaimRefinedCorrect ==
  ASSUME LeaseIntact
  PROVE  Spec => ClaimRefined
  <1>1. TypeInv /\ ClaimInv /\ [Next]_vars =>
          [Claim!LockNext]_<<lock, {s \in Scans : InClaim(s)}>>
    BY ClaimNextRefined DEF Working
  <1>2. TypeInv /\ ClaimInv /\ [Next]_vars => ClaimInv'
    BY ClaimInvNext
  <1> QED BY <1>1, <1>2, ClaimInitRefined, ClaimInvInit, TypeInvAlways, PTL
          DEF Spec, ClaimRefined, Claim!LockSpec, Claim!lockVars
==================================================================================
