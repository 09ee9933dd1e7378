------------------------------- MODULE StateProofs -------------------------------
(***************************************************************************)
(* What the Redis state key stands for, proved for every value of the      *)
(* constants: no transaction spans Redis and PostgreSQL, yet a stored      *)
(* state has a ground in the rows, and so has what kiosks are told of it.  *)
(***************************************************************************)
EXTENDS RowProofs

\* The attendee is checked in, or a forced check-in has said so in Redis and its
\* commit is still to come, or failed.
Ground(a) == badge[a] \/ \E o \in Forced(a) : adm[o].pc \in {"commit", "error", "lost"}

PendingHasRow ==
  \A a \in Attendees :
    rstate[a].state = "PENDING" => \E s \in Scans : Inserted(s) /\ AttendeeOf[s] = a

SuccessHasGround == \A a \in Attendees : rstate[a].state = "SUCCESS" => Ground(a)

OnlyForceSetsState ==
  \A o \in AdminOps : adm[o].pc = "setstate" => ActionOf[o] = "FORCE_CHECK_IN"

AnsweredRowExists == \A s \in Scans : scan[s].job # None => Inserted(s)

\* ORDER BY started_at DESC LIMIT 1 finds a row as soon as there is one.
LatestExists ==
  \A s \in Scans : Inserted(s) => LatestJobs(AttendeeOf[s]) # {}

StateInv ==
  PendingHasRow /\ SuccessHasGround /\ OnlyForceSetsState /\ AnsweredRowExists
    /\ DuplicateIsHonest
--------------------------------------------------------------------------------
(* What never goes back. *)

\* Rows stay, with the time they were built, badges stay, and so do grounds.
Onward ==
  /\ \A s \in Scans : Inserted(s) =>
       Inserted(s)' /\ jobs'[s].started_at = jobs[s].started_at
  /\ \A a \in Attendees : badge[a] => badge'[a]
  /\ \A a \in Attendees : Ground(a) => Ground(a)'

LEMMA OnwardFrame ==
  ASSUME UNCHANGED <<jobs, badge, adm>>
  PROVE  Onward
  BY DEF Onward, Ground, Inserted

LEMMA ScanOnward ==
  ASSUME TypeInv, RowInv, NEW s \in Scans, ScanStep(s), UNCHANGED <<hook, adm>>
  PROVE  Onward
  <1>1. /\ \A t \in Scans \ {s} : jobs'[t] = jobs[t]
        /\ badge' = badge /\ ScanRow(s)
    BY ScanRows
  <1>2. \A t \in Scans : Inserted(t) =>
          Inserted(t)' /\ jobs'[t].started_at = jobs[t].started_at
    <2>1. ASSUME Inserted(s)
          PROVE  Inserted(s)' /\ jobs'[s].started_at = jobs[s].started_at
      BY <1>1, <2>1 DEF ScanRow, ScanIdFree, Inserted, OnlyStatus
    <2> QED BY <1>1, <2>1 DEF Inserted
  <1>3. \A a \in Attendees : Ground(a) => Ground(a)'
    BY <1>1 DEF Ground
  <1> QED BY <1>1, <1>2, <1>3 DEF Onward

LEMMA HookOnward ==
  ASSUME TypeInv, RowInv, NEW d \in Deliveries, DoHook(d)
  PROVE  Onward
  <1>1. adm' = adm
    BY DEF DoHook
  <1>2. CASE jobs' = jobs /\ badge' = badge
    BY <1>1, <1>2, OnwardFrame
  <1>3. CASE /\ hook[d].pc = "commit" /\ ApplyVerdict(hook[d].job, Verdict(d[1]))
             /\ \A t \in Scans \ {hook[d].job} : jobs'[t] = jobs[t]
             /\ hook[d].job \in Scans =>
                  jobs'[hook[d].job].status = Verdict(d[1]) /\ OnlyStatus(hook[d].job)
    <2>1. \A s \in Scans : Inserted(s) =>
            Inserted(s)' /\ jobs'[s].started_at = jobs[s].started_at
      BY <1>3 DEF Inserted, OnlyStatus, Verdict
    <2>2. \A a \in Attendees : badge[a] => badge'[a]
      BY <1>3 DEF ApplyVerdict, TypeInv, TypeOK
    <2>3. \A a \in Attendees : Ground(a) => Ground(a)'
      BY <1>1, <2>2 DEF Ground
    <2> QED BY <2>1, <2>2, <2>3 DEF Onward
  <1> QED BY <1>2, <1>3, HookRows DEF DoHook

\* A commit of an override keeps the time at which the job was built.
LEMMA OverrideKeepsTime ==
  ASSUME TypeInv, NEW o \in AdminOps, Override(o), adm[o].job \in Scans
  PROVE  jobs'[adm[o].job].started_at = jobs[adm[o].job].started_at
  <1> DEFINE s == adm[o].job
  <1>1. adm[o].seen \in Job /\ jobs[s] \in Job /\ jobs \in [Scans -> Job]
    BY DEF TypeInv, TypeOK, AdminRecord
  <1>2. s # None
    BY TypesAssumption
  <1>3. jobs'[s] = Flush(jobs[s], adm[o].seen, Overridden(o))
    BY <1>1, <1>2 DEF Override
  <1>4. Overridden(o).started_at = adm[o].seen.started_at
    BY <1>1 DEF Overridden, Job
  <1> QED BY <1>1, <1>3, <1>4 DEF Flush, Job

LEMMA AdminOnward ==
  ASSUME TypeInv, RowInv, NEW o \in AdminOps, DoAdmin(o)
  PROVE  Onward
  <1> USE DEF DoAdmin, TypeInv, TypeOK
  <1>a. TargetOf[o] \in Attendees
    BY AdminAssumption
  <1>1. \A p \in AdminOps \ {o} : adm'[p] = adm[p]
    BY DEF AdminStep, ReadLatest, ForceState, ClearState, UnlockGet, UnlockDelete,
           CommitOverride, AdminGoto
  <1>2. CASE CommitOverride(o)
    <2>1. \A a \in Attendees : badge[a] => badge'[a]
      BY <1>2 DEF CommitOverride, Override
    <2>2. \A s \in Scans : Inserted(s) =>
            Inserted(s)' /\ jobs'[s].started_at = jobs[s].started_at
      <3>1. CASE jobs' = jobs
        BY <3>1 DEF Inserted
      <3>2. CASE jobs' # jobs
        <4>1. Override(o)
          BY <1>2, <3>2 DEF CommitOverride
        <4>2. /\ adm[o].job \in Scans
              /\ \A t \in Scans \ {adm[o].job} : jobs'[t] = jobs[t]
              /\ Inserted(adm[o].job) => jobs'[adm[o].job].status # "NONE"
          BY <3>2, AdminRows
        <4>3. jobs'[adm[o].job].started_at = jobs[adm[o].job].started_at
          BY <4>1, <4>2, OverrideKeepsTime
        <4> QED BY <4>2, <4>3 DEF Inserted
      <3> QED BY <3>1, <3>2
    <2>3. ASSUME NEW a \in Attendees, Ground(a) PROVE Ground(a)'
      <3>1. CASE badge[a]
        BY <2>1, <3>1 DEF Ground
      <3>2. CASE ~badge[a]
        <4>1. PICK p \in Forced(a) : adm[p].pc \in {"commit", "error", "lost"}
          BY <2>3, <3>2 DEF Ground
        <4>2. p \in AdminOps /\ ActionOf[p] = "FORCE_CHECK_IN" /\ TargetOf[p] = a
          BY DEF Forced
        <4>3. CASE p # o
          BY <1>1, <4>1, <4>2, <4>3 DEF Ground
        <4>4. CASE p = o /\ AdminGoto(o, "error")
          <5>1. adm'[o].pc = "error"
            BY <4>4 DEF AdminGoto, AdminRecord
          <5> QED BY <4>4, <5>1 DEF Ground
        <4>5. CASE p = o /\ Override(o)
          BY <1>a, <4>2, <4>5 DEF Override, IsAction, Ground
        <4> QED BY <1>2, <4>3, <4>4, <4>5 DEF CommitOverride
      <3> QED BY <3>1, <3>2
    <2> QED BY <2>1, <2>2, <2>3 DEF Onward
  <1>3. CASE ~CommitOverride(o)
    <2>1. jobs' = jobs /\ badge' = badge
      BY <1>3 DEF AdminStep, ReadLatest, ForceState, ClearState, UnlockGet, UnlockDelete, dbVars
    <2>2. adm[o].pc \in {"idle", "setstate", "delstate", "relget", "reldel"}
      BY <1>3 DEF AdminStep, ReadLatest, ForceState, ClearState, UnlockGet, UnlockDelete
    <2>3. \A a \in Attendees : Ground(a) => Ground(a)'
      BY <1>1, <2>1, <2>2 DEF Ground, Forced
    <2> QED BY <2>1, <2>3 DEF Onward, Inserted
  <1> QED BY <1>2, <1>3

LEMMA CrashOnward ==
  ASSUME TypeInv, Crash
  PROVE  Onward
  <1>1. jobs' = jobs /\ badge' = badge
    BY DEF Crash, dbVars
  <1>2. \A o \in AdminOps : adm[o].pc \in {"commit", "error", "lost"} =>
          adm'[o].pc \in {"commit", "error", "lost"}
    BY DEF Crash, TypeInv, TypeOK, AdminRecord
  <1>3. \A a \in Attendees : Ground(a) => Ground(a)'
    BY <1>1, <1>2 DEF Ground, Forced
  <1> QED BY <1>1, <1>3 DEF Onward, Inserted

LEMMA NextOnward ==
  ASSUME TypeInv, RowInv, [Next]_vars
  PROVE  Onward
  <1>1. ASSUME NEW s \in Scans, DoScan(s) PROVE Onward
    BY <1>1, ScanOnward DEF DoScan
  <1>2. ASSUME NEW d \in Deliveries, DoHook(d) PROVE Onward
    BY <1>2, HookOnward
  <1>3. ASSUME NEW o \in AdminOps, DoAdmin(o) PROVE Onward
    BY <1>3, AdminOnward
  <1>4. CASE Crash
    BY <1>4, CrashOnward
  <1>5. CASE \/ \E v \in Attempts : DoVendor(v)
             \/ \E d \in Deliveries : DoDeliver(d)
             \/ \E a \in Attendees : DoExpire(a)
             \/ UNCHANGED vars
    BY <1>5, OnwardFrame DEF DoVendor, DoDeliver, Deliver, DoExpire, vars, dbVars
  <1> QED BY <1>1, <1>2, <1>3, <1>4, <1>5 DEF Next, Work
--------------------------------------------------------------------------------
(* The invariant. *)

\* Whatever a step writes to the state key or tells a kiosk has its ground.
LEMMA StateFrame ==
  ASSUME TypeInv, StateInv, Onward,
         \A a \in Attendees :
           \/ rstate'[a] = rstate[a] \/ rstate'[a].state = "NONE"
           \/ /\ rstate'[a].state = "PENDING"
              /\ \E s \in Scans : Inserted(s)' /\ AttendeeOf[s] = a
           \/ rstate'[a].state = "SUCCESS" /\ Ground(a)',
         \A o \in AdminOps :
           adm'[o].pc = "setstate" => adm[o].pc = "setstate" \/ ActionOf[o] = "FORCE_CHECK_IN",
         \A s \in Scans :
           scan'[s].resp = "DUPLICATE" =>
             scan[s].resp = "DUPLICATE" \/ Ground(AttendeeOf[s]),
         \A s \in Scans : scan'[s].job # None => scan[s].job # None \/ Inserted(s)
  PROVE  StateInv'
  <1>a. \A s \in Scans : AttendeeOf[s] \in Attendees
    BY TypesAssumption
  <1>1. PendingHasRow'
    BY DEF StateInv, PendingHasRow, Onward
  <1>2. SuccessHasGround'
    BY DEF StateInv, SuccessHasGround, Onward
  <1>3. OnlyForceSetsState'
    BY DEF StateInv, OnlyForceSetsState
  <1>4. AnsweredRowExists'
    BY DEF StateInv, AnsweredRowExists, Onward
  <1>5. DuplicateIsHonest'
    <2>1. \A s \in Scans : scan[s].resp = "DUPLICATE" => Ground(AttendeeOf[s])
      BY DEF StateInv, DuplicateIsHonest, Ground
    <2>2. \A s \in Scans : scan'[s].resp = "DUPLICATE" => Ground(AttendeeOf[s])'
      BY <1>a, <2>1 DEF Onward
    <2> QED BY <2>2 DEF DuplicateIsHonest, Ground
  <1> QED BY <1>1, <1>2, <1>3, <1>4, <1>5 DEF StateInv

\* What a step of scan s tells its kiosk, and writes to the state key.
ScanTells(s) ==
  /\ scan'[s].resp = "DUPLICATE" =>
       \/ scan[s].resp = "DUPLICATE" \/ badge[AttendeeOf[s]]
       \/ rstate[AttendeeOf[s]].state = "SUCCESS"
  /\ scan'[s].job # None => scan[s].job # None \/ scan[s].pc \in AfterCreate
  /\ \A a \in Attendees :
       \/ rstate'[a] = rstate[a] \/ rstate'[a].state = "NONE"
       \/ rstate'[a].state = "PENDING" /\ scan[s].pc = "pending" /\ a = AttendeeOf[s]

LEMMA ScanTellsLemma ==
  ASSUME TypeInv, NEW s \in Scans, ScanStep(s)
  PROVE  ScanTells(s)
  <1> USE DEF TypeInv, TypeOK, AfterCreate
  <1>a. AttendeeOf[s] \in Attendees
    BY TypesAssumption
  <1>1. CASE ReadAttendee(s)
    BY <1>1 DEF ReadAttendee, Goto, Answer, ScanTells, redisVars, ScanRecord
  <1>2. CASE CheckState(s)
    BY <1>2 DEF CheckState, GetState, AnswerFromState, Goto, Answer, ScanTells, redisVars,
                ScanRecord
  <1>3. CASE TakeLock(s)
    BY <1>3 DEF TakeLock, Answer, ScanTells, ScanRecord
  <1>4. CASE CreatePrintJob(s)
    BY <1>4 DEF CreatePrintJob, Commit, Goto, ScanTells, redisVars, ScanRecord
  <1>5. CASE SetPending(s)
    BY <1>a, <1>5 DEF SetPending, SetState, PutState, Goto, ScanTells, ScanRecord, State
  <1>6. CASE LogAudit(s)
    BY <1>6 DEF LogAudit, Commit, Goto, ScanTells, redisVars, ScanRecord
  <1>7. CASE Publish(s)
    BY <1>7 DEF Publish, Goto, ScanTells, redisVars, ScanRecord
  <1>8. CASE SaveVendorJobId(s)
    BY <1>8 DEF SaveVendorJobId, Goto, Answer, ScanTells, redisVars, ScanRecord
  <1>9. CASE DropState(s)
    BY <1>a, <1>9 DEF DropState, DeleteState, PutState, NoState, Goto, ScanTells, ScanRecord,
                      State
  <1>10. CASE SaveFailure(s)
    BY <1>10 DEF SaveFailure, Goto, Answer, ScanTells, redisVars, ScanRecord
  <1>11. CASE HandleException(s)
    BY <1>a, <1>11 DEF HandleException, DeleteState, PutState, NoState, Answer, ScanTells,
                       ScanRecord, State
  <1>12. CASE FinallyGet(s)
    BY <1>12 DEF FinallyGet, Goto, ScanTells, redisVars, ScanRecord
  <1>13. CASE FinallyDelete(s)
    BY <1>13 DEF FinallyDelete, Goto, ScanTells, ScanRecord
  <1> QED BY <1>1, <1>2, <1>3, <1>4, <1>5, <1>6, <1>7, <1>8, <1>9, <1>10, <1>11, <1>12,
             <1>13 DEF ScanStep

LEMMA ScanKeepsStateInv ==
  ASSUME TypeInv, RowInv, StateInv, NEW s \in Scans, ScanStep(s), UNCHANGED <<hook, adm>>
  PROVE  StateInv'
  <1>1. Onward /\ ScanTells(s) /\ \A t \in Scans \ {s} : scan'[t] = scan[t]
    BY ScanOnward, ScanTellsLemma, ScanRows
  <1>2. scan[s].pc \in AfterCreate => Inserted(s)
    BY DEF RowInv, PublishedHasRow
  <1>3. scan[s].pc = "pending" => Inserted(s)'
    BY <1>1, <1>2 DEF AfterCreate, Onward
  <1>4. AttendeeOf[s] \in Attendees
    BY TypesAssumption
  <1>5. rstate[AttendeeOf[s]].state = "SUCCESS" \/ badge[AttendeeOf[s]] => Ground(AttendeeOf[s])
    BY <1>4 DEF StateInv, SuccessHasGround, Ground
  <1>6. \A t \in Scans :
          scan'[t].resp = "DUPLICATE" => scan[t].resp = "DUPLICATE" \/ Ground(AttendeeOf[t])
    BY <1>1, <1>5 DEF ScanTells
  <1>7. \A t \in Scans : scan'[t].job # None => scan[t].job # None \/ Inserted(t)
    BY <1>1, <1>2 DEF ScanTells
  <1>8. \A a \in Attendees :
          \/ rstate'[a] = rstate[a] \/ rstate'[a].state = "NONE"
          \/ /\ rstate'[a].state = "PENDING"
             /\ \E t \in Scans : Inserted(t)' /\ AttendeeOf[t] = a
    BY <1>1, <1>3 DEF ScanTells
  <1> QED BY <1>1, <1>6, <1>7, <1>8, StateFrame

LEMMA AdminKeepsStateInv ==
  ASSUME TypeInv, RowInv, StateInv, NEW o \in AdminOps, DoAdmin(o)
  PROVE  StateInv'
  <1> USE DEF TypeInv, TypeOK, DoAdmin
  <1>1. Onward /\ scan' = scan
    BY AdminOnward
  <1>2. \A p \in AdminOps :
          adm'[p].pc = "setstate" => adm[p].pc = "setstate" \/ ActionOf[p] = "FORCE_CHECK_IN"
    BY DEF AdminStep, ReadLatest, ForceState, ClearState, UnlockGet, UnlockDelete,
           CommitOverride, AdminGoto, FirstStep, IsAction, AdminRecord
  <1>a. TargetOf[o] \in Attendees
    BY AdminAssumption
  <1>3. CASE ForceState(o)
    <2>1. ActionOf[o] = "FORCE_CHECK_IN" /\ adm'[o].pc = "commit"
      BY <1>3 DEF ForceState, AdminGoto, AdminRecord, StateInv, OnlyForceSetsState
    <2>2. Ground(TargetOf[o])'
      BY <2>1 DEF Ground, Forced
    <2>3. \A a \in Attendees :
            \/ rstate'[a] = rstate[a]
            \/ rstate'[a].state = "SUCCESS" /\ Ground(a)'
      BY <1>a, <1>3, <2>2 DEF ForceState, SetState, PutState, State
    <2> QED BY <1>1, <1>2, <2>3, StateFrame
  <1>4. CASE ~ForceState(o)
    <2>1. \A a \in Attendees : rstate'[a] = rstate[a] \/ rstate'[a].state = "NONE"
      BY <1>a, <1>4 DEF AdminStep, ReadLatest, ClearState, UnlockGet, UnlockDelete,
                        CommitOverride, DeleteState, PutState, NoState, State, redisVars
    <2> QED BY <1>1, <1>2, <2>1, StateFrame
  <1> QED BY <1>3, <1>4

LEMMA CrashKeepsStateInv ==
  ASSUME TypeInv, StateInv, Crash
  PROVE  StateInv'
  <1>1. Onward /\ rstate' = rstate
    BY CrashOnward DEF Crash, redisVars
  <1>2. /\ \A o \in AdminOps : adm'[o].pc = "setstate" => adm[o].pc = "setstate"
        /\ \A s \in Scans : scan'[s].resp = scan[s].resp /\ scan'[s].job = scan[s].job
    BY DEF Crash, TypeInv, TypeOK, AdminRecord, ScanRecord
  <1> QED BY <1>1, <1>2, StateFrame

LEMMA StateInvNext == TypeInv /\ RowInv /\ StateInv /\ [Next]_vars => StateInv'
  <1> SUFFICES ASSUME TypeInv, RowInv, StateInv, [Next]_vars PROVE StateInv'
    OBVIOUS
  <1>1. ASSUME NEW s \in Scans, DoScan(s) PROVE StateInv'
    BY <1>1, ScanKeepsStateInv DEF DoScan
  <1>2. ASSUME NEW o \in AdminOps, DoAdmin(o) PROVE StateInv'
    BY <1>2, AdminKeepsStateInv
  <1>3. CASE Crash
    BY <1>3, CrashKeepsStateInv
  <1>4. ASSUME NEW a \in Attendees, DoExpire(a) PROVE StateInv'
    <2>1. scan' = scan /\ adm' = adm
      BY <1>4 DEF DoExpire
    <2>2. \A b \in Attendees : rstate'[b] = rstate[b] \/ rstate'[b].state = "NONE"
      BY <1>4 DEF DoExpire, ExpireState, NoState, TypeInv, TypeOK
    <2> QED BY <2>1, <2>2, NextOnward, StateFrame
  <1>5. CASE \/ \E v \in Attempts : DoVendor(v)
             \/ \E d \in Deliveries : DoDeliver(d) \/ DoHook(d)
             \/ UNCHANGED vars
    <2>1. rstate' = rstate /\ scan' = scan /\ adm' = adm
      BY <1>5 DEF DoVendor, DoDeliver, DoHook, vars, redisVars
    <2> QED BY <2>1, NextOnward, StateFrame
  <1> QED BY <1>1, <1>2, <1>3, <1>4, <1>5 DEF Next, Work

LEMMA StateInvInit == Init => StateInv
  BY DEF Init, RedisInit, NoState, ScanInit, AdminInit, StateInv, PendingHasRow,
         SuccessHasGround, OnlyForceSetsState, AnsweredRowExists, DuplicateIsHonest

LEMMA StateInvAlways == Spec => []StateInv
  BY StateInvInit, StateInvNext, TypeInvAlways, RowInvAlways, PTL DEF Spec

--------------------------------------------------------------------------------
(* The latest job. *)

LEMMA OneRowChanges ==
  ASSUME TypeInv, RowInv, [Next]_vars, jobs' # jobs
  PROVE  \E s \in Scans : \A t \in Scans \ {s} : jobs'[t] = jobs[t]
  <1>1. ASSUME NEW s \in Scans, DoScan(s) PROVE \A t \in Scans \ {s} : jobs'[t] = jobs[t]
    BY <1>1, ScanRows DEF DoScan
  <1>2. ASSUME NEW d \in Deliveries, DoHook(d)
        PROVE  \E s \in Scans : \A t \in Scans \ {s} : jobs'[t] = jobs[t]
    <2>1. hook[d].job \in Scans /\ \A t \in Scans \ {hook[d].job} : jobs'[t] = jobs[t]
      BY <1>2, HookRows DEF DoHook, RowInv, HeldRowsExist
    <2> QED BY <2>1
  <1>3. ASSUME NEW o \in AdminOps, DoAdmin(o)
        PROVE  \E s \in Scans : \A t \in Scans \ {s} : jobs'[t] = jobs[t]
    <2>1. adm[o].job \in Scans /\ \A t \in Scans \ {adm[o].job} : jobs'[t] = jobs[t]
      BY <1>3, AdminRows DEF DoAdmin
    <2> QED BY <2>1
  <1>4. \/ \E s \in Scans : DoScan(s)
        \/ \E d \in Deliveries : DoHook(d)
        \/ \E o \in AdminOps : DoAdmin(o)
    BY DEF Next, Work, DoVendor, DoDeliver, Deliver, DoExpire, Crash, vars, dbVars
  <1> QED BY <1>1, <1>2, <1>3, <1>4

\* A new row is the latest of its attendee, or the old latest one still is.
LEMMA LatestStep ==
  ASSUME TypeInv, TypeInv', Onward, LatestExists, NEW s \in Scans,
         \A t \in Scans \ {s} : jobs'[t] = jobs[t]
  PROVE  LatestExists'
  <1> SUFFICES ASSUME NEW t \in Scans, Inserted(t)'
               PROVE  LatestJobs(AttendeeOf[t])' # {}
    BY DEF LatestExists
  <1> DEFINE a == AttendeeOf[t]
             mine == {u \in Scans : Inserted(u) /\ AttendeeOf[u] = a}
  <1>1. \A u \in Scans : jobs[u].started_at \in Nat /\ jobs'[u].started_at \in Nat
    BY DEF TypeInv, TypeOK, Job
  <1>2. \A u \in Scans : Inserted(u) =>
          Inserted(u)' /\ jobs'[u].started_at = jobs[u].started_at
    BY DEF Onward
  <1>3. \A u \in Scans \ {s} : Inserted(u)' => Inserted(u)
    BY DEF Inserted
  <1>4. CASE mine = {}
    <2>1. t = s /\ \A u \in Scans : Inserted(u)' /\ AttendeeOf[u] = a => u = s
      BY <1>3, <1>4
    <2>2. s \in LatestJobs(a)'
      BY <1>1, <2>1 DEF LatestJobs
    <2> QED BY <2>2
  <1>5. CASE mine # {}
    <2>1. PICK m \in LatestJobs(a) : TRUE
      BY <1>5 DEF LatestExists
    <2>2. /\ m \in Scans /\ Inserted(m) /\ AttendeeOf[m] = a
          /\ \A u \in mine : jobs[u].started_at <= jobs[m].started_at
      BY <2>1 DEF LatestJobs
    <2>3. \A u \in Scans : Inserted(u)' /\ AttendeeOf[u] = a =>
            u = s \/ jobs'[u].started_at <= jobs'[m].started_at
      BY <1>2, <1>3, <2>2
    <2>4. CASE /\ Inserted(s)' /\ AttendeeOf[s] = a
               /\ jobs'[m].started_at <= jobs'[s].started_at
      <3>1. s \in LatestJobs(a)'
        BY <1>1, <2>2, <2>3, <2>4 DEF LatestJobs
      <3> QED BY <3>1
    <2>5. CASE ~(/\ Inserted(s)' /\ AttendeeOf[s] = a
                 /\ jobs'[m].started_at <= jobs'[s].started_at)
      <3>1. m \in LatestJobs(a)'
        BY <1>1, <1>2, <2>2, <2>3, <2>5 DEF LatestJobs
      <3> QED BY <3>1
    <2> QED BY <2>4, <2>5
  <1> QED BY <1>4, <1>5

LEMMA LatestExistsNext == TypeInv /\ RowInv /\ LatestExists /\ [Next]_vars => LatestExists'
  <1> SUFFICES ASSUME TypeInv, RowInv, LatestExists, [Next]_vars PROVE LatestExists'
    OBVIOUS
  <1>1. CASE jobs' = jobs
    BY <1>1 DEF LatestExists, LatestJobs, Inserted
  <1>2. CASE jobs' # jobs
    BY <1>2, OneRowChanges, NextOnward, LatestStep, TypeInvNext
  <1> QED BY <1>1, <1>2

LEMMA LatestExistsInit == Init => LatestExists
  BY DEF Init, DbInit, NoJob, LatestExists, Inserted
--------------------------------------------------------------------------------
\* A kiosk hears DUPLICATE only of an attendee who is checked in, or whom a
\* forced check-in has announced in Redis before a commit that is still to come,
\* or failed.
THEOREM DuplicateIsHonestCorrect == Spec => []DuplicateIsHonest
  <1>1. StateInv => DuplicateIsHonest
    BY DEF StateInv
  <1> QED BY <1>1, StateInvAlways, PTL
--------------------------------------------------------------------------------
(* What PENDING tells a kiosk. *)

Ending == {"finally1", "finally2", "done", "crashed"}

\* A scan that answered PENDING is on its way out, with an accepted job of its
\* own or with another scan's row before it.
PendingInv ==
  \A s \in Scans :
    scan[s].resp = "PENDING" =>
      /\ scan[s].pc \in Ending
      /\ IF scan[s].job = s THEN Submitted(s)
         ELSE \E t \in Scans : Inserted(t) /\ AttendeeOf[t] = AttendeeOf[s]

\* Where the PENDING of a step of scan s comes from.
PendingTold(s) ==
  scan'[s].resp = "PENDING" =>
    /\ pub'[s] = pub[s]
    /\ scan'[s].pc \in Ending
    /\ \/ scan[s].resp = "PENDING" /\ scan'[s].job = scan[s].job
       \/ scan'[s].job = s /\ Submitted(s)
       \/ scan'[s].job = None /\ rstate[AttendeeOf[s]].state = "PENDING"

LEMMA PendingToldLemma ==
  ASSUME TypeInv, PendingInv, NEW s \in Scans, ScanStep(s)
  PROVE  PendingTold(s)
  <1> USE DEF TypeInv, TypeOK, Ending
  <1>a. scan[s].resp = "PENDING" => scan[s].pc \in Ending
    BY DEF PendingInv
  <1>1. CASE ReadAttendee(s)
    BY <1>a, <1>1 DEF ReadAttendee, Goto, Answer, PendingTold, ScanRecord
  <1>2. CASE CheckState(s)
    <2>1. PICK state \in {"NONE", "PENDING", "SUCCESS"} :
            /\ GetState(AttendeeOf[s], state)
            /\ IF AnswerFromState(state) = "none" THEN Goto(s, "lock")
               ELSE Answer(s, "done", AnswerFromState(state), None)
      BY <1>2 DEF CheckState
    <2>2. AnswerFromState(state) = "PENDING" => rstate[AttendeeOf[s]].state = "PENDING"
      BY <2>1 DEF AnswerFromState, GetState
    <2> QED BY <1>a, <1>2, <2>1, <2>2 DEF CheckState, Goto, Answer, PendingTold, ScanRecord
  <1>3. CASE TakeLock(s)
    BY <1>3 DEF TakeLock, Answer, PendingTold
  <1>4. CASE SaveVendorJobId(s)
    BY <1>a, <1>4 DEF SaveVendorJobId, SavesWhenSubmitted, Goto, Answer, PendingTold, ScanRecord
  <1>5. CASE SaveFailure(s) \/ HandleException(s)
    BY <1>a, <1>5 DEF SaveFailure, HandleException, Goto, Answer, PendingTold, ScanRecord
  <1>6. CASE CreatePrintJob(s) \/ SetPending(s) \/ LogAudit(s) \/ Publish(s) \/ DropState(s)
    BY <1>a, <1>6 DEF CreatePrintJob, SetPending, LogAudit, Commit, Publish, DropState, Goto,
                      PendingTold, ScanRecord
  <1>7. CASE FinallyGet(s) \/ FinallyDelete(s)
    BY <1>7 DEF FinallyGet, FinallyDelete, Goto, PendingTold, ScanRecord
  <1> QED BY <1>1, <1>2, <1>3, <1>4, <1>5, <1>6, <1>7 DEF ScanStep

\* Answers already given keep their ground.
LEMMA PendingFrame ==
  ASSUME PendingInv, Onward, NEW s \in Scans, scan[s].resp = "PENDING",
         pub'[s] = pub[s], scan'[s].job = scan[s].job, scan'[s].pc \in Ending
  PROVE  /\ scan'[s].pc \in Ending
         /\ IF scan'[s].job = s THEN Submitted(s)'
            ELSE \E t \in Scans : Inserted(t)' /\ AttendeeOf[t] = AttendeeOf[s]
  BY DEF PendingInv, Onward, Submitted

LEMMA PendingInvNext ==
  TypeInv /\ RowInv /\ StateInv /\ PendingInv /\ [Next]_vars => PendingInv'
  <1> SUFFICES ASSUME TypeInv, RowInv, StateInv, PendingInv, [Next]_vars,
                      NEW s \in Scans, scan'[s].resp = "PENDING"
               PROVE  /\ scan'[s].pc \in Ending
                      /\ IF scan'[s].job = s THEN Submitted(s)'
                         ELSE \E t \in Scans : Inserted(t)' /\ AttendeeOf[t] = AttendeeOf[s]
    BY DEF PendingInv
  <1>a. Onward
    BY NextOnward
  <1>1. CASE DoScan(s)
    <2>1. PendingTold(s)
      BY <1>1, PendingToldLemma DEF DoScan
    <2>2. CASE scan[s].resp = "PENDING" /\ scan'[s].job = scan[s].job
      BY <1>a, <2>1, <2>2, PendingFrame DEF PendingTold
    <2>3. CASE scan'[s].job = s /\ Submitted(s)
      BY <2>1, <2>3 DEF PendingTold, Submitted
    <2>4. CASE scan'[s].job = None /\ rstate[AttendeeOf[s]].state = "PENDING"
      <3>1. \E t \in Scans : Inserted(t) /\ AttendeeOf[t] = AttendeeOf[s]
        BY <2>4, TypesAssumption DEF StateInv, PendingHasRow
      <3> QED BY <1>a, <2>1, <2>4, <3>1, TypesAssumption DEF PendingTold, Onward
    <2> QED BY <2>1, <2>2, <2>3, <2>4 DEF PendingTold
  <1>2. ASSUME NEW u \in Scans \ {s}, DoScan(u)
        PROVE  scan'[s] = scan[s] /\ pub'[s] = pub[s]
    <2>1. scan'[s] = scan[s]
      BY <1>2, ScanRows DEF DoScan
    <2>2. CASE Publish(u)
      BY <1>2, <2>1, <2>2, PublishStepType DEF Publish
    <2>3. CASE ~Publish(u)
      BY <1>2, <2>1, <2>3 DEF DoScan, ScanStep, ReadAttendee, CheckState, TakeLock, CreatePrintJob,
               SetPending, LogAudit, SaveVendorJobId, DropState, SaveFailure, HandleException,
               FinallyGet, FinallyDelete
    <2> QED BY <2>2, <2>3
  <1>3. CASE Crash
    <2>1. /\ scan[s].resp = "PENDING" /\ scan'[s].job = scan[s].job /\ pub' = pub
          /\ scan'[s].pc \in {scan[s].pc, "crashed"}
      BY <1>3 DEF Crash, TypeInv, TypeOK, ScanRecord
    <2>2. scan'[s].pc \in Ending
      BY <2>1 DEF PendingInv, Ending
    <2> QED BY <1>a, <2>1, <2>2, PendingFrame
  <1>4. ASSUME scan'[s] = scan[s], pub'[s] = pub[s]
        PROVE  /\ scan'[s].pc \in Ending
               /\ IF scan'[s].job = s THEN Submitted(s)'
                  ELSE \E t \in Scans : Inserted(t)' /\ AttendeeOf[t] = AttendeeOf[s]
    <2>1. scan'[s].pc \in Ending
      BY <1>4 DEF PendingInv
    <2> QED BY <1>a, <1>4, <2>1, PendingFrame
  <1>5. CASE \/ \E v \in Attempts : DoVendor(v)
             \/ \E d \in Deliveries : DoDeliver(d) \/ DoHook(d)
             \/ \E o \in AdminOps : DoAdmin(o)
             \/ \E a \in Attendees : DoExpire(a)
             \/ UNCHANGED vars
    BY <1>4, <1>5 DEF DoVendor, DoDeliver, DoHook, DoAdmin, DoExpire, vars
  <1> QED BY <1>1, <1>2, <1>3, <1>4, <1>5 DEF Next, Work

\* A kiosk that hears PENDING hears of a job that the vendor has, or of a row that
\* another scan of its attendee put into the table.
THEOREM PendingIsRealCorrect == Spec => []PendingIsReal
  <1>1. Init => PendingInv
    BY DEF Init, ScanInit, PendingInv
  <1>2. JobInv /\ PendingInv => PendingIsReal
    BY DEF JobInv, LoopInv, SubmittedIsAccepted, PendingInv, PendingIsReal
  <1> QED BY <1>1, <1>2, PendingInvNext, TypeInvAlways, JobInvAlways, RowInvAlways,
             StateInvAlways, PTL DEF Spec
==================================================================================
