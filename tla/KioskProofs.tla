------------------------------- MODULE KioskProofs -------------------------------
(***************************************************************************)
(* What a polling kiosk may be told, proved for every value of the         *)
(* constants: the three reads behind one answer straddle commits, and the  *)
(* answer stays true of them because rows and badges never go back.        *)
(***************************************************************************)
EXTENDS StateProofs, KioskSystem

AsksAttendee(r) == r.pc \in {"job", "state"} => r.what \in Attendees /\ r.redis = "NONE"

BadgeIsTrue(r) ==
  \A a \in Attendees : r.what = a /\ (r.badge \/ r.status = "SUCCESS") => badge[a]

JobsExist(r) ==
  /\ r.job # None => Inserted(r.job)
  /\ \A s \in r.since : Inserted(s)

LatestIsLate(r) ==
  (r.pc = "state" \/ r.code = 200) =>
    \A s \in r.since : r.what = AttendeeOf[s] =>
      r.job # None /\ jobs[s].started_at <= jobs[r.job].started_at

KnownIdIsFound(r) == \A s \in r.since : r.what = ScanIdOf[s] => r.code # 404

RedisHasGround(r) ==
  \A a \in Attendees :
    /\ r.what = a /\ r.redis = "PENDING" => \E s \in Scans : Inserted(s) /\ AttendeeOf[s] = a
    /\ r.what = a /\ r.redis = "SUCCESS" => Ground(a)

\* An answer, or the part of it that has been read, is true of the present rows.
TrueAnswer(r) ==
  /\ AsksAttendee(r) /\ BadgeIsTrue(r) /\ JobsExist(r) /\ LatestIsLate(r)
  /\ KnownIdIsFound(r) /\ RedisHasGround(r)

PollInv == poll \in [Polls -> PollRecord] /\ \A p \in Polls : TrueAnswer(poll[p])

SystemInv == TypeInv /\ RowInv /\ JobInv /\ StateInv /\ LatestExists
--------------------------------------------------------------------------------
(* The rest of the system under a poll. *)

\* A poll changes nothing that the service keeps.
LEMMA PollKeepsSystem ==
  ASSUME SystemInv, NEW p \in Polls, DoPoll(p)
  PROVE  SystemInv' /\ Onward
  <1>1. /\ UNCHANGED <<badge, jobs, audit, clock, lock, rstate, http, vjob, pub, scan, hook, adm>>
        /\ Fault \/ NoFault
    BY DEF DoPoll, PollStep, AskAttendee, AskLatestJob, AskState, AskScan, GetState, dbVars,
           redisVars, vendorVars
  <1>2. TypeInv'
    BY <1>1, FaultType DEF SystemInv, TypeInv, TypeOK, AttemptCounted, SavesWhenSubmitted,
                          Submitted
  <1>3. RowInv'
    BY <1>1 DEF SystemInv, RowInv, BlankUntilInserted, PublishedHasRow, ScanIdsUnique,
                HeldRowsExist, Inserted
  <1>4. StateInv'
    BY <1>1 DEF SystemInv, StateInv, PendingHasRow, SuccessHasGround, OnlyForceSetsState,
                AnsweredRowExists, DuplicateIsHonest, Ground, Inserted
  <1>5. JobInv'
    <2>1. LoopInv'
      BY <1>1, LeavesLoop, LoopInvNext DEF SystemInv, JobInv
    <2> QED BY <1>1, <2>1 DEF SystemInv, JobInv, CallbackIsOwn, OverrideIsOwn,
                SuccessImpliesCheckedIn, CheckedInWasPrintedOrForced, Printed, VendorIdIsOwn
  <1>6. Onward
    BY <1>1, OnwardFrame
  <1>7. LatestExists'
    BY <1>1 DEF SystemInv, LatestExists, LatestJobs, Inserted
  <1> QED BY <1>2, <1>3, <1>4, <1>5, <1>6, <1>7 DEF SystemInv

LEMMA NextKeepsSystem ==
  ASSUME SystemInv, [Next]_vars
  PROVE  SystemInv' /\ Onward
  BY TypeInvNext, RowInvNext, JobInvNext, StateInvNext, LatestExistsNext, NextOnward DEF SystemInv
--------------------------------------------------------------------------------
(* What was told stays true. *)

LEMMA TrueStaysTrue ==
  ASSUME TypeInv, Onward, NEW r \in PollRecord, TrueAnswer(r)
  PROVE  TrueAnswer(r)'
  <1>a. r.since \subseteq Scans /\ r.job \in Scans \cup {None}
    BY DEF PollRecord
  <1>1. AsksAttendee(r)' /\ BadgeIsTrue(r)' /\ KnownIdIsFound(r)'
    BY DEF TrueAnswer, AsksAttendee, BadgeIsTrue, KnownIdIsFound, Onward
  <1>2. JobsExist(r)'
    BY <1>a DEF TrueAnswer, JobsExist, Onward
  <1>3. LatestIsLate(r)'
    <2>1. \A s \in r.since : jobs'[s].started_at = jobs[s].started_at
      BY <1>a DEF TrueAnswer, JobsExist, Onward
    <2>2. r.job # None => jobs'[r.job].started_at = jobs[r.job].started_at
      BY <1>a DEF TrueAnswer, JobsExist, Onward
    <2> QED BY <2>1, <2>2 DEF TrueAnswer, LatestIsLate
  <1>4. RedisHasGround(r)'
    BY DEF TrueAnswer, RedisHasGround, Onward
  <1> QED BY <1>1, <1>2, <1>3, <1>4 DEF TrueAnswer

\* A poll that has read nothing but the badge.
LEMMA BadgeReadIsTrue ==
  ASSUME NEW id \in Attendees, badge[id] \in BOOLEAN, NEW since \in SUBSET Scans,
         \A s \in since : Inserted(s)
  PROVE  /\ Asked("job", id, NoAnswer, badge[id], since) \in PollRecord
         /\ TrueAnswer(Asked("job", id, NoAnswer, badge[id], since))
  BY DEF Asked, PollRecord, PollPcs, Codes, Statuses, NoAnswer, TrueAnswer, AsksAttendee,
         BadgeIsTrue, JobsExist, LatestIsLate, KnownIdIsFound, RedisHasGround

LEMMA AskAttendeeIsTrue ==
  ASSUME SystemInv, PollInv, NEW p \in Polls, NEW a \in Attendees, AskAttendee(p, a)
  PROVE  poll'[p] \in PollRecord /\ TrueAnswer(poll'[p])
  <1>1. AnsweredWithJob \in SUBSET Scans /\ \A s \in AnsweredWithJob : Inserted(s)
    BY TypesAssumption DEF AnsweredWithJob, SystemInv, StateInv, AnsweredRowExists
  <1>2. \A s \in AnsweredWithJob : a # ScanIdOf[s]
    BY KioskAssumption DEF ScanIds, AnsweredWithJob
  <1>3. badge[a] \in BOOLEAN
    BY DEF SystemInv, TypeInv, TypeOK
  <1>4. CASE Begin(p, "told", a, 404, FALSE)
    <2>1. poll'[p] = Asked("told", a, 404, FALSE, AnsweredWithJob)
      BY <1>4 DEF Begin, PollInv
    <2>2. /\ Asked("told", a, 404, FALSE, AnsweredWithJob) \in PollRecord
          /\ TrueAnswer(Asked("told", a, 404, FALSE, AnsweredWithJob))
      BY <1>1, <1>2 DEF Asked, PollRecord, PollPcs, Codes, Statuses, NoAnswer, TrueAnswer,
         AsksAttendee, BadgeIsTrue, JobsExist, LatestIsLate, KnownIdIsFound, RedisHasGround
    <2> QED BY <2>1, <2>2
  <1>5. CASE Begin(p, "job", a, NoAnswer, badge[a])
    BY <1>1, <1>3, <1>5, BadgeReadIsTrue DEF Begin, PollInv
  <1>6. CASE Begin(p, "told", a, 500, FALSE)
    <2>1. poll'[p] = Asked("told", a, 500, FALSE, AnsweredWithJob)
      BY <1>6 DEF Begin, PollInv
    <2>2. /\ Asked("told", a, 500, FALSE, AnsweredWithJob) \in PollRecord
          /\ TrueAnswer(Asked("told", a, 500, FALSE, AnsweredWithJob))
      BY <1>1, <1>2 DEF Asked, PollRecord, PollPcs, Codes, Statuses, NoAnswer, TrueAnswer,
         AsksAttendee, BadgeIsTrue, JobsExist, LatestIsLate, KnownIdIsFound, RedisHasGround
    <2> QED BY <2>1, <2>2
  <1> QED BY <1>4, <1>5, <1>6 DEF AskAttendee

LEMMA AskScanIsTrue ==
  ASSUME SystemInv, PollInv, NEW p \in Polls, NEW i \in ScanIds, AskScan(p, i)
  PROVE  poll'[p] \in PollRecord /\ TrueAnswer(poll'[p])
  <1>1. AnsweredWithJob \in SUBSET Scans /\ \A s \in AnsweredWithJob : Inserted(s)
    BY TypesAssumption DEF AnsweredWithJob, SystemInv, StateInv, AnsweredRowExists
  <1>2. CASE JobsOfScanId(i) = {} /\ Begin(p, "told", i, 404, FALSE)
    <2>0. \A s \in AnsweredWithJob : i # ScanIdOf[s]
      BY <1>1, <1>2 DEF JobsOfScanId
    <2>1. poll'[p] = Asked("told", i, 404, FALSE, AnsweredWithJob)
      BY <1>2 DEF Begin, PollInv
    <2>2. /\ Asked("told", i, 404, FALSE, AnsweredWithJob) \in PollRecord
          /\ TrueAnswer(Asked("told", i, 404, FALSE, AnsweredWithJob))
      BY <1>1, <2>0 DEF Asked, PollRecord, PollPcs, Codes, Statuses, NoAnswer, TrueAnswer,
         AsksAttendee, BadgeIsTrue, JobsExist, LatestIsLate, KnownIdIsFound, RedisHasGround
    <2> QED BY <2>1, <2>2
  <1>3. CASE Begin(p, "told", i, 500, FALSE)
    <2>1. poll'[p] = Asked("told", i, 500, FALSE, AnsweredWithJob)
      BY <1>3 DEF Begin, PollInv
    <2>2. /\ Asked("told", i, 500, FALSE, AnsweredWithJob) \in PollRecord
          /\ TrueAnswer(Asked("told", i, 500, FALSE, AnsweredWithJob))
      BY <1>1 DEF Asked, PollRecord, PollPcs, Codes, Statuses, NoAnswer, TrueAnswer,
         AsksAttendee, BadgeIsTrue, JobsExist, LatestIsLate, KnownIdIsFound, RedisHasGround
    <2> QED BY <2>1, <2>2
  <1> QED BY <1>2, <1>3 DEF AskScan

\* The latest job is no earlier than any that the kiosk had heard of.
LEMMA AskLatestJobIsTrue ==
  ASSUME SystemInv, PollInv, NEW p \in Polls, AskLatestJob(p)
  PROVE  poll'[p] \in PollRecord /\ TrueAnswer(poll'[p])
  <1> DEFINE r == poll[p]  a == r.what
  <1>1. r \in PollRecord /\ r.pc = "job" /\ TrueAnswer(r) /\ a \in Attendees
    BY DEF PollInv, AskLatestJob, TrueAnswer, AsksAttendee
  <1>2. /\ r.redis = "NONE"
        /\ \A s \in r.since : s \in Scans /\ Inserted(s)
        /\ r.badge => badge[a]
        /\ \A s \in r.since : a # ScanIdOf[s]
    <2>1. \A s \in Scans : ScanIdOf[s] \notin Attendees
      BY KioskAssumption DEF ScanIds
    <2> QED BY <1>1, <2>1 DEF TrueAnswer, AsksAttendee, JobsExist, BadgeIsTrue, PollRecord
  <1> USE DEF WithJob, PollRecord, PollPcs, Codes, NoAnswer, Statuses, TrueAnswer, AsksAttendee,
              BadgeIsTrue, JobsExist, LatestIsLate, KnownIdIsFound, RedisHasGround
  <1>3. CASE /\ LatestJobs(a) = {}
             /\ poll' = [poll EXCEPT ![p] = WithJob(r, "state", NoAnswer, None, "NONE")]
    <2>1. \A s \in r.since : AttendeeOf[s] # a
      BY <1>2, <1>3 DEF SystemInv, LatestExists
    <2>2. poll'[p] = WithJob(r, "state", NoAnswer, None, "NONE")
      BY <1>3 DEF PollInv
    <2> QED BY <1>1, <1>2, <2>1, <2>2
  <1>4. CASE \E s \in LatestJobs(a) :
               poll' = [poll EXCEPT ![p] = WithJob(r, "state", NoAnswer, s, jobs[s].status)]
    <2>1. PICK s \in LatestJobs(a) :
                 poll' = [poll EXCEPT ![p] = WithJob(r, "state", NoAnswer, s, jobs[s].status)]
      BY <1>4
    <2>2. /\ s \in Scans /\ Inserted(s) /\ AttendeeOf[s] = a
          /\ \A t \in Scans : Inserted(t) /\ AttendeeOf[t] = a =>
               jobs[t].started_at <= jobs[s].started_at
      BY DEF LatestJobs
    <2>3. jobs[s].status \in Statuses /\ (jobs[s].status = "SUCCESS" => badge[a])
      BY <2>2 DEF SystemInv, TypeInv, TypeOK, Job, JobInv, SuccessImpliesCheckedIn
    <2>4. poll'[p] = WithJob(r, "state", NoAnswer, s, jobs[s].status)
      BY <2>1 DEF PollInv
    <2>5. s # None
      BY <2>2, TypesAssumption
    <2> QED BY <1>1, <1>2, <2>2, <2>3, <2>4, <2>5
  <1>5. CASE poll' = [poll EXCEPT ![p] = WithJob(r, "told", 500, None, "NONE")]
    <2>1. poll'[p] = WithJob(r, "told", 500, None, "NONE")
      BY <1>5 DEF PollInv
    <2> QED BY <1>1, <1>2, <2>1
  <1> QED BY <1>3, <1>4, <1>5 DEF AskLatestJob

LEMMA AskStateIsTrue ==
  ASSUME SystemInv, PollInv, NEW p \in Polls, AskState(p)
  PROVE  poll'[p] \in PollRecord /\ TrueAnswer(poll'[p])
  <1> DEFINE r == poll[p]  a == r.what
  <1>1. r \in PollRecord /\ r.pc = "state" /\ TrueAnswer(r) /\ a \in Attendees
    BY DEF PollInv, AskState, TrueAnswer, AsksAttendee
  <1>2. PICK state \in {"NONE", "PENDING", "SUCCESS"} :
          GetState(a, state) /\ poll' = [poll EXCEPT ![p] = WithState(r, state)]
    BY DEF AskState
  <1>3. state = "NONE" \/ state = rstate[a].state
    BY <1>2 DEF GetState
  <1>4. /\ state = "PENDING" => \E s \in Scans : Inserted(s) /\ AttendeeOf[s] = a
        /\ state = "SUCCESS" => Ground(a)
    BY <1>1, <1>3 DEF SystemInv, StateInv, PendingHasRow, SuccessHasGround
  <1>5. poll'[p] = WithState(r, state)
    BY <1>2 DEF PollInv
  <1>6. \A s \in r.since : a # ScanIdOf[s]
    BY <1>1, KioskAssumption DEF ScanIds, PollRecord
  <1> QED BY <1>1, <1>4, <1>5, <1>6
          DEF WithState, PollRecord, PollPcs, Codes, NoAnswer, TrueAnswer, AsksAttendee,
              BadgeIsTrue, JobsExist, LatestIsLate, KnownIdIsFound, RedisHasGround
--------------------------------------------------------------------------------
(* The invariant. *)

\* The first read of poll p leaves the other polls alone.
LEMMA BeginFrame ==
  ASSUME DOMAIN poll = Polls, NEW p \in Polls,
         NEW pc, NEW id, NEW code, NEW isBadged, Begin(p, pc, id, code, isBadged)
  PROVE  /\ poll' = [q \in Polls |-> poll'[q]]
         /\ \A q \in Polls \ {p} : poll'[q] = poll[q]
  BY DEF Begin

LEMMA PollKeepsPollInv ==
  ASSUME SystemInv, PollInv, NEW p \in Polls, DoPoll(p)
  PROVE  PollInv'
  <1>1. TypeInv /\ Onward
    BY PollKeepsSystem DEF SystemInv
  <1>2. poll'[p] \in PollRecord /\ TrueAnswer(poll'[p])
    BY AskAttendeeIsTrue, AskScanIsTrue, AskLatestJobIsTrue, AskStateIsTrue
       DEF DoPoll, PollStep
  <1>3. DOMAIN poll = Polls
    BY DEF PollInv
  <1>4. /\ poll' = [q \in Polls |-> poll'[q]]
        /\ \A q \in Polls \ {p} : poll'[q] = poll[q]
    <2>1. CASE \E a \in Attendees : AskAttendee(p, a)
      BY <1>3, <2>1, BeginFrame DEF AskAttendee
    <2>2. CASE AskLatestJob(p)
      BY <1>3, <2>2 DEF AskLatestJob
    <2>3. CASE AskState(p)
      BY <1>3, <2>3 DEF AskState
    <2>4. CASE \E i \in ScanIds : AskScan(p, i)
      BY <1>3, <2>4, BeginFrame DEF AskScan
    <2> QED BY <2>1, <2>2, <2>3, <2>4 DEF DoPoll, PollStep
  <1>5. poll' \in [Polls -> PollRecord]
    BY <1>2, <1>4 DEF PollInv
  <1>6. ASSUME NEW q \in Polls PROVE TrueAnswer(poll[q])'
    <2>1. TrueAnswer(poll'[q])
      BY <1>2, <1>4 DEF PollInv
    <2>2. UNCHANGED <<badge, jobs, adm>>
      BY DEF DoPoll, PollStep, dbVars
    <2> QED BY <2>1, <2>2 DEF TrueAnswer, AsksAttendee, BadgeIsTrue, JobsExist, LatestIsLate,
                              KnownIdIsFound, RedisHasGround, Ground, Inserted
  <1> QED BY <1>5, <1>6 DEF PollInv

\* The answers given before a crash stay, those in progress are lost.
LEMMA CrashKeepsPollInv ==
  ASSUME SystemInv, PollInv, KioskCrash
  PROVE  PollInv'
  <1>1. TypeInv /\ Onward
    BY CrashOnward DEF SystemInv, KioskCrash
  <1>2. ASSUME NEW q \in Polls PROVE poll'[q] \in PollRecord /\ TrueAnswer(poll[q])'
    <2>1. poll[q] \in PollRecord /\ TrueAnswer(poll[q])
      BY DEF PollInv
    <2>2. CASE poll'[q] = poll[q]
      BY <1>1, <2>1, <2>2, TrueStaysTrue
    <2>3. CASE poll'[q] = Asked("lost", poll[q].what, NoAnswer, FALSE, {})
      BY <2>1, <2>3
         DEF Asked, PollRecord, PollPcs, Codes, Statuses, NoAnswer, TrueAnswer, AsksAttendee,
             BadgeIsTrue, JobsExist, LatestIsLate, KnownIdIsFound, RedisHasGround
    <2> QED BY <2>2, <2>3 DEF KioskCrash
  <1>3. poll' \in [Polls -> PollRecord]
    BY <1>2 DEF KioskCrash
  <1> QED BY <1>2, <1>3 DEF PollInv

LEMMA FrameKeepsPollInv ==
  ASSUME SystemInv, PollInv, Onward, UNCHANGED poll
  PROVE  PollInv'
  <1>1. \A q \in Polls : TrueAnswer(poll[q])'
    BY TrueStaysTrue DEF PollInv, SystemInv
  <1> QED BY <1>1 DEF PollInv

KioskInv == SystemInv /\ PollInv

LEMMA KioskInvNext == KioskInv /\ [KioskNext]_kioskVars => KioskInv'
  <1> SUFFICES ASSUME KioskInv, [KioskNext]_kioskVars PROVE KioskInv'
    OBVIOUS
  <1> USE DEF KioskInv
  <1>1. CASE [Next]_vars /\ UNCHANGED poll
    BY <1>1, NextKeepsSystem, FrameKeepsPollInv
  <1>2. ASSUME NEW p \in Polls, DoPoll(p) PROVE KioskInv'
    BY <1>2, PollKeepsSystem, PollKeepsPollInv
  <1>3. CASE KioskCrash
    BY <1>3, NextKeepsSystem, CrashKeepsPollInv DEF KioskCrash, Next
  <1>4. CASE (Work /\ UNCHANGED poll) \/ UNCHANGED kioskVars
    BY <1>1, <1>4 DEF Next, kioskVars
  <1> QED BY <1>2, <1>3, <1>4 DEF KioskNext

LEMMA KioskInvInit == KioskStart => KioskInv
  <1> SUFFICES ASSUME KioskStart PROVE KioskInv
    OBVIOUS
  <1>1. SystemInv
    BY TypeInvInit, RowInvInit, JobInvInit, StateInvInit, LatestExistsInit
       DEF KioskStart, SystemInv
  <1>2. PollInv
    BY DEF KioskStart, KioskInit, PollInv, Asked, PollRecord, PollPcs, Codes, Statuses, NoAnswer,
           TrueAnswer, AsksAttendee, BadgeIsTrue, JobsExist, LatestIsLate, KnownIdIsFound,
           RedisHasGround
  <1> QED BY <1>1, <1>2 DEF KioskInv

LEMMA KioskInvAlways == KioskSpec => []KioskInv
  BY KioskInvInit, KioskInvNext, PTL DEF KioskSpec
--------------------------------------------------------------------------------
(* What kiosks are told. *)

\* An answer that reports a check-in, or a SUCCESS job, is about an attendee who
\* is checked in, however its reads fall between commits.
THEOREM PollNeverOverstatesCorrect == KioskSpec => []PollNeverOverstates
  <1>1. KioskInv => PollNeverOverstates
    BY DEF KioskInv, PollInv, TrueAnswer, BadgeIsTrue, PollNeverOverstates, Told
  <1> QED BY <1>1, KioskInvAlways, PTL

\* A kiosk that was answered with a print job finds it, or a later one, when it
\* polls, and its scan id is known.
THEOREM PollSeesOwnScanCorrect == KioskSpec => []PollSeesOwnScan
  <1>1. KioskInv => PollSeesOwnScan
    BY DEF KioskInv, PollInv, TrueAnswer, LatestIsLate, KnownIdIsFound, PollSeesOwnScan, Told
  <1> QED BY <1>1, KioskInvAlways, PTL

\* The Redis state in an answer has a ground in the rows.
THEOREM PollStateHasGroundCorrect == KioskSpec => []PollStateHasGround
  <1>1. KioskInv => PollStateHasGround
    BY DEF KioskInv, PollInv, TrueAnswer, RedisHasGround, PollStateHasGround, Told, Ground
  <1> QED BY <1>1, KioskInvAlways, PTL
--------------------------------------------------------------------------------
(* The service under polls. *)

\* However many clients poll, and whatever fails under them, the rows, the vendor's
\* ids and the answers to scans keep what they promise without polls.
THEOREM SafeUnderPolls ==
  KioskSpec => [](/\ SuccessImpliesCheckedIn /\ CheckedInWasPrintedOrForced /\ VendorIdIsOwn
                  /\ ScanIdPublishedOnce /\ DuplicateIsHonest)
  <1>1. KioskInv => /\ SuccessImpliesCheckedIn /\ CheckedInWasPrintedOrForced /\ VendorIdIsOwn
                    /\ ScanIdPublishedOnce /\ DuplicateIsHonest
    <2> SUFFICES ASSUME KioskInv
                 PROVE  /\ SuccessImpliesCheckedIn /\ CheckedInWasPrintedOrForced /\ VendorIdIsOwn
                        /\ ScanIdPublishedOnce /\ DuplicateIsHonest
      OBVIOUS
    <2>1. SuccessImpliesCheckedIn /\ CheckedInWasPrintedOrForced /\ VendorIdIsOwn
      BY DEF KioskInv, SystemInv, JobInv
    <2>2. ScanIdPublishedOnce
      BY DEF KioskInv, SystemInv, RowInv, PublishedHasRow, ScanIdsUnique, ScanIdPublishedOnce,
             Attempts
    <2>3. DuplicateIsHonest
      BY DEF KioskInv, SystemInv, StateInv
    <2> QED BY <2>1, <2>2, <2>3
  <1> QED BY <1>1, KioskInvAlways, PTL
==================================================================================
