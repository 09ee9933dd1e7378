------------------------------- MODULE PrintProofs -------------------------------
(***************************************************************************)
(* What a scan puts in front of the vendor, for every value of the         *)
(* constants.  The first part bounds the work of a scan, the second shows  *)
(* that an attendee gets one badge at most unless one of the steps of      *)
(* Disturbance is taken.                                                   *)
(***************************************************************************)
EXTENDS CheckinProofs
--------------------------------------------------------------------------------
(* The work of a scan. *)

\* Where a step takes scan s.  Only a fault takes it from "okcommit" or "audit" to
\* the handler of the try block.
Arrow(s) ==
  \/ scan[s].pc = "idle" /\ scan'[s].pc \in {"state", "done"}
  \/ scan[s].pc = "state" /\ scan'[s].pc \in {"lock", "done"}
  \/ scan[s].pc = "lock" /\ scan'[s].pc \in {"create", "done"}
  \/ scan[s].pc = "create" /\ scan'[s].pc \in {"pending", "except"}
  \/ scan[s].pc = "pending" /\ scan'[s].pc = "audit"
  \/ scan[s].pc = "audit" /\ scan'[s].pc \in {"publish", "except"}
  \/ scan[s].pc = "publish" /\ scan'[s].pc = AfterPublish(pub'[s].result) /\ Publish(s)
  \/ scan[s].pc = "okcommit" /\ \/ scan'[s].pc = "finally1"
                                \/ scan'[s].pc = "except" /\ Fault
  \/ scan[s].pc = "failstate" /\ scan'[s].pc = "failcommit"
  \/ scan[s].pc = "failcommit" /\ scan'[s].pc \in {"finally1", "except"}
  \/ scan[s].pc = "except" /\ scan'[s].pc = "finally1"
  \/ scan[s].pc = "finally1" /\ scan'[s].pc \in {"finally2", "done"}
  \/ scan[s].pc = "finally2" /\ scan'[s].pc = "done"

LEMMA ScanArrow ==
  ASSUME TypeInv, NEW s \in Scans, ScanStep(s)
  PROVE  Arrow(s) /\ \A t \in Scans \ {s} : scan'[t] = scan[t]
  <1> USE DEF TypeInv, TypeOK, Arrow
  <1>1. CASE ReadAttendee(s) \/ CheckState(s)
    BY <1>1 DEF ReadAttendee, CheckState, Answer, Goto, ScanRecord
  <1>2. CASE TakeLock(s)
    BY <1>2 DEF TakeLock, Answer
  <1>3. CASE CreatePrintJob(s) \/ SetPending(s) \/ LogAudit(s)
    BY <1>3 DEF CreatePrintJob, SetPending, LogAudit, Commit, Goto, ScanRecord
  <1>4. CASE Publish(s)
    BY <1>4 DEF Publish, Goto, ScanRecord
  <1>5. CASE SaveVendorJobId(s)
    BY <1>5 DEF SaveVendorJobId, Answer, Goto, ScanRecord
  <1>6. CASE DropState(s) \/ SaveFailure(s) \/ HandleException(s)
    BY <1>6 DEF DropState, SaveFailure, HandleException, Answer, Goto, ScanRecord
  <1>7. CASE FinallyGet(s) \/ FinallyDelete(s)
    BY <1>7 DEF FinallyGet, FinallyDelete, Goto, ScanRecord
  <1> QED BY <1>1, <1>2, <1>3, <1>4, <1>5, <1>6, <1>7 DEF ScanStep

\* The steps that a loop can still take, by its record.
LEMMA LoopLeft ==
  ASSUME TypeInv, NEW s \in Scans
  PROVE  /\ LoopStepsLeft(s) \in 0..(2 * MaxRetries + 1)
         /\ pub[s].pc # "done" => LoopStepsLeft(s) > 0
  <1>1. /\ pub[s].attempt \in 0..MaxRetries /\ MaxRetries \in Nat
        /\ pub[s].pc \in {"idle", "send", "wait", "done"}
        /\ pub[s].pc \in {"send", "wait"} => pub[s].attempt \in 1..MaxRetries
    BY TypesAssumption DEF TypeInv, TypeOK, Publisher, AttemptCounted
  <1>2. CASE pub[s].pc = "idle"
    BY <1>1, <1>2 DEF LoopStepsLeft
  <1>3. CASE pub[s].pc = "send"
    BY <1>1, <1>3 DEF LoopStepsLeft
  <1>4. CASE pub[s].pc = "wait"
    BY <1>1, <1>4 DEF LoopStepsLeft
  <1>5. CASE pub[s].pc = "done"
    BY <1>1, <1>5 DEF LoopStepsLeft
  <1> QED BY <1>1, <1>2, <1>3, <1>4, <1>5

\* A step of the loop, be it a retry, uses one of them up.
LEMMA LoopAdvances ==
  ASSUME TypeInv, LoopInv, NEW s \in Scans, PublishStep(s)
  PROVE  LoopStepsLeft(s)' \in Nat /\ LoopStepsLeft(s)' < LoopStepsLeft(s)
  <1>1. /\ pub' \in [Scans -> Publisher] /\ StepEffect(s)
    BY StepEffects DEF LoopInv, LoopTypeOK
  <1>2. /\ pub[s].attempt \in 0..MaxRetries /\ MaxRetries \in Nat
        /\ pub[s].pc = "idle" => pub[s].attempt = 0
        /\ pub[s].pc \in {"send", "wait"} => pub[s].attempt \in 1..MaxRetries
    BY TypesAssumption DEF TypeInv, TypeOK, Publisher, AttemptCounted, LoopInv, Paced
  <1>3. pub[s].pc # "done" /\ (pub[s].pc = "idle" \/ InAttempt(s))
    BY <1>1 DEF StepEffect, InAttempt
  <1>4. CASE Send(s)
    <2>1. /\ pub[s].pc = "send" /\ pub'[s].pc = "wait"
          /\ pub'[s].attempt = pub[s].attempt
      BY <1>4 DEF Send, TypeInv, TypeOK, Publisher
    <2> QED BY <1>2, <2>1 DEF LoopStepsLeft
  <1>5. CASE \E error \in BOOLEAN : GoesOn(s, error)
    <2>1. /\ pub'[s].pc = "send" /\ pub'[s].attempt = pub[s].attempt + 1
          /\ pub[s].attempt < MaxRetries
      BY <1>5 DEF GoesOn
    <2>2. LoopStepsLeft(s)' = 2 * (MaxRetries - pub[s].attempt)
      BY <1>2, <2>1 DEF LoopStepsLeft
    <2>3. LoopStepsLeft(s) > 2 * (MaxRetries - pub[s].attempt)
      BY <1>2, <1>3 DEF LoopStepsLeft, InAttempt
    <2> QED BY <1>2, <2>2, <2>3, LoopLeft
  <1>6. CASE pub'[s].pc = "done"
    <2>1. LoopStepsLeft(s)' = 0
      BY <1>6 DEF LoopStepsLeft
    <2> QED BY <1>3, <2>1, LoopLeft
  <1> QED BY <1>1, <1>4, <1>5, <1>6 DEF StepEffect, GoesOn, Returns, TypeInv, TypeOK, Publisher

\* At most 2 * MaxRetries + 12 steps make up a scan.
LEMMA StepsBounded ==
  ASSUME TypeInv, NEW s \in Scans
  PROVE  StepsLeft(s) \in 0..(2 * MaxRetries + 12)
  <1>1. LoopStepsLeft(s) \in 0..(2 * MaxRetries + 1) /\ MaxRetries \in Nat
    BY LoopLeft, TypesAssumption
  <1>2. scan[s].pc \in ScanPcs
    BY DEF TypeInv, TypeOK, ScanRecord
  <1>3. StepsLeft(s) \in {LoopStepsLeft(s) + n : n \in 5..11} \cup 0..5
    BY <1>1, <1>2 DEF StepsLeft, ScanPcs, Claiming
  <1> QED BY <1>1, <1>3

LEMMA ScanStepAdvances ==
  ASSUME TypeInv, LoopInv, NEW s \in Scans, ScanStep(s)
  PROVE  StepsLeft(s)' < StepsLeft(s)
  <1>1. LoopStepsLeft(s) \in Nat
    BY LoopLeft, TypesAssumption
  <1>2. CASE Publish(s)
    <2>1. /\ scan[s].pc = "publish"
          /\ scan'[s].pc \in {"publish", "okcommit", "failstate", "except"}
      BY <1>2, ScanArrow DEF Publish, Arrow, AfterPublish
    <2>2. LoopStepsLeft(s)' \in Nat /\ LoopStepsLeft(s)' < LoopStepsLeft(s)
      BY <1>2, LoopAdvances DEF Publish
    <2> QED BY <1>1, <2>1, <2>2 DEF StepsLeft
  <1>3. CASE ~Publish(s)
    <2>1. LoopStepsLeft(s)' = LoopStepsLeft(s)
      BY <1>3, OnlyPublish DEF LoopStepsLeft
    <2> QED BY <1>1, <1>3, <2>1, ScanArrow DEF Arrow, StepsLeft
  <1> QED BY <1>2, <1>3

\* No scan is sent back: each of its steps, a crash too, brings its end nearer,
\* and nobody else's step moves it.
THEOREM ScanAdvancesCorrect == Spec => ScanAdvances
  <1>1. TypeInv /\ LoopInv /\ [Next]_vars =>
          \A s \in Scans :
            scan'[s] # scan[s] \/ pub'[s] # pub[s] => StepsLeft(s)' < StepsLeft(s)
    <2> SUFFICES ASSUME TypeInv, LoopInv, [Next]_vars,
                        NEW s \in Scans, scan'[s] # scan[s] \/ pub'[s] # pub[s]
                 PROVE  StepsLeft(s)' < StepsLeft(s)
      OBVIOUS
    <2>1. ASSUME NEW t \in Scans, DoScan(t) PROVE t = s
      <3>1. \A u \in Scans \ {t} : scan'[u] = scan[u]
        BY <2>1, ScanArrow DEF DoScan
      <3>2. \A u \in Scans \ {t} : pub'[u] = pub[u]
        BY <2>1, OnlyPublish, PublishStepType DEF DoScan, Publish
      <3> QED BY <3>1, <3>2
    <2>2. DoScan(s) \/ Crash
      BY <2>1 DEF Next, Work, DoVendor, DoDeliver, DoHook, DoAdmin, DoExpire, vars
    <2>3. CASE DoScan(s)
      BY <2>3, ScanStepAdvances DEF DoScan
    <2>4. CASE Crash
      <3>1. s \in Active /\ scan'[s].pc = "crashed"
        BY <2>4 DEF Crash, TypeInv, TypeOK, ScanRecord
      <3>2. LoopStepsLeft(s) \in Nat
        BY LoopLeft, TypesAssumption
      <3>3. StepsLeft(s)' = 0
        BY <3>1 DEF StepsLeft
      <3>4. StepsLeft(s) > 0
        <4>1. scan[s].pc \in ScanPcs \ {"idle", "done", "crashed"}
          BY <3>1 DEF Active, TypeInv, TypeOK, ScanRecord
        <4> QED BY <3>2, <4>1 DEF StepsLeft, ScanPcs, Claiming
      <3> QED BY <3>3, <3>4
    <2> QED BY <2>2, <2>3, <2>4
  <1> QED BY <1>1, TypeInvAlways, LoopInvInService, PTL DEF Spec, ScanAdvances

\* A scan is over after at most 2 * MaxRetries + 12 steps of its own: that much
\* is left at its start, and ScanAdvances counts down.
THEOREM ScanWorkBounded == Spec => [](\A s \in Scans : StepsLeft(s) \in 0..(2 * MaxRetries + 12))
  <1>1. TypeInv => \A s \in Scans : StepsLeft(s) \in 0..(2 * MaxRetries + 12)
    BY StepsBounded
  <1> QED BY <1>1, TypeInvAlways, PTL
--------------------------------------------------------------------------------
(* One badge.  The state key stands from before the first POST of a scan   *)
(* for as long as the vendor has one of its POSTs or may still take one,   *)
(* so no later scan of the attendee gets into its claim; and a loop that   *)
(* has such a POST waits for the answer, so it makes no second one.        *)

\* The vendor has accepted a POST of scan s, or may still.
Open(s) == \E v \in Attempts : v[1] = s /\ http[v] \in {"sent", "accepted"}

LoopsInPublish ==
  \A s \in Scans : pub[s].pc \in {"send", "wait"} => scan[s].pc \in {"publish", "crashed"}

\* An open POST is its scan's last, and it is not given up.
LiveAttempt ==
  \A v \in Attempts :
    http[v] \in {"sent", "accepted"} =>
      /\ v = Post(v[1])
      /\ pub[v[1]].pc = "wait" \/ (http[v] = "accepted" /\ Submitted(v[1]))

StateKept ==
  \A s \in Scans :
    Open(s) \/ scan[s].pc \in {"audit", "publish"} => rstate[AttendeeOf[s]].state # "NONE"

OpenIsPublished ==
  \A s \in Scans :
    Open(s) => scan[s].pc \in {"publish", "okcommit", "finally1", "finally2", "done", "crashed"}

\* Wherever a scan may still make a POST or delete the key.
Printing == {"create", "pending", "audit", "publish", "failstate", "failcommit", "except"}

PrintingIsFirst ==
  \A s, t \in Scans :
    scan[s].pc \in Printing /\ Open(t) /\ AttendeeOf[s] = AttendeeOf[t] => s = t

OneOpen ==
  \A s, t \in Scans : Open(s) /\ Open(t) /\ AttendeeOf[s] = AttendeeOf[t] => s = t

OneBadge ==
  /\ ClaimExclusion /\ LoopsInPublish /\ LiveAttempt /\ StateKept
  /\ OpenIsPublished /\ PrintingIsFirst /\ OneOpen

LEMMA OneBadgeInit == Init => OneBadge
  BY DEF Init, VendorInit, PublishInit, IdlePublisher, ScanInit, OneBadge, ClaimExclusion, InClaim,
         Claiming, LoopsInPublish, LiveAttempt, Open, StateKept, OpenIsPublished, Printing,
         PrintingIsFirst, OneOpen

\* What a step of scan s outside the publish loop makes of the state keys: the
\* others stay, and its own is set before the audit entry and deleted only by a
\* scan whose print is off.
KeyEffect(s) ==
  /\ \A a \in Attendees \ {AttendeeOf[s]} : rstate'[a] = rstate[a]
  /\ scan[s].pc \in {"failstate", "except"} \/ rstate' = rstate
       \/ (scan[s].pc = "pending" /\ rstate'[AttendeeOf[s]].state = "PENDING")
  /\ scan'[s].pc = "create" => rstate[AttendeeOf[s]].state = "NONE"
  /\ scan'[s].pc = "audit" => rstate'[AttendeeOf[s]].state = "PENDING"
  /\ scan[s].pc = "okcommit" => scan'[s].pc = "finally1"

LEMMA KeyEffectLemma ==
  ASSUME TypeInv, RedisUp, ~Disturbance, NEW s \in Scans, ScanStep(s)
  PROVE  KeyEffect(s)
  <1> USE DEF TypeInv, TypeOK, KeyEffect
  <1>a. AttendeeOf[s] \in Attendees
    BY TypesAssumption
  <1>1. CASE TakeLock(s)
    <2>1. scan'[s].pc = "create" => rstate[AttendeeOf[s]].state = "NONE"
      BY <1>1 DEF Disturbance
    <2>2. rstate' = rstate /\ scan[s].pc = "lock" /\ scan'[s].pc \in {"create", "done"}
      BY <1>1 DEF TakeLock, Answer
    <2> QED BY <2>1, <2>2
  <1>2. CASE SetPending(s)
    <2>1. ~Fault
      BY <1>2 DEF Disturbance
    <2> QED BY <1>a, <1>2, <2>1 DEF SetPending, SetState, PutState, Goto, ScanRecord, State
  <1>3. CASE SaveVendorJobId(s)
    <2>1. ~Fault
      BY <1>3 DEF Disturbance
    <2> QED BY <1>3, <2>1 DEF SaveVendorJobId, Answer, redisVars
  <1>4. CASE DropState(s) \/ HandleException(s)
    BY <1>a, <1>4 DEF DropState, HandleException, DeleteState, PutState, Goto, Answer, ScanRecord,
                      State
  <1>5. CASE /\ ~TakeLock(s) /\ ~SetPending(s) /\ ~SaveVendorJobId(s)
             /\ ~DropState(s) /\ ~HandleException(s)
    <2>1. rstate' = rstate
      BY <1>5 DEF ScanStep, ReadAttendee, CheckState, CreatePrintJob, LogAudit, Publish,
                  SaveFailure, FinallyGet, FinallyDelete, redisVars
    <2>2. scan[s].pc \notin {"lock", "pending", "okcommit"}
      BY <1>5 DEF ScanStep, ReadAttendee, CheckState, CreatePrintJob, LogAudit, Publish,
                  SaveFailure, FinallyGet, FinallyDelete
    <2>3. scan'[s].pc \notin {"create", "audit"}
      BY <2>2, ScanArrow DEF Arrow, AfterPublish
    <2> QED BY <2>1, <2>2, <2>3
  <1> QED BY <1>1, <1>2, <1>3, <1>4, <1>5

\* Steps of a scan that leave the publish loop alone.
LEMMA QuietKeepsOneBadge ==
  ASSUME RedisUp, TypeInv, OneBadge, ~Disturbance, NEW s \in Scans, DoScan(s), ~Publish(s)
  PROVE  OneBadge'
  <1> USE DEF OneBadge
  <1>a. /\ Arrow(s) /\ KeyEffect(s) /\ UNCHANGED <<http, vjob, pub>>
        /\ \A t \in Scans \ {s} : scan'[t] = scan[t]
    BY ScanArrow, KeyEffectLemma, OnlyPublish DEF DoScan
  <1>b. ClaimExclusion'
    BY DEF Disturbance
  <1>c. \A t \in Scans : Open(t)' = Open(t)
    BY <1>a DEF Open
  <1>d. scan[s].pc # "publish"
    BY <1>a DEF Arrow
  <1>1. LoopsInPublish'
    <2>1. scan[s].pc \notin {"publish", "crashed"}
      BY <1>a, <1>d DEF Arrow
    <2> QED BY <1>a, <2>1 DEF LoopsInPublish
  <1>2. LiveAttempt'
    BY <1>a DEF LiveAttempt, Post, Submitted
  <1>3. StateKept'
    <2> SUFFICES ASSUME NEW t \in Scans,
                        Open(t) \/ scan'[t].pc \in {"audit", "publish"}
                 PROVE  rstate'[AttendeeOf[t]].state # "NONE"
      BY <1>c DEF StateKept
    <2>0. AttendeeOf[t] \in Attendees
      BY TypesAssumption
    <2>1. CASE AttendeeOf[t] # AttendeeOf[s]
      BY <1>a, <2>0, <2>1 DEF KeyEffect, StateKept
    <2>2. CASE t # s /\ AttendeeOf[t] = AttendeeOf[s]
      <3>1. rstate[AttendeeOf[t]].state # "NONE"
        BY <1>a, <2>2 DEF StateKept
      <3>2. scan[s].pc \notin {"failstate", "except"}
        <4>1. CASE Open(t)
          BY <2>2, <4>1 DEF PrintingIsFirst, Printing
        <4>2. CASE scan'[t].pc \in {"audit", "publish"}
          BY <1>a, <2>2, <4>2 DEF ClaimExclusion, InClaim, Claiming
        <4> QED BY <4>1, <4>2
      <3> QED BY <1>a, <2>2, <3>1, <3>2 DEF KeyEffect
    <2>3. CASE t = s
      <3>1. CASE Open(s)
        <4>1. scan[s].pc \notin {"failstate", "except"} /\ rstate[AttendeeOf[s]].state # "NONE"
          BY <3>1 DEF OpenIsPublished, StateKept
        <4> QED BY <1>a, <2>3, <4>1 DEF KeyEffect
      <3>2. CASE scan'[s].pc \in {"audit", "publish"}
        <4>1. scan'[s].pc = "audit" \/ scan[s].pc = "audit"
          BY <1>a, <1>d, <3>2 DEF Arrow, AfterPublish
        <4> QED BY <1>a, <2>3, <4>1 DEF KeyEffect, StateKept
      <3> QED BY <2>3, <3>1, <3>2
    <2> QED BY <2>1, <2>2, <2>3
  <1>4. OpenIsPublished'
    BY <1>a, <1>c, <1>d DEF OpenIsPublished, Arrow, KeyEffect
  <1>5. PrintingIsFirst'
    <2> SUFFICES ASSUME NEW u \in Scans, NEW t \in Scans, scan'[u].pc \in Printing, Open(t),
                        AttendeeOf[u] = AttendeeOf[t]
                 PROVE  u = t
      BY <1>c DEF PrintingIsFirst
    <2>1. CASE scan[u].pc \in Printing
      BY <2>1 DEF PrintingIsFirst
    <2>2. CASE scan[u].pc \notin Printing
      <3>1. u = s
        BY <1>a, <2>2
      <3>2. scan'[s].pc = "create"
        BY <1>a, <2>2, <3>1 DEF Arrow, Printing, KeyEffect
      <3> QED BY <1>a, <3>1, <3>2 DEF KeyEffect, StateKept
    <2> QED BY <2>1, <2>2
  <1>6. OneOpen'
    BY <1>c DEF OneOpen
  <1> QED BY <1>b, <1>1, <1>2, <1>3, <1>4, <1>5, <1>6

\* The attempt that the loop waits for is not given up while it is open.
NotGivenUp(s) == ~((TimeOut(s) \/ Raise(s)) /\ http[Post(s)] \in {"sent", "accepted"})

\* A loop whose POST is open or accepted waits for the answer, or reads it.
LEMMA WaitsForAnswer ==
  ASSUME NEW s \in Scans, PublishStep(s), NotGivenUp(s),
         pub[s].pc = "wait", http[Post(s)] \in {"sent", "accepted"}
  PROVE  ReadAccepted(s)
  <1>1. ~Raise(s) /\ ~TimeOut(s)
    BY DEF NotGivenUp
  <1>2. ~Start(s) /\ ~Send(s) /\ ~Unreachable(s)
    BY DEF Start, Send, Unreachable
  <1>3. ~ReadPermanent(s) /\ ~ReadTransient(s)
    BY DEF ReadPermanent, ReadTransient
  <1> QED BY <1>1, <1>2, <1>3 DEF PublishStep

LEMMA PublishKeepsLive ==
  ASSUME LoopInv, LiveAttempt, NEW s \in Scans, PublishStep(s), NotGivenUp(s)
  PROVE  /\ LiveAttempt'
         /\ \A t \in Scans : Open(t)' => Open(t) \/ t = s
         /\ Open(s)' => pub'[s].result \in {"none", "submitted"}
  <1>1. /\ pub \in [Scans -> Publisher] /\ pub' \in [Scans -> Publisher]
        /\ http \in [Attempts -> HttpStates] /\ StepEffect(s)
        /\ \A t \in Scans \ {s} : pub'[t] = pub[t]
    BY StepEffects DEF LoopInv, LoopTypeOK
  <1>2. /\ pub[s].pc # "done" /\ ~Submitted(s)
        /\ pub[s].result = "none"
    BY <1>1 DEF StepEffect, InAttempt, LoopInv, Paced, Submitted
  <1>3. \A v \in Attempts : v[1] \in Scans
    BY DEF Attempts
  <1>4. CASE Send(s)
    <2>1. /\ pub[s].pc = "send" /\ pub'[s].pc = "wait" /\ pub'[s].attempt = pub[s].attempt
          /\ pub'[s].result = "none" /\ http' = [http EXCEPT ![Post(s)] = "sent"]
      BY <1>1, <1>2, <1>4 DEF Send, Publisher
    <2>2. \A v \in Attempts : v[1] = s => http[v] \notin {"sent", "accepted"}
      BY <1>2, <2>1 DEF LiveAttempt
    <2>3. Post(s) \in Attempts /\ Post(s)[1] = s
      BY <2>1 DEF LoopInv, Paced, InAttempt, Post, Attempts
    <2>4. \A v \in Attempts : http'[v] = IF v = Post(s) THEN "sent" ELSE http[v]
      BY <1>1, <2>1, <2>3
    <2>5. LiveAttempt'
      <3> SUFFICES ASSUME NEW v \in Attempts, http'[v] \in {"sent", "accepted"}
                   PROVE  /\ v = <<v[1], pub'[v[1]].attempt>>
                          /\ \/ pub'[v[1]].pc = "wait"
                             \/ http'[v] = "accepted" /\ pub'[v[1]].result = "submitted"
        BY DEF LiveAttempt, Post, Submitted
      <3>1. CASE v = Post(s)
        BY <2>1, <2>3, <3>1 DEF Post
      <3>2. CASE v # Post(s)
        <4>1. http[v] \in {"sent", "accepted"} /\ v[1] # s
          BY <2>2, <2>4, <3>2
        <4> QED BY <1>1, <1>3, <2>4, <3>2, <4>1 DEF LiveAttempt, Post, Submitted
      <3> QED BY <3>1, <3>2
    <2>6. \A t \in Scans : Open(t)' => Open(t) \/ t = s
      BY <2>3, <2>4 DEF Open
    <2> QED BY <2>1, <2>5, <2>6
  <1>5. CASE ~Send(s)
    <2>1. UNCHANGED <<http, vjob>>
      BY <1>1, <1>5 DEF StepEffect, vendorVars
    <2>2. ASSUME NEW v \in Attempts, v[1] = s, http[v] \in {"sent", "accepted"}
          PROVE  /\ v = Post(s) /\ http[v] = "accepted"
                 /\ pub'[s].attempt = pub[s].attempt /\ pub'[s].result = "submitted"
      <3>1. v = Post(s) /\ pub[s].pc = "wait"
        BY <1>2, <2>2 DEF LiveAttempt
      <3>2. ReadAccepted(s)
        BY <2>2, <3>1, WaitsForAnswer
      <3> QED BY <1>1, <3>1, <3>2 DEF ReadAccepted, Return, Publisher, PublishResults
    <2>3. LiveAttempt'
      <3> SUFFICES ASSUME NEW v \in Attempts, http[v] \in {"sent", "accepted"}
                   PROVE  /\ v = <<v[1], pub'[v[1]].attempt>>
                          /\ \/ pub'[v[1]].pc = "wait"
                             \/ http[v] = "accepted" /\ pub'[v[1]].result = "submitted"
        BY <2>1 DEF LiveAttempt, Post, Submitted
      <3>1. CASE v[1] = s
        BY <2>2, <3>1 DEF Post
      <3>2. CASE v[1] # s
        BY <1>1, <1>3, <3>2 DEF LiveAttempt, Post, Submitted
      <3> QED BY <3>1, <3>2
    <2> QED BY <2>1, <2>2, <2>3 DEF Open
  <1> QED BY <1>4, <1>5

\* Steps of the publish loop.
LEMMA PublishKeepsOneBadge ==
  ASSUME TypeInv, LoopInv, OneBadge, ~Disturbance, NEW s \in Scans, DoScan(s), Publish(s)
  PROVE  OneBadge'
  <1> USE DEF OneBadge
  <1>a. /\ scan[s].pc = "publish" /\ PublishStep(s) /\ UNCHANGED rstate
        /\ scan'[s].pc = AfterPublish(pub'[s].result)
        /\ \A t \in Scans \ {s} : scan'[t] = scan[t]
    BY ScanArrow DEF Publish, Arrow, DoScan, redisVars
  <1>b. ClaimExclusion' /\ NotGivenUp(s)
    BY DEF Disturbance, NotGivenUp
  <1>c. /\ LiveAttempt'
        /\ \A t \in Scans : Open(t)' => Open(t) \/ t = s
        /\ Open(s)' => pub'[s].result \in {"none", "submitted"}
    BY <1>a, <1>b, PublishKeepsLive
  <1>d. scan'[s].pc \in {"publish", "okcommit", "failstate", "except"}
    BY <1>a DEF AfterPublish
  <1>e. /\ \A t \in Scans \ {s} : pub'[t] = pub[t]
        /\ pub'[s].pc # "done" => pub'[s].result = "none"
    <2>1. LoopInv'
      BY <1>a, StepKeepsLoopInv
    <2>2. \A t \in Scans : pub'[t].pc # "done" => pub'[t].result = "none"
      BY <2>1 DEF LoopInv, Paced
    <2> QED BY <1>a, <2>2, PublishStepType
  <1>1. LoopsInPublish'
    BY <1>a, <1>e DEF LoopsInPublish, AfterPublish
  <1>2. StateKept'
    BY <1>a, <1>c DEF StateKept
  <1>3. OpenIsPublished'
    BY <1>a, <1>c DEF OpenIsPublished, AfterPublish
  <1>4. PrintingIsFirst'
    <2> SUFFICES ASSUME NEW u \in Scans, NEW t \in Scans, scan'[u].pc \in Printing, Open(t)',
                        AttendeeOf[u] = AttendeeOf[t]
                 PROVE  u = t
      BY DEF PrintingIsFirst
    <2>1. CASE Open(t)
      <3>1. scan[u].pc \in Printing
        BY <1>a DEF Printing
      <3> QED BY <2>1, <3>1 DEF PrintingIsFirst
    <2>2. CASE t = s
      BY <1>b, <1>d, <2>2 DEF ClaimExclusion, InClaim, Claiming, Printing
    <2> QED BY <1>c, <2>1, <2>2
  <1>5. OneOpen'
    BY <1>a, <1>c DEF OneOpen, PrintingIsFirst, Printing
  <1> QED BY <1>b, <1>c, <1>1, <1>2, <1>3, <1>4, <1>5

\* Steps that make no POST, move no scan but into a crash, and delete no key.
LEMMA OneBadgeFrame ==
  ASSUME OneBadge, ClaimExclusion', LiveAttempt', UNCHANGED pub,
         \A s \in Scans : Open(s)' => Open(s),
         \A s \in Scans : scan'[s] = scan[s] \/ scan'[s].pc = "crashed",
         \A a \in Attendees : rstate'[a] = rstate[a] \/ rstate'[a].state # "NONE"
  PROVE  OneBadge'
  <1> USE DEF OneBadge
  <1>1. LoopsInPublish' /\ OpenIsPublished'
    BY DEF LoopsInPublish, OpenIsPublished
  <1>2. StateKept'
    BY TypesAssumption DEF StateKept
  <1>3. PrintingIsFirst' /\ OneOpen'
    BY DEF PrintingIsFirst, Printing, OneOpen
  <1> QED BY <1>1, <1>2, <1>3

\* Steps of the vendor: what it accepts was open before.
LEMMA VendorKeepsOneBadge ==
  ASSUME TypeInv, OneBadge, ~Disturbance, NEW v \in Attempts, DoVendor(v)
  PROVE  OneBadge'
  <1>1. UNCHANGED <<pub, scan, rstate>> /\ ClaimExclusion'
    BY DEF DoVendor, redisVars, Disturbance
  <1>2. \A w \in Attempts : http'[w] = http[w] \/ (w = v /\ http[w] = "sent" /\ http'[w] # "sent")
    BY DEF DoVendor, VendorStep, Accept, Refuse, Hold, PrintBadge, TypeInv, TypeOK
  <1>3. LiveAttempt'
    BY <1>1, <1>2 DEF OneBadge, LiveAttempt, Post, Submitted
  <1>4. \A s \in Scans : Open(s)' => Open(s)
    BY <1>2 DEF Open
  <1> QED BY <1>1, <1>3, <1>4, OneBadgeFrame

LEMMA AdminKeepsOneBadge ==
  ASSUME TypeInv, OneBadge, ~Disturbance, NEW o \in AdminOps, DoAdmin(o)
  PROVE  OneBadge'
  <1>1. UNCHANGED <<http, vjob, pub, scan>> /\ ClaimExclusion' /\ ~ClearState(o)
    BY DEF DoAdmin, vendorVars, Disturbance
  <1>2. LiveAttempt' /\ \A s \in Scans : Open(s)' => Open(s)
    BY <1>1 DEF OneBadge, LiveAttempt, Post, Submitted, Open
  <1>3. \A a \in Attendees : rstate'[a] = rstate[a] \/ rstate'[a].state # "NONE"
    BY <1>1 DEF DoAdmin, AdminStep, ReadLatest, ForceState, SetState, PutState, UnlockGet,
                UnlockDelete, CommitOverride, redisVars, TypeInv, TypeOK, State
  <1> QED BY <1>1, <1>2, <1>3, OneBadgeFrame

\* The other steps touch neither the vendor nor the loops nor the keys.
LEMMA OthersKeepOneBadge ==
  ASSUME TypeInv, OneBadge, UNCHANGED <<http, vjob, pub, rstate>>, ClaimExclusion',
         scan' = scan \/ Crash
  PROVE  OneBadge'
  <1>1. \A s \in Scans : scan'[s] = scan[s] \/ scan'[s].pc = "crashed"
    BY DEF Crash, TypeInv, TypeOK, ScanRecord
  <1>2. LiveAttempt' /\ \A s \in Scans : Open(s)' => Open(s)
    BY DEF OneBadge, LiveAttempt, Post, Submitted, Open
  <1> QED BY <1>1, <1>2, OneBadgeFrame

LEMMA OneBadgeNext ==
  ASSUME RedisUp
  PROVE  TypeInv /\ LoopInv /\ OneBadge /\ [Next /\ ~Disturbance]_vars => OneBadge'
  <1> SUFFICES ASSUME TypeInv, LoopInv, OneBadge, [Next /\ ~Disturbance]_vars
               PROVE  OneBadge'
    OBVIOUS
  <1>1. CASE Next /\ ~Disturbance
    <2>0. ClaimExclusion'
      BY <1>1 DEF Disturbance
    <2>1. ASSUME NEW s \in Scans, DoScan(s) PROVE OneBadge'
      BY <1>1, <2>1, QuietKeepsOneBadge, PublishKeepsOneBadge
    <2>2. ASSUME NEW v \in Attempts, DoVendor(v) PROVE OneBadge'
      BY <1>1, <2>2, VendorKeepsOneBadge
    <2>3. ASSUME NEW o \in AdminOps, DoAdmin(o) PROVE OneBadge'
      BY <1>1, <2>3, AdminKeepsOneBadge
    <2>4. CASE Crash
      BY <2>0, <2>4, OthersKeepOneBadge DEF Crash, vendorVars, redisVars
    <2>5. ASSUME NEW d \in Deliveries, DoDeliver(d) \/ DoHook(d) PROVE OneBadge'
      BY <2>0, <2>5, OthersKeepOneBadge
         DEF DoDeliver, Deliver, DoHook, HookStep, Lookup, CommitCallback, vendorVars, redisVars
    <2>6. ASSUME NEW a \in Attendees, DoExpire(a) PROVE OneBadge'
      BY <1>1, <2>0, <2>6, OthersKeepOneBadge DEF Disturbance, DoExpire, vendorVars
    <2> QED BY <1>1, <2>1, <2>2, <2>3, <2>4, <2>5, <2>6 DEF Next, Work
  <1>2. CASE UNCHANGED vars
    <2>1. ClaimExclusion'
      BY <1>2 DEF OneBadge, ClaimExclusion, InClaim, vars
    <2> QED BY <1>2, <2>1, OthersKeepOneBadge DEF vars, vendorVars, redisVars
  <1> QED BY <1>1, <1>2

\* Unless a step of Disturbance is taken an attendee's badge is printed once at
\* most: however many scans overlap, whatever the vendor answers, however many
\* attempts it takes, and with all other faults, crashes and lost answers.
THEOREM NoDoublePrintCorrect ==
  ASSUME RedisUp PROVE UndisturbedSpec => []NoDoublePrint
  <1>1. LoopInv /\ OneBadge => NoDoublePrint
    <2> SUFFICES ASSUME LoopInv, OneBadge,
                        NEW a \in Attendees, NEW v \in Printed(a), NEW w \in Printed(a)
                 PROVE  v = w
      BY DEF NoDoublePrint
    <2>1. /\ v \in Attempts /\ AttendeeOf[v[1]] = a /\ http[v] = "accepted"
          /\ w \in Attempts /\ AttendeeOf[w[1]] = a /\ http[w] = "accepted"
      BY DEF Printed, LoopInv, AnswerIsReal
    <2>2. v[1] \in Scans /\ w[1] \in Scans /\ Open(v[1]) /\ Open(w[1])
      BY <2>1 DEF Attempts, Open
    <2>3. v[1] = w[1]
      BY <2>1, <2>2 DEF OneBadge, OneOpen
    <2>4. v = Post(v[1]) /\ w = Post(w[1])
      BY <2>1 DEF OneBadge, LiveAttempt
    <2> QED BY <2>3, <2>4
  <1>2. UndisturbedSpec => Spec
    <2>1. [Next /\ ~Disturbance]_vars => [Next]_vars
      OBVIOUS
    <2> QED BY <2>1, PTL DEF UndisturbedSpec, Spec
  <1> QED
    BY <1>1, <1>2, OneBadgeInit, OneBadgeNext, TypeInvAlways, LoopInvInService, PTL
       DEF UndisturbedSpec
==================================================================================
