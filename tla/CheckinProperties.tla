---------------------------- MODULE CheckinProperties ----------------------------
(***************************************************************************)
(* What the check-in service promises, and what its parts rely on.         *)
(***************************************************************************)
EXTENDS CheckinSystem, PublishLoop

\* The type of every variable.
TypeOK ==
  /\ badge \in [Attendees -> BOOLEAN]
  /\ jobs \in [Scans -> Job]
  /\ audit \subseteq Scans \cup AdminOps
  /\ clock \in Nat
  /\ lock \in [Attendees -> Scans \cup {None}]
  /\ rstate \in [Attendees -> State]
  /\ http \in [Attempts -> HttpStates]
  /\ vjob \in [Attempts -> VendorJobStates]
  /\ faults \in 0..MaxFaults
  /\ pub \in [Scans -> Publisher]
  /\ scan \in [Scans -> ScanRecord]
  /\ hook \in [Deliveries -> HookRecord]
  /\ adm \in [AdminOps -> AdminRecord]
--------------------------------------------------------------------------------
(* The database. *)

\* A print job is SUCCESS only if its attendee is checked in: the callback and
\* the forced check-in write the two rows in one transaction, and neither a
\* partial flush, a failed commit nor a crash separates them.
SuccessImpliesCheckedIn ==
  \A s \in Scans : jobs[s].status = "SUCCESS" => badge[AttendeeOf[s]]

Printed(a) == {v \in Attempts : vjob[v] = "printed" /\ AttendeeOf[v[1]] = a}

Forced(a) ==
  {o \in AdminOps : ActionOf[o] = "FORCE_CHECK_IN" /\ TargetOf[o] = a}

\* Nobody is checked in without a printed badge of their own or an audited
\* FORCE_CHECK_IN, whatever callbacks and overrides overlap.
CheckedInWasPrintedOrForced ==
  \A a \in Attendees :
    badge[a] => Printed(a) # {} \/ Forced(a) \cap audit # {}

\* A vendor job id stored in a row is the id of a job the vendor created for
\* that row's scan, so a callback found by its id updates the right attendee.
VendorIdIsOwn ==
  \A s \in Scans :
    LET v == jobs[s].vendor_job_id
    IN  v # None => v[1] = s /\ vjob[v] # "none"

\* An override that read the row before the vendor's job id was saved does not
\* erase the id when it commits: only a RETRY_PRINT that saw the id clears it.
VendorIdSurvivesOverride ==
  [][\A s \in Scans :
       jobs[s].vendor_job_id # None /\ jobs'[s].vendor_job_id = None =>
         \E o \in AdminOps :
           /\ IsAction(o, "RETRY_PRINT") /\ adm[o].job = s
           /\ adm[o].seen.vendor_job_id # None]_vars

\* Without overrides a final status is the vendor's word: SUCCESS and FAILED of
\* a row that has a vendor job id are that job's own outcome, however often and
\* however late the callback comes; SUCCESS never comes without one.
StatusIsVendorsWord ==
  \A s \in Scans :
    LET v == jobs[s].vendor_job_id
    IN  CASE jobs[s].status = "SUCCESS" -> v # None /\ vjob[v] = "printed"
          [] jobs[s].status = "FAILED" /\ v # None -> vjob[v] = "failed"
          [] OTHER -> TRUE

\* The same with overrides: a final status has a cause of its own.  SUCCESS is a
\* badge printed for this very job or an audited FORCE_CHECK_IN of it; FAILED is
\* a print that failed, a publish that gave up, or an audited CANCEL of it.  No
\* stale write puts a status into a row for which nobody answers.
Overrode(s, action) ==
  \E o \in AdminOps \cap audit : IsAction(o, action) /\ adm[o].job = s

Ended(s, outcome) == \E v \in Attempts : v[1] = s /\ vjob[v] = outcome

GaveUp(s) == pub[s].result \in {"VENDOR_ERROR", "TIMEOUT_ERROR", "CONFIG_ERROR"}

StatusHasCause ==
  \A s \in Scans :
    /\ jobs[s].status = "SUCCESS" => Ended(s, "printed") \/ Overrode(s, "FORCE_CHECK_IN")
    /\ jobs[s].status = "FAILED" =>
         Ended(s, "failed") \/ GaveUp(s) \/ Overrode(s, "CANCEL")

Lifecycle ==
  INSTANCE CheckinLifecycle
    WITH Jobs <- Scans, People <- Attendees, PersonOf <- AttendeeOf,
         status <- [s \in Scans |-> jobs[s].status], checkedIn <- badge

\* Without overrides the service implements CheckinLifecycle: a job's status
\* never leaves SUCCESS or FAILED, and its attendee is checked in in the very
\* commit that makes it SUCCESS, under overlapping callbacks, faults and crashes.
LifecycleRefined == Lifecycle!LifecycleSpec
--------------------------------------------------------------------------------
(* The claim. *)

\* What the claim rests on: Redis has a client, no lock's TTL runs out
\* while its scan works, and no kiosk's name begins with "admin".
LeaseIntact ==
  /\ RedisUp /\ ~LocksExpire
  /\ \A s \in Scans : <<AdminOwner, KioskOf[s]>> \notin PrefixOf

\* Two scans of one attendee are never both between taking the lock and giving
\* it back, as the docstring of acquire_lock wants of a distributed lock.
ClaimExclusion ==
  \A s, t \in Scans :
    InClaim(s) /\ InClaim(t) /\ AttendeeOf[s] = AttendeeOf[t] => s = t

Claim ==
  INSTANCE AttendeeLock
    WITH Clients <- Scans, Keys <- Attendees, KeyOf <- AttendeeOf, Nobody <- None,
         owner <- lock, working <- {s \in Scans : InClaim(s)}

\* The lock key and the scans in their claims implement AttendeeLock: SET NX,
\* GET with DELETE, lost answers, failed releases and crashes together never
\* hand a lock on before its owner gave it back.
ClaimRefined == Claim!LockSpec

\* As long as nothing has failed, a lock in Redis is that of a scan of its own
\* attendee which is still in its claim: no way through process_scan returns
\* with the lock left behind.
LockHasWorker ==
  faults = 0 =>
    \A a \in Attendees :
      lock[a] # None => InClaim(lock[a]) /\ AttendeeOf[lock[a]] = a

\* What can cost an attendee a second badge, each a single step: a lock that ran
\* out lets two scans into their claims; a scan takes the lock though the state
\* key is set, for it looked too early, or in vain; the key is not stored, or is
\* deleted by the handler of a commit that failed when the vendor had the job;
\* an attempt is given up that the vendor has accepted or still may; an override
\* clears the key; the key's TTL runs out.
Disturbance ==
  \/ ~ClaimExclusion'
  \/ \E s \in Scans : /\ TakeLock(s) /\ scan'[s].pc = "create"
                      /\ rstate[AttendeeOf[s]].state # "NONE"
  \/ \E s \in Scans : (SetPending(s) \/ SaveVendorJobId(s)) /\ Fault
  \/ \E s \in Scans : /\ TimeOut(s) \/ Raise(s)
                      /\ http[Post(s)] \in {"sent", "accepted"}
  \/ \E o \in AdminOps : ClearState(o)
  \/ \E a \in Attendees : DoExpire(a) /\ rstate' # rstate

\* The service when none of that happens.  Scans of one attendee may overlap, the
\* process may die, locks may expire, and all other calls may fail.
UndisturbedSpec == Init /\ [][Next /\ ~Disturbance]_vars

\* The attendee's badge is printed at most once.
NoDoublePrint ==
  \A a \in Attendees : \A v, w \in Printed(a) : v = w

\* Requests that carry one scan_id put at most one of them in front of the
\* vendor: the unique columns of print_jobs stop the others, with Redis or
\* without a client for it.
ScanIdPublishedOnce ==
  \A v, w \in Attempts :
    http[v] # "unsent" /\ http[w] # "unsent" /\ ScanIdOf[v[1]] = ScanIdOf[w[1]]
      => v[1] = w[1]

\* A kiosk is told that the attendee is already checked in only when that is so,
\* or when a forced check-in has said so in Redis and its commit is still to
\* come, or failed.
DuplicateIsHonest ==
  \A s \in Scans :
    scan[s].resp = "DUPLICATE" =>
      \/ badge[AttendeeOf[s]]
      \/ \E o \in Forced(AttendeeOf[s]) : adm[o].pc \in {"commit", "error", "lost"}

\* A kiosk that is told of a badge in print is told the truth: of its own job the
\* vendor has accepted a POST, and of another scan's there is a row.
PendingIsReal ==
  \A s \in Scans :
    scan[s].resp = "PENDING" =>
      IF scan[s].job = s THEN vjob[VendorJobOf(s)] # "none"
      ELSE \E t \in Scans : Inserted(t) /\ AttendeeOf[t] = AttendeeOf[s]

\* The DELETE in release_lock removes a lock of the kiosk that releases it.
ReleaseIsOwn ==
  [][\A s \in Scans :
       FinallyDelete(s) /\ lock' # lock =>
         KioskOf[lock[AttendeeOf[s]]] = KioskOf[s]]_vars
--------------------------------------------------------------------------------
(* The callback. *)

\* A callback is applied only to a job that is still PENDING.
AppliedOnlyWhilePending ==
  [][\A d \in Deliveries :
       CommitCallback(d) /\ NoFault => StillOpen(hook[d].job)]_vars

\* A kiosk is told that a print is in progress only while it is: the state key
\* does not outlive a print that failed.
PendingAnswerIsCurrent ==
  [][\A s, t \in Scans :
       CheckState(s) /\ scan'[s].resp = "PENDING" /\ rstate[AttendeeOf[s]].job = t
         => jobs[t].status # "FAILED"]_vars
--------------------------------------------------------------------------------
(* Progress. *)

\* Every scan that was started is answered, whatever the vendor and the network
\* do, as long as Redis and PostgreSQL answer or fail each command.
ScanAnswered ==
  \A s \in Scans : scan[s].pc # "idle" ~> scan[s].pc \in {"done", "crashed"}

\* How many steps scan s can still take, at most.
LoopStepsLeft(s) ==
  LET later == 2 * (MaxRetries - pub[s].attempt)
  IN  CASE pub[s].pc = "idle" -> 2 * MaxRetries + 1
        [] pub[s].pc = "send" -> later + 2
        [] pub[s].pc = "wait" -> later + 1
        [] pub[s].pc = "done" -> 0

StepsLeft(s) ==
  CASE scan[s].pc = "idle"       -> LoopStepsLeft(s) + 11
    [] scan[s].pc = "state"      -> LoopStepsLeft(s) + 10
    [] scan[s].pc = "lock"       -> LoopStepsLeft(s) + 9
    [] scan[s].pc = "create"     -> LoopStepsLeft(s) + 8
    [] scan[s].pc = "pending"    -> LoopStepsLeft(s) + 7
    [] scan[s].pc = "audit"      -> LoopStepsLeft(s) + 6
    [] scan[s].pc = "publish"    -> LoopStepsLeft(s) + 5
    [] scan[s].pc \in {"okcommit", "failstate"} -> 5
    [] scan[s].pc = "failcommit" -> 4
    [] scan[s].pc = "except"     -> 3
    [] scan[s].pc = "finally1"   -> 2
    [] scan[s].pc = "finally2"   -> 1
    [] scan[s].pc \in {"done", "crashed"} -> 0

\* Whatever moves a scan moves it towards its end: no exception path, retry or
\* other request sends process_scan back, so it takes at most
\* 2 * MaxRetries + 12 steps.
ScanAdvances ==
  [][\A s \in Scans :
       scan'[s] # scan[s] \/ pub'[s] # pub[s] => StepsLeft(s)' < StepsLeft(s)]_vars

\* A lock that was taken is given back by the scan that took it, TTL or no TTL,
\* unless something fails.
LockFreed ==
  \A a \in Attendees : lock[a] # None ~> lock[a] = None \/ faults > 0

\* A callback that finds the vendor's job id in its row settles the job, unless
\* something fails.
CallbackSettlesJob ==
  \A d \in Deliveries :
    hook[d].pc = "lookup" /\ jobs[d[1][1]].vendor_job_id = d[1]
      ~> jobs[d[1][1]].status = Verdict(d[1]) \/ faults > 0

\* An attendee whose badge came out of the printer is in the end checked in.
PrintedIsCheckedIn ==
  \A v \in Attempts : vjob[v] = "printed" ~> badge[AttendeeOf[v[1]]]
==================================================================================
