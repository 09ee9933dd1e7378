-------------------------------- MODULE KioskApi --------------------------------
(***************************************************************************)
(* app/api/routes/checkin.py: the two GET endpoints, the fallback of a     *)
(* kiosk that waits for its print.  They read the database and Redis, one  *)
(* await after the other, while scans, callbacks and overrides go on.  A   *)
(* kiosk polls as often as it likes: a poll that has been answered may be  *)
(* sent again.                                                             *)
(***************************************************************************)
EXTENDS ScanService

CONSTANT Polls   \* clients of the two GET endpoints

VARIABLE poll

ScanIds == {ScanIdOf[s] : s \in Scans}

\* The two endpoints have paths of their own.
ASSUME KioskAssumption == Attendees \cap ScanIds = {}

PollPcs == {"idle", "job", "state", "told", "lost"}
NoAnswer == 0
Codes == {200, 404, 500}

\* what is the id in the path.  badge, job, status and redis are the answer's
\* badge_printed, latest_job and redis_state, "NONE" for null; since names the
\* scans that had been answered with a job of theirs when the poll began.
PollRecord == [pc: PollPcs, what: Attendees \cup ScanIds \cup {None},
               code: Codes \cup {NoAnswer}, badge: BOOLEAN,
               job: Scans \cup {None}, status: Statuses,
               redis: {"NONE", "PENDING", "SUCCESS"}, since: SUBSET Scans]

\* A poll about id that has read nothing but, perhaps, the attendee's badge.
Asked(pc, id, code, isBadged, since) ==
  [pc |-> pc, what |-> id, code |-> code, badge |-> isBadged, job |-> None,
   status |-> "NONE", redis |-> "NONE", since |-> since]

KioskInit == poll = [p \in Polls |-> Asked("idle", None, NoAnswer, FALSE, {})]

AnsweredWithJob == {s \in Scans : scan[s].pc = "done" /\ scan[s].job = s}

Begin(p, pc, id, code, isBadged) ==
  poll' = [poll EXCEPT ![p] = Asked(pc, id, code, isBadged, AnsweredWithJob)]

MayAsk(p) == poll[p].pc \in {"idle", "told", "lost"}
--------------------------------------------------------------------------------
(* GET /attendee/{attendee_id}/status. *)

\* A failing call leaves the endpoint as an exception: the answer is a 500.
AskAttendee(p, a) ==
  /\ MayAsk(p)
  /\ \/ a \notin Registered /\ NoFault /\ Begin(p, "told", a, 404, FALSE)
     \/ a \in Registered /\ NoFault /\ Begin(p, "job", a, NoAnswer, badge[a])
     \/ Fault /\ Begin(p, "told", a, 500, FALSE)

\* The answer so far, with the latest job and its status.
WithJob(r, pc, code, job, status) ==
  [pc |-> pc, what |-> r.what, code |-> code, badge |-> r.badge, job |-> job,
   status |-> status, redis |-> r.redis, since |-> r.since]

AskLatestJob(p) ==
  /\ poll[p].pc = "job"
  /\ LET latest == LatestJobs(poll[p].what) IN
       \/ /\ latest = {} /\ NoFault
          /\ poll' = [poll EXCEPT ![p] = WithJob(@, "state", NoAnswer, None, "NONE")]
       \/ /\ NoFault
          /\ \E s \in latest :
               poll' = [poll EXCEPT ![p] =
                          WithJob(@, "state", NoAnswer, s, jobs[s].status)]
       \/ /\ Fault
          /\ poll' = [poll EXCEPT ![p] = WithJob(@, "told", 500, None, "NONE")]

WithState(r, state) ==
  [pc |-> "told", what |-> r.what, code |-> 200, badge |-> r.badge, job |-> r.job,
   status |-> r.status, redis |-> state, since |-> r.since]

AskState(p) ==
  /\ poll[p].pc = "state"
  /\ \E state \in {"NONE", "PENDING", "SUCCESS"} :
       /\ GetState(poll[p].what, state)
       /\ poll' = [poll EXCEPT ![p] = WithState(@, state)]
--------------------------------------------------------------------------------
(* GET /scan/{scan_id}/status. *)

JobsOfScanId(i) == {s \in Scans : Inserted(s) /\ ScanIdOf[s] = i}

\* With a row the endpoint calls CheckinService.get_job_status, which does not
\* exist: AttributeError.
AskScan(p, i) ==
  /\ MayAsk(p)
  /\ \/ JobsOfScanId(i) = {} /\ NoFault /\ Begin(p, "told", i, 404, FALSE)
     \/ JobsOfScanId(i) # {} /\ NoFault /\ Begin(p, "told", i, 500, FALSE)
     \/ Fault /\ Begin(p, "told", i, 500, FALSE)

PollStep(p) ==
  /\ \/ \E a \in Attendees : AskAttendee(p, a)
     \/ AskLatestJob(p) \/ AskState(p)
     \/ \E i \in ScanIds : AskScan(p, i)
  /\ UNCHANGED <<dbVars, redisVars, vendorVars, pub, scan>>
==================================================================================
