------------------------------- MODULE KioskSystem -------------------------------
(***************************************************************************)
(* CheckinSystem as the kiosks see it: with the clients of the status      *)
(* endpoints, and what they may be told.                                   *)
(***************************************************************************)
EXTENDS CheckinProperties, KioskApi

kioskVars == <<vars, poll>>

KioskStart == Init /\ KioskInit

DoPoll(p) == PollStep(p) /\ UNCHANGED <<hook, adm>>

\* The connection of a poll in progress breaks when the process dies.
KioskCrash ==
  /\ Crash
  /\ poll' = [p \in Polls |->
       IF MayAsk(p) THEN poll[p] ELSE Asked("lost", poll[p].what, NoAnswer, FALSE, {})]

KioskNext ==
  \/ Work /\ UNCHANGED poll
  \/ \E p \in Polls : DoPoll(p)
  \/ KioskCrash

KioskSpec == KioskStart /\ [][KioskNext]_kioskVars
--------------------------------------------------------------------------------
\* The answer to a GET /attendee/{attendee_id}/status for a.
Told(p, a) == poll[p].what = a /\ poll[p].code = 200

\* A poll that reports a finished check-in, by badge_printed or by a SUCCESS
\* job, is right.  Its two reads may straddle the commit, so the same answer may
\* still say badge_printed FALSE, but the next one will not.
PollNeverOverstates ==
  \A p \in Polls : \A a \in Attendees :
    Told(p, a) /\ (poll[p].badge \/ poll[p].status = "SUCCESS") => badge[a]

\* A kiosk that polls after its scan was answered with a print job is told of
\* that job, or of a later one of the same attendee, and never that its scan id
\* is unknown: a job that a kiosk has heard of is in the database to stay.
PollSeesOwnScan ==
  \A p \in Polls : \A s \in poll[p].since :
    /\ Told(p, AttendeeOf[s]) =>
         /\ poll[p].job # None
         /\ jobs[s].started_at <= jobs[poll[p].job].started_at
    /\ poll[p].what = ScanIdOf[s] => poll[p].code # 404

\* redis_state has a ground in the database, though no transaction spans the
\* two: PENDING stands for a print job's row, SUCCESS for a check-in or a forced
\* one whose commit is still to come, or failed.
PollStateHasGround ==
  \A p \in Polls : \A a \in Attendees :
    /\ Told(p, a) /\ poll[p].redis = "PENDING" =>
         \E s \in Scans : Inserted(s) /\ AttendeeOf[s] = a
    /\ Told(p, a) /\ poll[p].redis = "SUCCESS" =>
         badge[a] \/ \E o \in Forced(a) : adm[o].pc \in {"commit", "error", "lost"}
==================================================================================
