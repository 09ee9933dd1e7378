------------------------------- MODULE Database -------------------------------
(***************************************************************************)
(* PostgreSQL as app/database.py declares it: the attendees' badge_printed *)
(* flag, the print_jobs rows and the audit trail.  Every statement runs    *)
(* under READ COMMITTED, and a commit is one atomic step.                  *)
(***************************************************************************)
EXTENDS CheckinTypes

VARIABLES
  badge,     \* attendees.badge_printed
  jobs,      \* print_jobs, indexed by the scan that creates the row
  audit,     \* checkin_audit: the scans and admin requests that have a row
  clock      \* datetime.utcnow() as a counter, read when a job is built

dbVars == <<badge, jobs, audit, clock>>

\* "NONE" marks a row that has not been inserted.
Statuses == {"NONE", "PENDING", "SUCCESS", "FAILED"}

Job == [status: Statuses, vendor_job_id: Attempts \cup {None}, started_at: Nat]

NoJob == [status |-> "NONE", vendor_job_id |-> None, started_at |-> 0]

Inserted(s) == jobs[s].status # "NONE"

\* The rows of attendee a that ORDER BY started_at DESC may put first.
LatestJobs(a) ==
  LET mine == {s \in Scans : Inserted(s) /\ AttendeeOf[s] = a}
  IN  {s \in mine : \A t \in mine : jobs[t].started_at <= jobs[s].started_at}

\* A table without the unique columns.
NoUniqueColumn(s) == TRUE

\* print_jobs.scan_id and print_jobs.idempotency_key are unique.
ScanIdFree(s) == \A t \in Scans : Inserted(t) => ScanIdOf[t] # ScanIdOf[s]

\* The session's flush writes the columns whose value differs from the one it
\* loaded, and leaves the others as the row has them now.
Flush(row, loaded, object) ==
  [c \in DOMAIN row |-> IF object[c] # loaded[c] THEN object[c] ELSE row[c]]

DbInit ==
  /\ badge = [a \in Attendees |-> FALSE]
  /\ jobs = [s \in Scans |-> NoJob]
  /\ audit = {}
  /\ clock = 0
===============================================================================
