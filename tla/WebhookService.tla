----------------------------- MODULE WebhookService -----------------------------
(***************************************************************************)
(* app/api/routes/webhook.py and app/services/webhook_service.py: the      *)
(* vendor's callback is answered 200 at once and applied by a background   *)
(* task.  The vendor may deliver the callback of one job several times;    *)
(* the deliveries are handled concurrently.                                *)
(***************************************************************************)
EXTENDS Database, VendorApi, Faults

CONSTANT MaxDeliveries   \* how often the vendor sends one job's callback

ASSUME WebhookAssumption == MaxDeliveries \in Nat

VARIABLE hook

Deliveries == Attempts \X (1..MaxDeliveries)

HookPcs == {"none", "lookup", "commit", "done", "lost"}

\* job is the print job that the lookup found.
HookInit == hook = [d \in Deliveries |-> [pc |-> "none", job |-> None]]

HookRecord == [pc: HookPcs, job: Scans \cup {None}]

HookGoto(d, pc) == hook' = [hook EXCEPT ![d].pc = pc]

\* A vendor status that is normalised the wrong way round.
VerdictSwapped(v) == IF vjob[v] = "failed" THEN "SUCCESS" ELSE "FAILED"

\* payload.status: SUCCESS for a printed badge, anything else is a failure.
Verdict(v) == IF vjob[v] = "printed" THEN "SUCCESS" ELSE "FAILED"

Terminal == {"SUCCESS", "FAILED"}

\* A lookup by the service's own job id.
JobsWithOwnId(v) == {s \in Scans : Inserted(s) /\ s = v}

JobsWithVendorId(v) == {s \in Scans : Inserted(s) /\ jobs[s].vendor_job_id = v}
--------------------------------------------------------------------------------
\* The callback arrives, is answered 200 and queued as a background task.
Deliver(d) ==
  LET v == d[1] k == d[2] IN
  /\ vjob[v] \in {"printed", "failed"}
  /\ hook[d].pc = "none"
  /\ k > 1 => hook[<<v, k - 1>>].pc # "none"
  /\ HookGoto(d, "lookup")
  /\ NoFault /\ UNCHANGED <<dbVars, vendorVars>>

\* process_callback goes on with a job that has no final status yet.
StillOpen(s) == jobs[s].status \notin Terminal

\* scalar_one_or_none: no row, and more than one row, end the callback, as does
\* an exception.
Lookup(d) ==
  /\ hook[d].pc = "lookup"
  /\ \/ /\ NoFault
        /\ IF \E s \in Scans : JobsWithVendorId(d[1]) = {s} /\ StillOpen(s)
           THEN \E s \in JobsWithVendorId(d[1]) :
                  hook' = [hook EXCEPT ![d] = [pc |-> "commit", job |-> s]]
           ELSE HookGoto(d, "done")
     \/ Fault /\ HookGoto(d, "done")
  /\ UNCHANGED <<dbVars, vendorVars>>

\* A handler that leaves the attendee's row alone.
ApplyToJobOnly(s, verdict) ==
  /\ jobs' = [jobs EXCEPT ![s].status = verdict]
  /\ UNCHANGED badge

\* The flush writes status, and badge_printed on SUCCESS, in one transaction:
\* the row is written by primary key, whatever it holds by now.
ApplyVerdict(s, verdict) ==
  /\ jobs' = [jobs EXCEPT ![s].status = verdict]
  /\ badge' = IF verdict = "SUCCESS" THEN [badge EXCEPT ![AttendeeOf[s]] = TRUE]
                                     ELSE badge

CommitCallback(d) ==
  /\ hook[d].pc = "commit"
  /\ \/ ApplyVerdict(hook[d].job, Verdict(d[1])) /\ NoFault
     \/ ApplyVerdict(hook[d].job, Verdict(d[1])) /\ Fault
     \/ UNCHANGED <<badge, jobs>> /\ Fault
  /\ HookGoto(d, "done")
  /\ UNCHANGED <<audit, clock, vendorVars>>

HookStep(d) == Lookup(d) \/ CommitCallback(d)
==================================================================================
