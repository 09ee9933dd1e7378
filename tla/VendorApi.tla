------------------------------- MODULE VendorApi -------------------------------
(***************************************************************************)
(* The badge-printing vendor, as scripts/mock_vendor.py plays it: it       *)
(* answers a POST to /print-jobs, and a job it accepted is printed or      *)
(* fails on its own time.  Every POST it accepts is a new job with an id   *)
(* of its own, here the POST: the Idempotency-Key header is not looked at. *)
(* The callback that tells the service of the end is in WebhookService.    *)
(***************************************************************************)
EXTENDS CheckinTypes

CONSTANT Scenarios   \* the answers this vendor may give

ASSUME VendorAssumption ==
  Scenarios \subseteq {"success", "error_4xx", "error_5xx", "timeout"}

VARIABLES
  http,     \* where each POST of the service stands
  vjob      \* the vendor's jobs, by vendor job id

vendorVars == <<http, vjob>>

\* "held": the vendor keeps the connection open and will never answer.
HttpStates == {"unsent", "sent", "held", "accepted", "permanent", "transient"}
VendorJobStates == {"none", "accepted", "printed", "failed"}

Replied(v) == http[v] \in {"accepted", "permanent", "transient"}

VendorInit ==
  /\ http = [v \in Attempts |-> "unsent"]
  /\ vjob = [v \in Attempts |-> "none"]
--------------------------------------------------------------------------------
\* create_print_job with scenario "success": the job exists once the vendor
\* has answered 202, whether or not anybody reads the answer.
Accept(v) ==
  /\ "success" \in Scenarios /\ http[v] = "sent"
  /\ http' = [http EXCEPT ![v] = "accepted"]
  /\ vjob' = [vjob EXCEPT ![v] = "accepted"]

Refuse(v) ==
  /\ http[v] = "sent"
  /\ \E answer \in {<<"error_4xx", "permanent">>, <<"error_5xx", "transient">>} :
       /\ answer[1] \in Scenarios
       /\ http' = [http EXCEPT ![v] = answer[2]]
  /\ UNCHANGED vjob

Hold(v) ==
  /\ "timeout" \in Scenarios /\ http[v] = "sent"
  /\ http' = [http EXCEPT ![v] = "held"]
  /\ UNCHANGED vjob

\* The printer finishes an accepted job, one way or the other.
PrintBadge(v) ==
  /\ vjob[v] = "accepted"
  /\ \E verdict \in {"printed", "failed"} : vjob' = [vjob EXCEPT ![v] = verdict]
  /\ UNCHANGED http

VendorStep(v) == Accept(v) \/ Refuse(v) \/ Hold(v) \/ PrintBadge(v)
================================================================================
