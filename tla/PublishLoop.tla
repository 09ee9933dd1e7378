------------------------------- MODULE PublishLoop -------------------------------
(***************************************************************************)
(* The publish loop of QueueService on its own against the vendor: every   *)
(* way the POSTs, their answers, timeouts and retries may interleave.  It  *)
(* is what CheckinSystem does to the variables of QueueService.            *)
(***************************************************************************)
EXTENDS QueueService

loopVars == <<http, vjob, pub, faults>>

LoopInit == VendorInit /\ PublishInit /\ faults = 0

Serve(v) == VendorStep(v) /\ UNCHANGED <<pub, faults>>

\* A call in another part of the service fails: it counts as one of the faults.
Elsewhere == Fault /\ UNCHANGED <<http, vjob, pub>>

LoopNext ==
  \/ \E s \in Scans : PublishStep(s)
  \/ \E v \in Attempts : Serve(v)
  \/ Elsewhere

LoopSpec == LoopInit /\ [][LoopNext]_loopVars
--------------------------------------------------------------------------------
LoopTypeOK ==
  /\ http \in [Attempts -> HttpStates]
  /\ vjob \in [Attempts -> VendorJobStates]
  /\ pub \in [Scans -> Publisher]
  /\ faults \in 0..MaxFaults

VendorJobsOf(s) == {v \in Attempts : v[1] = s /\ vjob[v] # "none"}

\* No answer, no second badge: a scan has two jobs at the vendor only if the
\* answer of an attempt never reached the loop.  The code cannot prevent the
\* second job then, but whatever it was answered it never asks for one.
SecondJobNeedsMiss ==
  \A s \in Scans : \A v, w \in VendorJobsOf(s) : v # w => pub[s].last_error

\* The id that a successful publish returns names a job the vendor really has,
\* also when an earlier POST created it.
SubmittedIsAccepted ==
  \A s \in Scans : Submitted(s) => vjob[VendorJobOf(s)] # "none"

\* VENDOR_ERROR for want of further attempts leaves no job at the vendor, now or
\* later: all of them were refused, as last_error remembers any that was missed.
\* VENDOR_ERROR after a permanent refusal says nothing of the attempts before it:
\* one that timed out may have created a job, and last_error is not looked at.
RefusalLeavesNoJob ==
  \A s \in Scans :
    pub[s].result = "VENDOR_ERROR" =>
      http[Post(s)] = "permanent" \/ VendorJobsOf(s) = {}

\* publish_print_job returns, though the vendor may never answer anything.
PublishEnds == \A s \in Scans : pub[s].pc # "idle" ~> pub[s].pc = "done"
==================================================================================
