------------------------------ MODULE QueueService ------------------------------
(***************************************************************************)
(* app/services/queue_service.py: publish_print_job, the retry loop that   *)
(* hands one print job to the vendor.  The loop of scan s runs inside      *)
(* process_scan; every await of it is a step here.                         *)
(***************************************************************************)
EXTENDS VendorApi, Faults

CONSTANTS
  VendorConfigured,   \* settings.VENDOR_API_URL is set
  LossyNetwork        \* the client's timeout may beat the vendor's answer

ASSUME QueueAssumption == {VendorConfigured, LossyNetwork} \subseteq BOOLEAN

VARIABLE pub

PublishResults ==
  {"none", "submitted", "VENDOR_ERROR", "TIMEOUT_ERROR", "CONFIG_ERROR", "raised"}

\* last_error stands for "last_error is not None".
Publisher == [pc: {"idle", "send", "wait", "done"}, attempt: 0..MaxRetries,
              last_error: BOOLEAN, result: PublishResults]

IdlePublisher ==
  [pc |-> "idle", attempt |-> 0, last_error |-> FALSE, result |-> "none"]

PublishInit == pub = [s \in Scans |-> IdlePublisher]

Post(s) == <<s, pub[s].attempt>>
Submitted(s) == pub[s].result = "submitted"

\* The id of the first POST, whichever was accepted.
FirstVendorJob(s) == <<s, 1>>

\* The id in the answer that the loop returned on: that of its last POST.
VendorJobOf(s) == Post(s)

Return(s, result) ==
  pub' = [pub EXCEPT ![s] = [pc |-> "done", attempt |-> @.attempt,
                             last_error |-> @.last_error, result |-> result]]

NextAttempt(s, error) ==
  pub' = [pub EXCEPT ![s] = [pc |-> "send", attempt |-> @.attempt + 1,
                             last_error |-> error, result |-> "none"]]
--------------------------------------------------------------------------------
\* One retry too many.
ExhaustedLate(s) == pub[s].attempt > MaxRetries

Exhausted(s) == pub[s].attempt >= MaxRetries
ErrorAfterRetries(s, error) == IF error THEN "TIMEOUT_ERROR" ELSE "VENDOR_ERROR"

\* A loop that forgets the exceptions of the attempts before the last one.
ForgetfulRetry(s, error) ==
  IF Exhausted(s)
  THEN Return(s, ErrorAfterRetries(s, error))
  ELSE NextAttempt(s, FALSE)

\* A loop that sends again without counting the attempt.
RetryUncounted(s, error) ==
  IF Exhausted(s)
  THEN Return(s, ErrorAfterRetries(s, error))
  ELSE IF pub[s].pc = "wait" THEN pub' = [pub EXCEPT ![s].pc = "send"]
                             ELSE NextAttempt(s, error)

\* The end of an attempt that may be retried: sleep and go round again, or
\* report the error.  An exception seen by any attempt is remembered.
Retry(s, error) ==
  IF Exhausted(s)
  THEN Return(s, ErrorAfterRetries(s, error))
  ELSE NextAttempt(s, error)

Start(s) ==
  /\ pub[s].pc = "idle"
  /\ IF ~VendorConfigured THEN Return(s, "CONFIG_ERROR")
                          ELSE Retry(s, FALSE)
  /\ NoFault /\ UNCHANGED vendorVars

Send(s) ==
  /\ pub[s].pc = "send"
  /\ http' = [http EXCEPT ![Post(s)] = "sent"]
  /\ pub' = [pub EXCEPT ![s].pc = "wait"]
  /\ NoFault /\ UNCHANGED vjob

\* httpx.ConnectError: the request never left.
Unreachable(s) ==
  /\ pub[s].pc = "send" /\ LossyNetwork
  /\ Retry(s, TRUE)
  /\ NoFault /\ UNCHANGED vendorVars

\* A loop that takes any answer for an acceptance.
ReadAnyReply(s) ==
  /\ pub[s].pc = "wait" /\ Replied(Post(s))
  /\ Return(s, "submitted")
  /\ NoFault /\ UNCHANGED vendorVars

\* A loop that takes an acceptance for an answer to be tried again.
RetryAccepted(s) ==
  /\ pub[s].pc = "wait" /\ http[Post(s)] = "accepted"
  /\ Retry(s, pub[s].last_error)
  /\ NoFault /\ UNCHANGED vendorVars

ReadAccepted(s) ==
  /\ pub[s].pc = "wait" /\ http[Post(s)] = "accepted"
  /\ Return(s, "submitted")
  /\ NoFault /\ UNCHANGED vendorVars

ReadPermanent(s) ==
  /\ pub[s].pc = "wait" /\ http[Post(s)] = "permanent"
  /\ Return(s, "VENDOR_ERROR")
  /\ NoFault /\ UNCHANGED vendorVars

ReadTransient(s) ==
  /\ pub[s].pc = "wait" /\ http[Post(s)] = "transient"
  /\ Retry(s, pub[s].last_error)
  /\ NoFault /\ UNCHANGED vendorVars

\* A client without a timeout.
NoTimeOut(s) == FALSE

\* httpx.TimeoutException: the answer is missing, late, or lost on the way.
TimeOut(s) ==
  /\ pub[s].pc = "wait"
  /\ http[Post(s)] = "held" \/ LossyNetwork
  /\ Retry(s, TRUE)
  /\ NoFault /\ UNCHANGED vendorVars

\* Any other exception leaves publish_print_job: a connection that breaks
\* while reading, a 2xx whose body is not JSON.
Raise(s) ==
  /\ pub[s].pc = "wait" /\ Fault
  /\ Return(s, "raised")
  /\ UNCHANGED vendorVars

PublishStep(s) ==
  \/ Start(s) \/ Send(s) \/ Unreachable(s)
  \/ ReadAccepted(s) \/ ReadPermanent(s) \/ ReadTransient(s)
  \/ TimeOut(s) \/ Raise(s)
=================================================================================
