----------------------------- MODULE PublishTiming -----------------------------
(***************************************************************************)
(* The publish loop in time: the client's timeouts end every wait of an    *)
(* attempt, and a sleep comes before the next one.  What it adds up to is  *)
(* the time for which the loop leans on the attendee's lock, which nobody  *)
(* renews.                                                                 *)
(***************************************************************************)
EXTENDS PublishLoop

CONSTANTS
  ConnectTimeout,    \* settings.VENDOR_CONNECTION_TIMEOUT
  ReadTimeout,       \* settings.VENDOR_READ_TIMEOUT, for writing as well
  BackoffBase        \* settings.VENDOR_RETRY_BACKOFF_BASE

ASSUME TimingAssumption == {ConnectTimeout, ReadTimeout, BackoffBase} \subseteq Nat

VARIABLES
  now,      \* the time, in the settings' unit
  began,    \* when the loop of each scan began
  due       \* when the connect, or the request, in progress must have ended

timedVars == <<loopVars, now, began, due>>

TimedInit ==
  /\ LoopInit
  /\ now = 0
  /\ began = [s \in Scans |-> 0]
  /\ due = [s \in Scans |-> 0]

InAttempt(s) == pub[s].pc \in {"send", "wait"}
--------------------------------------------------------------------------------
\* A request is written and then read; a vendor that trickles its small answer
\* over several reads is left out.
RequestTime == 2 * ReadTimeout

\* A sleep that counts the attempt that is to come.
BackoffAfterNext(attempt) == BackoffBase * (attempt + 1)

Backoff(attempt) == BackoffBase * attempt

\* By when the phase that the step of s has entered must end.
Deadline(s) ==
  CASE pub'[s].pc = "send" -> now + Backoff(pub[s].attempt) + ConnectTimeout
    [] pub'[s].pc = "wait" -> now + RequestTime
    [] OTHER -> now

\* Connecting begins when the sleep is over.
Awake(s) == now + ConnectTimeout >= due[s]

\* Reading began RequestTime before due, or up to ReadTimeout later.
ReadTimedOut(s) == now + ReadTimeout >= due[s]

TimedStep(s) ==
  /\ \/ Start(s) /\ began' = [began EXCEPT ![s] = now]
     \/ /\ \/ Awake(s) /\ (Send(s) \/ Unreachable(s))
           \/ ReadAccepted(s) \/ ReadPermanent(s) \/ ReadTransient(s)
           \/ ReadTimedOut(s) /\ TimeOut(s)
           \/ Raise(s)
        /\ UNCHANGED began
  /\ due' = [due EXCEPT ![s] = Deadline(s)]
  /\ UNCHANGED now

TimedServe(v) == Serve(v) /\ UNCHANGED <<now, began, due>>

\* Time is watched while a loop runs, and no wait outlasts its timeout.
Tick ==
  /\ \E s \in Scans : InAttempt(s)
  /\ \A s \in Scans : InAttempt(s) => now < due[s]
  /\ now' = now + 1
  /\ UNCHANGED <<loopVars, began, due>>

TimedNext ==
  \/ \E s \in Scans : TimedStep(s)
  \/ \E v \in Attempts : TimedServe(v)
  \/ Tick

\* The event loop wakes the loop when its wait is over, and time goes on.  The
\* vendor owes nothing, and no failure is owed either.
TimedSpec ==
  /\ TimedInit /\ [][TimedNext]_timedVars
  /\ \A s \in Scans : WF_timedVars(TimedStep(s) /\ NoFault)
  /\ WF_timedVars(Tick)
--------------------------------------------------------------------------------
\* What n attempts take at most, with the sleeps between them.
Budget(n) == n * (ConnectTimeout + RequestTime) + BackoffBase * ((n * (n - 1)) \div 2)

\* The loop is over within the budget of its settings, however connecting,
\* writing, reading and sleeping share the time: a lock whose TTL is at least
\* that, and the rest of the scan's work, cannot run out under the loop.
LoopWithinBudget ==
  \A s \in Scans : InAttempt(s) => now <= began[s] + Budget(MaxRetries)
================================================================================
