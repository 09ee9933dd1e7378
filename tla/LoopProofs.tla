------------------------------- MODULE LoopProofs -------------------------------
(***************************************************************************)
(* Proofs about the publish loop, for any number of scans, attempts and    *)
(* faults and any timeouts.  The first part is about PublishLoop, the      *)
(* second about PublishTiming.                                             *)
(***************************************************************************)
EXTENDS PublishTiming, Integers, TLAPS

\* Only a loop that has returned has a result, and an attempt that goes on, or
\* was accepted, is counted.
Paced ==
  \A s \in Scans :
    /\ pub[s].pc # "done" => pub[s].result = "none"
    /\ pub[s].pc = "idle" => pub[s].attempt = 0
    /\ InAttempt(s) \/ Submitted(s) => pub[s].attempt \in 1..MaxRetries

\* A POST that left is one of those the loop has counted, and the one that the
\* loop is about to make is none of them.
SentIsCounted ==
  \A v \in Attempts :
    http[v] # "unsent" =>
      v[2] <= pub[v[1]].attempt /\ (pub[v[1]].pc = "send" => v # Post(v[1]))

\* The vendor has the job whose id it answers, and no others.
AnswerIsReal ==
  \A v \in Attempts : http[v] = "accepted" <=> vjob[v] # "none"

\* While no attempt has raised, every earlier one was refused for now.
RefusedSoFar ==
  \A s \in Scans :
    ~pub[s].last_error =>
      \A n \in 1..(pub[s].attempt - 1) : http[<<s, n>>] = "transient"

\* VENDOR_ERROR without a permanent refusal comes after refusals only.
RefusedForGood ==
  \A s \in Scans :
    pub[s].result = "VENDOR_ERROR" =>
      \/ http[Post(s)] = "permanent"
      \/ \A n \in 1..pub[s].attempt : http[<<s, n>>] = "transient"

LoopInv ==
  LoopTypeOK /\ Paced /\ SentIsCounted /\ AnswerIsReal /\ RefusedSoFar
    /\ SubmittedIsAccepted /\ RefusedForGood
--------------------------------------------------------------------------------
(* What the steps of the loop do. *)

\* The loop of s goes on to its next attempt, with or without an exception seen.
GoesOn(s, error) ==
  /\ pub[s].attempt < MaxRetries
  /\ pub'[s] = [pc |-> "send", attempt |-> pub[s].attempt + 1,
                last_error |-> error, result |-> "none"]

Returns(s, result) ==
  pub'[s] = [pc |-> "done", attempt |-> pub[s].attempt,
             last_error |-> pub[s].last_error, result |-> result]

LEMMA LoopReturn ==
  ASSUME pub \in [Scans -> Publisher], NEW s \in Scans,
         NEW result \in PublishResults, Return(s, result)
  PROVE  /\ pub' \in [Scans -> Publisher]
         /\ \A t \in Scans \ {s} : pub'[t] = pub[t]
         /\ Returns(s, result)
  BY DEF Return, Returns, Publisher

LEMMA LoopRetry ==
  ASSUME pub \in [Scans -> Publisher], NEW s \in Scans,
         NEW error \in BOOLEAN, Retry(s, error)
  PROVE  /\ pub' \in [Scans -> Publisher]
         /\ \A t \in Scans \ {s} : pub'[t] = pub[t]
         /\ \/ GoesOn(s, error)
            \/ /\ Returns(s, IF error THEN "TIMEOUT_ERROR" ELSE "VENDOR_ERROR")
               /\ Exhausted(s)
  <1>1. CASE Exhausted(s)
    <2>1. ErrorAfterRetries(s, error) \in PublishResults
      BY DEF ErrorAfterRetries, PublishResults
    <2> QED BY <1>1, <2>1, LoopReturn DEF Retry, ErrorAfterRetries
  <1>2. CASE ~Exhausted(s)
    <2>1. pub[s].attempt < MaxRetries /\ pub[s].attempt + 1 \in 0..MaxRetries
      BY <1>2, TypesAssumption DEF Exhausted, Publisher
    <2> QED BY <1>2, <2>1 DEF Retry, NextAttempt, GoesOn, Publisher, PublishResults
  <1> QED BY <1>1, <1>2

\* A step of the loop of s, by what it makes of it.
StepEffect(s) ==
  \/ /\ pub[s].pc = "idle" /\ GoesOn(s, FALSE) /\ UNCHANGED vendorVars
  \/ /\ pub[s].pc = "idle" /\ UNCHANGED vendorVars
     /\ \/ Returns(s, "CONFIG_ERROR")
        \/ Returns(s, "VENDOR_ERROR") /\ MaxRetries = 0
  \/ /\ pub[s].pc = "send" /\ Send(s)
  \/ /\ InAttempt(s) /\ UNCHANGED vendorVars
     /\ GoesOn(s, TRUE) \/ Returns(s, "TIMEOUT_ERROR")
  \/ /\ pub[s].pc = "wait" /\ http[Post(s)] = "accepted" /\ UNCHANGED vendorVars
     /\ Returns(s, "submitted")
  \/ /\ pub[s].pc = "wait" /\ http[Post(s)] = "permanent" /\ UNCHANGED vendorVars
     /\ Returns(s, "VENDOR_ERROR")
  \/ /\ pub[s].pc = "wait" /\ http[Post(s)] = "transient" /\ UNCHANGED vendorVars
     /\ \/ GoesOn(s, pub[s].last_error)
        \/ Returns(s, IF pub[s].last_error THEN "TIMEOUT_ERROR" ELSE "VENDOR_ERROR")
  \/ /\ pub[s].pc = "wait" /\ UNCHANGED vendorVars /\ Returns(s, "raised")

LEMMA StepEffects ==
  ASSUME pub \in [Scans -> Publisher], Paced, NEW s \in Scans, PublishStep(s)
  PROVE  /\ pub' \in [Scans -> Publisher]
         /\ \A t \in Scans \ {s} : pub'[t] = pub[t]
         /\ StepEffect(s)
         /\ Fault \/ NoFault
  <1>1. CASE Start(s)
    <2>1. CASE Return(s, "CONFIG_ERROR")
      BY <1>1, <2>1, LoopReturn DEF Start, StepEffect, PublishResults
    <2>2. CASE Retry(s, FALSE)
      <3>1. pub[s].attempt = 0
        BY <1>1 DEF Start, Paced
      <3>2. Exhausted(s) => MaxRetries = 0
        BY <3>1, TypesAssumption DEF Exhausted
      <3> QED BY <1>1, <2>2, <3>2, LoopRetry DEF Start, StepEffect
    <2> QED BY <1>1, <2>1, <2>2 DEF Start
  <1>2. CASE Send(s)
    BY <1>2 DEF Send, StepEffect, Publisher
  <1>3. CASE Unreachable(s)
    BY <1>3, LoopRetry DEF Unreachable, StepEffect, InAttempt
  <1>4. CASE ReadAccepted(s)
    BY <1>4, LoopReturn DEF ReadAccepted, StepEffect, PublishResults
  <1>5. CASE ReadPermanent(s)
    BY <1>5, LoopReturn DEF ReadPermanent, StepEffect, PublishResults
  <1>6. CASE ReadTransient(s)
    <2>1. pub[s].last_error \in BOOLEAN
      BY DEF Publisher
    <2> QED BY <1>6, <2>1, LoopRetry DEF ReadTransient, StepEffect
  <1>7. CASE TimeOut(s)
    BY <1>7, LoopRetry DEF TimeOut, StepEffect, InAttempt
  <1>8. CASE Raise(s)
    BY <1>8, LoopReturn DEF Raise, StepEffect, PublishResults
  <1> QED BY <1>1, <1>2, <1>3, <1>4, <1>5, <1>6, <1>7, <1>8 DEF PublishStep
--------------------------------------------------------------------------------
(* The invariant of the loop. *)

LEMMA LoopInvInit == LoopInit => LoopInv
  <1> SUFFICES ASSUME LoopInit PROVE LoopInv
    OBVIOUS
  <1> USE DEF LoopInit, VendorInit, PublishInit, IdlePublisher
  <1>1. LoopTypeOK
    BY TypesAssumption, FaultsAssumption
       DEF LoopTypeOK, HttpStates, VendorJobStates, Publisher, PublishResults
  <1>2. Paced /\ SentIsCounted /\ AnswerIsReal
    BY DEF Paced, SentIsCounted, AnswerIsReal, InAttempt, Submitted
  <1>3. RefusedSoFar /\ SubmittedIsAccepted /\ RefusedForGood
    BY DEF RefusedSoFar, SubmittedIsAccepted, Submitted, RefusedForGood
  <1> QED BY <1>1, <1>2, <1>3 DEF LoopInv

LEMMA StepKeepsLoopInv ==
  ASSUME LoopInv, NEW s \in Scans, PublishStep(s)
  PROVE  LoopInv'
  <1> USE DEF LoopInv
  <1>1. /\ pub' \in [Scans -> Publisher]
        /\ \A t \in Scans \ {s} : pub'[t] = pub[t]
        /\ StepEffect(s)
        /\ Fault \/ NoFault
    BY StepEffects DEF LoopTypeOK
  <1>2. Send(s) \/ UNCHANGED vendorVars
    BY <1>1 DEF StepEffect
  <1>3. vjob' = vjob /\ http' \in [Attempts -> HttpStates]
    BY <1>2 DEF Send, vendorVars, LoopTypeOK, HttpStates
  <1>4. \A v \in Attempts : http'[v] = http[v] \/ (http'[v] = "sent" /\ v = Post(s) /\ Send(s))
    BY <1>2 DEF Send, vendorVars, LoopTypeOK
  <1>5. LoopTypeOK'
    BY <1>1, <1>3, FaultsAssumption DEF LoopTypeOK, Fault, NoFault
  <1>6. Paced'
    <2>1. pub[s] \in Publisher /\ MaxRetries \in Nat
      BY TypesAssumption DEF LoopTypeOK
    <2>2. /\ pub'[s].pc # "done" => pub'[s].result = "none"
          /\ pub'[s].pc = "idle" => pub'[s].attempt = 0
          /\ pub'[s].pc \in {"send", "wait"} \/ pub'[s].result = "submitted" =>
               pub'[s].attempt \in 1..MaxRetries
      <3>1. CASE Send(s)
        BY <2>1, <3>1 DEF Send, LoopTypeOK, Publisher, Paced, InAttempt, Submitted
      <3>2. CASE ~Send(s)
        BY <1>1, <2>1, <3>2 DEF StepEffect, GoesOn, Returns, Publisher, Paced, InAttempt
      <3> QED BY <3>1, <3>2
    <2> QED BY <1>1, <2>2 DEF Paced, InAttempt, Submitted
  <1>7. AnswerIsReal'
    <2>1. \A v \in Attempts : http'[v] = "accepted" <=> http[v] = "accepted"
      BY <1>4 DEF Send, SentIsCounted, Post
    <2> QED BY <1>3, <2>1 DEF AnswerIsReal
  <1>8. RefusedSoFar'
    <2> SUFFICES ASSUME NEW t \in Scans, ~pub'[t].last_error,
                        NEW n \in 1..(pub'[t].attempt - 1)
                 PROVE  http'[<<t, n>>] = "transient"
      BY DEF RefusedSoFar
    <2>0. pub'[t].attempt \in 0..MaxRetries /\ <<t, n>> \in Attempts
      BY <1>5, TypesAssumption DEF LoopTypeOK, Publisher, Attempts
    <2>1. CASE t # s
      <3>1. http[<<t, n>>] = "transient"
        BY <1>1, <2>1 DEF RefusedSoFar
      <3> QED BY <1>4, <2>0, <2>1, <3>1 DEF Post
    <2>2. CASE t = s /\ Send(s)
      <3>1. /\ pub'[s].attempt = pub[s].attempt /\ pub'[s].last_error = pub[s].last_error
        BY <2>2 DEF Send, LoopTypeOK, Publisher
      <3>2. http[<<s, n>>] = "transient"
        BY <2>2, <3>1 DEF RefusedSoFar
      <3>3. n # pub[s].attempt
        BY <2>0, <2>2, <3>1, TypesAssumption
      <3> QED BY <1>4, <2>0, <2>2, <3>2, <3>3 DEF Post
    <2>3. CASE t = s /\ ~Send(s)
      <3>1. UNCHANGED vendorVars
        BY <1>2, <2>3
      <3>2. CASE pub[s].pc = "idle"
        <4>1. pub'[s].attempt <= 1
          BY <1>1, <2>3, <3>2 DEF StepEffect, GoesOn, Returns, InAttempt, Paced
        <4> QED BY <2>0, <2>3, <4>1, TypesAssumption
      <3>3. CASE pub[s].pc # "idle" /\ pub'[s].attempt = pub[s].attempt
        <4>1. ~pub[s].last_error
          BY <1>1, <2>3, <3>3 DEF StepEffect, GoesOn, Returns, LoopTypeOK, Publisher
        <4> QED BY <2>3, <3>1, <3>3, <4>1 DEF RefusedSoFar, vendorVars
      <3>4. CASE pub[s].pc # "idle" /\ pub'[s].attempt # pub[s].attempt
        <4>1. /\ pub[s].pc = "wait" /\ http[Post(s)] = "transient"
              /\ ~pub[s].last_error /\ pub'[s].attempt = pub[s].attempt + 1
          BY <1>1, <2>3, <3>4 DEF StepEffect, GoesOn, Returns, InAttempt
        <4>0. pub[s].attempt \in Nat
          BY TypesAssumption DEF LoopTypeOK, Publisher
        <4>2. n = pub[s].attempt \/ n \in 1..(pub[s].attempt - 1)
          BY <2>3, <4>0, <4>1
        <4>3. http[<<s, n>>] = "transient"
          BY <4>1, <4>2 DEF RefusedSoFar, Post
        <4> QED BY <2>3, <3>1, <4>3 DEF vendorVars
      <3> QED BY <3>2, <3>3, <3>4
    <2> QED BY <2>1, <2>2, <2>3
  <1>9. SubmittedIsAccepted'
    <2> SUFFICES ASSUME NEW t \in Scans, pub'[t].result = "submitted"
                 PROVE  vjob[<<t, pub'[t].attempt>>] # "none"
      BY <1>3 DEF SubmittedIsAccepted, Submitted, VendorJobOf, Post
    <2>1. CASE t # s
      BY <1>1, <2>1 DEF SubmittedIsAccepted, Submitted, VendorJobOf, Post
    <2>2. CASE t = s
      <3>1. pub[s].pc # "done"
        BY <1>1 DEF StepEffect, InAttempt
      <3>2. pub[s].pc = "wait" /\ http[Post(s)] = "accepted" /\ pub'[s].attempt = pub[s].attempt
        <4>1. ~Send(s)
          BY <2>2, <3>1 DEF Send, Paced, LoopTypeOK, Publisher
        <4> QED BY <1>1, <2>2, <4>1 DEF StepEffect, GoesOn, Returns
      <3>3. Post(s) \in Attempts
        BY <3>2 DEF Paced, InAttempt, Post, Attempts
      <3> QED BY <2>2, <3>2, <3>3 DEF AnswerIsReal, Post
    <2> QED BY <2>1, <2>2
  <1>10. RefusedForGood'
    <2> SUFFICES ASSUME NEW t \in Scans, pub'[t].result = "VENDOR_ERROR"
                 PROVE  \/ http'[Post(t)'] = "permanent"
                        \/ \A n \in 1..pub'[t].attempt : http'[<<t, n>>] = "transient"
      BY DEF RefusedForGood
    <2>1. CASE t # s
      <3>1. \/ http[Post(t)] = "permanent"
            \/ \A n \in 1..pub[t].attempt : http[<<t, n>>] = "transient"
        BY <1>1, <2>1 DEF RefusedForGood
      <3>2. \A n \in 1..pub[t].attempt : http'[<<t, n>>] = http[<<t, n>>]
        <4>1. pub[t].attempt \in 0..MaxRetries
          BY DEF LoopTypeOK, Publisher
        <4>2. \A n \in 1..pub[t].attempt : <<t, n>> \in Attempts
          BY <4>1, TypesAssumption DEF Attempts
        <4> QED BY <1>4, <2>1, <4>2 DEF Post
      <3>4. Post(t)' = Post(t) /\ (Post(t) \in Attempts => http'[Post(t)] = http[Post(t)])
        BY <1>1, <1>4, <2>1 DEF Post
      <3>5. Post(t) \notin Attempts => pub[t].attempt = 0
        BY TypesAssumption DEF LoopTypeOK, Publisher, Post, Attempts
      <3> QED BY <1>1, <2>1, <3>1, <3>2, <3>4, <3>5
    <2>2. CASE t = s
      <3>1. ~Send(s)
        BY <2>2 DEF Send, Paced, LoopTypeOK, Publisher
      <3>2. UNCHANGED vendorVars
        BY <1>2, <3>1
      <3>3. CASE pub[s].pc = "idle"
        <4>1. pub'[s].attempt = 0
          BY <1>1, <2>2, <3>3 DEF StepEffect, GoesOn, Returns, InAttempt, Paced
        <4> QED BY <2>2, <4>1
      <3>4. CASE pub[s].pc # "idle" /\ http[Post(s)] = "permanent"
        <4>1. pub[s].pc = "wait" /\ pub'[s].attempt = pub[s].attempt
          BY <1>1, <2>2, <3>1, <3>4 DEF StepEffect, GoesOn, Returns, InAttempt
        <4> QED BY <2>2, <3>2, <3>4, <4>1 DEF Post, vendorVars
      <3>5. CASE pub[s].pc # "idle" /\ http[Post(s)] # "permanent"
        <4>1. /\ pub[s].pc = "wait" /\ http[Post(s)] = "transient"
              /\ ~pub[s].last_error /\ pub'[s].attempt = pub[s].attempt
          BY <1>1, <2>2, <3>1, <3>5 DEF StepEffect, GoesOn, Returns, InAttempt
        <4>0. pub[s].attempt \in Nat
          BY TypesAssumption DEF LoopTypeOK, Publisher
        <4>2. ASSUME NEW n \in 1..pub[s].attempt
              PROVE  n = pub[s].attempt \/ n \in 1..(pub[s].attempt - 1)
          BY <4>0
        <4>3. ASSUME NEW n \in 1..pub[s].attempt
              PROVE  http[<<s, n>>] = "transient"
          BY <4>1, <4>2 DEF RefusedSoFar, Post
        <4> QED BY <2>2, <3>2, <4>1, <4>3 DEF vendorVars
      <3> QED BY <3>3, <3>4, <3>5
    <2> QED BY <2>1, <2>2
  <1>11. SentIsCounted'
    <2>1. \A t \in Scans : pub[t].attempt \in Nat /\ pub'[t].attempt \in Nat
      BY <1>5, TypesAssumption DEF LoopTypeOK, Publisher
    <2>2. /\ pub'[s].attempt >= pub[s].attempt
          /\ pub'[s].pc = "send" => pub'[s].attempt > pub[s].attempt
      <3>1. Send(s) => pub'[s].attempt = pub[s].attempt /\ pub'[s].pc = "wait"
        BY DEF Send, LoopTypeOK, Publisher
      <3> QED BY <1>1, <2>1, <3>1 DEF StepEffect, GoesOn, Returns
    <2>3. \A v \in Attempts : v[1] \in Scans /\ v[2] \in Nat
      BY DEF Attempts
    <2> SUFFICES ASSUME NEW v \in Attempts, http'[v] # "unsent"
                 PROVE  /\ v[2] <= pub'[v[1]].attempt
                        /\ pub'[v[1]].pc = "send" => v # <<v[1], pub'[v[1]].attempt>>
      BY DEF SentIsCounted, Post
    <2>4. CASE v[1] # s
      BY <1>1, <1>4, <2>3, <2>4 DEF SentIsCounted, Post
    <2>5. CASE v[1] = s
      <3>1. v[2] <= pub[s].attempt
        <4>1. v = Post(s) => v[2] = pub[s].attempt
          BY DEF Post
        <4> QED BY <1>4, <2>1, <2>3, <2>5, <4>1 DEF SentIsCounted
      <3>2. v[2] <= pub'[s].attempt /\ (pub'[s].pc = "send" => v[2] < pub'[s].attempt)
        BY <2>1, <2>2, <2>3, <3>1
      <3>3. pub'[s].pc = "send" => v # <<s, pub'[s].attempt>>
        BY <2>1, <2>3, <3>2
      <3> QED BY <2>5, <3>2, <3>3
    <2> QED BY <2>4, <2>5
  <1> QED BY <1>5, <1>6, <1>7, <1>8, <1>9, <1>10, <1>11

LEMMA ServeKeepsLoopInv ==
  ASSUME LoopInv, NEW v \in Attempts, Serve(v)
  PROVE  LoopInv'
  <1> USE DEF LoopInv, Serve, VendorStep
  <1>1. LoopTypeOK'
    BY DEF LoopTypeOK, Accept, Refuse, Hold, PrintBadge, HttpStates, VendorJobStates
  <1>2. \A w \in Attempts : http[w] \in {"accepted", "permanent", "transient"} => http'[w] = http[w]
    BY DEF LoopTypeOK, Accept, Refuse, Hold, PrintBadge
  <1>3. \A w \in Attempts : vjob[w] # "none" => vjob'[w] # "none"
    BY DEF LoopTypeOK, Accept, Refuse, Hold, PrintBadge
  <1>4. Paced'
    BY DEF Paced, InAttempt, Submitted
  <1>5. AnswerIsReal'
    BY DEF AnswerIsReal, LoopTypeOK, Accept, Refuse, Hold, PrintBadge
  <1>6. \A s \in Scans : pub[s].attempt \in 0..MaxRetries
    BY DEF LoopTypeOK, Publisher
  <1>7. RefusedSoFar'
    <2>1. \A s \in Scans : \A n \in 1..(pub[s].attempt - 1) : <<s, n>> \in Attempts
      BY <1>6, TypesAssumption DEF Attempts
    <2> QED BY <1>2, <2>1 DEF RefusedSoFar
  <1>8. SubmittedIsAccepted'
    <2> SUFFICES ASSUME NEW s \in Scans, Submitted(s)
                 PROVE  vjob'[VendorJobOf(s)] # "none"
      BY DEF SubmittedIsAccepted, Submitted, VendorJobOf, Post
    <2>1. vjob[VendorJobOf(s)] # "none"
      BY DEF SubmittedIsAccepted
    <2>2. VendorJobOf(s) \in Attempts
      BY DEF Paced, VendorJobOf, Post, Attempts
    <2> QED BY <1>3, <2>1, <2>2
  <1>9. RefusedForGood'
    <2> SUFFICES ASSUME NEW s \in Scans, pub[s].result = "VENDOR_ERROR"
                 PROVE  \/ http'[Post(s)] = "permanent"
                        \/ \A n \in 1..pub[s].attempt : http'[<<s, n>>] = "transient"
      BY DEF RefusedForGood, Post
    <2>1. \A n \in 1..pub[s].attempt : <<s, n>> \in Attempts
      BY <1>6, TypesAssumption DEF Attempts
    <2>2. Post(s) \in Attempts \/ pub[s].attempt = 0
      BY <1>6, TypesAssumption DEF Post, Attempts
    <2> QED BY <1>2, <2>1, <2>2 DEF RefusedForGood
  <1>10. SentIsCounted'
    BY DEF SentIsCounted, Post, LoopTypeOK, Accept, Refuse, Hold, PrintBadge
  <1> QED BY <1>1, <1>4, <1>5, <1>7, <1>8, <1>9, <1>10

LEMMA LoopInvNext == LoopInv /\ [LoopNext]_loopVars => LoopInv'
  <1> SUFFICES ASSUME LoopInv, [LoopNext]_loopVars PROVE LoopInv'
    OBVIOUS
  <1>1. ASSUME NEW s \in Scans, PublishStep(s) PROVE LoopInv'
    BY <1>1, StepKeepsLoopInv
  <1>2. ASSUME NEW v \in Attempts, Serve(v) PROVE LoopInv'
    BY <1>2, ServeKeepsLoopInv
  <1>3. CASE Elsewhere \/ UNCHANGED loopVars
    <2>1. faults' \in 0..MaxFaults /\ UNCHANGED <<http, vjob, pub>>
      BY <1>3, FaultsAssumption DEF Elsewhere, Fault, loopVars, LoopInv, LoopTypeOK
    <2> QED BY <2>1
            DEF LoopInv, LoopTypeOK, Paced, InAttempt, Submitted, SentIsCounted, AnswerIsReal,
                RefusedSoFar, SubmittedIsAccepted, VendorJobOf, Post, RefusedForGood
  <1> QED BY <1>1, <1>2, <1>3 DEF LoopNext

LEMMA LoopInvAlways == LoopSpec => []LoopInv
  <1> QED BY LoopInvInit, LoopInvNext, PTL DEF LoopSpec

\* Every variable of the loop keeps its type.
THEOREM LoopTypeCorrect == LoopSpec => []LoopTypeOK
  <1>1. LoopInv => LoopTypeOK
    BY DEF LoopInv
  <1> QED BY <1>1, LoopInvAlways, PTL

\* A successful publish names a job that the vendor has: an answer is believed
\* only when it is one, and an accepted job is never forgotten.
THEOREM SubmittedCorrect == LoopSpec => []SubmittedIsAccepted
  <1>1. LoopInv => SubmittedIsAccepted
    BY DEF LoopInv
  <1> QED BY <1>1, LoopInvAlways, PTL

\* VENDOR_ERROR for want of further attempts leaves no job at the vendor: then
\* no attempt has raised, so each was refused, and a refused POST makes no job.
THEOREM RefusalCorrect == LoopSpec => []RefusalLeavesNoJob
  <1>1. LoopInv => RefusalLeavesNoJob
    <2> SUFFICES ASSUME LoopInv, NEW s \in Scans, pub[s].result = "VENDOR_ERROR",
                        http[Post(s)] # "permanent", NEW v \in VendorJobsOf(s)
                 PROVE  FALSE
      BY DEF RefusalLeavesNoJob
    <2>1. /\ v \in Attempts /\ v[1] = s /\ http[v] = "accepted"
          /\ v[2] <= pub[s].attempt
      BY DEF LoopInv, SentIsCounted, AnswerIsReal, VendorJobsOf
    <2>2. v = <<s, v[2]>> /\ v[2] \in 1..pub[s].attempt
      BY <2>1, TypesAssumption DEF Attempts, LoopInv, LoopTypeOK, Publisher
    <2>3. http[<<s, v[2]>>] = "transient"
      BY <2>2 DEF LoopInv, RefusedForGood
    <2> QED BY <2>1, <2>2, <2>3
  <1> QED BY <1>1, LoopInvAlways, PTL

\* A scan comes to a second job at the vendor only after an attempt whose answer
\* never reached the loop: as long as none has raised, all but the last POST
\* were refused.
THEOREM SecondJobCorrect == LoopSpec => []SecondJobNeedsMiss
  <1>1. LoopInv => SecondJobNeedsMiss
    <2> SUFFICES ASSUME LoopInv, NEW s \in Scans, ~pub[s].last_error,
                        NEW v \in VendorJobsOf(s), NEW w \in VendorJobsOf(s)
                 PROVE  v = w
      BY DEF SecondJobNeedsMiss
    <2>1. ASSUME NEW x \in VendorJobsOf(s) PROVE x = Post(s)
      <3>1. /\ x \in Attempts /\ x[1] = s /\ http[x] = "accepted"
            /\ x[2] <= pub[s].attempt
        BY DEF LoopInv, SentIsCounted, AnswerIsReal, VendorJobsOf
      <3>a. pub[s].attempt \in Nat /\ x[2] \in Nat \ {0} /\ x = <<s, x[2]>>
        BY <3>1, TypesAssumption DEF Attempts, LoopInv, LoopTypeOK, Publisher
      <3>2. x = <<s, x[2]>> /\ (x[2] = pub[s].attempt \/ x[2] \in 1..(pub[s].attempt - 1))
        BY <3>1, <3>a
      <3>3. x[2] \in 1..(pub[s].attempt - 1) => http[x] = "transient"
        BY <3>2 DEF LoopInv, RefusedSoFar
      <3> QED BY <3>1, <3>2, <3>3 DEF Post
    <2> QED BY <2>1
  <1> QED BY <1>1, LoopInvAlways, PTL
--------------------------------------------------------------------------------
(* Time. *)

\* The loop in time is the loop: it adds clocks and takes no step away.
LEMMA TimedIsLoop == TimedSpec => LoopSpec
  <1>1. TimedInit => LoopInit
    BY DEF TimedInit
  <1>2. [TimedNext]_timedVars => [LoopNext]_loopVars
    <2>1. ASSUME NEW s \in Scans, TimedStep(s) PROVE LoopNext
      BY <2>1 DEF TimedStep, PublishStep, LoopNext
    <2>2. ASSUME NEW v \in Attempts, TimedServe(v) PROVE LoopNext
      BY <2>2 DEF TimedServe, LoopNext
    <2>3. Tick \/ UNCHANGED timedVars => UNCHANGED loopVars
      BY DEF Tick, timedVars, loopVars
    <2> QED BY <2>1, <2>2, <2>3 DEF TimedNext
  <1> QED BY <1>1, <1>2, PTL DEF TimedSpec, LoopSpec

\* The product that Budget divides by two, and how it grows.
LEMMA BudgetStep ==
  ASSUME NEW n \in Nat
  PROVE  Budget(n + 1) = Budget(n) + ConnectTimeout + RequestTime + Backoff(n)
  <1> DEFINE half == (n * (n - 1)) \div 2
  <1>1. ((n + 1) * n) \div 2 = half + n
    <2>1. n * (n - 1) \in Int /\ (n + 1) * n = n * (n - 1) + 2 * n
      OBVIOUS
    <2>2. \A x \in Int : (x + 2 * n) \div 2 = (x \div 2) + n
      OBVIOUS
    <2> QED BY <2>1, <2>2
  <1>2. half \in Int
    OBVIOUS
  <1> HIDE DEF half
  <1>3. Budget(n + 1) = (n + 1) * (ConnectTimeout + RequestTime) + BackoffBase * (half + n)
    BY <1>1 DEF Budget
  <1>4. Budget(n) = n * (ConnectTimeout + RequestTime) + BackoffBase * half
    BY DEF Budget, half
  <1>5. ConnectTimeout + RequestTime \in Nat /\ BackoffBase \in Nat
    BY TimingAssumption DEF RequestTime
  <1>6. \A t \in Nat : (n + 1) * t = n * t + t
    OBVIOUS
  <1>7. \A b \in Nat : b * (half + n) = b * half + b * n
    BY <1>2
  <1>8. Budget(n + 1) = n * (ConnectTimeout + RequestTime) + (ConnectTimeout + RequestTime)
                          + (BackoffBase * half + BackoffBase * n)
    BY <1>3, <1>5, <1>6, <1>7
  <1>9. /\ n * (ConnectTimeout + RequestTime) \in Int /\ BackoffBase * half \in Int
        /\ BackoffBase * n \in Int /\ ConnectTimeout \in Int /\ RequestTime \in Int
    BY <1>2, <1>5, TimingAssumption DEF RequestTime
  <1> QED BY <1>4, <1>8, <1>9 DEF Backoff

LEMMA BudgetGrows ==
  ASSUME NEW m \in Nat, NEW n \in Nat, m <= n, 1 <= m
  PROVE  Budget(m) \in Int /\ Budget(n) \in Int /\ Budget(m) <= Budget(n)
  <1> DEFINE half(k) == (k * (k - 1)) \div 2
  <1>1. m * (m - 1) <= n * (n - 1)
    <2>1. PICK k \in Nat : n = m + k
      <3>1. n - m \in Nat /\ n = m + (n - m)
        OBVIOUS
      <3> QED BY <3>1
    <2>2. n * (n - 1) = m * (m - 1) + k * (2 * m - 1) + k * k
      BY <2>1
    <2>3. k * (2 * m - 1) \in Nat /\ k * k \in Nat
      <3>1. 2 * m - 1 \in Nat
        OBVIOUS
      <3> QED BY <3>1
    <2>4. m * (m - 1) \in Int /\ n * (n - 1) \in Int
      OBVIOUS
    <2> HIDE <2>1
    <2> QED BY <2>2, <2>3, <2>4
  <1>2. half(m) \in Int /\ half(n) \in Int /\ half(m) <= half(n)
    <2>1. \A x, y \in Int : x <= y => (x \div 2) \in Int /\ (y \div 2) \in Int
                                     /\ x \div 2 <= y \div 2
      OBVIOUS
    <2>2. m * (m - 1) \in Int /\ n * (n - 1) \in Int
      OBVIOUS
    <2> QED BY <1>1, <2>1, <2>2
  <1>3. \A b \in Nat, x, y \in Int :
          x <= y => b * x \in Int /\ b * y \in Int /\ b * x <= b * y
    <2> SUFFICES ASSUME NEW b \in Nat, NEW x \in Int, NEW y \in Int, x <= y
                 PROVE  b * x \in Int /\ b * y \in Int /\ b * x <= b * y
      OBVIOUS
    <2>1. y - x \in Nat
      OBVIOUS
    <2>2. b * (y - x) \in Nat /\ b * (y - x) = b * y - b * x
      BY <2>1
    <2> QED BY <2>2
  <1>4. ConnectTimeout + RequestTime \in Nat /\ BackoffBase \in Nat
    BY TimingAssumption DEF RequestTime
  <1>5. /\ m * (ConnectTimeout + RequestTime) \in Int
        /\ n * (ConnectTimeout + RequestTime) \in Int
        /\ m * (ConnectTimeout + RequestTime) <= n * (ConnectTimeout + RequestTime)
    <2>1. \A t \in Nat : m * t \in Int /\ n * t \in Int /\ m * t = t * m /\ n * t = t * n
      OBVIOUS
    <2> QED BY <1>3, <1>4, <2>1
  <1>6. /\ BackoffBase * half(m) \in Int /\ BackoffBase * half(n) \in Int
        /\ BackoffBase * half(m) <= BackoffBase * half(n)
    BY <1>2, <1>3, <1>4
  <1>7. /\ Budget(m) = m * (ConnectTimeout + RequestTime) + BackoffBase * half(m)
        /\ Budget(n) = n * (ConnectTimeout + RequestTime) + BackoffBase * half(n)
    BY DEF Budget
  <1> HIDE DEF half
  <1> QED BY <1>5, <1>6, <1>7
--------------------------------------------------------------------------------
\* A phase ends by its deadline, and the deadline of attempt n is within what n
\* attempts may take, less the request while that is still to come.
InTime ==
  /\ now \in Nat
  /\ began \in [Scans -> Nat]
  /\ due \in [Scans -> Nat]
  /\ \A s \in Scans : InAttempt(s) =>
       /\ now <= due[s]
       /\ IF pub[s].pc = "send"
          THEN due[s] + RequestTime <= began[s] + Budget(pub[s].attempt)
          ELSE due[s] <= began[s] + Budget(pub[s].attempt)

LEMMA StepInTime ==
  ASSUME LoopInv, InTime, NEW s \in Scans, TimedStep(s)
  PROVE  InTime'
  <1>1. PublishStep(s)
    BY DEF TimedStep, PublishStep
  <1>2. /\ pub' \in [Scans -> Publisher]
        /\ \A t \in Scans \ {s} : pub'[t] = pub[t]
        /\ StepEffect(s)
    BY <1>1, StepEffects DEF LoopInv, LoopTypeOK
  <1>3. /\ now' = now /\ now \in Nat
        /\ ConnectTimeout \in Nat /\ RequestTime \in Nat /\ Backoff(pub[s].attempt) \in Nat
        /\ pub[s].attempt \in Nat
    BY TimingAssumption, TypesAssumption
       DEF TimedStep, InTime, RequestTime, Backoff, LoopInv, LoopTypeOK, Publisher
  <1>4. Deadline(s) \in Nat
    BY <1>3 DEF Deadline
  <1>5. /\ began' \in [Scans -> Nat] /\ due' \in [Scans -> Nat]
        /\ due'[s] = Deadline(s)
        /\ \A t \in Scans \ {s} : began'[t] = began[t] /\ due'[t] = due[t]
    BY <1>3, <1>4 DEF TimedStep, InTime
  <1>6. ASSUME NEW t \in Scans, InAttempt(t)'
        PROVE  /\ now' <= due'[t]
               /\ IF pub'[t].pc = "send"
                  THEN due'[t] + RequestTime <= began'[t] + Budget(pub'[t].attempt)
                  ELSE due'[t] <= began'[t] + Budget(pub'[t].attempt)
    <2>1. CASE t # s
      BY <1>2, <1>3, <1>5, <1>6, <2>1 DEF InTime, InAttempt
    <2>2. CASE t = s /\ Send(s)
      <3>1. /\ pub'[s].pc = "wait" /\ pub'[s].attempt = pub[s].attempt
            /\ pub[s].pc = "send"
        BY <2>2 DEF Send, LoopInv, LoopTypeOK, Publisher
      <3>2. began'[s] = began[s]
        BY <3>1 DEF TimedStep, Start
      <3>3. due'[s] = now + RequestTime
        BY <1>5, <3>1 DEF Deadline
      <3>4. now <= due[s] /\ due[s] + RequestTime <= began[s] + Budget(pub[s].attempt)
        BY <3>1 DEF InTime, InAttempt
      <3>5. pub[s].attempt \in 1..MaxRetries
        BY <3>1 DEF LoopInv, Paced, InAttempt
      <3>6. Budget(pub[s].attempt) \in Int
        BY <1>3, <3>5, BudgetGrows
      <3>7. due[s] \in Nat /\ began[s] \in Nat
        BY DEF InTime
      <3> QED BY <1>3, <2>2, <3>1, <3>2, <3>3, <3>4, <3>6, <3>7
    <2>3. CASE t = s /\ ~Send(s)
      <3>1. /\ pub[s].pc # "done" /\ pub'[s].pc = "send"
            /\ pub'[s].attempt = pub[s].attempt + 1
        BY <1>2, <1>6, <2>3 DEF StepEffect, GoesOn, Returns, InAttempt
      <3>2. due'[s] = now + Backoff(pub[s].attempt) + ConnectTimeout
        BY <1>5, <3>1 DEF Deadline
      <3>3. CASE pub[s].pc = "idle"
        <4>1. pub[s].attempt = 0
          BY <3>3 DEF LoopInv, Paced
        <4>2. began'[s] = now
          BY <3>3 DEF TimedStep, Start, Send, Unreachable, ReadAccepted, ReadPermanent,
                      ReadTransient, TimeOut, Raise, InTime
        <4>3. Backoff(0) = 0 /\ Budget(0) = 0
          BY TimingAssumption DEF Backoff, Budget, RequestTime
        <4>4. Budget(1) = ConnectTimeout + RequestTime
          <5>1. Budget(0 + 1) = Budget(0) + ConnectTimeout + RequestTime + Backoff(0)
            BY BudgetStep
          <5> QED BY <1>3, <4>3, <5>1
        <4> QED BY <1>3, <2>3, <3>1, <3>2, <4>1, <4>2, <4>3, <4>4
      <3>4. CASE pub[s].pc # "idle"
        <4>1. InAttempt(s)
          BY <3>1, <3>4 DEF InAttempt, LoopInv, LoopTypeOK, Publisher
        <4>2. began'[s] = began[s]
          BY <3>4 DEF TimedStep, Start
        <4>3. pub[s].attempt \in 1..MaxRetries
          BY <4>1 DEF LoopInv, Paced
        <4>4. Budget(pub[s].attempt) \in Int
          BY <1>3, <4>3, BudgetGrows
        <4>5. due[s] \in Nat /\ began[s] \in Nat
          BY DEF InTime
        <4>6. now <= due[s] /\ due[s] <= began[s] + Budget(pub[s].attempt)
          BY <1>3, <4>1, <4>4, <4>5 DEF InTime
        <4>7. Budget(pub[s].attempt + 1) = Budget(pub[s].attempt) + ConnectTimeout
                + RequestTime + Backoff(pub[s].attempt)
          BY <1>3, BudgetStep
        <4> QED BY <1>3, <2>3, <3>1, <3>2, <4>2, <4>4, <4>5, <4>6, <4>7
      <3> QED BY <3>3, <3>4
    <2> QED BY <2>1, <2>2, <2>3
  <1>7. InTime' <=> /\ now' \in Nat /\ began' \in [Scans -> Nat] /\ due' \in [Scans -> Nat]
                    /\ \A t \in Scans : InAttempt(t)' =>
                         /\ now' <= due'[t]
                         /\ IF pub'[t].pc = "send"
                            THEN due'[t] + RequestTime <= began'[t] + Budget(pub'[t].attempt)
                            ELSE due'[t] <= began'[t] + Budget(pub'[t].attempt)
    BY DEF InTime, Budget, RequestTime
  <1> QED BY <1>3, <1>5, <1>6, <1>7

LEMMA TickInTime ==
  ASSUME InTime, Tick
  PROVE  InTime'
  BY DEF InTime, Tick, InAttempt, loopVars, Budget, RequestTime

LEMMA InTimeNext == LoopInv /\ InTime /\ [TimedNext]_timedVars => InTime'
  <1> SUFFICES ASSUME LoopInv, InTime, [TimedNext]_timedVars PROVE InTime'
    OBVIOUS
  <1>1. ASSUME NEW s \in Scans, TimedStep(s) PROVE InTime'
    BY <1>1, StepInTime
  <1>2. ASSUME NEW v \in Attempts, TimedServe(v) PROVE InTime'
    BY <1>2 DEF TimedServe, Serve, InTime, InAttempt, Budget, RequestTime
  <1>3. CASE UNCHANGED timedVars
    BY <1>3 DEF timedVars, loopVars, InTime, InAttempt, Budget, RequestTime
  <1> QED BY <1>1, <1>2, <1>3, TickInTime DEF TimedNext

\* Whatever the timeouts, the backoff and the number of attempts are, the loop
\* is over within Budget(MaxRetries) of its start.
THEOREM LoopWithinBudgetCorrect == TimedSpec => []LoopWithinBudget
  <1>1. TimedInit => InTime
    BY DEF TimedInit, LoopInit, PublishInit, IdlePublisher, InTime, InAttempt
  <1>2. LoopInv /\ InTime => LoopWithinBudget
    <2> SUFFICES ASSUME LoopInv, InTime, NEW s \in Scans, InAttempt(s)
                 PROVE  now <= began[s] + Budget(MaxRetries)
      BY DEF LoopWithinBudget
    <2>1. pub[s].attempt \in 1..MaxRetries
      BY DEF LoopInv, Paced
    <2>2. /\ Budget(pub[s].attempt) \in Int /\ Budget(MaxRetries) \in Int
          /\ Budget(pub[s].attempt) <= Budget(MaxRetries)
      BY <2>1, BudgetGrows, TypesAssumption
    <2>3. due[s] \in Nat /\ began[s] \in Nat /\ now \in Nat /\ RequestTime \in Nat
      BY TimingAssumption DEF InTime, RequestTime
    <2>4. now <= due[s] /\ due[s] <= began[s] + Budget(pub[s].attempt)
      BY <2>2, <2>3 DEF InTime
    <2> QED BY <2>2, <2>3, <2>4
  <1>3. TimedSpec => []LoopInv
    BY TimedIsLoop, LoopInvAlways, PTL
  <1> QED BY <1>1, <1>2, <1>3, InTimeNext, PTL DEF TimedSpec
=================================================================================
