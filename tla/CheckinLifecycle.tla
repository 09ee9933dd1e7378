---------------------------- MODULE CheckinLifecycle ----------------------------
(***************************************************************************)
(* What the database promises about check-ins, whatever happens between    *)
(* the kiosks, Redis and the vendor: a print job is opened PENDING, ends   *)
(* once, as SUCCESS or FAILED, and checks its person in exactly when it    *)
(* ends as SUCCESS.  Nobody is ever checked out.                           *)
(***************************************************************************)
CONSTANTS Jobs, People, PersonOf

VARIABLES status, checkedIn

LifecycleInit ==
  /\ status = [j \in Jobs |-> "NONE"]
  /\ checkedIn = [p \in People |-> FALSE]

Open(j) ==
  /\ status[j] = "NONE"
  /\ status' = [status EXCEPT ![j] = "PENDING"]
  /\ UNCHANGED checkedIn

Succeed(j) ==
  /\ status[j] = "PENDING"
  /\ status' = [status EXCEPT ![j] = "SUCCESS"]
  /\ checkedIn' = [checkedIn EXCEPT ![PersonOf[j]] = TRUE]

Fail(j) ==
  /\ status[j] = "PENDING"
  /\ status' = [status EXCEPT ![j] = "FAILED"]
  /\ UNCHANGED checkedIn

LifecycleNext == \E j \in Jobs : Open(j) \/ Succeed(j) \/ Fail(j)

LifecycleSpec == LifecycleInit /\ [][LifecycleNext]_<<status, checkedIn>>
==================================================================================
