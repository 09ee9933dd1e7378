------------------------------ MODULE RedisClient ------------------------------
(***************************************************************************)
(* app/redis_client.py: the per-attendee lock and the per-attendee state   *)
(* key.  Every operator below is the effect of one Redis command, together *)
(* with what the method returns.  A command that raises is caught and      *)
(* logged by the method.  When self.client is None the method returns      *)
(* before any command; that is so only if building the client failed, for  *)
(* a client whose first ping fails is kept, and its commands raise.        *)
(***************************************************************************)
EXTENDS CheckinTypes, Faults

CONSTANTS
  RedisUp,        \* self.client is set: from_url() has built a client
  LocksExpire,    \* a lock's TTL may run out before it is released
  StatesExpire    \* a state key's TTL may run out

ASSUME RedisAssumption == {RedisUp, LocksExpire, StatesExpire} \subseteq BOOLEAN

VARIABLES
  lock,      \* lock:checkin:<attendee>, the scan that set it, or None
  rstate     \* state:checkin:<attendee>: state and metadata.print_job_id

redisVars == <<lock, rstate>>

State == [state: {"NONE", "PENDING", "SUCCESS"}, job: Scans \cup {None}]

NoState == [state |-> "NONE", job |-> None]

RedisInit ==
  /\ lock = [a \in Attendees |-> None]
  /\ rstate = [a \in Attendees |-> NoState]
--------------------------------------------------------------------------------
(* The lock.  Its value is "<owner>:<time>", here the scan that stored it. *)

\* A SET without NX takes the lock whoever holds it.
AcquireWithoutNX(a, s, acquired) ==
  /\ acquired /\ lock' = [lock EXCEPT ![a] = s] /\ NoFault

\* A failed SET may still have reached the server; the caller is told False.
AcquireLock(a, s, acquired) ==
  \/ /\ ~RedisUp /\ acquired
     /\ UNCHANGED lock /\ NoFault
  \/ /\ RedisUp /\ acquired = (lock[a] = None)
     /\ lock' = [lock EXCEPT ![a] = IF acquired THEN s ELSE @]
     /\ NoFault
  \/ /\ RedisUp /\ ~acquired /\ Fault
     /\ lock' \in {lock, [lock EXCEPT ![a] = IF @ = None THEN s ELSE @]}

\* value == owner never holds: the value ends in the time of the SET.
OwnedByEqual(owner, a) == FALSE

\* value.startswith(owner)
OwnedBy(owner, a) == lock[a] # None /\ <<owner, KioskOf[lock[a]]>> \in PrefixOf

\* The GET of release_lock, and whether a DELETE follows.
ReleaseGet(a, owner, owned) ==
  \/ RedisUp /\ owned = OwnedBy(owner, a) /\ NoFault
  \/ ~RedisUp /\ ~owned /\ NoFault
  \/ RedisUp /\ ~owned /\ Fault

\* The DELETE of release_lock removes the key whatever it holds by now.
ReleaseDelete(a) ==
  \/ lock' = [lock EXCEPT ![a] = None] /\ NoFault
  \/ UNCHANGED lock /\ Fault

ExpireLock(a) ==
  /\ LocksExpire /\ lock[a] # None
  /\ lock' = [lock EXCEPT ![a] = None]
--------------------------------------------------------------------------------
(* The state key. *)

\* What get_state may return: the stored state, or None when the GET fails.
GetState(a, state) ==
  \/ state = (IF RedisUp THEN rstate[a].state ELSE "NONE") /\ NoFault
  \/ RedisUp /\ state = "NONE" /\ Fault

\* SETEX or DEL of the state key.
PutState(a, value) ==
  \/ RedisUp /\ rstate' = [rstate EXCEPT ![a] = value] /\ NoFault
  \/ ~RedisUp /\ UNCHANGED rstate /\ NoFault
  \/ RedisUp /\ UNCHANGED rstate /\ Fault

SetState(a, name, job) == PutState(a, [state |-> name, job |-> job])

DeleteState(a) == PutState(a, NoState)

ExpireState(a) ==
  /\ StatesExpire /\ rstate[a] # NoState
  /\ rstate' = [rstate EXCEPT ![a] = NoState]
================================================================================
