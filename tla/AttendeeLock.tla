------------------------------ MODULE AttendeeLock ------------------------------
(***************************************************************************)
(* What acquire_lock and release_lock promise together: a lock per key,    *)
(* which a client takes when nobody has it and works under, and which      *)
(* nobody but its owner gives back, when it leaves.  A lock whose owner    *)
(* fails stays taken, for its TTL to clear.                                *)
(***************************************************************************)
CONSTANTS Clients, Keys, KeyOf, Nobody

VARIABLES
  owner,      \* who took the lock of a key, or Nobody
  working     \* the clients that took their lock and have not left

lockVars == <<owner, working>>

LockInit == owner = [k \in Keys |-> Nobody] /\ working = {}

Take(c) ==
  /\ c \notin working /\ owner[KeyOf[c]] = Nobody
  /\ owner' = [owner EXCEPT ![KeyOf[c]] = c]

Enter(c) == Take(c) /\ working' = working \cup {c}

\* The lock is taken, but its owner never hears of it.
Orphan(c) == Take(c) /\ UNCHANGED working

Leave(c) ==
  /\ c \in working /\ owner[KeyOf[c]] = c
  /\ owner' = [owner EXCEPT ![KeyOf[c]] = Nobody]
  /\ working' = working \ {c}

\* Clients go without giving back: a release that fails, or a crash.
Abandon(gone) == working' = working \ gone /\ UNCHANGED owner

LockNext ==
  \/ \E c \in Clients : Enter(c) \/ Orphan(c) \/ Leave(c)
  \/ \E gone \in SUBSET working : Abandon(gone)

LockSpec == LockInit /\ [][LockNext]_lockVars
=================================================================================
