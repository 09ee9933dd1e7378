----------------------------- MODULE MCCheckinSystem -----------------------------
(***************************************************************************)
(* Values for the constants of CheckinSystem.  The configurations choose   *)
(* the scans and override requests that take part, and the failures.       *)
(***************************************************************************)
EXTENDS CheckinProperties, TLC

CONSTANTS
  s1, s2, s3,                                \* scan requests
  a1, a2,                                    \* attendees
  k1, k2, admin,                             \* lock owners
  idA, idB, idC,                             \* scan ids
  force, retry, cancel, reset                \* override requests

MCAttendees == {a1, a2}
MCRegistered == {a1}

\* All requests name a1.
OneAttendee == [s \in Scans |-> a1]

\* The third request names nobody.
OneUnknown == [s \in Scans |-> IF s = s3 THEN a2 ELSE a1]

TwoKiosks == [s \in Scans |-> IF s = s2 THEN k2 ELSE k1]

DistinctScanIds == [s \in Scans |-> CASE s = s1 -> idA [] s = s2 -> idB [] OTHER -> idC]

\* The second request is the kiosk's retry of the first.
ReusedScanId == [s \in Scans |-> IF s = s3 THEN idC ELSE idA]

MCOwners == {k1, k2, admin}

\* No owner's text begins another's.
ExactOwners == {<<k, k>> : k \in MCOwners}

\* The first kiosk's name begins the second's, as kiosk-1 and kiosk-10.
PrefixKiosks == ExactOwners \cup {<<k1, k2>>}

\* The second kiosk is called "admin" and something.
AdminDesk == ExactOwners \cup {<<admin, k2>>}

MCActionOf == [o \in AdminOps |->
  CASE o = force -> "FORCE_CHECK_IN" [] o = retry -> "RETRY_PRINT"
    [] o = cancel -> "CANCEL" [] OTHER -> "RESET_LOCK"]

MCTargetOf == [o \in AdminOps |-> a1]
==================================================================================
