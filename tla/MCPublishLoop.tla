------------------------------ MODULE MCPublishLoop ------------------------------
(***************************************************************************)
(* Values for the constants of PublishTiming: one scan against the vendor. *)
(***************************************************************************)
EXTENDS PublishTiming

CONSTANTS a1, k1, admin, idA, idB, s1

OneAttendee == [s \in Scans |-> a1]
OneKiosk == [s \in Scans |-> k1]
DistinctScanIds == [s \in Scans |-> IF s = s1 THEN idA ELSE idB]
ExactOwners == {<<k, k>> : k \in {k1, admin}}
==================================================================================
