----------------------------- MODULE CheckinTypes -----------------------------
(***************************************************************************)
(* The requests the service receives and the names its parts share.        *)
(*                                                                         *)
(* A scan s of the model is one POST /api/v1/scan: its attendee, scan_id   *)
(* and kiosk_id are the fields of ScanRequest.  A scan creates at most one *)
(* print job, so the job's uuid is modelled by s itself.  The n-th POST of *)
(* the publish loop for scan s is the pair <<s, n>>; the vendor names the  *)
(* job it creates for it by the same pair.                                 *)
(***************************************************************************)
EXTENDS Naturals, FiniteSets

CONSTANTS
  Attendees,      \* attendee ids that requests may name
  Registered,     \* those with a row in table attendees
  Scans,          \* scan requests, each handled once
  AttendeeOf,     \* ScanRequest.attendee_id
  ScanIdOf,       \* ScanRequest.scan_id: a kiosk that retries may reuse it
  KioskOf,        \* ScanRequest.kiosk_id
  Owners,         \* strings used as lock owner: kiosk ids and "admin"
  AdminOwner,     \* the string "admin"
  PrefixOf,       \* pairs <<p, k>>: the text of owner p begins that of owner k
  MaxRetries,     \* settings.VENDOR_MAX_RETRIES
  None            \* Python's None: no value

Attempts == Scans \X (1..MaxRetries)

ASSUME TypesAssumption ==
  /\ Registered \subseteq Attendees
  /\ AttendeeOf \in [Scans -> Attendees]
  /\ KioskOf \in [Scans -> Owners]
  /\ \A s \in Scans : <<KioskOf[s], KioskOf[s]>> \in PrefixOf
  /\ MaxRetries \in Nat
  /\ None \notin Scans
  /\ None \notin Attempts
===============================================================================
