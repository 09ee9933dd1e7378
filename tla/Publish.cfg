SPECIFICATION TimedSpec
CONSTANTS
  s1 = s1
  a1 = a1  k1 = k1  admin = admin  idA = idA  idB = idB
  None = None
  Attendees = {a1}
  Registered = {a1}
  Scans = {s1}
  AttendeeOf <- OneAttendee
  ScanIdOf <- DistinctScanIds
  KioskOf <- OneKiosk
  Owners = {k1, admin}
  AdminOwner = admin
  PrefixOf <- ExactOwners
  MaxRetries = 3
  MaxFaults = 1
  LossyNetwork = TRUE
  VendorConfigured = TRUE
  Scenarios = {"success", "error_4xx", "error_5xx", "timeout"}
  ConnectTimeout = 1
  ReadTimeout = 2
  BackoffBase = 1
CHECK_DEADLOCK FALSE
INVARIANT LoopTypeOK
INVARIANT SecondJobNeedsMiss
INVARIANT SubmittedIsAccepted
PROPERTY PublishEnds
INVARIANT RefusalLeavesNoJob
INVARIANT LoopWithinBudget
