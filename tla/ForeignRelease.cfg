SPECIFICATION Spec
CONSTANTS
  s1 = s1  s2 = s2  s3 = s3
  a1 = a1  a2 = a2
  k1 = k1  k2 = k2  admin = admin
  idA = idA  idB = idB  idC = idC
  force = force  retry = retry  cancel = cancel  reset = reset
  None = None
  Attendees <- MCAttendees
  Registered <- MCRegistered
  Scans = {s1, s2}
  AttendeeOf <- OneAttendee
  ScanIdOf <- DistinctScanIds
  KioskOf <- TwoKiosks
  Owners <- MCOwners
  AdminOwner = admin
  PrefixOf <- ExactOwners
  AdminOps = {}
  ActionOf <- MCActionOf
  TargetOf <- MCTargetOf
  MaxRetries = 1
  MaxDeliveries = 0
  MaxFaults = 0
  RedisUp = TRUE
  LocksExpire = TRUE
  StatesExpire = FALSE
  Crashes = FALSE
  LossyNetwork = FALSE
  VendorConfigured = TRUE
  Scenarios = {"success"}
CHECK_DEADLOCK FALSE
PROPERTY ReleaseIsOwn
