SPECIFICATION Spec
CONSTANTS
  s1 = s1  s2 = s2  s3 = s3
  a1 = a1  a2 = a2
  k1 = k1  k2 = k2  admin = admin
  idA = idA  idB = idB  idC = idC
  force = force  retry = retry  cancel = cancel  reset = reset
  None = None
  Attendees <- MCAttendees
  Registered <- MCRegistered
  Scans = {s1, s2}
  AttendeeOf <- OneAttendee
  ScanIdOf <- DistinctScanIds
  KioskOf <- TwoKiosks
  Owners <- MCOwners
  AdminOwner = admin
  PrefixOf <- PrefixKiosks
  AdminOps = {}
  ActionOf <- MCActionOf
  TargetOf <- MCTargetOf
  MaxRetries = 2
  MaxDeliveries = 2
  MaxFaults = 1
  RedisUp = TRUE
  LocksExpire = FALSE
  StatesExpire = TRUE
  Crashes = TRUE
  LossyNetwork = FALSE
  VendorConfigured = TRUE
  Scenarios = {"success", "error_5xx"}
CHECK_DEADLOCK FALSE
INVARIANT StatusIsVendorsWord
INVARIANT ClaimExclusion
PROPERTY LifecycleRefined
PROPERTY ClaimRefined
PROPERTY ScanAdvances
