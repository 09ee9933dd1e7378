SPECIFICATION FairSpec
CONSTANTS
  s1 = s1  s2 = s2  s3 = s3
  a1 = a1  a2 = a2
  k1 = k1  k2 = k2  admin = admin
  idA = idA  idB = idB  idC = idC
  force = force  retry = retry  cancel = cancel  reset = reset
  None = None
  Attendees <- MCAttendees
  Registered <- MCRegistered
  Scans = {s1, s2}
  AttendeeOf <- OneAttendee
  ScanIdOf <- DistinctScanIds
  KioskOf <- TwoKiosks
  Owners <- MCOwners
  AdminOwner = admin
  PrefixOf <- PrefixKiosks
  AdminOps = {}
  ActionOf <- MCActionOf
  TargetOf <- MCTargetOf
  MaxRetries = 1
  MaxDeliveries = 1
  MaxFaults = 1
  RedisUp = TRUE
  LocksExpire = FALSE
  StatesExpire = FALSE
  Crashes = TRUE
  LossyNetwork = TRUE
  VendorConfigured = TRUE
  Scenarios = {"success", "error_4xx"}
CHECK_DEADLOCK FALSE
PROPERTY ScanAnswered
PROPERTY LockFreed
INVARIANT LockHasWorker
INVARIANT PendingIsReal
PROPERTY CallbackSettlesJob
