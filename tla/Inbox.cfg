SPECIFICATION Spec
CONSTANTS
  Uids = {u1}
  Enriched = {u1}
  Recoverable = {}
  MaxAttempts = 2
  Batch = 1
  MaxVer = 3
  MaxInbox = 2
  Disturbances = {"fetch", "write", "finish", "capture", "unverified"}
  MaxDisturbed = 1
CHECK_DEADLOCK FALSE
INVARIANTS TypeOK ClosedMeansApplied DeletedStaysDeleted DeletedByZuper OneRow
PROPERTIES FollowsZuper
