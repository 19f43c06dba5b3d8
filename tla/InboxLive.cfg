SPECIFICATION FairSpec
CONSTANTS
  Uids = {u1}
  Enriched = {}
  Recoverable = {}
  MaxAttempts = 2
  Batch = 1
  MaxVer = 2
  MaxInbox = 2
  Disturbances = {"switch", "crash", "setMap", "readMap", "replay-failed"}
  MaxDisturbed = 1
CHECK_DEADLOCK FALSE
PROPERTIES EveryDeliverySettles
