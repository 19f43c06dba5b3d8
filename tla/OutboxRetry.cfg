SPECIFICATION FairSpec
CONSTANTS
  Containers = {c1}
  Records = {k1, k2}
  Known = {k1, k2}
  Listed = {k1}
  Compared = {k1}
  ReadBack = {k1}
  Batch = 1
  PerRecord = 1
  MaxRows = 2
  Tick = tick
  Modes = {"live", "dry-run"}
  MaxAttempts = 2
  Lease = 2
  MaxSlow = 1
  MaxVal = 3
  Disturbances = {"lost", "ignored", "refused", "read", "crash", "switch", "old"}
  MaxDisturbed = 2
INVARIANTS TypeOK NoRepeat NeverResurrects SentWasTaken
PROPERTIES EveryChangeSettles
