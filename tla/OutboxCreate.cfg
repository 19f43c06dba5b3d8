SPECIFICATION Spec
CONSTANTS
  Containers = {c1}
  Records = {k1}
  Known = {}
  Listed = {k1}
  Compared = {k1}
  ReadBack = {k1}
  Batch = 1
  PerRecord = 10
  MaxRows = 4
  Tick = tick
  Modes = {"live"}
  MaxAttempts = 2
  Lease = 2
  MaxSlow = 2
  MaxVal = 2
  Disturbances = {"inbound", "refused", "lost", "unlinked", "unqueued"}
  MaxDisturbed = 1
INVARIANTS MadeOnce NoTwin
