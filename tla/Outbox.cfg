SPECIFICATION Spec
CONSTANTS
  Containers = {c1, c2}
  Records = {k1}
  Known = {k1}
  Listed = {k1}
  Compared = {}
  ReadBack = {}
  Batch = 1
  PerRecord = 2
  MaxRows = 2
  Tick = tick
  Modes = {"live", "dry-run", "off"}
  MaxAttempts = 2
  Lease = 2
  MaxSlow = 2
  MaxVal = 2
  Disturbances = {"inbound", "lost", "crash", "discard", "switch", "zuper-edit"}
  MaxDisturbed = 1
INVARIANTS OneRunner
PROPERTIES OverIsOver
