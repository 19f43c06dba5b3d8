CONSTANTS
  c1 = c1
  c2 = c2
  People = {p1, p2}
  Containers = {c1, c2}
  Names = {n1}
  MaxAsked = 2
  Disturbances = {"query", "crash"}
  MaxDisturbed = 1
  Lacking = {"push"}
  MaxVersion = 2
  MaxSaves = 3
  Listed = {1, 2, 3}
  Askers = {1, 2, 3}
  MaxEdits = 2
  MaxErrors = 1
  SweptRecords = {1, 2}
  Window = 2
  MaxResyncs = 1
  MaxEdited = 2
  MaxFailed = 1
  MaxRecorded = 4
  MaxBuffer = 3
  Batch = 2
  MaxOutages = 2
SPECIFICATION MCSpec
INVARIANTS TypesOK SavesStand RunAtMostOnce Accounted
PROPERTIES SettingsSettle AsksMet EveryChangeArrives
CHECK_DEADLOCK FALSE
