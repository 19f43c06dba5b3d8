CONSTANTS Records = {1, 2, 3}
  NamedItems = {1, 2}
  Widths = {0, 2}
  MaxRuns = 2
  MaxFaults = 1
  Items = {1, 2}
  MaxGone = 1
  MaxChanges = 2
  MaxSlips = 2
  MaxLen = 4
  PageSize = 3
  Cap = 1
  Tries = 2
  GiveUp = 2
  MaxBlips = 1
  MaxGrow = 1
  FieldKinds = {"date", "text"}
  Times = {1, 2}
  MaxPasses = 2
  EventRuns = {2}
  Lanes = {1, 2}
  Named = {1, 2}
  Slots = {1, 2}
  MaxTries = 2
  MaxTrouble = 1
  HostNotes = {1, 2}
  NotePage = 1
  MaxNoteEdits = 2
  MaxNoteErrors = 1
  FromZuper = {1, 2}
  FromTuper = {3, 4}
  MaxPushed = 1
SPECIFICATION MCSpec
INVARIANTS TypesOK  NothingMissed NewestDecides ClosedIsDone DeletedIsGone
PROPERTIES ListFollows WorkEnds NotesFollow EveryNumberArrives
CHECK_DEADLOCK FALSE
