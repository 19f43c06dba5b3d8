SPECIFICATION FairSpec
CONSTANTS
  Keys = {k1, k2}
  MaxWaits = 1
  MaxCalls = 4
CHECK_DEADLOCK FALSE
INVARIANTS TypeOK InTurn NothingForgotten IdleCoversEarlier
PROPERTIES EveryTurnComes EntriesAreDropped TurnsAreTaken
