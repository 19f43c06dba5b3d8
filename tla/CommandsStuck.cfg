SPECIFICATION FairSpec
CONSTANTS
  People = {p1, p2}
  Containers = {c1}
  Names = {n1}
  MaxAsked = 2
  Disturbances = {"crash"}
  MaxDisturbed = 1
PROPERTIES EveryAskIsAnswered
CHECK_DEADLOCK FALSE
