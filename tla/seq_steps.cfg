SPECIFICATION FairSpec
CONSTANTS
  NumSteps = 4
  MaxTurns = 6
INVARIANTS
  PollInRange
  StepsMatch
PROPERTIES
  StepsInOrder
  Arrives
