SPECIFICATION FairSpec
CONSTANTS
  Programs <- AllPrograms
  loadQueDepth = 4
  storeQueDepth = 3
  exeQueDepth = 4
INVARIANT TypeOK
INVARIANT TrackersInStep
INVARIANT DecisionsSound
PROPERTY ImplementsTaskOrder
PROPERTY AcceptedIsQueued
PROPERTY Progress
