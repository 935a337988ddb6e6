CONSTANTS
  BatchSize = 2
  MaxDuplicates = 1
  PoolSize = 2
  Tolerated = 1
  MaxPackets = 3
  MaxStarts = 1
SPECIFICATION FairSpec
INVARIANTS IInv CountersBalance OnceInOrder
PROPERTIES UsesPool FatalOnlyWhenDead StopTerminates DivertedIsTaken
