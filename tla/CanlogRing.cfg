CONSTANTS
  N = 4
  MaxFrames = 5
SPECIFICATION FairSpec
INVARIANTS NoDataRace FileIsPublished
PROPERTIES DropOnlyWhenFull QueueSpec EveryFrameWritten
