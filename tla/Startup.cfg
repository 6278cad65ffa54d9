SPECIFICATION StartupSpec
CHECK_DEADLOCK FALSE
CONSTANTS
  Starters = {"server", "kbseed"}
  AutoSeeds = {"server"}
  Rollable = {2, 3, 4, 5, 7, 8}
  Rollbacks = 1
  Starts = 2
  Crashes = 2
  Files <- MCFiles
  Texts <- MCTexts
  slugify <- MCSlugs
  BatchSize = 2
  Faults = TRUE
  MaxChunk = 4
  Overlap = 1
INVARIANTS
  StartupTypeOK
  AppliedIsRecorded
  SeededIsWhole
  ChunksAreFaithful
PROPERTIES
  StartedIsWhole
  BaseIsBuilt
