CONSTANTS
  Bytes = {0, 1}
  MaxSize = 5
  ChunkSizes = {1, 2}
  MaxEdits = 1
SPECIFICATION ChunksSpec
INVARIANTS SavedAsHashed RoundTrip RootCommits
CHECK_DEADLOCK FALSE
