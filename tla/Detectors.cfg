SPECIFICATION DetectorsSpec
CONSTANTS
  Cells = {cell}
  Posts <- MCPosts
  Shingles <- MCShingles
  Words <- MCWords
  Channel <- MCChannel
  Similar = 55
  SimilarHere = 45
  MinHits = 2
  Window = 1
  Quiet = 1
  Cooldown = 2
  MaxCentroids = 2
  MaxNow = 5
  MaxSignals = 4
INVARIANTS LayersAgree OpenCellStaysIgnited
CHECK_DEADLOCK FALSE
