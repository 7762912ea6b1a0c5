SPECIFICATION FairSpec
CONSTANTS
  Procs = {p1}
  Reports = {r1}
  Alone = {"export", "extract", "ingest", "migrate"}
  MaxKills = 1
INVARIANTS
  ExtractedIsIngested
PROPERTIES
  SourceIngested
