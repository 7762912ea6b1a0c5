SPECIFICATION Spec
CONSTANTS
    None = None
    Scope = {"w", "c1", "a1", "c2"}
    World = "w"
    Parent <- MCParent
    Code = {"u", "v", "o"}
    Cell = {"k1", "k2"}
    Catalogs = {"old", "new"}
    Release <- MCRelease
    Locations = {"u", "v", "o", "k1", "k2", "u_k1", "null"}
    Source <- MCSource
    Old = "old"
    New = "new"
    Target = "new"
    Sources = {"u_k1", "o"}
    Documents <- MCDocuments
    NRecords = 2
    BatchSizes = {2}
    NDocs = 2
    PageSize = 1
    Stored <- MCStored
    Legacy = {1}
    MaxWrites = 1
    MaxWindows = 1
    MaxKills = 1
INVARIANTS ReapplyWritesNothing
CHECK_DEADLOCK FALSE
