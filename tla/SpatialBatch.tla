--------------------------- MODULE SpatialBatch ----------------------------
(***************************************************************************)
(* The Neo4j half of the spatial cutover: one lane of :Location records   *)
(* brought to a new catalog by the reviewed batch job                     *)
(* (graph_integrity/spatial_batch.py, reenrich_spatial_scope.py, cli.py). *)
(* A dry run plans every record after the checkpoint and is reviewed; an  *)
(* apply run repeats the dry run, compares the two, and then takes page   *)
(* after page: read, write in one transaction, save the checkpoint.  The  *)
(* process can die between any two of these steps.                        *)
(* Left out: the label clean-up of the aircraft lane, records without a   *)
(* key, records without a geo point, and the report's counters.           *)
(***************************************************************************)
EXTENDS SpatialScopes

CONSTANTS
    Old, New,      \* the catalog served before the cutover, and its successor
    Sources,       \* locations a record can carry
    NRecords,      \* records of the lane; their keys are ordered as 1..NRecords
    BatchSizes     \* sizes of a page the operator may ask for

ASSUME BatchAssumption ==
    /\ Catalogs = {Old, New} /\ Old # New
    /\ Sources \subseteq Locations /\ Sources # {}
    /\ NRecords \in Nat /\ BatchSizes \subseteq Nat \ {0}

VARIABLES
    raw,         \* the source evidence of each record
    location,    \* its spatial properties
    neoCursor,   \* the checkpoint file: the last record of a finished page, 0 for none
    neoReport,   \* the retained dry-run report, None before the first
    neoRun,      \* the apply process: where it stands, its cursor, page size, planned page
    neoDone      \* an apply run has come to the end of the lane

neoVars == <<raw, location, neoCursor, neoReport, neoRun, neoDone>>

Record == 1..NRecords

Row == [scope: Scope \cup {None}, rev: Revision \cup {None},
        catalog: Catalogs \cup {None}, flag: {"null", "false", "true"},
        keys: SUBSET Scope]

NeverWritten ==
    [scope |-> None, rev |-> None, catalog |-> None, flag |-> "null", keys |-> {}]

NeoIdle == [at |-> "idle", cursor |-> 0, size |-> 0, updates |-> << >>]

\* the properties a live writer sets from its own normalisation
Properties(cat, n) ==
    [scope |-> n.scope, rev |-> n.rev, catalog |-> cat,
     flag |-> IF n.status = "conflict" THEN "true" ELSE "false",
     keys |-> n.conflicts]

WriterRow(cat, src) ==
    Properties(cat, IF Source[src].valid THEN Normalized[cat][src]
                                 ELSE Result(cat, None, {}))

-----------------------------------------------------------------------------
(* What the job plans for one record; the row itself when it plans nothing.*)

\* scopes whose derivation revision the new catalog changes
Changed == {s \in Scope : Release[Old].rev[s] # Release[New].rev[s]}

Emptied(flag, keys) ==
    [scope |-> None, rev |-> None, catalog |-> New, flag |-> flag, keys |-> keys]

\* only a record that holds an assignment is written
RevokeAssignment(row) ==
    IF row.scope = None /\ row.rev = None THEN row ELSE Emptied("false", {})

PlanNormalization(src, row) ==
    LET n == Normalized[New][src]
    IN IF ~Source[src].valid \/ n.status = "unresolved" THEN RevokeAssignment(row)
       ELSE IF n.status = "conflict" THEN Emptied("true", n.conflicts)
       ELSE IF n.scope \notin Changed THEN row
       ELSE Properties(New, n)

Planned(r) == PlanNormalization(raw[r], location[r])

-----------------------------------------------------------------------------
(* Dry runs and their approval.  A report's fingerprint covers the cursor  *)
(* it starts from, the page size, every row it read and every update it    *)
(* planned: here it is the report itself.                                  *)

DryRun(from, size) ==
    [start |-> from,
     size  |-> size,
     rows  |-> [r \in (from + 1)..NRecords |-> <<raw[r], location[r]>>],
     plan  |-> [r \in (from + 1)..NRecords |-> Planned(r)]]

Reviewed == neoReport # None /\ neoReport = DryRun(neoCursor, neoReport.size)

NeoPreview ==
    /\ neoRun.at = "idle"
    /\ \E size \in BatchSizes : neoReport' = DryRun(neoCursor, size)
    /\ UNCHANGED <<raw, location, neoCursor, neoRun, neoDone>>

Started ==
    [NeoIdle EXCEPT !.at = "fetch", !.cursor = neoCursor, !.size = neoReport.size]

NeoApplyUnchecked ==
    /\ neoRun.at = "idle" /\ neoReport # None
    /\ neoRun' = Started
    /\ UNCHANGED <<raw, location, neoCursor, neoReport, neoDone>>

\* an apply whose report has drifted raises; the operator discards the report
NeoApply ==
    /\ neoRun.at = "idle" /\ neoReport # None
    /\ IF Reviewed
       THEN /\ neoRun' = Started
            /\ UNCHANGED neoReport
       ELSE /\ neoReport' = None
            /\ UNCHANGED neoRun
    /\ UNCHANGED <<raw, location, neoCursor, neoDone>>

-----------------------------------------------------------------------------
(* One page: read and plan, write, save.                                   *)

NeoPage == {r \in Record : neoRun.cursor < r /\ r <= neoRun.cursor + neoRun.size}

NeoFetchSaves ==
    /\ neoRun.at = "fetch"
    /\ IF NeoPage = {}
       THEN /\ neoRun' = NeoIdle
            /\ neoDone' = TRUE
            /\ UNCHANGED neoCursor
       ELSE /\ neoRun' = [neoRun EXCEPT !.at = "write",
                                        !.updates = [r \in NeoPage |-> Planned(r)]]
            /\ neoCursor' = neoRun.cursor + Cardinality(NeoPage)
            /\ UNCHANGED neoDone
    /\ UNCHANGED <<raw, location, neoReport>>

\* an empty page ends the lane; nothing is saved for it
NeoFetch ==
    /\ neoRun.at = "fetch"
    /\ IF NeoPage = {}
       THEN /\ neoRun' = NeoIdle
            /\ neoDone' = TRUE
       ELSE /\ neoRun' = [neoRun EXCEPT !.at = "write",
                                        !.updates = [r \in NeoPage |-> Planned(r)]]
            /\ UNCHANGED neoDone
    /\ UNCHANGED <<raw, location, neoCursor, neoReport>>

NeoWrite ==
    /\ neoRun.at = "write"
    /\ location' = [r \in Record |-> IF r \in DOMAIN neoRun.updates
                                     THEN neoRun.updates[r] ELSE location[r]]
    /\ neoRun' = [neoRun EXCEPT !.at = "save"]
    /\ UNCHANGED <<raw, neoCursor, neoReport, neoDone>>

\* a page that is not full is the last
NeoSave ==
    /\ neoRun.at = "save"
    /\ LET next == neoRun.cursor + Cardinality(DOMAIN neoRun.updates)
       IN /\ neoCursor' = next
          /\ IF next < neoRun.cursor + neoRun.size
             THEN /\ neoRun' = NeoIdle
                  /\ neoDone' = TRUE
             ELSE /\ neoRun' = [neoRun EXCEPT !.at = "fetch", !.cursor = next, !.updates = << >>]
               /\ UNCHANGED neoDone
    /\ UNCHANGED <<raw, location, neoReport>>

\* the process dies: what is on disk and in the database stays
NeoKilled ==
    /\ neoRun.at # "idle"
    /\ neoRun' = NeoIdle
    /\ UNCHANGED <<raw, location, neoCursor, neoReport, neoDone>>

=============================================================================
