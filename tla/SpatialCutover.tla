-------------------------- MODULE SpatialCutover ---------------------------
(***************************************************************************)
(* Moving both stores to a new catalog: the operator's procedure          *)
(* (docs/runbooks/spatial-intelligence-contract-deploy.md) around the two *)
(* jobs of SpatialBatch and SpatialReenrich, the writers that run outside *)
(* the maintenance window, and the exact queries that read the result     *)
(* (backend/app/services/spatial_filters.py).                             *)
(*   1. Pause: writers stop, backups are taken, fresh checkpoint files.   *)
(*   2. Preview, review and apply each store; a killed run is repeated.   *)
(*   3. Publish the coverage of a preview that plans nothing, activate    *)
(*      the catalog, resume the writers; or roll back to the backups.     *)
(* The operator is not under src/ and is held to the runbook.             *)
(***************************************************************************)
EXTENDS SpatialBatch, SpatialReenrich

CONSTANTS
    Documents,     \* evidence a point can carry, with its kind: [feed, evidence]
    Stored,        \* the points the lane holds at first
    Legacy,        \* records no writer has normalised yet
    MaxWrites,     \* bound on writes of live writers
    MaxWindows,    \* bound on maintenance windows
    MaxKills       \* bound on killed runs

ASSUME CutoverAssumption ==
    /\ Target = New
    /\ \A s \in Scope : Release[Old].rev[s] # Release[New].rev[s]   \* manifest.py binds every revision to all inputs
    /\ Documents \subseteq [feed: BOOLEAN, evidence: SUBSET Evidence] /\ Stored \in [Doc -> Documents]
    /\ Legacy \subseteq Record
    /\ MaxWrites \in Nat /\ MaxWindows \in Nat /\ MaxKills \in Nat

VARIABLES
    window,        \* "open": writers run; "paused": the maintenance window
    served,        \* the active catalog
    backup,        \* both stores at the start of the window
    coverage,      \* the published snapshot, None before
    writes, windows, kills

opVars == <<window, served, backup, coverage>>

vars == <<neoVars, qVars, opVars, writes, windows, kills>>

Init ==
    /\ raw \in [Record -> Sources]
    /\ location = [r \in Record |-> IF r \in Legacy THEN NeverWritten ELSE WriterRow(Old, raw[r])]
    /\ neoCursor = 0 /\ neoReport = None /\ neoRun = NeoIdle /\ neoDone = FALSE
    /\ points = [d \in Doc |-> Unprojected(Stored[d].feed, Stored[d].evidence)]
    /\ qCheckpoint = NoCheckpoint /\ qReport = None /\ qRun = QIdle
    /\ window = "open" /\ served = Old /\ backup = None /\ coverage = None
    /\ writes = 0 /\ windows = 0 /\ kills = 0

-----------------------------------------------------------------------------
(* The writers, with the catalog they loaded when they started.            *)

WriteLocation(r, src) ==
    /\ window = "open" /\ writes < MaxWrites
    /\ raw' = [raw EXCEPT ![r] = src]
    /\ location' = [location EXCEPT ![r] = WriterRow(served, src)]
    /\ writes' = writes + 1
    /\ UNCHANGED <<neoCursor, neoReport, neoRun, neoDone, qVars, opVars, windows, kills>>

\* a document without a readable location is written only by a feed
WriteDocument(d, doc) ==
    /\ window = "open" /\ writes < MaxWrites
    /\ doc.feed \/ \A e \in doc.evidence : Source[e.at].valid
    /\ points' = [points EXCEPT ![d] =
                    Reproject(served, Unprojected(doc.feed, doc.evidence))]
    /\ writes' = writes + 1
    /\ UNCHANGED <<neoVars, qCheckpoint, qReport, qRun, opVars, windows, kills>>

-----------------------------------------------------------------------------
(* The operator.                                                           *)

Pause ==
    /\ window = "open" /\ served = Old /\ windows < MaxWindows
    /\ window' = "paused"
    /\ backup' = <<location, points>>
    /\ windows' = windows + 1
    /\ neoCursor' = 0 /\ neoDone' = FALSE /\ qCheckpoint' = NoCheckpoint
    /\ UNCHANGED <<raw, location, neoReport, neoRun, points, qReport, qRun,
                   served, coverage, writes, kills>>

Idle == neoRun.at = "idle" /\ qRun.at = "idle"

\* one process at a time; a preview is repeated only when the last is no longer
\* what an apply would compare
OperatorStarts ==
    /\ window = "paused" /\ served = Old /\ Idle
    /\ \/ ~neoDone /\ ~Reviewed /\ NeoPreview /\ UNCHANGED qVars
       \/ ~neoDone /\ NeoApply /\ UNCHANGED qVars
       \/ qCheckpoint.approved = None /\ QPreview /\ UNCHANGED neoVars
       \/ QApply /\ UNCHANGED neoVars
    /\ UNCHANGED <<opVars, writes, windows, kills>>

RunSteps ==
    /\ \/ (NeoFetch \/ NeoWrite \/ NeoSave) /\ UNCHANGED qVars
       \/ (QFetch \/ QWrite \/ QSave) /\ UNCHANGED neoVars
    /\ UNCHANGED <<opVars, writes, windows, kills>>

RunKilled ==
    /\ kills < MaxKills
    /\ \/ NeoKilled /\ UNCHANGED qVars
       \/ QKilled /\ UNCHANGED neoVars
    /\ kills' = kills + 1
    /\ UNCHANGED <<opVars, writes, windows>>

\* a fresh preview must plan nothing before its counts are published
Settled == Preview.plan = Preview.rows

PublishProjected ==
    /\ window = "paused" /\ Idle /\ qCheckpoint.complete
    /\ coverage' = Coverage(Preview.plan, Target)
    /\ UNCHANGED <<neoVars, qVars, window, served, backup, writes, windows, kills>>

PublishCoverage ==
    /\ window = "paused" /\ Idle /\ qCheckpoint.complete
    /\ Settled
    /\ coverage' = Coverage(points, Target)
    /\ UNCHANGED <<neoVars, qVars, window, served, backup, writes, windows, kills>>

\* the lane is done and yet a preview plans writes: only a new file helps
NewCheckpointFile ==
    /\ window = "paused" /\ Idle /\ qCheckpoint.complete /\ ~Settled
    /\ qCheckpoint' = NoCheckpoint
    /\ UNCHANGED <<neoVars, points, qReport, qRun, opVars, writes, windows, kills>>

Activate ==
    /\ window = "paused" /\ served = Old /\ Idle
    /\ neoDone /\ coverage # None
    /\ served' = New
    /\ UNCHANGED <<neoVars, qVars, window, backup, coverage, writes, windows, kills>>

Resume ==
    /\ window = "paused" /\ served = New
    /\ window' = "open"
    /\ UNCHANGED <<neoVars, qVars, served, backup, coverage, writes, windows, kills>>

\* images, pointer and both stores go back while the writers are paused
Rollback ==
    /\ window = "paused" /\ Idle
    /\ location' = backup[1] /\ points' = backup[2]
    /\ window' = "open" /\ served' = Old /\ coverage' = None
    /\ UNCHANGED <<raw, neoCursor, neoReport, neoRun, neoDone, qCheckpoint, qReport,
                   qRun, backup, writes, windows, kills>>

Onward ==
    OperatorStarts \/ RunSteps \/ PublishCoverage \/ NewCheckpointFile \/ Activate

Next ==
    \/ \E r \in Record, src \in Sources : WriteLocation(r, src)
    \/ \E d \in Doc, doc \in Documents : WriteDocument(d, doc)
    \/ Pause \/ Onward \/ RunKilled \/ Resume \/ Rollback

Spec == Init /\ [][Next]_vars

\* the operator keeps going; kills, writers and roll-backs are never forced
FairSpec == Spec /\ WF_vars(Onward)

-----------------------------------------------------------------------------
(* The exact queries (spatial_filters.py).  An event may lie at several    *)
(* records; its category counts it once.                                   *)

HasKey(r, s) == location[r].scope # None /\ s \in Lineage(location[r].scope)

CurrentRevision(r, s) == location[r].rev \in Release[served].compatible[s]

Valid(r, s) == HasKey(r, s) /\ CurrentRevision(r, s) /\ location[r].flag = "false"

Included(E, s) == \E r \in E : Valid(r, s)

ExcludedConflict(E, s) ==
    /\ \E r \in E : HasKey(r, s) /\ location[r].flag = "true"
    /\ ~Included(E, s)

Stale(r, s) == HasKey(r, s) /\ location[r].flag = "false" /\ ~CurrentRevision(r, s)

ExcludedStaleOnly(E, s) ==
    /\ \E r \in E : Stale(r, s)
    /\ ~Included(E, s)

ExcludedStale(E, s) ==
    /\ \E r \in E : Stale(r, s)
    /\ ~Included(E, s)
    /\ ~\E r \in E : HasKey(r, s) /\ location[r].flag = "true"

ExcludedUnsupported(E, s) ==
    /\ \E r \in E : HasKey(r, s) /\ location[r].flag = "null"
    /\ ~Included(E, s)
    /\ ~\E r \in E : HasKey(r, s) /\ location[r].flag = "true"
    /\ ~\E r \in E : Stale(r, s)

\* the Qdrant filter: a point matches by a token of a revision compatible with the scope's
Admits(d, s, tokens) == \E v \in Release[served].compatible[s] : <<s, v>> \in tokens

-----------------------------------------------------------------------------
(* Properties.                                                             *)

\* What the normaliser resolves is what all its evidence says: a location is
\* resolved exactly when every code is known and the codes' scopes together
\* with the cell's innermost scopes form one line with no boundary among
\* them, and it is then the end of that line (normalize_location).
ResolvedByAllEvidence ==
    \A cat \in {Old, New},
       src \in {raw[r] : r \in Record} \cup {e.at : e \in UNION {points[d].evidence : d \in Doc}} :
        LET inner == Terminal(Matches(cat, Source[src].cell))
            E     == KnownScopes(cat, src) \cup inner
            n     == Normalized[cat][src]
        IN /\ n.status = "resolved" <=>
                 /\ ~UnknownCode(cat, src) /\ E # {}
                 /\ \A s, t \in E : Compatible(s, t)
                 /\ \A s \in inner : s \notin EdgeScopes(cat, Source[src].cell)
           /\ n.status = "resolved" =>
                 /\ n.scope \in E /\ n.rev = Release[cat].rev[n.scope]
                 /\ \A s \in E : s \in Lineage(n.scope)

\* The categories of the exact accounting are disjoint and complete for every
\* event, also one at several records in different states, so that
\* parse_exact_event_accounting never rejects the row a query returns.
AccountingReconciles ==
    \A s \in Scope \ {World} : \A E \in SUBSET Record :
        LET categories == <<Included(E, s), ExcludedConflict(E, s),
                            ExcludedStale(E, s), ExcludedUnsupported(E, s)>>
        IN Cardinality({i \in 1..4 : categories[i]})
             = IF \E r \in E : HasKey(r, s) THEN 1 ELSE 0

\* Once the new catalog is active, the exact queries serve what it says of the
\* evidence, no more and no less, whatever was killed on the way: a record is
\* included at the scope it resolves to, a point matches by the scopes its
\* admitted evidence lies in; and the published coverage holds until writers
\* resume (run_spatial_batch, _run_spatial_reenrichment,
\* publish_spatial_coverage_snapshot).
ActivatedServesTruth ==
    served = New =>
        /\ \A r \in Record, s \in Scope \ {World} :
             Valid(r, s) <=> LET n == Normalized[New][raw[r]]
                             IN Source[raw[r]].valid /\ n.status = "resolved" /\ n.scope = s
        /\ \A d \in Doc, s \in Scope :
             LET E == IF \A e \in points[d].evidence : Source[e.at].valid
                      THEN points[d].evidence ELSE {}
             IN /\ Admits(d, s, points[d].about)
                     <=> <<s, Release[New].rev[s]>> \in Tokens(New, E, "about")
                /\ Admits(d, s, points[d].occurrence)
                     <=> <<s, Release[New].rev[s]>> \in Tokens(New, E, "occurrence")
        /\ window = "paused" =>
             /\ coverage = Coverage(points, New)
             /\ coverage["stale"] = 0 /\ coverage["unprojected"] = 0

\* what a query or the coverage can see of a payload
Visible(p) == [p EXCEPT !.reason = "none"]

\* A run writes only what the operator approved: every record it changes gets
\* the value the retained report planned for it, from the row that report
\* read, and every point the payload planned for it, but for the reason: a
\* resumed run projects the points of its unsaved page once more
\* (validate_dry_run_approval in both engines).
AppliedAsReviewed ==
    [][/\ neoRun.at = "write" /\ neoRun'.at = "save" =>
            \A r \in Record : location'[r] # location[r] =>
                /\ r \in DOMAIN neoReport.plan
                /\ neoReport.rows[r] = <<raw[r], location[r]>>
                /\ neoReport.plan[r] = location'[r]
       /\ qRun.at = "write" /\ qRun'.at = "save" =>
            \A d \in Doc : points'[d] # points[d] =>
                /\ points[d] \in {qReport.rows[d], qReport.plan[d]}
                /\ Visible(points'[d]) = Visible(qReport.plan[d])]_vars

\* A window that is not rolled back ends with the new catalog active, however
\* the runs are killed: a killed apply can always be approved or resumed again.
CutoverFinishes == window = "paused" ~> (served = New \/ window = "open")

\* A second apply of the same revision writes nothing: once a lane's checkpoint
\* is complete, a preview plans no write.
ReapplyWritesNothing ==
    window = "paused" /\ qCheckpoint.complete => Settled

=============================================================================
