-------------------------- MODULE SpatialReenrich --------------------------
(***************************************************************************)
(* The Qdrant half of the spatial cutover: the points of one lane         *)
(* projected anew from the evidence they store                            *)
(* (intelligence/rag/spatial_reenrich.py, with the projector              *)
(* spatial_reprojection.py and qdrant_spatial.py).  A preview scans the   *)
(* whole lane; an apply run without a checkpoint repeats it and compares, *)
(* one with a checkpoint only compares the approval it was started under. *)
(* Left out: vectors, the geo field, derivation audits beyond the raw     *)
(* evidence, and tokens' spelling.                                        *)
(***************************************************************************)
EXTENDS SpatialScopes

CONSTANTS
    Target,        \* the catalog the lane is projected to
    NDocs,         \* points of the lane; the scroll orders them 1..NDocs
    PageSize       \* points of a scroll page

ASSUME ReenrichAssumption ==
    /\ Target \in Catalogs
    /\ NDocs \in Nat /\ PageSize \in Nat \ {0}

VARIABLES
    points,        \* payload of each point
    qCheckpoint,   \* the checkpoint file: cursor, complete, approved report
    qReport,       \* the retained preview, None before the first
    qRun           \* the apply process: where it stands, its page, the next cursor

qVars == <<points, qCheckpoint, qReport, qRun>>

Doc == 1..NDocs

Evidence == [relation: {"about", "occurrence"}, at: Locations, gated: BOOLEAN]

Token == Scope \X Revision

Payload ==
    [feed: BOOLEAN, evidence: SUBSET Evidence,
     reason: {"none", "malformed", "missing", "unlocated"},
     rev: Catalogs \cup {None},
     status: {"none", "filterable", "conflict", "audit_only", "unavailable"},
     about: SUBSET Token, occurrence: SUBSET Token, conflict: BOOLEAN]

\* a point written before there were projections
Unprojected(feed, evidence) ==
    [feed |-> feed, evidence |-> evidence, reason |-> "none", rev |-> None,
     status |-> "none", about |-> {}, occurrence |-> {}, conflict |-> FALSE]

-----------------------------------------------------------------------------
(* The projector.  Evidence that cannot be read has an invalid location.   *)

\* scopes in conflict under one relation
RelationConflicts(cat, E, rel) ==
    UNION {Normalized[cat][e.at].conflicts : e \in {x \in E : x.relation = rel}}

\* an about-mention also needs a reviewed crosswalk and enough confidence
Accepted(cat, e) ==
    /\ Normalized[cat][e.at].status = "resolved"
    /\ e.relation = "about" => e.gated

Tokens(cat, E, rel) ==
    LET admitted == {e \in E : e.relation = rel /\ Accepted(cat, e)}
        scopes   == UNION {Lineage(Normalized[cat][e.at].scope) : e \in admitted}
    IN {<<s, Release[cat].rev[s]>> : s \in (scopes \ {World}) \ RelationConflicts(cat, E, rel)}

ProjectPayload(cat, p, E) ==
    LET about      == Tokens(cat, E, "about")
        occurrence == Tokens(cat, E, "occurrence")
        conflict   == \E e \in E : Normalized[cat][e.at].conflicts # {}
    IN [p EXCEPT !.rev = cat, !.about = about, !.occurrence = occurrence,
                 !.conflict = conflict, !.reason = "none",
                 !.status = IF about \cup occurrence # {} THEN "filterable"
                            ELSE IF conflict THEN "conflict" ELSE "audit_only"]

\* the projection keeps the evidence it could read, and only that
Reproject(cat, p) ==
    LET readable == \A e \in p.evidence : Source[e.at].valid
        usable   == IF readable THEN p.evidence ELSE {}
    IN [ProjectPayload(cat, p, usable) EXCEPT
            !.evidence = IF p.feed THEN @ ELSE usable,
            !.status = IF p.feed /\ ~readable THEN "unavailable" ELSE @,
            !.reason = IF ~readable THEN IF p.feed THEN "unlocated" ELSE "malformed"
                       ELSE IF p.feed \/ p.evidence # {} THEN "none" ELSE "missing"]

-----------------------------------------------------------------------------
(* Coverage of the lane, by the state each point's payload is in.          *)

CoverageStatus(p, target) ==
    LET tokens == p.about \cup p.occurrence # {}
    IN CASE p.status = "unavailable" ->
              IF tokens \/ p.conflict THEN "inconsistent" ELSE "unsupported"
         [] p.status # "unavailable" /\ p.rev = None -> "unprojected"
         [] p.status # "unavailable" /\ p.rev # None /\ p.rev # target -> "stale"
         [] OTHER ->
              CASE p.status = "filterable" /\ tokens                  -> "filterable"
                [] p.status = "conflict" /\ p.conflict /\ ~tokens     -> "conflict"
                [] p.status = "audit_only" /\ ~p.conflict /\ ~tokens  -> "audit_only"
                [] OTHER                                              -> "inconsistent"

Coverage(lane, target) ==
    [status \in {"filterable", "conflict", "stale", "unsupported", "unprojected",
                 "audit_only", "inconsistent"} |->
        Cardinality({d \in Doc : CoverageStatus(lane[d], target) = status})]

-----------------------------------------------------------------------------
(* Previews and their approval.  A preview always scans the whole lane.    *)

Preview == [rows |-> points, plan |-> [d \in Doc |-> Reproject(Target, points[d])]]

NoCheckpoint == [cursor |-> None, complete |-> FALSE, approved |-> None]

QIdle == [at |-> "idle", updates |-> << >>, next |-> None]

QPreview ==
    /\ qRun.at = "idle"
    /\ qReport' = Preview
    /\ UNCHANGED <<points, qCheckpoint, qRun>>

\* a finished checkpoint returns at once, and another approval raises
QApplyUnchecked ==
    /\ qRun.at = "idle" /\ qReport # None
    /\ ~qCheckpoint.complete
    /\ qRun' = [QIdle EXCEPT !.at = "fetch", !.next = qCheckpoint.cursor]
    /\ UNCHANGED <<points, qCheckpoint, qReport>>

QApply ==
    /\ qRun.at = "idle" /\ qReport # None
    /\ ~qCheckpoint.complete
    /\ qCheckpoint.approved \in {None, qReport}
    /\ IF qCheckpoint.approved = None /\ qReport # Preview
       THEN /\ qReport' = None
            /\ UNCHANGED qRun
       ELSE /\ qRun' = [QIdle EXCEPT !.at = "fetch", !.next = qCheckpoint.cursor]
            /\ UNCHANGED qReport
    /\ UNCHANGED <<points, qCheckpoint>>

-----------------------------------------------------------------------------
(* One page: scroll and project, replace the points, save.                 *)

\* the page at a scroll offset; no offset starts the lane
Scroll(offset) ==
    LET from == IF offset = None THEN 1 ELSE offset
    IN {d \in Doc : from <= d /\ d < from + PageSize}

\* the offset that continues the scroll
After(offset) ==
    LET next == (IF offset = None THEN 1 ELSE offset) + PageSize
    IN IF next \in Doc THEN next ELSE None

QFetch ==
    /\ qRun.at = "fetch"
    /\ qRun' = [at |-> "write", next |-> After(qRun.next),
                updates |-> [d \in Scroll(qRun.next) |-> Reproject(Target, points[d])]]
    /\ UNCHANGED <<points, qCheckpoint, qReport>>

QWrite ==
    /\ qRun.at = "write"
    /\ points' = [d \in Doc |-> IF d \in DOMAIN qRun.updates
                                THEN qRun.updates[d] ELSE points[d]]
    /\ qRun' = [qRun EXCEPT !.at = "save", !.updates = << >>]
    /\ UNCHANGED <<qCheckpoint, qReport>>

QSaveOpen ==
    /\ qRun.at = "save"
    /\ qCheckpoint' = [cursor |-> qRun.next, complete |-> FALSE, approved |-> qReport]
    /\ qRun' = [qRun EXCEPT !.at = "fetch"]
    /\ UNCHANGED <<points, qReport>>

\* the end of the scroll completes the checkpoint and the run
QSave ==
    /\ qRun.at = "save"
    /\ qCheckpoint' = [cursor |-> qRun.next, complete |-> qRun.next = None,
                       approved |-> qReport]
    /\ qRun' = IF qRun.next = None THEN QIdle ELSE [qRun EXCEPT !.at = "fetch"]
    /\ UNCHANGED <<points, qReport>>

QKilled ==
    /\ qRun.at # "idle"
    /\ qRun' = QIdle
    /\ UNCHANGED <<points, qCheckpoint, qReport>>

=============================================================================
