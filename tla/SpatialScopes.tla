--------------------------- MODULE SpatialScopes ---------------------------
(***************************************************************************)
(* The spatial normaliser: which scope of the catalog a source location   *)
(* belongs to (graph_integrity/spatial_normalizer.py).  For a catalog,     *)
(* Release gives the derivation revision of every scope and the revisions *)
(* compatible with it, the scope a source code stands for (None: not in   *)
(* the crosswalk), and for every cell of the map the scopes that contain  *)
(* it and the scopes whose boundary it lies on.  For a source location,   *)
(* Source gives the codes it carries, the cell of its coordinate or None, *)
(* and whether it can be read at all.                                     *)
(***************************************************************************)
EXTENDS Integers, FiniteSets

CONSTANTS
    Scope,    \* keys of the catalog's scopes
    World,    \* the root scope
    Parent,   \* parent of a scope; the root is its own parent
    Code,     \* source codes (country, admin1, admin2)
    Cell,     \* places the catalogs tell apart
    Catalogs, \* the catalogs that are ever served, by their revision
    Release,  \* what each of them holds
    Locations,\* the source locations that occur
    Source,   \* what each of them says
    None      \* a missing value

\* The four kinds of scope (world, country, admin1, admin2) give the depth.
ASSUME ScopeTree ==
    /\ IsFiniteSet(Scope) /\ World \in Scope /\ None \notin Scope /\ None \notin Cell
    /\ Parent \in [Scope -> Scope]
    /\ Parent[World] = World
    /\ \A s \in Scope : Parent[Parent[Parent[s]]] = World

Lineage(s) == {s, Parent[s], Parent[Parent[s]], World}

Depth(s) == IF s = World THEN 1
            ELSE IF Parent[s] = World THEN 2
            ELSE IF Parent[Parent[s]] = World THEN 3 ELSE 4

Compatible(s, t) == s \in Lineage(t) \/ t \in Lineage(s)

Deepest(S) == CHOOSE s \in S : \A t \in S : Depth(t) <= Depth(s)

\* a derivation revision names its catalog and its scope
Revision == Catalogs \X Scope

CatalogContent ==
    [rev: [Scope -> Revision], compatible: [Scope -> SUBSET Revision],
     code: [Code -> (Scope \ {World}) \cup {None}],
     inside: [Cell -> SUBSET (Scope \ {World})], edge: [Cell -> SUBSET (Scope \ {World})]]

SourceContent == [codes: SUBSET Code, cell: Cell \cup {None}, valid: BOOLEAN]

ASSUME ScopeInputs ==
    /\ Release \in [Catalogs -> CatalogContent] /\ None \notin Catalogs
    /\ \A cat \in Catalogs, s \in Scope : Release[cat].rev[s] \in Release[cat].compatible[s]
    /\ \A cat, other \in Catalogs, s, t \in Scope :   \* a revision is a hash over the scope's path, too
         Release[other].rev[t] \in Release[cat].compatible[s] => s = t
    /\ Source \in [Locations -> SourceContent]

-----------------------------------------------------------------------------
(* Evidence from codes.  Of two scopes of one depth the code takes the     *)
(* greater key; here it is one and the same of them, and a conflict anyway. *)

KnownScopes(cat, src) == {Release[cat].code[c] : c \in Source[src].codes} \ {None}

UnknownCode(cat, src) == \E c \in Source[src].codes : Release[cat].code[c] = None

\* the scopes off the line of the selected one, and then that one too
ExplicitConflicts(S, selected) ==
    {s \in S : \E t \in S : ~Compatible(selected, t) /\ s \in {t, selected}}

-----------------------------------------------------------------------------
(* Evidence from the coordinate.                                           *)

EdgeScopes(cat, cell) == IF cell = None THEN {} ELSE Release[cat].edge[cell]

\* every scope the cell is in or on the boundary of
Matches(cat, cell) ==
    IF cell = None THEN {} ELSE Release[cat].inside[cell] \cup Release[cat].edge[cell]

\* the innermost of them
Terminal(matches) == {s \in matches : \A t \in matches \ {s} : s \notin Lineage(t)}

\* the deepest scope above all of S; the world names no scope
Common(S) == {t \in Scope \ {World} : \A s \in S : t \in Lineage(s)}

DeepestOrNone(S) == IF S = {} THEN None ELSE Deepest(S)

\* one innermost scope answers for the cell, unless the cell is on its
\* boundary; then its parent does, and for several their common ancestor
Located(terminal, edge) ==
    IF Cardinality(terminal) <= 1
    THEN {s \in terminal : s \notin edge} \cup {Parent[s] : s \in terminal \cap edge}
    ELSE Common(terminal)

SeveralOnly(terminal, edge) ==
    IF Cardinality(terminal) <= 1 THEN {} ELSE terminal

CoordinateConflicts(terminal, edge) ==
    IF Cardinality(terminal) <= 1 THEN terminal \cap edge ELSE terminal

-----------------------------------------------------------------------------
(* Both together.                                                          *)

Result(cat, scope, conflicts) ==
    [status    |-> IF conflicts # {} THEN "conflict"
                   ELSE IF scope = None THEN "unresolved" ELSE "resolved",
     scope     |-> scope,
     rev       |-> IF scope = None \/ conflicts # {} THEN None ELSE Release[cat].rev[scope],
     conflicts |-> conflicts]

\* explicit and coordinate: what each kind of evidence selects, or None;
\* incompatible, they are a conflict whose scope is the explicit one
Selected(explicit, coordinate) ==
    IF explicit # None /\ coordinate # None /\ ~Compatible(explicit, coordinate)
    THEN explicit ELSE DeepestOrNone({explicit, coordinate} \ {None})

Apart(explicit, coordinate) ==
    IF explicit # None /\ coordinate # None /\ ~Compatible(explicit, coordinate)
    THEN {explicit, coordinate} ELSE {}

NormalizeLocation(cat, src) ==
    LET known      == KnownScopes(cat, src)
        explicit   == DeepestOrNone(known)
        terminal   == Terminal(Matches(cat, Source[src].cell))
        edge       == EdgeScopes(cat, Source[src].cell)
        coordinate == DeepestOrNone(Located(terminal, edge) \ {World})
    IN IF UnknownCode(cat, src)
       THEN Result(cat, None, {})
       ELSE Result(cat, Selected(explicit, coordinate),
                   ExplicitConflicts(known, explicit) \cup CoordinateConflicts(terminal, edge)
                   \cup Apart(explicit, coordinate))

\* what each catalog makes of each location
Normalized ==
    [cat \in Catalogs |-> [src \in Locations |-> NormalizeLocation(cat, src)]]

=============================================================================
