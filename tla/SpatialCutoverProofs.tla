------------------------ MODULE SpatialCutoverProofs -----------------------
(***************************************************************************)
(* For every tree, every pair of catalogs, any evidence, any sizes of      *)
(* lanes and pages, and any number of windows, kills and writes: a run     *)
(* writes what was reviewed, and what is served once the new catalog is    *)
(* active is what it says of the evidence.  First come the normaliser's    *)
(* operators, for every tree of scopes, every catalog and every location.  *)
(***************************************************************************)
EXTENDS SpatialCutover, FiniteSetTheorems, TLAPS

-----------------------------------------------------------------------------
(* The tree.                                                               *)

\* A lineage is within the scopes, starts at its scope and ends at the world.
LEMMA LineageType ==
    ASSUME NEW s \in Scope
    PROVE  Lineage(s) \subseteq Scope /\ s \in Lineage(s) /\ World \in Lineage(s)
BY ScopeTree DEF Lineage

LEMMA DepthType ==
    ASSUME NEW s \in Scope
    PROVE  Depth(s) \in 1..4
BY DEF Depth

\* Two ancestors of one scope lie on one line.
LEMMA LineageChain ==
    ASSUME NEW u \in Scope, NEW s \in Lineage(u), NEW t \in Lineage(u)
    PROVE  Compatible(s, t)
BY ScopeTree DEF Lineage, Compatible

\* The lineage of an ancestor is part of the lineage.
LEMMA LineageTransitive ==
    ASSUME NEW u \in Scope, NEW s \in Lineage(u)
    PROVE  Lineage(s) \subseteq Lineage(u)
BY ScopeTree DEF Lineage

\* An ancestor that is no less deep is the scope itself.
LEMMA LineageDepth ==
    ASSUME NEW t \in Scope, NEW s \in Lineage(t), Depth(t) <= Depth(s)
    PROVE  s = t
BY ScopeTree DEF Lineage, Depth

\* Of two scopes on one line the less deep one is the ancestor.
LEMMA CompatibleDepth ==
    ASSUME NEW s \in Scope, NEW t \in Scope, Compatible(s, t), Depth(t) <= Depth(s)
    PROVE  t \in Lineage(s)
BY LineageDepth, LineageType DEF Compatible

\* There is a deepest scope in every set of them.
LEMMA DeepestOf ==
    ASSUME NEW S, S \subseteq Scope, S # {}
    PROVE  Deepest(S) \in S /\ \A t \in S : Depth(t) <= Depth(Deepest(S))
<1> DEFINE P(s) == s \in S /\ \A t \in S : Depth(t) <= Depth(s)
<1>1. \E s : P(s)
  <2>1. \A s \in S : Depth(s) \in 1..4
    BY DepthType
  <2>2. CASE \E s \in S : Depth(s) = 4
    BY <2>1, <2>2
  <2>3. CASE (\E s \in S : Depth(s) = 3) /\ \A s \in S : Depth(s) # 4
    BY <2>1, <2>3
  <2>4. CASE (\E s \in S : Depth(s) = 2) /\ \A s \in S : Depth(s) \notin {3, 4}
    BY <2>1, <2>4
  <2>5. CASE \A s \in S : Depth(s) \notin {2, 3, 4}
    BY <2>1, <2>5
  <2>6. QED BY <2>2, <2>3, <2>4, <2>5
<1>2. QED BY <1>1 DEF Deepest

\* A finite set with at most one element.
LEMMA AtMostOne ==
    ASSUME NEW T, IsFiniteSet(T)
    PROVE  Cardinality(T) <= 1 <=> \A s, t \in T : s = t
<1>1. ASSUME Cardinality(T) <= 1, NEW s \in T, NEW t \in T, s # t PROVE FALSE
  <2>1. {s} \cup {t} \subseteq T
    BY <1>1
  <2>2. Cardinality({s} \cup {t}) = 2
    <3>1. IsFiniteSet({s}) /\ Cardinality({s}) = 1 /\ t \notin {s}
      BY <1>1, FS_Singleton
    <3>2. Cardinality({s} \cup {t}) = Cardinality({s}) + 1
      BY <3>1, FS_AddElement
    <3>3. QED BY <3>1, <3>2
  <2>3. Cardinality({s} \cup {t}) <= Cardinality(T)
    BY <2>1, FS_Subset
  <2>4. Cardinality(T) \in Nat
    BY FS_CardinalityType
  <2>5. QED BY <1>1, <2>2, <2>3, <2>4
<1>2. ASSUME \A s, t \in T : s = t PROVE Cardinality(T) <= 1
  <2>1. CASE T = {}
    BY <2>1, FS_EmptySet
  <2>2. CASE T # {}
    <3>1. PICK s \in T : T = {s}
      BY <1>2, <2>2
    <3>2. QED BY <3>1, FS_Singleton
  <2>3. QED BY <2>1, <2>2
<1>3. QED BY <1>1, <1>2

-----------------------------------------------------------------------------
(* The evidence.                                                           *)

LEMMA EvidenceType ==
    ASSUME NEW cat \in Catalogs, NEW src \in Locations
    PROVE  /\ KnownScopes(cat, src) \subseteq Scope \ {World}
           /\ Matches(cat, Source[src].cell) \subseteq Scope \ {World}
           /\ Terminal(Matches(cat, Source[src].cell)) \subseteq Matches(cat, Source[src].cell)
           /\ IsFiniteSet(Terminal(Matches(cat, Source[src].cell)))
<1>1. Release[cat] \in CatalogContent /\ Source[src] \in SourceContent
  BY ScopeInputs
<1>2. KnownScopes(cat, src) \subseteq Scope \ {World}
  BY <1>1 DEF KnownScopes, CatalogContent, SourceContent
<1>3. Matches(cat, Source[src].cell) \subseteq Scope \ {World}
  BY <1>1 DEF Matches, CatalogContent, SourceContent
<1>4. Terminal(Matches(cat, Source[src].cell)) \subseteq Matches(cat, Source[src].cell)
  BY DEF Terminal
<1>5. IsFiniteSet(Terminal(Matches(cat, Source[src].cell)))
  BY <1>3, <1>4, FS_Subset, ScopeTree
<1>6. QED BY <1>2, <1>3, <1>4, <1>5

\* The codes agree exactly when their scopes form one line, and then the
\* deepest of them is its end.
LEMMA CodesAgree ==
    ASSUME NEW S, S \subseteq Scope, S # {}
    PROVE  /\ ExplicitConflicts(S, Deepest(S)) = {} <=> \A s, t \in S : Compatible(s, t)
           /\ ExplicitConflicts(S, Deepest(S)) = {} => \A t \in S : t \in Lineage(Deepest(S))
<1> DEFINE d == Deepest(S)
<1>1. d \in S /\ d \in Scope /\ \A t \in S : Depth(t) <= Depth(d)
  BY DeepestOf
<1> HIDE DEF d
<1>2. ExplicitConflicts(S, d) = {} <=> \A t \in S : Compatible(d, t)
  BY <1>1 DEF ExplicitConflicts
<1>3. (\A t \in S : Compatible(d, t)) => \A t \in S : t \in Lineage(d)
  BY <1>1, CompatibleDepth
<1>4. (\A t \in S : t \in Lineage(d)) => \A s, t \in S : Compatible(s, t)
  BY <1>1, LineageChain
<1>5. QED BY <1>1, <1>2, <1>3, <1>4 DEF d

\* The innermost scopes of a cell are on no common line.
LEMMA TerminalApart ==
    ASSUME NEW matches, NEW s \in Terminal(matches), NEW t \in Terminal(matches), Compatible(s, t)
    PROVE  s = t
BY DEF Terminal, Compatible

\* The coordinate agrees with itself exactly when the cell has at most one
\* innermost scope and is not on its boundary.
LEMMA CoordinateAgrees ==
    ASSUME NEW T, IsFiniteSet(T), NEW edge,
           \A s, t \in T : Compatible(s, t) => s = t
    PROVE  CoordinateConflicts(T, edge) = {} <=>
               (\A s, t \in T : Compatible(s, t)) /\ T \cap edge = {}
<1>1. CASE Cardinality(T) <= 1
  <2>1. \A s, t \in T : s = t
    BY <1>1, AtMostOne
  <2>2. \A s \in T : Compatible(s, s)
    BY DEF Compatible, Lineage
  <2>3. QED BY <1>1, <2>1, <2>2 DEF CoordinateConflicts
<1>2. CASE ~(Cardinality(T) <= 1)
  <2>1. ~\A s, t \in T : s = t
    BY <1>2, AtMostOne
  <2>2. QED BY <1>2, <2>1 DEF CoordinateConflicts
<1>3. QED BY <1>1, <1>2

\* A location resolves exactly when all of its evidence is on one line with no
\* boundary in it, and then to the end of that line.
THEOREM ResolvedIsAgreed ==
    ASSUME NEW cat \in Catalogs, NEW src \in Locations
    PROVE  LET inner == Terminal(Matches(cat, Source[src].cell))
               E     == KnownScopes(cat, src) \cup inner
               n     == NormalizeLocation(cat, src)
           IN  /\ n.status = "resolved" <=>
                     /\ ~UnknownCode(cat, src) /\ E # {}
                     /\ \A s, t \in E : Compatible(s, t)
                     /\ \A s \in inner : s \notin EdgeScopes(cat, Source[src].cell)
               /\ n.status = "resolved" =>
                     /\ n.scope \in E /\ n.rev = Release[cat].rev[n.scope]
                     /\ \A s \in E : s \in Lineage(n.scope)
<1> DEFINE K == KnownScopes(cat, src)
           T == Terminal(Matches(cat, Source[src].cell))
           edge == EdgeScopes(cat, Source[src].cell)
           E == K \cup T
           n == NormalizeLocation(cat, src)
           explicit == DeepestOrNone(K)
           coordinate == DeepestOrNone(Located(T, edge) \ {World})
           conflicts == ExplicitConflicts(K, explicit) \cup CoordinateConflicts(T, edge)
                        \cup Apart(explicit, coordinate)
           scope == Selected(explicit, coordinate)
<1>1. K \subseteq Scope \ {World} /\ T \subseteq Scope \ {World} /\ IsFiniteSet(T)
  BY EvidenceType, Zenon
<1>2. \A s, t \in T : Compatible(s, t) => s = t
  BY TerminalApart
<1>3. n = IF UnknownCode(cat, src) THEN Result(cat, None, {})
          ELSE Result(cat, scope, conflicts)
  BY Zenon DEF NormalizeLocation
<1>4. None \notin Scope
  BY ScopeTree
<1>5. n.status = "resolved" <=> ~UnknownCode(cat, src) /\ conflicts = {} /\ scope # None
  <2> HIDE DEF scope, conflicts
  <2>1. CASE UnknownCode(cat, src)
    BY <1>3, <2>1 DEF Result
  <2>2. CASE ~UnknownCode(cat, src)
    BY <1>3, <2>2 DEF Result
  <2>3. QED BY <2>1, <2>2
<1>6. n.status = "resolved" => n.scope = scope /\ n.rev = Release[cat].rev[scope]
  <2> HIDE DEF scope, conflicts
  <2>1. CASE UnknownCode(cat, src)
    BY <1>5, <2>1
  <2>2. CASE ~UnknownCode(cat, src)
    BY <1>3, <1>5, <2>2 DEF Result
  <2>3. QED BY <2>1, <2>2
<1>7. explicit = IF K = {} THEN None ELSE Deepest(K)
  BY DEF DeepestOrNone
<1>8. ExplicitConflicts(K, explicit) = {} <=> \A s, t \in K : Compatible(s, t)
  BY <1>1, <1>7, CodesAgree DEF ExplicitConflicts
<1>9. CoordinateConflicts(T, edge) = {} <=> (\A s, t \in T : Compatible(s, t)) /\ T \cap edge = {}
  BY <1>1, <1>2, CoordinateAgrees
<1>10. ASSUME CoordinateConflicts(T, edge) = {}
       PROVE  IF T = {} THEN coordinate = None
              ELSE coordinate \in T /\ T = {coordinate}
  <2>1. (\A s, t \in T : s = t) /\ T \cap edge = {}
    BY <1>2, <1>9, <1>10
  <2>2. Cardinality(T) <= 1
    BY <1>1, <2>1, AtMostOne
  <2>3. Located(T, edge) = {s \in T : s \notin edge} \cup {Parent[s] : s \in T \cap edge}
    BY <2>2 DEF Located
  <2>4. Located(T, edge) \ {World} = T
    <3> HIDE DEF T, edge
    <3>1. {Parent[s] : s \in T \cap edge} = {} /\ {s \in T : s \notin edge} = T
      BY <2>1
    <3>2. QED BY <1>1, <2>3, <3>1
  <2>5. CASE T = {}
    BY <2>4, <2>5 DEF DeepestOrNone
  <2>6. CASE T # {}
    <3>1. Deepest(T) \in T
      BY <1>1, <2>6, DeepestOf
    <3>2. coordinate = Deepest(T)
      BY <2>4, <2>6 DEF DeepestOrNone
    <3> HIDE DEF coordinate, T
    <3>3. QED BY <2>1, <2>6, <3>1, <3>2
  <2>7. QED BY <2>5, <2>6
<1> HIDE DEF n
<1>11. ASSUME ~UnknownCode(cat, src), ExplicitConflicts(K, explicit) = {},
              CoordinateConflicts(T, edge) = {}
       PROVE  /\ scope # None <=> E # {}
              /\ Apart(explicit, coordinate) = {} <=> \A s, t \in E : Compatible(s, t)
              /\ Apart(explicit, coordinate) = {} /\ E # {} =>
                    scope \in E /\ \A s \in E : s \in Lineage(scope)
  <2>1. \A s, t \in K : Compatible(s, t)
    BY <1>8, <1>11
  <2>2. K # {} => explicit \in K /\ \A t \in K : t \in Lineage(explicit)
    BY <1>1, <1>7, <1>11, CodesAgree, DeepestOf
  <2>3. IF T = {} THEN coordinate = None ELSE coordinate \in T /\ T = {coordinate}
    BY <1>10, <1>11
  <2>4. K = {} => explicit = None
    BY <1>7
  <2> HIDE DEF K, T, edge, explicit, coordinate
  <2>5. (K # {} => explicit \in Scope) /\ (T # {} => coordinate \in Scope)
        /\ (K # {} => explicit # None) /\ (T # {} => coordinate # None)
    BY <1>1, <1>4, <2>2, <2>3
  <2>6. \A s \in Scope : Compatible(s, s)
    BY DEF Compatible, Lineage
  <2>7. CASE K = {} /\ T = {}
    <3>1. scope = None /\ Apart(explicit, coordinate) = {}
      BY <2>3, <2>4, <2>7 DEF Selected, Apart, DeepestOrNone
    <3>2. QED BY <2>7, <3>1
  <2>8. CASE K # {} /\ T = {}
    <3>1. {explicit, coordinate} \ {None} = {explicit}
      BY <2>3, <2>5, <2>8
    <3>2. scope = explicit /\ Apart(explicit, coordinate) = {}
      BY <2>3, <2>5, <2>8, <3>1, DeepestOf DEF Selected, Apart, DeepestOrNone
    <3>3. QED BY <2>1, <2>2, <2>5, <2>8, <3>2
  <2>9. CASE K = {} /\ T # {}
    <3>1. {explicit, coordinate} \ {None} = {coordinate}
      BY <2>4, <2>5, <2>9
    <3>2. scope = coordinate /\ Apart(explicit, coordinate) = {}
      BY <2>4, <2>5, <2>9, <3>1, DeepestOf DEF Selected, Apart, DeepestOrNone
    <3>3. QED BY <2>3, <2>5, <2>6, <2>9, <3>2 DEF Compatible, Lineage
  <2>10. CASE K # {} /\ T # {}
    <3>1. {explicit, coordinate} \ {None} = {explicit, coordinate}
      BY <2>5, <2>10
    <3>2. Apart(explicit, coordinate) = {} <=> Compatible(explicit, coordinate)
      BY <2>5, <2>10 DEF Apart
    <3>3. ASSUME Compatible(explicit, coordinate)
          PROVE  /\ scope \in {explicit, coordinate}
                 /\ explicit \in Lineage(scope) /\ coordinate \in Lineage(scope)
      <4>1. scope = Deepest({explicit, coordinate})
        BY <2>5, <2>10, <3>1, <3>3 DEF Selected, DeepestOrNone
      <4>2. scope \in {explicit, coordinate} /\ Depth(explicit) <= Depth(scope)
            /\ Depth(coordinate) <= Depth(scope)
        BY <2>5, <2>10, <4>1, DeepestOf
      <4>3. QED BY <2>5, <2>6, <2>10, <3>3, <4>2, CompatibleDepth DEF Compatible
    <3>4. ASSUME Compatible(explicit, coordinate)
          PROVE  scope \in E /\ scope \in Scope /\ \A s \in E : s \in Lineage(scope)
      <4>1. scope \in E /\ scope \in Scope
        BY <2>2, <2>3, <2>5, <2>10, <3>3, <3>4
      <4>2. ASSUME NEW s \in K PROVE s \in Lineage(scope)
        <5>1. s \in Lineage(explicit) /\ explicit \in Lineage(scope)
          BY <2>2, <3>3, <3>4, <4>2
        <5>2. QED BY <4>1, <5>1, LineageTransitive
      <4>3. QED BY <2>3, <2>10, <3>3, <3>4, <4>1, <4>2
    <3>5. (\A s, t \in E : Compatible(s, t)) <=> Compatible(explicit, coordinate)
      <4>1. explicit \in E /\ coordinate \in E
        BY <2>2, <2>3, <2>10
      <4>2. QED BY <3>4, <4>1, LineageChain
    <3>6. scope # None
      <4>1. CASE Compatible(explicit, coordinate)
        BY <1>4, <3>4, <4>1
      <4>2. CASE ~Compatible(explicit, coordinate)
        BY <2>5, <2>10, <4>2 DEF Selected
      <4>3. QED BY <4>1, <4>2
    <3>7. QED BY <2>10, <3>2, <3>4, <3>5, <3>6
  <2>11. QED BY <2>7, <2>8, <2>9, <2>10
<1> HIDE DEF K, T, edge, explicit, coordinate, scope
<1>12. (\A s, t \in E : Compatible(s, t)) =>
           (\A s, t \in K : Compatible(s, t)) /\ (\A s, t \in T : Compatible(s, t))
  OBVIOUS
<1>13. T \cap edge = {} <=> \A s \in T : s \notin edge
  OBVIOUS
<1>14. n.status = "resolved" <=>
           /\ ~UnknownCode(cat, src) /\ E # {}
           /\ \A s, t \in E : Compatible(s, t)
           /\ \A s \in T : s \notin edge
  <2>1. conflicts = {} <=> /\ ExplicitConflicts(K, explicit) = {}
                           /\ CoordinateConflicts(T, edge) = {}
                           /\ Apart(explicit, coordinate) = {}
    OBVIOUS
  <2> HIDE DEF conflicts, E
  <2>2. QED BY <1>5, <1>8, <1>9, <1>11, <1>12, <1>13, <2>1
<1>15. n.status = "resolved" =>
           /\ n.scope \in E /\ n.rev = Release[cat].rev[n.scope]
           /\ \A s \in E : s \in Lineage(n.scope)
  <2>1. conflicts = {} => /\ ExplicitConflicts(K, explicit) = {}
                          /\ CoordinateConflicts(T, edge) = {}
                          /\ Apart(explicit, coordinate) = {}
    OBVIOUS
  <2> HIDE DEF conflicts, E
  <2>2. QED BY <1>5, <1>6, <1>11, <2>1
<1>16. QED BY <1>14, <1>15 DEF K, T, edge, n



-----------------------------------------------------------------------------
(* The inductive invariant.                                                *)

R(p) == Reproject(Target, p)

\* a row answers the exact queries of the new catalog as its evidence says
RowServes(row, src) ==
    \A s \in Scope \ {World} :
        /\ row.scope # None /\ s \in Lineage(row.scope)
        /\ row.rev \in Release[New].compatible[s] /\ row.flag = "false"
      <=>
        /\ Source[src].valid /\ Normalized[New][src].status = "resolved"
        /\ Normalized[New][src].scope = s

Serves(r) == RowServes(location[r], raw[r])

Usable(E) == IF \A e \in E : Source[e.at].valid THEN E ELSE {}

\* a payload's tokens are those of the evidence it keeps
Faithful(p) ==
    /\ p.about = Tokens(New, Usable(p.evidence), "about")
    /\ p.occurrence = Tokens(New, Usable(p.evidence), "occurrence")

TypeInv ==
    /\ raw \in [Record -> Sources] /\ location \in [Record -> Row] /\ points \in [Doc -> Payload]
    /\ neoCursor \in Nat
    /\ neoRun = [at |-> neoRun.at, cursor |-> neoRun.cursor, size |-> neoRun.size,
                 updates |-> neoRun.updates]
    /\ neoRun.at \in {"idle", "fetch", "write", "save"}
    /\ qRun = [at |-> qRun.at, updates |-> qRun.updates, next |-> qRun.next]
    /\ qRun.at \in {"idle", "fetch", "write", "save"}
    /\ window \in {"open", "paused"} /\ served \in {Old, New}
    /\ window = "paused" => backup[1] \in [Record -> Row] /\ backup[2] \in [Doc -> Payload]

\* the records an apply run has not yet written
Ahead(r) == r > neoCursor + (IF neoRun.at = "save" THEN neoRun.size ELSE 0)

\* a Neo4j run is at its checkpoint, and ahead of it nothing has moved since
\* the report was taken
NeoInv ==
    /\ neoReport # None => neoReport.size \in Nat \ {0}
    /\ neoRun.at # "idle" =>
        /\ window = "paused" /\ served = Old
        /\ neoRun.cursor = neoCursor /\ neoRun.size \in Nat \ {0}
        /\ \A r \in Record : r > neoCursor => r \in DOMAIN neoReport.plan
        /\ \A r \in Record : Ahead(r) =>
             neoReport.rows[r] = <<raw[r], location[r]>> /\ neoReport.plan[r] = Planned(r)
        /\ neoRun.at \in {"write", "save"} => DOMAIN neoRun.updates = NeoPage
        /\ neoRun.at = "write" => \A r \in NeoPage : neoRun.updates[r] = Planned(r)
        /\ neoRun.at = "save" => \A r \in NeoPage : Serves(r)

ReportOK(report) ==
    \A d \in Doc : report.rows[d] \in Payload /\ report.plan[d] = R(report.rows[d])

\* every point is as reviewed, as planned, or projected once more
Lane ==
    \A d \in Doc : points[d] \in {qReport.rows[d], qReport.plan[d], R(qReport.plan[d])}

QInv ==
    /\ qReport # None => ReportOK(qReport)
    /\ qRun.at # "idle" =>
         window = "paused" /\ served = Old /\ ~qCheckpoint.complete /\ qReport # None /\ Lane
    /\ qRun.at = "write" =>
         \A d \in DOMAIN qRun.updates : qRun.updates[d] = R(points[d])
    /\ window = "paused" /\ qCheckpoint.approved # None =>
         /\ qCheckpoint.approved = qReport
         /\ ~qCheckpoint.complete => Lane

Published ==
    qRun.at = "idle" /\ qCheckpoint.complete /\ Settled /\ coverage = Coverage(points, Target)

\* what is behind the checkpoint serves the new catalog, and everything does
\* once it is active
ServeInv ==
    /\ window = "paused" => \A r \in Record : r <= neoCursor \/ neoDone => Serves(r)
    /\ served = New => (\A r \in Record : Serves(r)) /\ \A d \in Doc : Faithful(points[d])
    /\ window = "paused" /\ served = New => coverage # None
    /\ window = "paused" /\ coverage # None => Published
    /\ window = "open" /\ served = Old => coverage = None

CutoverInv == TypeInv /\ NeoInv /\ QInv /\ ServeInv

-----------------------------------------------------------------------------
(* Facts about the operators.                                              *)

\* Whatever the normaliser returns has scopes of the tree.
LEMMA NormalizeType ==
    ASSUME NEW cat \in Catalogs, NEW src \in Locations
    PROVE  LET n == Normalized[cat][src]
           IN  /\ n.scope \in Scope \cup {None} /\ n.rev \in Revision \cup {None}
               /\ n.conflicts \subseteq Scope
               /\ n.status \in {"conflict", "unresolved", "resolved"}
               /\ n.status = "resolved" =>
                    n.scope \in Scope \ {World} /\ n.rev = Release[cat].rev[n.scope]
<1> DEFINE K == KnownScopes(cat, src)
           T == Terminal(Matches(cat, Source[src].cell))
           edge == EdgeScopes(cat, Source[src].cell)
           explicit == DeepestOrNone(K)
           L == Located(T, edge) \ {World}
           coordinate == DeepestOrNone(L)
           conflicts == ExplicitConflicts(K, explicit) \cup CoordinateConflicts(T, edge)
                        \cup Apart(explicit, coordinate)
           scope == Selected(explicit, coordinate)
           n == NormalizeLocation(cat, src)
<1>0. n = Normalized[cat][src]
  BY DEF Normalized
<1>1. K \subseteq Scope \ {World} /\ T \subseteq Scope \ {World} /\ IsFiniteSet(T)
  BY EvidenceType, Zenon
<1>2. n = IF UnknownCode(cat, src) THEN Result(cat, None, {})
          ELSE Result(cat, scope, conflicts)
  BY Zenon DEF NormalizeLocation
<1>3. L \subseteq Scope
  BY <1>1, ScopeTree DEF Located, Common
<1> HIDE DEF K, T, edge, L
<1>4. explicit \in Scope \cup {None} /\ coordinate \in Scope \cup {None}
  BY <1>1, <1>3, DeepestOf DEF DeepestOrNone
<1>5. explicit = None \/ explicit \in K
  BY <1>1, DeepestOf DEF DeepestOrNone
<1> HIDE DEF explicit, coordinate
<1>6. scope \in Scope \cup {None}
  <2>1. {explicit, coordinate} \ {None} \subseteq Scope
    BY <1>4
  <2>2. DeepestOrNone({explicit, coordinate} \ {None}) \in Scope \cup {None}
    BY <2>1, DeepestOf DEF DeepestOrNone
  <2>3. QED BY <1>4, <2>2 DEF Selected
<1>7. conflicts \subseteq Scope
  <2>1. ExplicitConflicts(K, explicit) \subseteq Scope
    BY <1>1 DEF ExplicitConflicts
  <2>2. CoordinateConflicts(T, edge) \subseteq Scope
    BY <1>1 DEF CoordinateConflicts
  <2>3. Apart(explicit, coordinate) \subseteq Scope
    BY <1>4 DEF Apart
  <2>4. QED BY <2>1, <2>2, <2>3
<1> HIDE DEF scope, conflicts, n
<1>8. \A s \in Scope : Release[cat].rev[s] \in Revision
  BY ScopeInputs DEF CatalogContent
<1>9. /\ n.scope \in Scope \cup {None} /\ n.rev \in Revision \cup {None}
      /\ n.conflicts \subseteq Scope
      /\ n.status \in {"conflict", "unresolved", "resolved"}
  <2>1. CASE UnknownCode(cat, src)
    BY <1>2, <2>1 DEF Result
  <2>2. CASE ~UnknownCode(cat, src)
    BY <1>2, <1>6, <1>7, <1>8, <2>2 DEF Result
  <2>3. QED BY <2>1, <2>2
<1>10. n.status = "resolved" =>
         n.scope \in Scope \ {World} /\ n.rev = Release[cat].rev[n.scope]
  BY <1>1, ResolvedIsAgreed DEF n, K, T
<1>11. QED BY <1>0, <1>9, <1>10, Zenon

LEMMA Settings ==
    /\ New \in Catalogs /\ Old \in Catalogs /\ Old # New /\ Target = New
    /\ New # None /\ None \notin Scope /\ Sources \subseteq Locations
    /\ \A s \in Scope : Release[New].rev[s] \in Release[New].compatible[s]
    /\ \A s, t \in Scope : Release[New].rev[t] \in Release[New].compatible[s] => s = t
    /\ Changed = Scope
BY BatchAssumption, CutoverAssumption, ScopeInputs, ScopeTree DEF Changed

\* A row that a resolved location gives serves it.
LEMMA ResolvedServes ==
    ASSUME NEW row, NEW src \in Locations, Source[src].valid,
           Normalized[New][src].status = "resolved",
           row.scope = Normalized[New][src].scope, row.rev = Normalized[New][src].rev,
           row.flag = "false"
    PROVE  RowServes(row, src)
<1> DEFINE n == Normalized[New][src]
<1>1. n.scope \in Scope \ {World} /\ n.rev = Release[New].rev[n.scope]
  BY NormalizeType, Settings
<1> HIDE DEF n
<1>2. n.scope # None /\ n.scope \in Lineage(n.scope)
  BY <1>1, Settings, LineageType
<1>3. \A s \in Scope \ {World} :
         (s \in Lineage(n.scope) /\ n.rev \in Release[New].compatible[s]) <=> n.scope = s
  BY <1>1, <1>2, Settings
<1>4. row.scope = n.scope /\ row.rev = n.rev /\ n.status = "resolved"
  BY DEF n
<1>5. QED BY <1>2, <1>3, <1>4 DEF RowServes, n

\* A row without an assignment serves a location that resolves to none.
LEMMA EmptyServes ==
    ASSUME NEW row, NEW src \in Locations,
           ~Source[src].valid \/ Normalized[New][src].status # "resolved",
           row.scope = None \/ row.flag # "false"
    PROVE  RowServes(row, src)
BY DEF RowServes

\* What the job plans for a record, and what a live writer writes once the new
\* catalog is active, serve it.
LEMMA PlanServes ==
    ASSUME NEW src \in Locations, NEW row \in Row
    PROVE  PlanNormalization(src, row) \in Row /\ RowServes(PlanNormalization(src, row), src)
<1> DEFINE n == Normalized[New][src]
<1>1. /\ n.scope \in Scope \cup {None} /\ n.rev \in Revision \cup {None}
      /\ n.conflicts \subseteq Scope /\ n.status \in {"conflict", "unresolved", "resolved"}
      /\ n.status = "resolved" => n.scope \in Scope \ {World}
  BY NormalizeType, Settings
<1>2. New \in Catalogs /\ None \notin Scope
  BY Settings
<1> HIDE DEF n
<1>3. CASE ~Source[src].valid \/ n.status = "unresolved"
  <2>1. PlanNormalization(src, row) = RevokeAssignment(row)
    BY <1>3 DEF PlanNormalization, n
  <2>2. RevokeAssignment(row) \in Row /\ RevokeAssignment(row).scope = None
    BY <1>2 DEF RevokeAssignment, Emptied, Row
  <2>3. ~Source[src].valid \/ n.status # "resolved"
    BY <1>3
  <2>4. QED BY <2>1, <2>2, <2>3, EmptyServes DEF n
<1>4. CASE Source[src].valid /\ n.status = "conflict"
  <2>1. PlanNormalization(src, row) = Emptied("true", n.conflicts)
    BY <1>4 DEF PlanNormalization, n
  <2>2. Emptied("true", n.conflicts) \in Row /\ Emptied("true", n.conflicts).scope = None
    BY <1>1, <1>2 DEF Emptied, Row
  <2>3. QED BY <1>4, <2>1, <2>2, EmptyServes DEF n
<1>5. CASE Source[src].valid /\ n.status = "resolved"
  <2>1. PlanNormalization(src, row) = Properties(New, n)
    BY <1>1, <1>5, Settings DEF PlanNormalization, n
  <2>2. Properties(New, n) \in Row
    BY <1>1, <1>2 DEF Properties, Row
  <2>3. Properties(New, n).scope = n.scope /\ Properties(New, n).rev = n.rev
        /\ Properties(New, n).flag = "false"
    BY <1>5 DEF Properties
  <2>4. RowServes(Properties(New, n), src)
    BY <1>5, <2>3, ResolvedServes DEF n
  <2>5. QED BY <2>1, <2>2, <2>4
<1>6. QED BY <1>1, <1>3, <1>4, <1>5

LEMMA WriterServes ==
    ASSUME NEW cat \in Catalogs, NEW src \in Locations
    PROVE  WriterRow(cat, src) \in Row /\ (cat = New => RowServes(WriterRow(cat, src), src))
<1> DEFINE n == Normalized[cat][src]
<1>1. /\ n.scope \in Scope \cup {None} /\ n.rev \in Revision \cup {None}
      /\ n.conflicts \subseteq Scope /\ n.status \in {"conflict", "unresolved", "resolved"}
  BY NormalizeType
<1> HIDE DEF n
<1>2. CASE ~Source[src].valid
  <2>1. WriterRow(cat, src) = Properties(cat, Result(cat, None, {}))
    BY <1>2 DEF WriterRow
  <2>2. Properties(cat, Result(cat, None, {})) \in Row
        /\ Properties(cat, Result(cat, None, {})).scope = None
    BY DEF Properties, Result, Row
  <2>3. QED BY <1>2, <2>1, <2>2, EmptyServes
<1>3. CASE Source[src].valid
  <2>1. WriterRow(cat, src) = Properties(cat, n)
    BY <1>3 DEF WriterRow, n
  <2>2. Properties(cat, n) \in Row
    BY <1>1 DEF Properties, Row
  <2>3. CASE n.status = "resolved"
    <3>1. Properties(cat, n).scope = n.scope /\ Properties(cat, n).rev = n.rev
          /\ Properties(cat, n).flag = "false"
      BY <2>3 DEF Properties
    <3>2. QED BY <1>3, <2>1, <2>2, <2>3, <3>1, ResolvedServes DEF n
  <2>4. CASE n.status = "conflict"
    <3>1. Properties(cat, n).flag = "true"
      BY <2>4 DEF Properties
    <3>2. QED BY <2>1, <2>2, <2>4, <3>1, EmptyServes DEF n
  <2>5. CASE n.status = "unresolved"
    <3>1. n.scope = None
      <4>1. NormalizeLocation(cat, src).status = "unresolved" =>
              NormalizeLocation(cat, src).scope = None
        BY DEF NormalizeLocation, Result
      <4>2. QED BY <2>5, <4>1 DEF n, Normalized
    <3>2. Properties(cat, n).scope = None
      BY <3>1 DEF Properties
    <3>3. QED BY <2>1, <2>2, <2>5, <3>2, EmptyServes DEF n
  <2>6. QED BY <1>1, <2>3, <2>4, <2>5
<1>4. QED BY <1>2, <1>3

-----------------------------------------------------------------------------
(* Projections.                                                            *)

Status(u) ==
    IF Tokens(New, u, "about") \cup Tokens(New, u, "occurrence") # {} THEN "filterable"
    ELSE IF \E e \in u : Normalized[New][e.at].conflicts # {} THEN "conflict" ELSE "audit_only"

\* The fields of a projection.
LEMMA Projection ==
    ASSUME NEW p \in Payload
    PROVE  LET E == p.evidence
               u == Usable(E)
               readable == \A e \in E : Source[e.at].valid
           IN  R(p) = [feed |-> p.feed, evidence |-> IF p.feed THEN E ELSE u,
                       reason |-> IF ~readable THEN IF p.feed THEN "unlocated" ELSE "malformed"
                                  ELSE IF p.feed \/ E # {} THEN "none" ELSE "missing",
                       rev |-> New,
                       status |-> IF p.feed /\ ~readable THEN "unavailable" ELSE Status(u),
                       about |-> Tokens(New, u, "about"),
                       occurrence |-> Tokens(New, u, "occurrence"),
                       conflict |-> \E e \in u : Normalized[New][e.at].conflicts # {}]
<1> DEFINE E == p.evidence
           u == Usable(E)
           readable == \A e \in E : Source[e.at].valid
           conflict == \E e \in u : Normalized[New][e.at].conflicts # {}
           q == ProjectPayload(New, p, u)
<1>1. R(p) = [q EXCEPT
            !.evidence = IF p.feed THEN @ ELSE u,
            !.status = IF p.feed /\ ~readable THEN "unavailable" ELSE @,
            !.reason = IF ~readable THEN IF p.feed THEN "unlocated" ELSE "malformed"
                       ELSE IF p.feed \/ E # {} THEN "none" ELSE "missing"]
  BY Settings DEF R, Reproject, Usable
<1>2. q = [p EXCEPT !.rev = New, !.about = Tokens(New, u, "about"),
                    !.occurrence = Tokens(New, u, "occurrence"),
                    !.conflict = conflict, !.reason = "none", !.status = Status(u)]
  BY DEF ProjectPayload, Status
<1>3. p = [feed |-> p.feed, evidence |-> p.evidence, reason |-> p.reason, rev |-> p.rev,
           status |-> p.status, about |-> p.about, occurrence |-> p.occurrence,
           conflict |-> p.conflict]
  BY DEF Payload
<1> HIDE DEF q, readable, u, conflict
<1>4. q = [feed |-> p.feed, evidence |-> E, reason |-> "none", rev |-> New,
           status |-> Status(u), about |-> Tokens(New, u, "about"),
           occurrence |-> Tokens(New, u, "occurrence"), conflict |-> conflict]
  BY <1>2, <1>3
<1>5. R(p) = [feed |-> p.feed, evidence |-> IF p.feed THEN E ELSE u,
            reason |-> IF ~readable THEN IF p.feed THEN "unlocated" ELSE "malformed"
                       ELSE IF p.feed \/ E # {} THEN "none" ELSE "missing",
            rev |-> New, status |-> IF p.feed /\ ~readable THEN "unavailable" ELSE Status(u),
            about |-> Tokens(New, u, "about"),
            occurrence |-> Tokens(New, u, "occurrence"), conflict |-> conflict]
  BY <1>1, <1>4
<1>6. QED BY <1>5, Zenon DEF readable, u, conflict

\* Tokens are of the tree and of the catalog.
LEMMA TokensType ==
    ASSUME NEW cat \in Catalogs, NEW u, u \subseteq Evidence, NEW rel
    PROVE  Tokens(cat, u, rel) \subseteq Token
<1> DEFINE admitted == {e \in u : e.relation = rel /\ Accepted(cat, e)}
           scopes == UNION {Lineage(Normalized[cat][e.at].scope) : e \in admitted}
<1>1. \A e \in admitted : Normalized[cat][e.at].scope \in Scope
  <2>1. \A e \in admitted : e.at \in Locations /\ Normalized[cat][e.at].status = "resolved"
    BY DEF Accepted, Evidence
  <2>2. QED BY <2>1, NormalizeType
<1>2. scopes \subseteq Scope
  <2> HIDE DEF admitted
  <2>1. QED BY <1>1, LineageType
<1>3. \A s \in Scope : Release[cat].rev[s] \in Revision
  BY ScopeInputs DEF CatalogContent
<1>4. Tokens(cat, u, rel)
        = {<<s, Release[cat].rev[s]>> : s \in (scopes \ {World}) \ RelationConflicts(cat, u, rel)}
  BY DEF Tokens
<1> HIDE DEF scopes
<1>5. QED BY <1>2, <1>3, <1>4 DEF Token

\* A projection, of whatever catalog, is a payload.
LEMMA ReprojectType ==
    ASSUME NEW cat \in Catalogs, NEW p \in Payload
    PROVE  Reproject(cat, p) \in Payload
<1> DEFINE readable == \A e \in p.evidence : Source[e.at].valid
           u == IF readable THEN p.evidence ELSE {}
           q == ProjectPayload(cat, p, u)
<1>1. Reproject(cat, p) = [q EXCEPT
            !.evidence = IF p.feed THEN @ ELSE u,
            !.status = IF p.feed /\ ~readable THEN "unavailable" ELSE @,
            !.reason = IF ~readable THEN IF p.feed THEN "unlocated" ELSE "malformed"
                       ELSE IF p.feed \/ p.evidence # {} THEN "none" ELSE "missing"]
  BY DEF Reproject
<1>2. u \subseteq Evidence
  BY DEF Payload
<1> HIDE DEF readable, u
<1>3. Tokens(cat, u, "about") \subseteq Token /\ Tokens(cat, u, "occurrence") \subseteq Token
  BY <1>2, TokensType
<1>4. q \in Payload
  BY <1>3 DEF ProjectPayload, Payload
<1> HIDE DEF q
<1>5. QED BY <1>1, <1>2, <1>4 DEF Payload

LEMMA UsableTwice ==
    ASSUME NEW E
    PROVE  Usable(Usable(E)) = Usable(E)
BY DEF Usable

\* A projection keeps the usable evidence, and its tokens are that evidence's.
LEMMA ReprojectFaithful ==
    ASSUME NEW p \in Payload
    PROVE  /\ R(p) \in Payload /\ Faithful(R(p)) /\ R(p).rev = New
           /\ Usable(R(p).evidence) = Usable(p.evidence)
<1>1. R(p) \in Payload
  BY ReprojectType, Settings DEF R
<1>2. Usable(R(p).evidence) = Usable(p.evidence)
  BY Projection, UsableTwice
<1>3. R(p).about = Tokens(New, Usable(p.evidence), "about")
      /\ R(p).occurrence = Tokens(New, Usable(p.evidence), "occurrence") /\ R(p).rev = New
  BY Projection
<1>4. QED BY <1>1, <1>2, <1>3 DEF Faithful

LEMMA VisibleOf ==
    ASSUME NEW feed, NEW evidence, NEW reason, NEW rev, NEW status, NEW about,
           NEW occurrence, NEW conflict
    PROVE  Visible([feed |-> feed, evidence |-> evidence, reason |-> reason, rev |-> rev,
                    status |-> status, about |-> about, occurrence |-> occurrence,
                    conflict |-> conflict])
           = [feed |-> feed, evidence |-> evidence, reason |-> "none", rev |-> rev,
              status |-> status, about |-> about, occurrence |-> occurrence,
              conflict |-> conflict]
BY DEF Visible

\* reproject_payload (spatial_reprojection.py:33) reads what it wrote itself the last
\* time: projecting again changes the reason at most, and a third time nothing, whatever
\* the catalog and the evidence.
THEOREM ReprojectAgain ==
    ASSUME NEW p \in Payload
    PROVE  Visible(R(R(p))) = Visible(R(p)) /\ R(R(R(p))) = R(R(p))
<1> DEFINE u == Usable(p.evidence)
           readable == \A e \in p.evidence : Source[e.at].valid
           conflict == \E e \in u : Normalized[New][e.at].conflicts # {}
           Fields(evidence, reason, status) ==
               [feed |-> p.feed, evidence |-> evidence, reason |-> reason, rev |-> New,
                status |-> status, about |-> Tokens(New, u, "about"),
                occurrence |-> Tokens(New, u, "occurrence"), conflict |-> conflict]
<1>1. R(p) \in Payload /\ R(R(p)) \in Payload
  BY ReprojectFaithful
<1>2. CASE p.feed
  <2>1. R(p) = Fields(p.evidence, IF readable THEN "none" ELSE "unlocated",
                      IF readable THEN Status(u) ELSE "unavailable")
    BY <1>2, Projection
  <2>2. R(p).feed /\ R(p).evidence = p.evidence /\ R(p).feed = p.feed
    BY <1>2, <2>1
  <2>3. R(R(p)) = R(p)
    <3>1. R(R(p)) = Fields(p.evidence, IF readable THEN "none" ELSE "unlocated",
                      IF readable THEN Status(u) ELSE "unavailable")
      BY <1>1, <1>2, <2>2, Projection
    <3>2. QED BY <2>1, <3>1, Zenon
  <2>4. QED BY <2>3
<1>3. CASE ~p.feed
  <2>1. R(p) = Fields(u, IF ~readable THEN "malformed"
                         ELSE IF p.evidence # {} THEN "none" ELSE "missing", Status(u))
    BY <1>3, Projection
  <2>2. ASSUME NEW q \in Payload, ~q.feed, q.feed = p.feed, q.evidence = u
        PROVE  R(q) = Fields(u, IF u # {} THEN "none" ELSE "missing", Status(u))
    <3>1. (\A e \in u : Source[e.at].valid) /\ Usable(u) = u
      BY DEF Usable
    <3>2. QED BY <2>2, <3>1, Projection
  <2>3. ~R(p).feed /\ R(p).feed = p.feed /\ R(p).evidence = u
    BY <1>3, <2>1
  <2>4. R(R(p)) = Fields(u, IF u # {} THEN "none" ELSE "missing", Status(u))
    BY <1>1, <2>2, <2>3
  <2>5. ~R(R(p)).feed /\ R(R(p)).feed = p.feed /\ R(R(p)).evidence = u
    BY <1>3, <2>4
  <2>6. R(R(R(p))) = R(R(p))
    <3>1. R(R(R(p))) = Fields(u, IF u # {} THEN "none" ELSE "missing", Status(u))
      BY <1>1, <2>2, <2>5
    <3>2. QED BY <2>4, <3>1, Zenon
  <2>7. Visible(R(R(p))) = Visible(R(p))
    <3> HIDE DEF u, conflict
    <3>1. \A reason : Visible(Fields(u, reason, Status(u))) = Fields(u, "none", Status(u))
      BY VisibleOf, SMT
    <3>2. QED BY <2>1, <2>4, <3>1, Zenon
  <2>8. QED BY <2>6, <2>7
<1>4. QED BY <1>2, <1>3

\* A point that a projection leaves alone is neither stale nor unprojected.
LEMMA SettledCurrent ==
    ASSUME NEW p, p.rev = Target
    PROVE  CoverageStatus(p, Target) \notin {"stale", "unprojected"}
<1>1. p.rev # None
  BY Settings
<1>2. CASE p.status = "unavailable"
  BY <1>2 DEF CoverageStatus
<1>3. CASE p.status # "unavailable"
  <2>1. CoverageStatus(p, Target) \in {"filterable", "conflict", "audit_only", "inconsistent"}
    BY <1>1, <1>3 DEF CoverageStatus
  <2>2. QED BY <2>1
<1>4. QED BY <1>2, <1>3

-----------------------------------------------------------------------------
(* The steps outside the runs.                                             *)

LEMMA InitInv == Init => CutoverInv
<1> SUFFICES ASSUME Init PROVE CutoverInv
  OBVIOUS
<1>1. location \in [Record -> Row]
  <2>1. NeverWritten \in Row
    BY DEF NeverWritten, Row
  <2>2. \A r \in Record : raw[r] \in Locations
    BY Settings DEF Init
  <2>3. \A r \in Record : WriterRow(Old, raw[r]) \in Row
    BY <2>2, WriterServes, Settings
  <2>4. QED BY <2>1, <2>3 DEF Init
<1>2. points \in [Doc -> Payload]
  <2>1. \A d \in Doc : Stored[d].feed \in BOOLEAN /\ Stored[d].evidence \subseteq Evidence
    BY CutoverAssumption
  <2>2. \A d \in Doc : Unprojected(Stored[d].feed, Stored[d].evidence) \in Payload
    BY <2>1 DEF Unprojected, Payload
  <2>3. QED BY <2>2 DEF Init
<1>3. TypeInv
  BY <1>1, <1>2 DEF Init, TypeInv, NeoIdle, QIdle
<1>4. NeoInv
  BY DEF Init, NeoInv, NeoIdle
<1>5. QInv
  BY DEF Init, QInv, QIdle
<1>6. ServeInv
  BY Settings DEF Init, ServeInv
<1>7. QED BY <1>3, <1>4, <1>5, <1>6 DEF CutoverInv

\* Outside a window nothing runs.
LEMMA OpenIdle ==
    ASSUME CutoverInv, window = "open"
    PROVE  neoRun.at = "idle" /\ qRun.at = "idle"
BY DEF CutoverInv, NeoInv, QInv

LEMMA WriteLocationKeeps ==
    ASSUME CutoverInv, NEW r \in Record, NEW src \in Sources, WriteLocation(r, src)
    PROVE  CutoverInv'
<1> USE DEF CutoverInv
<1>1. window = "open" /\ neoRun.at = "idle" /\ qRun.at = "idle"
  BY OpenIdle DEF WriteLocation
<1>2. src \in Locations /\ served \in Catalogs
  BY Settings DEF TypeInv
<1>3. WriterRow(served, src) \in Row /\ (served = New => RowServes(WriterRow(served, src), src))
  BY <1>2, WriterServes
<1>4. TypeInv'
  BY <1>3 DEF TypeInv, WriteLocation, qVars, opVars
<1>5. NeoInv'
  BY <1>1 DEF NeoInv, WriteLocation
<1>6. QInv'
  BY <1>1 DEF QInv, ReportOK, WriteLocation, qVars, opVars
<1>7. ServeInv'
  <2>1. served' = served /\ window' = "open" /\ coverage' = coverage /\ points' = points
    BY <1>1 DEF WriteLocation, qVars, opVars
  <2>2. ASSUME served = New, NEW x \in Record PROVE Serves(x)'
    <3>1. CASE x = r
      <4>1. location'[x] = WriterRow(served, src) /\ raw'[x] = src
        BY <3>1 DEF WriteLocation, TypeInv
      <4>2. QED BY <1>3, <2>2, <4>1 DEF Serves
    <3>2. CASE x # r
      <4>1. location'[x] = location[x] /\ raw'[x] = raw[x]
        BY <3>2 DEF WriteLocation, TypeInv
      <4>2. QED BY <2>2, <4>1 DEF Serves, ServeInv
    <3>3. QED BY <3>1, <3>2
  <2>3. QED BY <1>1, <2>1, <2>2 DEF ServeInv, Faithful
<1>8. QED BY <1>4, <1>5, <1>6, <1>7

LEMMA WriteDocumentKeeps ==
    ASSUME CutoverInv, NEW d \in Doc, NEW doc \in Documents, WriteDocument(d, doc)
    PROVE  CutoverInv'
<1> USE DEF CutoverInv
<1> DEFINE p == Unprojected(doc.feed, doc.evidence)
<1>1. window = "open" /\ neoRun.at = "idle" /\ qRun.at = "idle"
  BY OpenIdle DEF WriteDocument
<1>2. p \in Payload
  <2>1. doc.feed \in BOOLEAN /\ doc.evidence \subseteq Evidence
    BY CutoverAssumption
  <2>2. QED BY <2>1 DEF Unprojected, Payload
<1>3. points' = [points EXCEPT ![d] = Reproject(served, p)]
  BY DEF WriteDocument
<1>4. Reproject(served, p) \in Payload /\ (served = New => Faithful(Reproject(served, p)))
  BY <1>2, ReprojectType, ReprojectFaithful, Settings DEF R, TypeInv
<1> HIDE DEF p
<1>5. TypeInv'
  BY <1>3, <1>4 DEF TypeInv, WriteDocument, neoVars, opVars
<1>6. NeoInv'
  BY <1>1 DEF NeoInv, WriteDocument, neoVars
<1>7. QInv'
  BY <1>1 DEF QInv, ReportOK, WriteDocument, opVars
<1>8. ServeInv'
  <2>1. /\ served' = served /\ window' = "open" /\ coverage' = coverage
        /\ location' = location /\ raw' = raw
    BY <1>1 DEF WriteDocument, neoVars, opVars
  <2>2. ASSUME served = New, NEW x \in Doc PROVE Faithful(points[x])'
    <3>1. points'[x] = IF x = d THEN Reproject(served, p) ELSE points[x]
      BY <1>3 DEF TypeInv
    <3>2. Faithful(points[x])
      BY <2>2 DEF ServeInv
    <3>3. QED BY <1>4, <2>2, <3>1, <3>2 DEF Faithful
  <2>3. QED BY <1>1, <2>1, <2>2 DEF ServeInv, Serves
<1>9. QED BY <1>5, <1>6, <1>7, <1>8

LEMMA PauseKeeps ==
    ASSUME CutoverInv, Pause
    PROVE  CutoverInv'
<1> USE DEF CutoverInv
<1>1. neoRun.at = "idle" /\ qRun.at = "idle" /\ neoRun' = neoRun /\ qRun' = qRun
  BY OpenIdle DEF Pause
<1>2. TypeInv'
  BY DEF TypeInv, Pause
<1>3. NeoInv'
  BY <1>1 DEF NeoInv, Pause
<1>4. QInv'
  BY <1>1 DEF QInv, ReportOK, Pause, NoCheckpoint
<1>5. ServeInv'
  BY Settings DEF ServeInv, Pause, Record
<1>6. QED BY <1>2, <1>3, <1>4, <1>5

LEMMA RollbackKeeps ==
    ASSUME CutoverInv, Rollback
    PROVE  CutoverInv'
<1> USE DEF CutoverInv
<1>1. TypeInv'
  BY DEF TypeInv, Rollback
<1>2. NeoInv'
  BY DEF NeoInv, Rollback, Idle
<1>3. QInv'
  BY DEF QInv, ReportOK, Rollback, Idle
<1>4. ServeInv'
  BY Settings DEF ServeInv, Rollback
<1>5. QED BY <1>1, <1>2, <1>3, <1>4

LEMMA StutterKeeps ==
    ASSUME CutoverInv, UNCHANGED vars
    PROVE  CutoverInv'
BY DEF vars, neoVars, qVars, opVars, CutoverInv, TypeInv, NeoInv, QInv, ServeInv, ReportOK,
       Lane, Serves, Faithful, Ahead, NeoPage, Planned, Published, Settled, Preview

LEMMA PublishKeeps ==
    ASSUME CutoverInv, PublishCoverage
    PROVE  CutoverInv'
<1> USE DEF CutoverInv
<1>1. UNCHANGED <<neoVars, qVars, window, served, backup>>
  BY DEF PublishCoverage
<1>2. TypeInv' /\ NeoInv' /\ QInv'
  BY <1>1 DEF neoVars, qVars, TypeInv, NeoInv, QInv, ReportOK, Lane, Serves, Ahead, NeoPage, Planned
<1>3. Published'
  BY <1>1 DEF neoVars, qVars, PublishCoverage, Idle, Published, Settled, Preview
<1>4. window' = "paused"
  BY DEF PublishCoverage
<1>5. (window' = "paused" /\ served' = New) => coverage' # None
  BY <1>1 DEF PublishCoverage, ServeInv, Published
<1>6. ServeInv'
  BY <1>1, <1>3, <1>5 DEF neoVars, qVars, PublishCoverage, ServeInv, Serves, Faithful
<1>7. QED BY <1>2, <1>6

\* Once the coverage is published the lane is settled, and no new file is taken.
LEMMA NewFileKeeps ==
    ASSUME CutoverInv, NewCheckpointFile
    PROVE  CutoverInv'
<1> USE DEF CutoverInv
<1>1. UNCHANGED <<neoVars, points, qReport, qRun, opVars>> /\ qCheckpoint' = NoCheckpoint
  BY DEF NewCheckpointFile
<1>2. window = "paused" /\ coverage = None /\ qRun.at = "idle"
  BY DEF NewCheckpointFile, Idle, ServeInv, Published
<1>3. TypeInv' /\ NeoInv'
  BY <1>1 DEF neoVars, opVars, TypeInv, NeoInv, Ahead, NeoPage, Planned, Serves
<1>4. QInv'
  BY <1>1, <1>2 DEF QInv, ReportOK, NoCheckpoint
<1>5. ServeInv'
  BY <1>1, <1>2 DEF neoVars, opVars, ServeInv, Serves, Faithful
<1>6. QED BY <1>3, <1>4, <1>5

LEMMA ActivateKeeps ==
    ASSUME CutoverInv, Activate
    PROVE  CutoverInv'
<1> USE DEF CutoverInv
<1>1. /\ UNCHANGED <<neoVars, qVars, window, backup, coverage>> /\ served' = New
      /\ window = "paused" /\ neoDone /\ coverage # None
      /\ neoRun.at = "idle" /\ qRun.at = "idle"
  BY DEF Activate, Idle
<1>2. Published
  BY <1>1 DEF ServeInv
<1>3. ASSUME NEW d \in Doc PROVE Faithful(points[d])
  <2>1. points[d] = R(points[d]) /\ points[d] \in Payload
    BY <1>2 DEF Published, Settled, Preview, R, TypeInv
  <2>2. QED BY <2>1, ReprojectFaithful
<1>4. TypeInv'
  BY <1>1 DEF neoVars, qVars, TypeInv
<1>5. NeoInv' /\ QInv'
  BY <1>1 DEF neoVars, qVars, NeoInv, QInv, ReportOK, Lane
<1>6. ServeInv'
  <2>1. \A r \in Record : Serves(r)
    BY <1>1 DEF ServeInv
  <2>2. (\A r \in Record : Serves(r)') /\ (\A d \in Doc : Faithful(points[d])')
    BY <1>1, <1>3, <2>1 DEF neoVars, qVars, Serves, Faithful
  <2>3. Published'
    BY <1>1, <1>2 DEF neoVars, qVars, Published, Settled, Preview
  <2>4. QED BY <1>1, <2>2, <2>3, Settings DEF ServeInv
<1>7. QED BY <1>4, <1>5, <1>6

LEMMA ResumeKeeps ==
    ASSUME CutoverInv, Resume
    PROVE  CutoverInv'
<1> USE DEF CutoverInv
<1>1. /\ UNCHANGED <<neoVars, qVars, served, backup, coverage>> /\ window' = "open"
      /\ window = "paused" /\ served = New
  BY DEF Resume
<1>2. neoRun.at = "idle" /\ qRun.at = "idle"
  BY <1>1, Settings DEF NeoInv, QInv
<1>3. TypeInv'
  BY <1>1 DEF neoVars, qVars, TypeInv
<1>4. NeoInv' /\ QInv'
  BY <1>1, <1>2 DEF neoVars, qVars, NeoInv, QInv, ReportOK, Lane
<1>5. ServeInv'
  BY <1>1, Settings DEF neoVars, qVars, ServeInv, Serves, Faithful
<1>6. QED BY <1>3, <1>4, <1>5

-----------------------------------------------------------------------------
(* The Neo4j run.                                                          *)

\* A step of Neo4j leaves the other store's invariant as it is.
LEMMA NeoLeavesQ ==
    ASSUME CutoverInv, UNCHANGED <<qVars, opVars>>
    PROVE  /\ QInv' /\ (Published' <=> Published)
           /\ \A d \in Doc : Faithful(points[d])' <=> Faithful(points[d])
BY DEF CutoverInv, qVars, opVars, QInv, ReportOK, Lane, Published, Settled, Preview, Faithful

LEMMA NeoPreviewKeeps ==
    ASSUME CutoverInv, NeoPreview, UNCHANGED <<qVars, opVars>>
    PROVE  CutoverInv'
<1> USE DEF CutoverInv
<1>1. UNCHANGED <<raw, location, neoCursor, neoRun, neoDone>> /\ neoRun.at = "idle"
  BY DEF NeoPreview
<1>2. TypeInv'
  BY <1>1 DEF qVars, opVars, TypeInv
<1>5. NeoInv'
  BY <1>1, BatchAssumption DEF NeoPreview, NeoInv, DryRun
<1>3. ServeInv'
  BY <1>1, NeoLeavesQ DEF qVars, opVars, ServeInv, Serves
<1>4. QED BY <1>2, <1>3, <1>5, NeoLeavesQ

LEMMA NeoApplyKeeps ==
    ASSUME CutoverInv, NeoApply, window = "paused", served = Old, UNCHANGED <<qVars, opVars>>
    PROVE  CutoverInv'
<1> USE DEF CutoverInv
<1>1. UNCHANGED <<raw, location, neoCursor, neoDone>> /\ neoRun.at = "idle"
  BY DEF NeoApply
<1>2. ServeInv'
  BY <1>1, NeoLeavesQ DEF qVars, opVars, ServeInv, Serves
<1>3. CASE ~Reviewed
  <2>1. neoRun' = neoRun
    BY <1>3 DEF NeoApply
  <2>2. TypeInv' /\ NeoInv'
    BY <1>1, <1>3, <2>1 DEF qVars, opVars, TypeInv, NeoInv, NeoApply
  <2>3. QED BY <1>2, <2>2, NeoLeavesQ
<1>4. CASE Reviewed
  <2>1. neoRun' = [at |-> "fetch", cursor |-> neoCursor, size |-> neoReport.size,
                   updates |-> << >>] /\ neoReport' = neoReport
    BY <1>4 DEF NeoApply, Started, NeoIdle
  <2>2. TypeInv'
    BY <1>1, <2>1 DEF qVars, opVars, TypeInv
  <2>3. neoReport = DryRun(neoCursor, neoReport.size)
    BY <1>4 DEF Reviewed
  <2>4. \A r \in Record : r > neoCursor =>
           /\ r \in DOMAIN neoReport.plan
           /\ neoReport.rows[r] = <<raw[r], location[r]>> /\ neoReport.plan[r] = Planned(r)
    <3>1. neoCursor \in Nat /\ NRecords \in Nat
      BY BatchAssumption DEF TypeInv
    <3>2. \A r \in Record : r > neoCursor => r \in (neoCursor + 1)..NRecords
      BY <3>1 DEF Record
    <3>3. neoReport.rows = [r \in (neoCursor + 1)..NRecords |-> <<raw[r], location[r]>>]
          /\ neoReport.plan = [r \in (neoCursor + 1)..NRecords |-> Planned(r)]
      BY <2>3 DEF DryRun
    <3>4. QED BY <3>2, <3>3
  <2>5. neoReport.size \in Nat \ {0}
    BY DEF NeoApply, NeoInv
  <2>6. \A r \in Record : Planned(r)' = Planned(r) /\ (Ahead(r)' => r > neoCursor)
    BY <1>1, <2>1 DEF Planned, Ahead, TypeInv
  <2>7. /\ window' = "paused" /\ served' = Old /\ neoCursor' = neoCursor
        /\ raw' = raw /\ location' = location
    BY <1>1 DEF qVars, opVars
  <2>8. NeoInv'
    BY <2>1, <2>4, <2>5, <2>6, <2>7 DEF NeoInv
  <2>9. QED BY <1>2, <2>2, <2>8, NeoLeavesQ
<1>5. QED BY <1>3, <1>4

\* A page holds the records behind the cursor, a full one or all that are left.
LEMMA PageSpan ==
    ASSUME CutoverInv, neoRun.at # "idle"
    PROVE  /\ IsFiniteSet(NeoPage) /\ Cardinality(NeoPage) \in 0..neoRun.size
           /\ \A r \in Record :
                r \in NeoPage <=> r > neoCursor /\ r <= neoCursor + neoRun.size
           /\ Cardinality(NeoPage) < neoRun.size =>
                \A r \in Record : r > neoCursor => r \in NeoPage
<1> DEFINE c == neoRun.cursor
           k == neoRun.size
<1>1. c \in Nat /\ k \in Nat \ {0} /\ c = neoCursor /\ NRecords \in Nat
  BY BatchAssumption DEF CutoverInv, NeoInv, TypeInv
<1>2. IsFiniteSet((c + 1)..(c + k)) /\ Cardinality((c + 1)..(c + k)) = k
  <2>1. c + 1 \in Int /\ c + k \in Int
    BY <1>1
  <2>2. IsFiniteSet((c + 1)..(c + k))
        /\ Cardinality((c + 1)..(c + k)) = IF c + 1 > c + k THEN 0 ELSE (c + k) - (c + 1) + 1
    BY <2>1, FS_Interval, Zenon
  <2>3. (IF c + 1 > c + k THEN 0 ELSE (c + k) - (c + 1) + 1) = k
    BY <1>1
  <2>4. QED BY <2>2, <2>3
<1>3. NeoPage \subseteq (c + 1)..(c + k)
  BY <1>1 DEF NeoPage, Record
<1>4. IsFiniteSet(NeoPage) /\ Cardinality(NeoPage) \in 0..k
  <2>1. IsFiniteSet(NeoPage) /\ Cardinality(NeoPage) <= Cardinality((c + 1)..(c + k))
    BY <1>2, <1>3, FS_Subset, Zenon
  <2>2. Cardinality(NeoPage) \in Nat
    BY <2>1, FS_CardinalityType
  <2>3. QED BY <1>1, <1>2, <2>1, <2>2
<1>5. Cardinality(NeoPage) < k => \A r \in Record : r > c => r \in NeoPage
  <2>1. CASE c + k <= NRecords
    <3>1. NeoPage = (c + 1)..(c + k)
      BY <1>1, <2>1 DEF NeoPage, Record
    <3>2. QED BY <1>1, <1>2, <3>1
  <2>2. CASE ~(c + k <= NRecords)
    BY <1>1, <2>2 DEF NeoPage, Record
  <2>3. QED BY <2>1, <2>2
<1>6. QED BY <1>1, <1>4, <1>5 DEF NeoPage, Record

LEMMA NeoFetchKeeps ==
    ASSUME CutoverInv, NeoFetch, UNCHANGED <<qVars, opVars>>
    PROVE  CutoverInv'
<1> USE DEF CutoverInv
<1>1. UNCHANGED <<raw, location, neoCursor, neoReport>> /\ neoRun.at = "fetch"
  BY DEF NeoFetch
<1>2. window' = window /\ served' = served /\ coverage' = coverage /\ backup' = backup
      /\ points' = points /\ qRun' = qRun
  BY DEF opVars, qVars
<1>3. CASE NeoPage = {}
  <2>1. neoRun' = NeoIdle /\ neoDone' = TRUE
    BY <1>3 DEF NeoFetch
  <2>2. \A r \in Record : r <= neoCursor
    <3>1. Cardinality(NeoPage) = 0 /\ neoRun.size \in Nat \ {0} /\ neoCursor \in Nat
      BY <1>1, <1>3, FS_EmptySet DEF NeoInv, TypeInv
    <3>2. \A r \in Record : r > neoCursor => r \in NeoPage
      BY <1>1, <3>1, PageSpan
    <3>3. QED BY <1>3, <3>1, <3>2 DEF Record
  <2>3. TypeInv' /\ NeoInv'
    BY <1>1, <1>2, <2>1 DEF TypeInv, NeoInv, NeoIdle
  <2>4. ServeInv'
    BY <1>1, <1>2, <2>2, NeoLeavesQ DEF ServeInv, Serves
  <2>5. QED BY <2>3, <2>4, NeoLeavesQ
<1>4. CASE NeoPage # {}
  <2>1. neoRun' = [neoRun EXCEPT !.at = "write", !.updates = [r \in NeoPage |-> Planned(r)]]
        /\ neoDone' = neoDone
    BY <1>4 DEF NeoFetch
  <2>2. /\ neoRun'.at = "write" /\ neoRun'.cursor = neoRun.cursor /\ neoRun'.size = neoRun.size
        /\ neoRun'.updates = [r \in NeoPage |-> Planned(r)]
    BY <2>1 DEF TypeInv
  <2>3. TypeInv'
    BY <1>1, <1>2, <2>1 DEF TypeInv
  <2>4. NeoPage' = NeoPage /\ \A r \in Record : Planned(r)' = Planned(r) /\ (Ahead(r)' <=> Ahead(r))
    BY <1>1, <2>2 DEF NeoPage, Planned, Ahead
  <2>5. NeoPage \subseteq Record
    BY DEF NeoPage
  <2>6. NeoInv'
    BY <1>1, <1>2, <2>2, <2>4, <2>5 DEF NeoInv
  <2>7. ServeInv'
    BY <1>1, <1>2, <2>1, NeoLeavesQ DEF ServeInv, Serves
  <2>8. QED BY <2>3, <2>6, <2>7, NeoLeavesQ
<1>5. QED BY <1>3, <1>4

\* What a write of Neo4j does to a record, and that it was reviewed.
LEMMA NeoWriteReviewed ==
    ASSUME CutoverInv, NeoWrite, NEW r \in Record
    PROVE  /\ location'[r] = IF r \in NeoPage THEN Planned(r) ELSE location[r]
           /\ r \in NeoPage => /\ r \in DOMAIN neoReport.plan
                               /\ neoReport.rows[r] = <<raw[r], location[r]>>
                               /\ neoReport.plan[r] = Planned(r)
<1>1. neoRun.at = "write"
  BY DEF NeoWrite
<1>2. DOMAIN neoRun.updates = NeoPage /\ (r \in NeoPage => neoRun.updates[r] = Planned(r))
  BY <1>1 DEF CutoverInv, NeoInv
<1>3. location'[r] = IF r \in NeoPage THEN Planned(r) ELSE location[r]
  BY <1>2 DEF NeoWrite
<1>4. r \in NeoPage => Ahead(r) /\ r > neoCursor
  <2>1. r \in NeoPage => r > neoCursor
    BY <1>1, PageSpan
  <2>2. QED BY <1>1, <2>1 DEF Ahead, CutoverInv, TypeInv, Record
<1>5. QED BY <1>1, <1>3, <1>4 DEF CutoverInv, NeoInv

LEMMA NeoWriteKeeps ==
    ASSUME CutoverInv, NeoWrite, UNCHANGED <<qVars, opVars>>
    PROVE  CutoverInv'
<1> USE DEF CutoverInv
<1>1. UNCHANGED <<raw, neoCursor, neoReport, neoDone>> /\ neoRun.at = "write"
      /\ neoRun' = [neoRun EXCEPT !.at = "save"]
  BY DEF NeoWrite
<1>2. window' = window /\ served' = served /\ coverage' = coverage /\ backup' = backup
      /\ points' = points /\ qRun' = qRun /\ window = "paused" /\ served = Old
  BY <1>1 DEF opVars, qVars, NeoInv
<1>3. /\ neoRun'.at = "save" /\ neoRun'.cursor = neoRun.cursor /\ neoRun'.size = neoRun.size
      /\ neoRun'.updates = neoRun.updates
  BY <1>1 DEF TypeInv
<1>4. \A r \in Record : Planned(r) \in Row /\ RowServes(Planned(r), raw[r])
  <2>1. \A r \in Record : raw[r] \in Locations /\ location[r] \in Row
    BY Settings DEF TypeInv
  <2>2. QED BY <2>1, PlanServes DEF Planned
<1>5. TypeInv'
  <2>1. \A r \in Record : location'[r] \in Row
    BY <1>4, NeoWriteReviewed DEF TypeInv
  <2>2. location' = [r \in Record |-> location'[r]]
    BY DEF NeoWrite
  <2>3. location' \in [Record -> Row]
    BY <2>1, <2>2
  <2>4. QED BY <1>1, <1>2, <2>3 DEF TypeInv
<1>6. NeoPage' = NeoPage /\ NeoPage \subseteq Record
  BY <1>3 DEF NeoPage
<1>7. \A r \in Record : r \notin NeoPage => location'[r] = location[r] /\ Planned(r)' = Planned(r)
  BY <1>1, NeoWriteReviewed DEF Planned
<1>8. \A r \in Record : Ahead(r)' => r \notin NeoPage /\ Ahead(r)
  BY <1>1, <1>3, PageSpan DEF Ahead, TypeInv, NeoInv, Record
<1>9. \A r \in NeoPage : Serves(r)'
  BY <1>1, <1>4, <1>6, NeoWriteReviewed DEF Serves
<1>10. NeoInv'
  BY <1>1, <1>2, <1>3, <1>6, <1>7, <1>8, <1>9 DEF NeoInv
<1>11. \A r \in Record : Serves(r) => Serves(r)'
  BY <1>1, <1>7, <1>9 DEF Serves
<1>12. ServeInv'
  BY <1>1, <1>2, <1>11, NeoLeavesQ, Settings DEF ServeInv
<1>13. QED BY <1>5, <1>10, <1>12, NeoLeavesQ

LEMMA NeoSaveKeeps ==
    ASSUME CutoverInv, NeoSave, UNCHANGED <<qVars, opVars>>
    PROVE  CutoverInv'
<1> USE DEF CutoverInv
<1> DEFINE k == Cardinality(DOMAIN neoRun.updates)
           next == neoRun.cursor + k
<1>1. UNCHANGED <<raw, location, neoReport>> /\ neoRun.at = "save" /\ neoCursor' = next
  BY DEF NeoSave
<1>2. window' = window /\ served' = served /\ coverage' = coverage /\ backup' = backup
      /\ points' = points /\ qRun' = qRun /\ window = "paused" /\ served = Old
  BY <1>1 DEF opVars, qVars, NeoInv
<1>3. /\ k = Cardinality(NeoPage) /\ k \in 0..neoRun.size /\ neoRun.cursor = neoCursor
      /\ neoRun.size \in Nat \ {0} /\ neoCursor \in Nat
      /\ \A r \in NeoPage : Serves(r)
  BY <1>1, PageSpan DEF NeoInv, TypeInv
<1> HIDE DEF k
<1>4. \A r \in Record : Serves(r)' <=> Serves(r)
  BY <1>1 DEF Serves
<1>5. \A r \in Record : r <= next => r <= neoCursor \/ r \in NeoPage
  BY <1>1, <1>3, PageSpan DEF Record
<1>6. \A r \in Record : r <= next => Serves(r)
  BY <1>2, <1>3, <1>5 DEF ServeInv
<1>7. CASE next < neoRun.cursor + neoRun.size
  <2>1. neoRun' = NeoIdle /\ neoDone' = TRUE
    BY <1>7 DEF NeoSave, k
  <2>2. \A r \in Record : Serves(r)
    <3>1. \A r \in Record : r > neoCursor => r \in NeoPage
      BY <1>1, <1>3, <1>7, PageSpan
    <3>2. QED BY <1>2, <1>3, <3>1 DEF ServeInv, Record
  <2>3. TypeInv' /\ NeoInv'
    BY <1>1, <1>2, <1>3, <2>1 DEF TypeInv, NeoInv, NeoIdle
  <2>4. ServeInv'
    BY <1>2, <1>4, <2>2, NeoLeavesQ, Settings DEF ServeInv
  <2>5. QED BY <2>3, <2>4, NeoLeavesQ
<1>8. CASE ~(next < neoRun.cursor + neoRun.size)
  <2>1. neoRun' = [neoRun EXCEPT !.at = "fetch", !.cursor = next, !.updates = << >>]
        /\ neoDone' = neoDone
    BY <1>8 DEF NeoSave, k
  <2>2. neoRun'.at = "fetch" /\ neoRun'.cursor = next /\ neoRun'.size = neoRun.size
    BY <2>1 DEF TypeInv
  <2>3. next = neoCursor + neoRun.size
    BY <1>3, <1>8
  <2>4. TypeInv'
    <3>1. neoRun' = [at |-> "fetch", cursor |-> next, size |-> neoRun.size, updates |-> << >>]
      BY <2>1 DEF TypeInv
    <3>2. neoRun' = [at |-> neoRun'.at, cursor |-> neoRun'.cursor, size |-> neoRun'.size,
                     updates |-> neoRun'.updates] /\ neoRun'.at = "fetch"
      BY <3>1
    <3>3. neoCursor' \in Nat
      BY <1>1, <1>3
    <3>4. QED BY <1>1, <1>2, <3>2, <3>3 DEF TypeInv
  <2>5. \A r \in Record : Planned(r)' = Planned(r) /\ (Ahead(r)' => Ahead(r) /\ r > neoCursor)
    BY <1>1, <1>3, <2>2, <2>3 DEF Planned, Ahead, Record
  <2>6. \A r \in Record : r > neoCursor' => r > neoCursor
    BY <1>1, <1>3, <2>3 DEF Record
  <2>7. NeoInv'
    BY <1>1, <1>2, <1>3, <2>2, <2>5, <2>6 DEF NeoInv
  <2>8. ServeInv'
    BY <1>1, <1>2, <1>4, <1>6, <2>1, NeoLeavesQ, Settings DEF ServeInv
  <2>9. QED BY <2>4, <2>7, <2>8, NeoLeavesQ
<1>9. QED BY <1>7, <1>8

LEMMA NeoKilledKeeps ==
    ASSUME CutoverInv, NeoKilled, UNCHANGED <<qVars, opVars>>
    PROVE  CutoverInv'
<1> USE DEF CutoverInv
<1>1. UNCHANGED <<raw, location, neoCursor, neoReport, neoDone>> /\ neoRun' = NeoIdle
  BY DEF NeoKilled
<1>2. TypeInv' /\ NeoInv'
  BY <1>1 DEF qVars, opVars, TypeInv, NeoInv, NeoIdle
<1>3. ServeInv'
  BY <1>1, NeoLeavesQ DEF qVars, opVars, ServeInv, Serves
<1>4. QED BY <1>2, <1>3, NeoLeavesQ

-----------------------------------------------------------------------------
(* The Qdrant run.                                                         *)

\* A step of Qdrant that moves no point leaves the rest of the invariant.
LEMMA QLeavesNeo ==
    ASSUME CutoverInv, UNCHANGED <<neoVars, opVars>>
    PROVE  /\ NeoInv' /\ \A r \in Record : Serves(r)' <=> Serves(r)
BY DEF CutoverInv, neoVars, opVars, NeoInv, Ahead, NeoPage, Planned, Serves

LEMMA QPreviewKeeps ==
    ASSUME CutoverInv, QPreview, qCheckpoint.approved = None, UNCHANGED <<neoVars, opVars>>
    PROVE  CutoverInv'
<1> USE DEF CutoverInv
<1>1. UNCHANGED <<points, qCheckpoint, qRun>> /\ qRun.at = "idle" /\ qReport' = Preview
  BY DEF QPreview
<1>2. TypeInv'
  BY <1>1 DEF neoVars, opVars, TypeInv
<1>3. ReportOK(Preview)
  BY DEF ReportOK, Preview, R, TypeInv
<1>4. ReportOK(qReport)'
  BY <1>1, <1>3 DEF ReportOK
<1>5. QInv'
  BY <1>1, <1>4 DEF QInv
<1>6. ServeInv'
  BY <1>1, QLeavesNeo DEF neoVars, opVars, ServeInv, Published, Settled, Preview, Faithful
<1>7. QED BY <1>2, <1>5, <1>6, QLeavesNeo

LEMMA QApplyKeeps ==
    ASSUME CutoverInv, QApply, window = "paused", served = Old, UNCHANGED <<neoVars, opVars>>
    PROVE  CutoverInv'
<1> USE DEF CutoverInv
<1>1. UNCHANGED <<points, qCheckpoint>> /\ qRun.at = "idle" /\ qReport # None /\ ~qCheckpoint.complete
      /\ qCheckpoint.approved \in {None, qReport}
  BY DEF QApply
<1>2. coverage = None
  BY <1>1 DEF ServeInv, Published
<1>3. ServeInv'
  BY <1>1, <1>2, QLeavesNeo DEF neoVars, opVars, ServeInv, Faithful
<1>4. CASE qCheckpoint.approved = None /\ qReport # Preview
  <2>1. qReport' = None /\ qRun' = qRun
    BY <1>4 DEF QApply
  <2>2. TypeInv' /\ QInv'
    BY <1>1, <1>4, <2>1 DEF neoVars, opVars, TypeInv, QInv
  <2>3. QED BY <1>3, <2>2, QLeavesNeo
<1>5. CASE ~(qCheckpoint.approved = None /\ qReport # Preview)
  <2>1. qRun' = [at |-> "fetch", updates |-> << >>, next |-> qCheckpoint.cursor]
        /\ qReport' = qReport
    BY <1>5 DEF QApply, QIdle
  <2>2. TypeInv'
    BY <1>1, <2>1 DEF neoVars, opVars, TypeInv
  <2>3. Lane
    <3>1. CASE qCheckpoint.approved = None
      <4>1. qReport = Preview
        BY <1>5, <3>1
      <4>2. \A d \in Doc : qReport.rows[d] = points[d]
        BY <4>1 DEF Preview
      <4>3. QED BY <4>2 DEF Lane
    <3>2. CASE qCheckpoint.approved # None
      BY <1>1, <3>2 DEF QInv
    <3>3. QED BY <3>1, <3>2
  <2>4. Lane' /\ ReportOK(qReport)'
    BY <1>1, <2>1, <2>3 DEF Lane, ReportOK, QInv
  <2>5. QInv'
    BY <1>1, <2>1, <2>4 DEF neoVars, opVars, QInv
  <2>6. QED BY <1>3, <2>2, <2>5, QLeavesNeo
<1>6. QED BY <1>4, <1>5

LEMMA QFetchKeeps ==
    ASSUME CutoverInv, QFetch, UNCHANGED <<neoVars, opVars>>
    PROVE  CutoverInv'
<1> USE DEF CutoverInv
<1>1. UNCHANGED <<points, qCheckpoint, qReport>> /\ qRun.at = "fetch"
      /\ qRun' = [at |-> "write", next |-> After(qRun.next),
                  updates |-> [d \in Scroll(qRun.next) |-> Reproject(Target, points[d])]]
  BY DEF QFetch
<1>2. /\ qRun' = [at |-> qRun'.at, updates |-> qRun'.updates, next |-> qRun'.next]
      /\ qRun'.at = "write"
      /\ \A d \in DOMAIN qRun'.updates : qRun'.updates[d] = R(points[d])
  BY <1>1 DEF R
<1>3. TypeInv'
  BY <1>1, <1>2 DEF neoVars, opVars, TypeInv
<1>4. coverage = None
  BY <1>1 DEF ServeInv, Published, QInv
<1>5. QInv'
  <2>1. Lane' <=> Lane
    BY <1>1 DEF Lane
  <2>2. ReportOK(qReport)' <=> ReportOK(qReport)
    BY <1>1 DEF ReportOK
  <2>3. \A d : points'[d] = points[d]
    BY <1>1
  <2>4. QED BY <1>1, <1>2, <2>1, <2>2, <2>3 DEF neoVars, opVars, QInv
<1>6. ServeInv'
  BY <1>1, <1>4, QLeavesNeo DEF neoVars, opVars, ServeInv, Faithful
<1>7. QED BY <1>3, <1>5, <1>6, QLeavesNeo

\* What a write of Qdrant does to a point, and that it was reviewed.
LEMMA QWriteReviewed ==
    ASSUME CutoverInv, QWrite, NEW d \in Doc
    PROVE  /\ points'[d] \in {points[d], R(points[d])}
           /\ points'[d] \in Payload
           /\ points'[d] \in {qReport.rows[d], qReport.plan[d], R(qReport.plan[d])}
           /\ points'[d] # points[d] =>
                /\ points[d] \in {qReport.rows[d], qReport.plan[d]}
                /\ Visible(points'[d]) = Visible(qReport.plan[d])
<1>1. qRun.at = "write"
  BY DEF QWrite
<1>2. points'[d] \in {points[d], R(points[d])}
  BY <1>1 DEF QWrite, CutoverInv, QInv
<1>3. points[d] \in Payload /\ R(points[d]) \in Payload
  BY ReprojectFaithful DEF CutoverInv, TypeInv
<1>4. /\ qReport.rows[d] \in Payload /\ qReport.plan[d] = R(qReport.rows[d])
      /\ points[d] \in {qReport.rows[d], qReport.plan[d], R(qReport.plan[d])}
  BY <1>1 DEF CutoverInv, QInv, ReportOK, Lane
<1>5. /\ Visible(R(R(qReport.rows[d]))) = Visible(R(qReport.rows[d]))
      /\ R(R(R(qReport.rows[d]))) = R(R(qReport.rows[d]))
  BY <1>4, ReprojectAgain
<1>6. QED BY <1>2, <1>3, <1>4, <1>5

LEMMA QWriteKeeps ==
    ASSUME CutoverInv, QWrite, UNCHANGED <<neoVars, opVars>>
    PROVE  CutoverInv'
<1> USE DEF CutoverInv
<1>1. UNCHANGED <<qCheckpoint, qReport>> /\ qRun.at = "write"
      /\ qRun' = [qRun EXCEPT !.at = "save", !.updates = << >>]
  BY DEF QWrite
<1>2. qRun' = [at |-> qRun'.at, updates |-> qRun'.updates, next |-> qRun'.next]
      /\ qRun'.at = "save"
  BY <1>1 DEF TypeInv
<1>3. TypeInv'
  <2>1. \A d \in Doc : points'[d] \in Payload
    BY QWriteReviewed
  <2>2. points' = [d \in Doc |-> points'[d]]
    BY DEF QWrite
  <2>3. points' \in [Doc -> Payload]
    BY <2>1, <2>2
  <2>4. QED BY <1>2, <2>3 DEF neoVars, opVars, TypeInv
<1>4. window = "paused" /\ served = Old /\ coverage = None
  BY <1>1 DEF ServeInv, Published, QInv
<1>5. Lane' /\ (ReportOK(qReport)' <=> ReportOK(qReport))
  BY <1>1, QWriteReviewed DEF Lane, ReportOK
<1>6. QInv'
  BY <1>1, <1>2, <1>5 DEF neoVars, opVars, QInv
<1>7. ServeInv'
  BY <1>4, QLeavesNeo, Settings DEF neoVars, opVars, ServeInv
<1>8. QED BY <1>3, <1>6, <1>7, QLeavesNeo

LEMMA QSaveKeeps ==
    ASSUME CutoverInv, QSave, UNCHANGED <<neoVars, opVars>>
    PROVE  CutoverInv'
<1> USE DEF CutoverInv
<1>1. /\ UNCHANGED <<points, qReport>> /\ qRun.at = "save"
      /\ qCheckpoint' = [cursor |-> qRun.next, complete |-> qRun.next = None,
                         approved |-> qReport]
      /\ qRun' = IF qRun.next = None THEN QIdle ELSE [qRun EXCEPT !.at = "fetch"]
  BY DEF QSave
<1>2. /\ qRun' = [at |-> qRun'.at, updates |-> qRun'.updates, next |-> qRun'.next]
      /\ qRun'.at = IF qRun.next = None THEN "idle" ELSE "fetch"
  <2>1. CASE qRun.next = None
    BY <1>1, <2>1 DEF QIdle
  <2>2. CASE qRun.next # None
    <3>1. qRun' = [at |-> "fetch", updates |-> qRun.updates, next |-> qRun.next]
      BY <1>1, <2>2 DEF TypeInv
    <3>2. QED BY <2>2, <3>1
  <2>3. QED BY <2>1, <2>2
<1>3. TypeInv'
  BY <1>1, <1>2 DEF neoVars, opVars, TypeInv
<1>4. window = "paused" /\ served = Old /\ coverage = None /\ qReport # None /\ Lane
  BY <1>1 DEF ServeInv, Published, QInv
<1>5. (Lane' <=> Lane) /\ (ReportOK(qReport)' <=> ReportOK(qReport))
  BY <1>1 DEF Lane, ReportOK
<1>6. QInv'
  BY <1>1, <1>2, <1>4, <1>5 DEF neoVars, opVars, QInv
<1>7. ServeInv'
  BY <1>4, QLeavesNeo, Settings DEF neoVars, opVars, ServeInv
<1>8. QED BY <1>3, <1>6, <1>7, QLeavesNeo

LEMMA QKilledKeeps ==
    ASSUME CutoverInv, QKilled, UNCHANGED <<neoVars, opVars>>
    PROVE  CutoverInv'
<1> USE DEF CutoverInv
<1>1. UNCHANGED <<points, qCheckpoint, qReport>> /\ qRun.at # "idle" /\ qRun' = QIdle
  BY DEF QKilled
<1>2. TypeInv'
  BY <1>1 DEF neoVars, opVars, TypeInv, QIdle
<1>3. (Lane' <=> Lane) /\ (ReportOK(qReport)' <=> ReportOK(qReport))
  BY <1>1 DEF Lane, ReportOK
<1>4. QInv'
  BY <1>1, <1>3 DEF neoVars, opVars, QInv, QIdle
<1>5. window = "paused" /\ served = Old /\ coverage = None
  BY <1>1 DEF ServeInv, Published, QInv
<1>6. ServeInv'
  BY <1>5, QLeavesNeo, Settings DEF neoVars, opVars, ServeInv
<1>7. QED BY <1>2, <1>4, <1>6, QLeavesNeo

-----------------------------------------------------------------------------
(* The theorems.                                                           *)

LEMMA NextKeeps == CutoverInv /\ [Next]_vars => CutoverInv'
<1> SUFFICES ASSUME CutoverInv, [Next]_vars PROVE CutoverInv'
  OBVIOUS
<1>1. CASE \E r \in Record, src \in Sources : WriteLocation(r, src)
  BY <1>1, WriteLocationKeeps
<1>2. CASE \E d \in Doc, doc \in Documents : WriteDocument(d, doc)
  BY <1>2, WriteDocumentKeeps
<1>3. CASE Pause
  BY <1>3, PauseKeeps
<1>4. CASE OperatorStarts
  <2>1. window = "paused" /\ served = Old /\ UNCHANGED opVars
    BY <1>4 DEF OperatorStarts
  <2>2. CASE NeoPreview /\ UNCHANGED qVars
    BY <2>1, <2>2, NeoPreviewKeeps
  <2>3. CASE NeoApply /\ UNCHANGED qVars
    BY <2>1, <2>3, NeoApplyKeeps
  <2>4. CASE qCheckpoint.approved = None /\ QPreview /\ UNCHANGED neoVars
    BY <2>1, <2>4, QPreviewKeeps
  <2>5. CASE QApply /\ UNCHANGED neoVars
    BY <2>1, <2>5, QApplyKeeps
  <2>6. QED BY <1>4, <2>2, <2>3, <2>4, <2>5 DEF OperatorStarts
<1>5. CASE RunSteps
  <2>1. UNCHANGED opVars
    BY <1>5 DEF RunSteps
  <2>2. CASE (NeoFetch \/ NeoWrite \/ NeoSave) /\ UNCHANGED qVars
    BY <2>1, <2>2, NeoFetchKeeps, NeoWriteKeeps, NeoSaveKeeps
  <2>3. CASE (QFetch \/ QWrite \/ QSave) /\ UNCHANGED neoVars
    BY <2>1, <2>3, QFetchKeeps, QWriteKeeps, QSaveKeeps
  <2>4. QED BY <1>5, <2>2, <2>3 DEF RunSteps
<1>6. CASE RunKilled
  BY <1>6, NeoKilledKeeps, QKilledKeeps DEF RunKilled
<1>7. CASE PublishCoverage
  BY <1>7, PublishKeeps
<1>8. CASE NewCheckpointFile
  BY <1>8, NewFileKeeps
<1>9. CASE Activate
  BY <1>9, ActivateKeeps
<1>10. CASE Resume
  BY <1>10, ResumeKeeps
<1>11. CASE Rollback
  BY <1>11, RollbackKeeps
<1>12. CASE UNCHANGED vars
  BY <1>12, StutterKeeps
<1>13. QED BY <1>1, <1>2, <1>3, <1>4, <1>5, <1>6, <1>7, <1>8, <1>9, <1>10, <1>11, <1>12
       DEF Next, Onward

\* The invariant holds in every reachable state.
THEOREM CutoverInvariant == Spec => []CutoverInv
BY InitInv, NextKeeps, PTL DEF Spec

\* What the normaliser resolves is what all its evidence says
\* (normalize_location), for every location a store can hold.
THEOREM ResolvedAlways == Spec => []ResolvedByAllEvidence
<1>1. CutoverInv => ResolvedByAllEvidence
  <2> SUFFICES ASSUME CutoverInv, NEW cat \in {Old, New},
                      NEW src \in {raw[r] : r \in Record}
                            \cup {e.at : e \in UNION {points[d].evidence : d \in Doc}}
               PROVE  LET inner == Terminal(Matches(cat, Source[src].cell))
                          E     == KnownScopes(cat, src) \cup inner
                          n     == Normalized[cat][src]
                      IN  /\ n.status = "resolved" <=>
                               /\ ~UnknownCode(cat, src) /\ E # {}
                               /\ \A s, t \in E : Compatible(s, t)
                               /\ \A s \in inner : s \notin EdgeScopes(cat, Source[src].cell)
                          /\ n.status = "resolved" =>
                               /\ n.scope \in E /\ n.rev = Release[cat].rev[n.scope]
                               /\ \A s \in E : s \in Lineage(n.scope)
    BY Zenon DEF ResolvedByAllEvidence
  <2>1. cat \in Catalogs
    BY Settings
  <2>2. src \in Locations
    <3>1. \A r \in Record : raw[r] \in Locations
      BY Settings DEF CutoverInv, TypeInv
    <3>2. \A d \in Doc : points[d].evidence \subseteq Evidence
      BY DEF CutoverInv, TypeInv, Payload
    <3>3. \A e \in Evidence : e.at \in Locations
      BY DEF Evidence
    <3>4. QED BY <3>1, <3>2, <3>3
  <2>3. Normalized[cat][src] = NormalizeLocation(cat, src)
    BY <2>1, <2>2 DEF Normalized
  <2>4. QED BY <2>1, <2>2, <2>3, ResolvedIsAgreed, Zenon
<1>2. QED BY <1>1, CutoverInvariant, PTL

LEMMA FourChosen ==
    ASSUME NEW a \in BOOLEAN, NEW b \in BOOLEAN, NEW c \in BOOLEAN, NEW d \in BOOLEAN
    PROVE  {i \in 1..4 : <<a, b, c, d>>[i]}
             = {i \in 1..4 : (i = 1 /\ a) \/ (i = 2 /\ b) \/ (i = 3 /\ c) \/ (i = 4 /\ d)}
<1>1. ASSUME NEW i \in 1..4
      PROVE  <<a, b, c, d>>[i] = IF i = 1 THEN a ELSE IF i = 2 THEN b ELSE IF i = 3 THEN c ELSE d
  OBVIOUS
<1>2. ASSUME NEW i \in 1..4
      PROVE  <<a, b, c, d>>[i]
               <=> ((i = 1 /\ a) \/ (i = 2 /\ b) \/ (i = 3 /\ c) \/ (i = 4 /\ d))
  <2>1. CASE i = 1
    <3>1. <<a, b, c, d>>[i] = a
      BY <1>1, <2>1
    <3>2. QED BY <2>1, <3>1
  <2>2. CASE i = 2
    <3>1. <<a, b, c, d>>[i] = b
      BY <1>1, <2>2
    <3>2. QED BY <2>2, <3>1
  <2>3. CASE i = 3
    <3>1. <<a, b, c, d>>[i] = c
      BY <1>1, <2>3
    <3>2. QED BY <2>3, <3>1
  <2>4. CASE i = 4
    <3>1. <<a, b, c, d>>[i] = d
      BY <1>1, <2>4
    <3>2. QED BY <2>4, <3>1
  <2>5. QED BY <2>1, <2>2, <2>3, <2>4
<1>3. QED BY <1>2, Zenon

\* The exact accounting's categories are disjoint and complete: no row that a
\* query returns is rejected by parse_exact_event_accounting.
THEOREM AccountingAlways == Spec => []AccountingReconciles
<1>1. CutoverInv => AccountingReconciles
  <2> SUFFICES ASSUME CutoverInv, NEW s \in Scope \ {World}, NEW E \in SUBSET Record
               PROVE  Cardinality({i \in 1..4 :
                          <<Included(E, s), ExcludedConflict(E, s),
                            ExcludedStale(E, s), ExcludedUnsupported(E, s)>>[i]})
                        = IF \E r \in E : HasKey(r, s) THEN 1 ELSE 0
    BY Zenon DEF AccountingReconciles
  <2> DEFINE I == Included(E, s)
             C == ExcludedConflict(E, s)
             T == ExcludedStale(E, s)
             U == ExcludedUnsupported(E, s)
             counted == {i \in 1..4 : <<I, C, T, U>>[i]}
             some == \E r \in E : HasKey(r, s)
  <2>1. \A r \in E : location[r].flag \in {"null", "false", "true"}
    BY DEF CutoverInv, TypeInv, Row
  <2>2. \A r \in E : HasKey(r, s) =>
           Valid(r, s) \/ location[r].flag = "true" \/ Stale(r, s) \/ location[r].flag = "null"
    BY <2>1 DEF Valid, Stale
  <2>3. /\ (I \/ C \/ T \/ U) <=> some
        /\ ~(I /\ C) /\ ~(I /\ T) /\ ~(I /\ U) /\ ~(C /\ T) /\ ~(C /\ U) /\ ~(T /\ U)
    BY <2>2 DEF Included, ExcludedConflict, ExcludedStale, ExcludedUnsupported, Valid, Stale
  <2>4. counted = {i \in 1..4 : (i = 1 /\ I) \/ (i = 2 /\ C) \/ (i = 3 /\ T) \/ (i = 4 /\ U)}
    <3> HIDE DEF I, C, T, U
    <3>1. I \in BOOLEAN /\ C \in BOOLEAN /\ T \in BOOLEAN /\ U \in BOOLEAN
      BY DEF I, C, T, U, Included, ExcludedConflict, ExcludedStale, ExcludedUnsupported
    <3>2. QED BY <3>1, FourChosen
  <2> HIDE DEF I, C, T, U, some
  <2>5. CASE ~some
    <3>1. counted = {}
      BY <2>3, <2>4, <2>5
    <3>2. QED BY <2>5, <3>1, FS_EmptySet DEF some, I, C, T, U
  <2>6. CASE some
    <3>1. PICK i \in 1..4 : counted = {i}
      <4>1. counted = {1} \/ counted = {2} \/ counted = {3} \/ counted = {4}
        BY <2>3, <2>4, <2>6
      <4>2. QED BY <4>1
    <3>2. Cardinality(counted) = 1
      BY <3>1, FS_Singleton
    <3>3. QED BY <2>6, <3>2 DEF some, I, C, T, U
  <2>7. QED BY <2>5, <2>6
<1>2. QED BY <1>1, CutoverInvariant, PTL

\* Once the new catalog is active the exact queries serve what it says of the
\* evidence, and the published coverage holds until the writers resume.
THEOREM ActivatedAlways == Spec => []ActivatedServesTruth
<1>1. CutoverInv => ActivatedServesTruth
  <2> SUFFICES ASSUME CutoverInv, served = New PROVE ActivatedServesTruth
    BY DEF ActivatedServesTruth
  <2>1. ASSUME NEW r \in Record, NEW s \in Scope \ {World}
        PROVE  Valid(r, s) <=>
                 LET n == Normalized[New][raw[r]]
                 IN  Source[raw[r]].valid /\ n.status = "resolved" /\ n.scope = s
    <3>1. Serves(r)
      BY DEF CutoverInv, ServeInv
    <3>2. QED BY <3>1 DEF Serves, RowServes, Valid, HasKey, CurrentRevision
  <2>2. ASSUME NEW d \in Doc, NEW s \in Scope
        PROVE  LET E == IF \A e \in points[d].evidence : Source[e.at].valid
                        THEN points[d].evidence ELSE {}
               IN  /\ Admits(d, s, points[d].about)
                       <=> <<s, Release[New].rev[s]>> \in Tokens(New, E, "about")
                   /\ Admits(d, s, points[d].occurrence)
                       <=> <<s, Release[New].rev[s]>> \in Tokens(New, E, "occurrence")
    <3>1. Faithful(points[d])
      BY DEF CutoverInv, ServeInv
    <3>2. ASSUME NEW u, NEW rel
          PROVE  Admits(d, s, Tokens(New, u, rel))
                   <=> <<s, Release[New].rev[s]>> \in Tokens(New, u, rel)
      <4>1. \A v : <<s, v>> \in Tokens(New, u, rel) => v = Release[New].rev[s]
        BY DEF Tokens
      <4>2. QED BY <4>1, Settings DEF Admits
    <3>3. QED BY <3>1, <3>2 DEF Faithful, Usable
  <2>3. ASSUME window = "paused"
        PROVE  /\ coverage = Coverage(points, New)
               /\ coverage["stale"] = 0 /\ coverage["unprojected"] = 0
    <3>1. Published /\ coverage = Coverage(points, New)
      BY <2>3, Settings DEF CutoverInv, ServeInv, Published
    <3>2. ASSUME NEW d \in Doc
          PROVE  CoverageStatus(points[d], New) \notin {"stale", "unprojected"}
      <4>1. points[d] = R(points[d]) /\ points[d] \in Payload
        BY <3>1 DEF Published, Settled, Preview, R, CutoverInv, TypeInv
      <4>2. points[d].rev = Target
        BY <4>1, ReprojectFaithful, Settings
      <4>3. QED BY <4>2, SettledCurrent, Settings
    <3>3. \A status \in {"stale", "unprojected"} :
             {d \in Doc : CoverageStatus(points[d], New) = status} = {}
      BY <3>2
    <3>4. \A status \in {"stale", "unprojected"} :
             Coverage(points, New)[status]
               = Cardinality({d \in Doc : CoverageStatus(points[d], New) = status})
      BY DEF Coverage
    <3>5. \A status \in {"stale", "unprojected"} : Coverage(points, New)[status] = 0
      BY <3>3, <3>4, FS_EmptySet
    <3>6. QED BY <3>1, <3>5
  <2>4. QED BY <2>1, <2>2, <2>3 DEF ActivatedServesTruth
<1>2. QED BY <1>1, CutoverInvariant, PTL

\* A run writes only what the operator approved (validate_dry_run_approval).
THEOREM AppliedAlways == Spec => AppliedAsReviewed
<1> DEFINE Approved ==
       /\ neoRun.at = "write" /\ neoRun'.at = "save" =>
            \A r \in Record : location'[r] # location[r] =>
                /\ r \in DOMAIN neoReport.plan
                /\ neoReport.rows[r] = <<raw[r], location[r]>>
                /\ neoReport.plan[r] = location'[r]
       /\ qRun.at = "write" /\ qRun'.at = "save" =>
            \A d \in Doc : points'[d] # points[d] =>
                /\ points[d] \in {qReport.rows[d], qReport.plan[d]}
                /\ Visible(points'[d]) = Visible(qReport.plan[d])
<1>1. CutoverInv /\ [Next]_vars => [Approved]_vars
  <2> SUFFICES ASSUME CutoverInv, Next PROVE Approved
    BY DEF vars
  <2>1. ASSUME neoRun.at = "write", neoRun'.at = "save" PROVE NeoWrite
    <3>1. window = "paused" /\ neoRun' # neoRun
      BY <2>1 DEF CutoverInv, NeoInv
    <3>2. RunSteps \/ RunKilled
      BY <2>1, <3>1 DEF Next, Onward, WriteLocation, WriteDocument, Pause, OperatorStarts, Idle,
         PublishCoverage, NewCheckpointFile, Activate, Resume, Rollback, neoVars
    <3>3. ~NeoFetch /\ ~NeoSave /\ ~NeoKilled
      BY <2>1 DEF NeoFetch, NeoSave, NeoKilled, NeoIdle
    <3>4. QED BY <3>1, <3>2, <3>3 DEF RunSteps, RunKilled, neoVars
  <2>2. ASSUME qRun.at = "write", qRun'.at = "save" PROVE QWrite
    <3>1. window = "paused" /\ qRun' # qRun
      BY <2>2 DEF CutoverInv, QInv
    <3>2. RunSteps \/ RunKilled
      BY <2>2, <3>1 DEF Next, Onward, WriteLocation, WriteDocument, Pause, OperatorStarts, Idle,
         PublishCoverage, NewCheckpointFile, Activate, Resume, Rollback, qVars
    <3>3. ~QFetch /\ ~QSave /\ ~QKilled
      BY <2>2 DEF QFetch, QSave, QKilled, QIdle
    <3>4. QED BY <3>1, <3>2, <3>3 DEF RunSteps, RunKilled, qVars
  <2>3. QED BY <2>1, <2>2, NeoWriteReviewed, QWriteReviewed
<1>2. QED BY <1>1, CutoverInvariant, PTL DEF Spec, AppliedAsReviewed

===============================================================================
