-------------------------- MODULE MCSpatialCutover -------------------------
EXTENDS SpatialCutover

\* w > c1 > a1 and w > c2
MCParent == [s \in {"w", "c1", "a1", "c2"} |-> IF s = "a1" THEN "c1" ELSE "w"]

\* the new catalog knows code v and no longer o, moves the border of a1 off k1
\* and that of c1 and c2 over k2
OldContent ==
    [rev |-> [s \in Scope |-> <<"old", s>>],
     compatible |-> [s \in Scope |-> {<<"old", s>>}],
     code |-> [c \in Code |-> CASE c = "u" -> "c1" [] c = "v" -> None [] c = "o" -> "c2"],
     inside |-> [k \in Cell |-> {"c1"}],
     edge |-> [k \in Cell |-> IF k = "k1" THEN {"a1"} ELSE {}]]

NewContent ==
    [rev |-> [s \in Scope |-> <<"new", s>>],
     compatible |-> [s \in Scope |-> {<<"new", s>>} \cup (IF s = "c1" THEN {<<"old", s>>} ELSE {})],
     code |-> [c \in Code |-> CASE c = "u" -> "c1" [] c = "v" -> "c2" [] c = "o" -> None],
     inside |-> [k \in Cell |-> IF k = "k1" THEN {"c1", "a1"} ELSE {}],
     edge |-> [k \in Cell |-> IF k = "k1" THEN {} ELSE {"c1", "c2"}]]

MCRelease == [cat \in Catalogs |-> IF cat = "old" THEN OldContent ELSE NewContent]

Loc(codes, cell) == [codes |-> codes, cell |-> cell, valid |-> TRUE]

MCSource ==
    [src \in Locations |->
        CASE src = "u"    -> Loc({"u"}, None)
          [] src = "v"    -> Loc({"v"}, None)
          [] src = "o"    -> Loc({"o"}, None)
          [] src = "k1"   -> Loc({}, "k1")
          [] src = "k2"   -> Loc({}, "k2")
          [] src = "u_k1" -> Loc({"u"}, "k1")
          [] src = "null" -> [codes |-> {"u"}, cell |-> None, valid |-> FALSE]]

Occurrence(at) == [relation |-> "occurrence", at |-> at, gated |-> FALSE]
About(at, gated) == [relation |-> "about", at |-> at, gated |-> gated]

Mixed == {Occurrence("k1"), Occurrence("k2"), Occurrence("u"), About("v", TRUE)}

MCStored == <<[feed |-> FALSE, evidence |-> {Occurrence("null")}],
              [feed |-> FALSE, evidence |-> Mixed]>>

MCDocuments == {MCStored[1], MCStored[2], [feed |-> TRUE, evidence |-> {Occurrence("null")}]}
=============================================================================
