--------------------------- MODULE MCScopeController ---------------------------
EXTENDS ScopeController
MCScopes == {"world", "country", "admin1"}
MCParent == [s \in MCScopes |-> IF s = "admin1" THEN "country" ELSE "world"]
===============================================================================
