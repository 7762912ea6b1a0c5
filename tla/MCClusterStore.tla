---------------------------- MODULE MCClusterStore ----------------------------
(* Values of the constants of ClusterStore for model checking.             *)
EXTENDS ClusterStore, TLC

CONSTANTS k1, k2

\* All incidents are of one burst.
KeyOfOne == [i \in Ids |-> k1]
\* Odd incidents are of the first burst, even ones of the second.
KeyOfTwo == [i \in Ids |-> IF i % 2 = 1 THEN k1 ELSE k2]

HandlerSymmetry == Permutations(Handlers)
===============================================================================
