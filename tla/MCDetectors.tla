----------------------------- MODULE MCDetectors -----------------------------
(* Three posts of two channels.  "a" and "b" share enough words for one       *)
(* channel, "b" and "c" enough shingles across channels; a centroid widened  *)
(* by "b" and "c" no longer matches "a", its own first post.                 *)
EXTENDS Detectors

MCPosts == {"a", "b", "c"}
MCShingles == [a |-> {1, 2}, b |-> {2, 3, 4}, c |-> {2, 3, 4, 5}]
MCWords == [a |-> {1, 2}, b |-> {1, 2, 3, 4}, c |-> {3, 4, 5, 6, 7}]
MCChannel == [a |-> "x", b |-> "x", c |-> "y"]
=============================================================================
