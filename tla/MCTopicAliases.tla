--------------------------- MODULE MCTopicAliases ---------------------------
(* The topics are interchangeable. *)
EXTENDS TopicAliases, TLC

TopicSymmetry == Permutations(Topics)
=============================================================================
