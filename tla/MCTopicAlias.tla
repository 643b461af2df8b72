----------------------------- MODULE MCTopicAlias -----------------------------
(***************************************************************************)
(* TopicAlias with more topics than aliases, so that aliases are remapped, *)
(* and fewer messages in flight than published, so that some are kept back.*)
(***************************************************************************)
EXTENDS TopicAlias

\* All of the three forms of a packet fit, or all but the largest.
MCRooms == {2, 3}

Sym == Permutations(Topics)
===============================================================================
