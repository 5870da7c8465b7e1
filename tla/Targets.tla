------------------------------- MODULE Targets -------------------------------
(* Semantic and path targets: slash-separated names, modelled as sequences  *)
(* of parts.  Two targets conflict when one is an ancestor of the other.    *)
EXTENDS Sequences, SequencesExt

\* Both semantic_overlap and path_overlap: the shorter sequence of parts
\* equals the beginning of the longer one.
Overlap(left, right) == IsPrefix(left, right) \/ IsPrefix(right, left)

\* Some element of one set of targets conflicts with an element of the other.
OverlapSets(S, T) == \E s \in S, t \in T : Overlap(s, t)
==============================================================================
