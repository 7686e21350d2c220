--------------------------- MODULE MCMemoryReview ---------------------------
(* Instances of MemoryReview for TLC: the configurations give the sets.    *)
EXTENDS MemoryReview, TLC

\* Workers, facts and proposals are interchangeable; so are plain contents.
Symmetry == Permutations(Workers) \cup Permutations(Facts)
              \cup Permutations(Proposals)
              \cup Permutations(Contents \ Secrets)
=============================================================================
