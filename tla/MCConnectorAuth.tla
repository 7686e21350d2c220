-------------------------- MODULE MCConnectorAuth --------------------------
(* Instances of ConnectorAuth for TLC: the configurations give the sets.   *)
EXTENDS ConnectorAuth, TLC

\* Rows of a table, and workers, are interchangeable.
Symmetry == Permutations(Workers) \cup Permutations(Sessions)
              \cup Permutations(Tokens) \cup Permutations(Codes)
              \cup Permutations(Clients)
=============================================================================
