--------------------------- MODULE MCCmConnection ---------------------------
(***************************************************************************)
(* Instances of CmConnection for TLC.                                      *)
(***************************************************************************)
EXTENDS CmConnection, TLC

\* Calls, answers and queue pairs are told apart by nothing but their use.
Symmetry == Permutations(Calls) \cup Permutations(Answers)
            \cup Permutations(ClientQPs) \cup Permutations(ServerQPs)

\* Bound on the search: a state with more messages in flight is not extended.
CONSTANT MaxInFlight
FewInFlight == Cardinality(net) <= MaxInFlight
=============================================================================
