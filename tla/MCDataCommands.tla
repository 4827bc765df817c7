--------------------------- MODULE MCDataCommands ---------------------------
\* Instance of DataCommands for TLC.
EXTENDS DataCommands

Symmetry == Permutations(Names) \cup Permutations(Songs) \cup Permutations(Calls)
=============================================================================
