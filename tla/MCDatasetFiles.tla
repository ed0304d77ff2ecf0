--------------------------- MODULE MCDatasetFiles ---------------------------
EXTENDS DatasetFiles, TLC
CONSTANTS q1, q2, q3
Symmetry == Permutations(Requests)
=============================================================================
