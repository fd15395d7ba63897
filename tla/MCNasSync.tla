------------------------------ MODULE MCNasSync ------------------------------
EXTENDS NasSync, TLC

\* Jobs, workers and repositories are interchangeable.
NasSymmetry == Permutations(Jobs) \cup Permutations(Workers)

=============================================================================
