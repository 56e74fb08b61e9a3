--------------------------- MODULE MCGhostRecords ---------------------------
EXTENDS GhostRecords, TLC
CONSTANTS a, b

\* Courses are interchangeable (sound for the safety run).
CourseSymmetry == Permutations({a, b})
=============================================================================
