----------------------------- MODULE MCMonthly -----------------------------
EXTENDS MonthlyProperties, TLC

CONSTANTS s1, s2, s3, p1, p2

Alike == Permutations(Stays) \cup Permutations(Procs)
=============================================================================
