---------------------------- MODULE MCOccupancy ----------------------------
EXTENDS OccupancyProperties, TLC

CONSTANTS w1, w2, u1, u2

UserSymmetry == Permutations(Users)
WorkerSymmetry == Permutations(Workers) \cup UserSymmetry
=============================================================================
