--------------------------- MODULE MCNotifications ---------------------------
EXTENDS NotificationsProperties, TLC

CONSTANTS u1, u2, d1, d2, p1, p2, t1

Alike == Permutations(Users) \cup Permutations(Devices) \cup Permutations(Procs)
=============================================================================
