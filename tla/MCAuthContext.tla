--------------------------- MODULE MCAuthContext ---------------------------
(* GDriveAuthContext for TLC: threads, databases and users are alike.       *)
EXTENDS GDriveAuthContext, TLC

Alike == Permutations(Threads) \cup Permutations(Databases) \cup Permutations(Users)
=============================================================================
