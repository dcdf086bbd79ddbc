---------------------------- MODULE MCOpenFile ----------------------------
(* GDriveOpenFile for TLC: threads, and ids Drive hands out, are alike.  *)
EXTENDS GDriveOpenFile, TLC

Alike == Permutations(Threads) \cup Permutations(Ids)
=============================================================================
