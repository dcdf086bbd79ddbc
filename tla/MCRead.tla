------------------------------- MODULE MCRead -------------------------------
(* GDriveRead for TLC: threads are alike, and so are blocks.             *)
EXTENDS GDriveRead, TLC

Alike == Permutations(Threads) \cup Permutations(Indices)
=============================================================================
