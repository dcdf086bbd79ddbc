------------------------------- MODULE MCTree -------------------------------
(* GDriveTree with two names and three paths; Drive's ids are             *)
(* interchangeable.                                                       *)
EXTENDS GDriveTree, TLC

SomePaths == {<<"d">>, <<"f">>, <<"d", "f">>}
\* Up to two entries, the second possibly in the first.
AnyTwo ==
    LET Empty == [c \in Ids |-> Unborn]
        Entry(f) == {NodeIn(f, n, k) : n \in Names, k \in {"file", "folder"}} IN
    {Empty} \cup {[Empty EXCEPT ![c] = x] : c \in Ids, x \in Entry(Root)}
    \cup UNION {{[Empty EXCEPT ![c] = x, ![d] = y] :
                    y \in Entry(Root) \cup (IF x.kind = "folder" THEN Entry(c) ELSE {})} :
                 c \in Ids, d \in Ids, x \in Entry(Root)}
SmallTrees == {u \in AnyTwo : \A c \in Ids : u[c].parent # c}

Alike == Permutations(Ids)
=============================================================================
