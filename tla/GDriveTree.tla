----------------------------- MODULE GDriveTree -----------------------------
(***************************************************************************)
(* The operations that change the folder tree: opening a file for writing, *)
(* which creates missing folders (OpenFile), publishing it on close,       *)
(* write_blob, which creates them itself first (EnsureParentDirectories),  *)
(* MoveFile, RemoveFile and RemoveDirectory (gdrive_mutate.cpp), and       *)
(* remove_file, which asks whether there is a file first (RemoveOne), with *)
(* the path cache they read and are responsible for.                       *)
(*                                                                         *)
(* Drive addresses by id and lets several entries of a folder share a      *)
(* name.  One call runs at a time; other clients change the tree between   *)
(* any two of its requests.  A request is one action together with the Put *)
(* of what it found (GDriveOpenFile is about the time between the two).  A *)
(* request that changes the tree may fail with or without effect.          *)
(***************************************************************************)
EXTENDS Integers, Sequences, SequencesExt, FiniteSets

CONSTANTS
    Paths,        \* the paths calls may name: of one or two segments
    Ids,          \* ids Drive can hand out
    Root,         \* the root folder's id
    None,
    InitialTrees, \* what Drive may hold before the first call
    MaxCalls,     \* bound: operations called
    MaxOthers     \* bound: changes by other clients

Parent(p) == Front(p)

ASSUME TreeAssumption ==
    /\ \A p \in Paths : p = <<p[1]>> \/ (p = <<p[1], p[2]>> /\ <<p[1]>> \in Paths)
    /\ IsFiniteSet(Ids) /\ Root \notin Ids /\ None \notin Ids \cup {Root}
    /\ MaxCalls \in Nat /\ MaxOthers \in Nat

VARIABLES
    tree,      \* Ids -> Node
    cache,     \* the path cache: Paths -> the id of the cached DriveFileMeta
    call,      \* the running call
    calls, others,
    \* history
    begun,     \* the tree when the call began, and whether the call ran alone
               \* since, from a cache that told the truth and no shared names
    kept       \* only path calls, none failed half way, changed the tree so far

vars == <<tree, cache, call, calls, others, begun, kept>>

Names == {Last(p) : p \in Paths}

Node == [kind : {"unborn", "file", "folder"}, name : Names \cup {None},
         parent : Ids \cup {Root, None}]
Unborn == [kind |-> "unborn", name |-> None, parent |-> None]
NodeIn(f, n, kind) == [kind |-> kind, name |-> n, parent |-> f]

\* A trashed or deleted entry keeps its kind and is in no folder.
LiveIn(u, f) == f = Root \/ (f \in Ids /\ u[f].parent # None)
Live(f) == LiveIn(tree, f)
IsFolder(f) == f = Root \/ (f \in Ids /\ tree[f].kind = "folder")
Children(u, f) == {c \in Ids : u[c].parent = f}
Named(u, f, n) == {c \in Children(u, f) : u[c].name = n}
Listed(f, n) == Named(tree, f, n)
\* The entry f and all below it: what any set with the children of f, and with
\* the children of all in it, contains.
Subtree(u, f) ==
    {f} \cup {c \in Ids : \A S \in SUBSET Ids :
        (\A d \in Ids : u[d].parent \in S \cup {f} => d \in S) => c \in S}
Fresh == {f \in Ids : tree[f] = Unborn}

\* Every id that path p, of at most two segments, names in tree u.
Denotes(u, p) ==
    IF Len(p) = 1 THEN Named(u, Root, p[1])
    ELSE UNION {Named(u, f, p[2]) : f \in {g \in Named(u, Root, p[1]) : IsFolder(g)}}

NoDuplicates == \A c, d \in {e \in Ids : Live(e)} :
    tree[c].parent = tree[d].parent /\ tree[c].name = tree[d].name => c = d
CacheTruthful == \A p \in Paths : cache[p] # None => cache[p] \in Denotes(tree, p)

Call == [op : {"none", "copy", "blob", "move", "remove", "remove_file", "rmdir"},
         pc : {"idle", "is_file", "is_dir", "confirm", "no", "dir", "not_file", "create_dir", "walk", "any_kind",
               "create", "probe", "publish", "source", "source_parent",
               "target_parent", "collide", "move", "replace", "delete",
               "forget", "ok", "failed"},
         path : Paths \cup {<<>>},      \* the only path, or the source; <<>> for
         id : Ids \cup {None},          \* the id: form; what the source resolved to
         to : Paths \cup {<<>>},
         depth : 0..2,                  \* segments resolved, the last of them
         at : Ids \cup {Root, None},    \* to this folder
         old : Ids \cup {None},         \* the entry an overwrite replaces
         parent_is_new : BOOLEAN]
Idle == [op |-> "none", pc |-> "idle", path |-> <<>>, id |-> None, to |-> <<>>,
         depth |-> 0, at |-> None, old |-> None, parent_is_new |-> FALSE]

\* Entries are in folders, and a folder in the trash has none.
Sound(u) == \A c \in Ids :
    /\ u[c].kind = "unborn" => u[c] = Unborn
    /\ u[c].parent \in Ids => u[u[c].parent].kind = "folder" /\ LiveIn(u, u[c].parent)
ASSUME TreesAssumption == \A u \in InitialTrees : u \in [Ids -> Node] /\ Sound(u)

Init ==
    /\ tree \in InitialTrees
    /\ cache = [p \in Paths |-> None]
    /\ call = Idle
    /\ calls = 0 /\ others = 0
    /\ begun = [tree |-> tree, alone |-> FALSE]
    /\ kept = TRUE

-----------------------------------------------------------------------------
(* Steps of a call.                                                        *)

Goto(pc) == call' = [call EXCEPT !.pc = pc]
ToFolder(pc, f) == call' = [call EXCEPT !.pc = pc, !.at = f, !.depth = 0]

\* A throw before the tree changed, or after it did without damage.
Throw == Goto("failed") /\ UNCHANGED <<cache, kept>>

\* A throw once a file may have moved or gone: nothing is invalidated.
ThrowLate == Goto("failed") /\ kept' = FALSE /\ UNCHANGED cache

Running == UNCHANGED <<calls, others, begun>>

\* A request failed, or was answered with more entries than it may have.
RequestFails == Throw /\ UNCHANGED tree

\* What resolving path p, whose parent is folder f, finds: the cached entry,
\* of whatever kind, or the answer of ListByName.
Found(p, f, require_folder) ==
    IF cache[p] # None THEN {cache[p]}
    ELSE {c \in Listed(f, Last(p)) : require_folder => IsFolder(c)}
CachePut(p, c) == cache' = [cache EXCEPT ![p] = c]
\* What InvalidatePrefix of the paths in S leaves: nothing at or below them.
InvalidatePrefixExact(S) == [q \in Paths |-> IF q \in S THEN None ELSE cache[q]]
InvalidatePrefix(S) ==
    [q \in Paths |-> IF \E p \in S : IsPrefix(p, q) THEN None ELSE cache[q]]

\* What files.delete, or files.update to the trash, does.
Trashed(f) == [c \in Ids |->
    IF c \in Subtree(tree, f) THEN [tree[c] EXCEPT !.parent = None] ELSE tree[c]]

\* files.create: the parent must be a folder.  In a trashed one the new entry
\* is trashed too.
Created(c, f, n, kind) ==
    [tree EXCEPT ![c] = NodeIn(IF Live(f) THEN f ELSE None, n, kind)]

\* files.update of name and parent, which Drive refuses if the new parent is
\* no folder or lies within the entry.
CanMove(c, f) == IsFolder(f) /\ f \notin Subtree(tree, c)
Moved(c, f, n) ==
    IF Live(c) /\ Live(f) THEN [tree EXCEPT ![c].name = n, ![c].parent = f]
    ELSE [Trashed(c) EXCEPT ![c].name = n]

-----------------------------------------------------------------------------
(* The calls.                                                              *)

Begin(op, pc, p, id, q) ==
    /\ call.pc = "idle" /\ calls < MaxCalls
    /\ call' = [Idle EXCEPT !.op = op, !.pc = pc, !.path = p, !.id = id, !.to = q,
                            !.at = Root]
    /\ calls' = calls + 1
    /\ begun' = [tree |-> tree, alone |-> CacheTruthful /\ NoDuplicates]
    /\ UNCHANGED <<tree, cache, others, kept>>

\* COPY TO, or write_blob: EnsureParentDirectories, then OpenFile.
StartWrite == \E p \in Paths, op \in {"copy", "blob"} :
    Begin(op, IF op = "blob" /\ Len(p) > 1 THEN "dir" ELSE "walk", p, None, <<>>)
StartRemove == \E p \in Paths, op \in {"remove", "rmdir"} : Begin(op, "source", p, None, <<>>)
StartMove == \E p, q \in Paths : Begin("move", "source", p, None, q)
\* remove_file by a path, an id, or an address Drive cannot be asked about: one
\* that does not parse or that no secret covers.
StartRemoveFile == \/ \E p \in Paths : Begin("remove_file", "is_file", p, None, <<>>)
                   \/ \E c \in (Ids \ Fresh) \cup {None} :
                         Begin("remove_file", "is_file", <<>>, c, <<>>)
\* The id: form, whose entry GetMetadata finds unless it is deleted for good.
StartById == \E c \in Ids \ Fresh :
    \/ Begin("remove", "source", <<>>, c, <<>>) \/ Begin("rmdir", "source", <<>>, c, <<>>)
    \/ \E q \in Paths : Begin("move", "source", <<>>, c, q)
Start == StartWrite \/ StartRemove \/ StartRemoveFile \/ StartMove \/ StartById

Finish ==
    /\ call.pc \in {"ok", "no", "failed"} /\ call' = Idle
    /\ UNCHANGED <<tree, cache, calls, others, begun, kept>>

\* EnsureParentDirectories asks DirectoryExists, then FileExists; each resolves
\* the parent and keeps what it found.
Exists(pc, folder, file, missing) ==
    LET d == Parent(call.path)  m == Found(d, Root, FALSE) IN
    /\ call.pc = pc /\ Running /\ UNCHANGED <<tree, kept>>
    /\ \/ \E c \in m : /\ m = {c} /\ CachePut(d, c)
                       /\ Goto(IF IsFolder(c) THEN folder ELSE file)
       \/ m = {} /\ Goto(missing) /\ UNCHANGED cache
       \/ cache[d] = None /\ Goto("failed") /\ UNCHANGED cache
DirectoryExists == Exists("dir", "walk", "not_file", "not_file")
FileExists == Exists("not_file", "create_dir", "failed", "create_dir")

\* MutateCreateDirectory, whose InvalidatePrefix names no cached key.
CreateDirectory ==
    /\ call.pc = "create_dir" /\ Running /\ UNCHANGED <<cache, kept>>
    /\ \E effect \in BOOLEAN, ok \in BOOLEAN : \E c \in Fresh :
        /\ ok => effect
        /\ tree' = IF effect THEN Created(c, Root, Last(Parent(call.path)), "folder") ELSE tree
        /\ Goto(IF ok THEN "walk" ELSE "failed")

Walked == SubSeq(call.path, 1, call.depth + 1)
Enter(c, new) == call' = [call EXCEPT !.pc = "walk", !.at = c, !.depth = @ + 1,
                                      !.parent_is_new = @ \/ new]

\* OpenFile walks the parents: a folder that is cached or listed is entered; a
\* cached file is forgotten and the path listed again.
FoldersToAdopt == {c \in Found(Walked, call.at, TRUE) : IsFolder(c)}
OpenWalk ==
    /\ call.pc = "walk" /\ Running /\ UNCHANGED <<tree, kept>>
    /\ IF call.depth + 1 = Len(call.path)
       THEN Goto(IF call.parent_is_new THEN "publish" ELSE "probe") /\ UNCHANGED cache
       ELSE \/ \E c \in FoldersToAdopt :
                  FoldersToAdopt = {c} /\ CachePut(Walked, c) /\ Enter(c, FALSE)
            \/ cache[Walked] # None /\ ~IsFolder(cache[Walked])
               /\ cache' = InvalidatePrefix({Walked}) /\ UNCHANGED call
            \/ cache[Walked] = None /\ FoldersToAdopt = {}
               /\ Goto("any_kind") /\ UNCHANGED cache
            \/ cache[Walked] = None /\ Goto("failed") /\ UNCHANGED cache

\* No folder of that name: a file refuses the write, a folder another writer
\* has made since is adopted.
AnyKindUnchecked == {}
AnyKind == Listed(call.at, Last(Walked))
ListAnyKind ==
    /\ call.pc = "any_kind" /\ Running /\ UNCHANGED <<tree, kept>>
    /\ \/ AnyKind = {} /\ Goto("create") /\ UNCHANGED cache
       \/ \E c \in AnyKind : /\ \A d \in AnyKind : IsFolder(d)
                             /\ CachePut(Walked, c) /\ Enter(c, FALSE)
       \/ Throw

CreateFolder ==
    /\ call.pc = "create" /\ Running /\ UNCHANGED kept
    /\ \/ \E c \in Fresh :
            /\ tree' = Created(c, call.at, Last(Walked), "folder") /\ IsFolder(call.at)
            /\ \/ CachePut(Walked, c) /\ Enter(c, TRUE)
               \/ Goto("failed") /\ UNCHANGED cache
       \/ RequestFails

\* The overwrite probe, skipped below a folder just created.
Probe == Listed(call.at, Last(call.path))
ProbeExisting ==
    /\ call.pc = "probe" /\ Running /\ UNCHANGED <<tree, kept>>
    /\ \/ /\ Cardinality(Probe) <= 1 /\ UNCHANGED cache
          /\ call' = [call EXCEPT !.pc = "publish",
                                  !.old = IF Probe = {} THEN None ELSE CHOOSE c \in Probe : TRUE]
       \/ Throw

\* Close: files.update of the existing id, whose place in the tree stays, or
\* files.create in the parent.
PublishOnClose ==
    /\ call.pc = "publish" /\ Running /\ UNCHANGED <<cache, kept>>
    /\ \/ call.old # None /\ ~IsFolder(call.old) /\ Goto("ok") /\ UNCHANGED tree
       \/ /\ call.old = None /\ IsFolder(call.at)
          /\ \E c \in Fresh : tree' = Created(c, call.at, Last(call.path), "file")
          /\ Goto("ok") \/ Goto("failed")
       \/ Goto("failed") /\ UNCHANGED tree

-----------------------------------------------------------------------------
(* RemoveFile, RemoveDirectory and MoveFile.                               *)

\* RemoveOne asks FileExists, then DirectoryExists, and takes an entry for absent
\* only when an open finds none either (ConfirmedAbsent).
Asking == call.pc \in {"is_file", "is_dir", "confirm"}
IfAbsentAtOnce == IF call.pc = "is_file" THEN "is_dir" ELSE "no"
IfAbsent == CASE call.pc = "is_file" -> "is_dir"
              [] call.pc = "is_dir" -> "confirm"
              [] call.pc = "confirm" -> "no"

\* ResolvePath of the source and of the two parents of a move, one segment at
\* a time.
Goal == CASE call.pc = "source_parent" -> Parent(call.path)
          [] call.pc = "target_parent" -> Parent(call.to)
          [] OTHER -> call.path
Resolving == Asking \/ call.pc \in {"source", "source_parent", "target_parent"}

ResolveSegment ==
    LET p == SubSeq(Goal, 1, call.depth + 1)
        m == Found(p, call.at, Len(p) < Len(Goal)) IN
    /\ Resolving /\ call.depth < Len(Goal) /\ Running /\ UNCHANGED <<tree, kept>>
    /\ \/ \E c \in m : /\ m = {c} /\ CachePut(p, c)
                       /\ call' = [call EXCEPT !.at = c, !.depth = @ + 1]
       \/ m = {} /\ Asking /\ ToFolder(IfAbsent, Root) /\ UNCHANGED cache
       \/ (cache[p] = None) /\ Goto("failed") /\ UNCHANGED cache

SourceIdFallingThrough == call.at
SourceId == IF call.path = <<>> THEN call.id ELSE call.at

\* What RemoveOne makes of the entry found.
IfPresent(c) == CASE call.pc = "is_file" -> IF IsFolder(c) THEN "is_dir" ELSE "source"
                  [] call.pc = "is_dir" -> IF IsFolder(c) THEN "failed" ELSE "confirm"
                  [] call.pc = "confirm" -> "failed"
Answered ==
    /\ Asking /\ call.depth = Len(call.path)
    /\ Running /\ UNCHANGED <<tree, cache, kept>>
    /\ \/ SourceId # None /\ ToFolder(IfPresent(SourceId), Root)
       \/ /\ call.path = <<>> /\ (call.id # None => ~Live(call.id))
          /\ ToFolder(IF call.id = None /\ call.pc = "confirm" THEN "failed" ELSE IfAbsent, Root)
       \/ call.path = <<>> /\ Goto("failed")

\* A file is not removed as a folder, nor a folder as a file.  MoveFile looks
\* at neither.
KindFits(c) == call.op = "move" \/ (IsFolder(c) <=> call.op = "rmdir")
ResolvedSource ==
    /\ call.pc = "source" /\ call.depth = Len(call.path)
    /\ Running /\ UNCHANGED <<tree, cache, kept>>
    /\ \/ /\ KindFits(SourceId)
          /\ call' = [call EXCEPT !.id = SourceId, !.at = Root, !.depth = 0,
                !.pc = IF call.op # "move" THEN "delete"
                       ELSE IF call.path = <<>> THEN "target_parent" ELSE "source_parent"]
       \/ (~KindFits(SourceId) \/ call.path = <<>>) /\ Goto("failed")

ResolvedParent ==
    /\ call.pc \in {"source_parent", "target_parent"} /\ call.depth = Len(Goal)
    /\ Running /\ UNCHANGED <<tree, cache, kept>>
    /\ \/ call.pc = "source_parent" /\ ToFolder("target_parent", Root)
       \/ call.pc = "target_parent" /\ Goto("collide")
       \/ Goal = <<>> /\ Goto("failed")     \* GetMetadata of the root fails

\* What has the target's name in the new parent, the source itself excluded.
\* More than one entry is refused.
AtOldPlace == Listed(tree[call.id].parent, Last(call.to)) \ {call.id}
AtDestination == Listed(call.at, Last(call.to)) \ {call.id}
ReconcileDestination ==
    /\ call.pc = "collide" /\ Running /\ UNCHANGED <<tree, kept, cache>>
    /\ \/ /\ Cardinality(AtDestination) <= 1
          /\ call' = [call EXCEPT !.pc = "move",
                !.old = IF AtDestination = {} THEN None
                        ELSE CHOOSE c \in AtDestination : TRUE]
       \/ Goto("failed")

\* files.update of the source; a trashed one moves out of sight.
MoveEntryUnchecked ==
    /\ call.pc = "move" /\ Running /\ UNCHANGED <<cache, kept>>
    /\ tree' \in {tree, Moved(call.id, call.at, Last(call.to))}
    /\ Goto(IF call.old = None THEN "forget" ELSE "replace")
MoveEntry ==
    /\ call.pc = "move" /\ Running /\ UNCHANGED cache
    /\ \/ /\ CanMove(call.id, call.at)
          /\ tree' = Moved(call.id, call.at, Last(call.to))
          /\ Goto(IF call.old = None THEN "forget" ELSE "replace") /\ UNCHANGED kept
       \/ /\ CanMove(call.id, call.at)
          /\ tree' = Moved(call.id, call.at, Last(call.to)) /\ ThrowLate
       \/ UNCHANGED tree /\ Throw

\* What MoveFile deletes once the source has moved.
ToReplace == call.old
Replace ==
    /\ call.pc = "replace" /\ Running /\ UNCHANGED cache
    /\ \/ tree' = Trashed(ToReplace) /\ Goto("forget") /\ UNCHANGED kept
       \/ tree' \in {tree, Trashed(ToReplace)} /\ ThrowLate

Delete ==
    /\ call.pc = "delete" /\ Running /\ UNCHANGED cache
    /\ \/ tree' = Trashed(call.id) /\ Goto("forget") /\ UNCHANGED kept
       \/ tree' = Trashed(call.id) /\ ThrowLate
       \/ UNCHANGED tree /\ Throw

\* InvalidatePrefix of the source and of the target, each if it is a path.
Invalidate ==
    /\ call.pc = "forget" /\ Running /\ UNCHANGED tree /\ Goto("ok")
    /\ cache' = InvalidatePrefix({call.path, call.to} \ {<<>>})
    /\ kept' = (kept /\ call.path # <<>>)

Step == \/ DirectoryExists \/ FileExists \/ CreateDirectory
        \/ OpenWalk \/ ListAnyKind \/ CreateFolder \/ ProbeExisting \/ PublishOnClose
        \/ ResolveSegment \/ Answered \/ ResolvedSource \/ ResolvedParent
        \/ ReconcileDestination \/ MoveEntry \/ Replace \/ Delete \/ Invalidate

\* Another client creates, moves, renames or deletes an entry.
OtherClient ==
    /\ others < MaxOthers /\ others' = others + 1
    /\ \/ \E c \in Ids : Live(c) /\ tree' = Trashed(c)
       \/ \E c \in Ids, p \in Paths, f \in Ids \cup {Root} :
            Live(c) /\ Live(f) /\ CanMove(c, f) /\ tree' = Moved(c, f, Last(p))
       \/ \E c \in Fresh, p \in Paths, kind \in {"file", "folder"}, f \in Ids \cup {Root} :
            Live(f) /\ IsFolder(f) /\ tree' = Created(c, f, Last(p), kind)
    /\ begun' = [begun EXCEPT !.alone = FALSE] /\ kept' = FALSE
    /\ UNCHANGED <<cache, call, calls>>

Next == Start \/ Step \/ Finish \/ OtherClient
Spec == Init /\ [][Next]_vars

-----------------------------------------------------------------------------
TypeOK ==
    /\ tree \in [Ids -> Node] /\ cache \in [Paths -> Ids \cup {None}]
    /\ call \in Call /\ calls \in 0..MaxCalls /\ others \in 0..MaxOthers
    /\ begun \in [tree : [Ids -> Node], alone : BOOLEAN] /\ kept \in BOOLEAN

\* As long as only calls by path change the tree, and none fails half way, the
\* path cache names between calls what Drive has: every move, overwrite and
\* removal drops every entry it made false, those below a moved folder too.
CacheFollows == kept /\ call.pc = "idle" => CacheTruthful

\* A move nobody interferes with never loses data: at every moment, whatever
\* fails, something is at a target that was not empty, and the moved entry is
\* alive (gdrive_mutate.cpp moves before it deletes, and never deletes the
\* source).  Nothing is promised for an entry that was already in the trash
\* and is moved by its id.
LoneMoveKeepsBoth ==
    call.op = "move" /\ begun.alone /\ (call.id # None => LiveIn(begun.tree, call.id)) =>
        /\ Denotes(begun.tree, call.to) # {} => Denotes(tree, call.to) # {}
        /\ call.id # None => Live(call.id)

\* A call nobody interferes with, by a cache that was right, changes no entry
\* but what its paths name: a write none, a removal its subtree, a move the
\* source and what it replaces.
LoneCallsKeepToTheirPaths ==
    LET Below(p) == UNION {Subtree(begun.tree, c) : c \in Denotes(begun.tree, p)}
        Scope == CASE call.op = "move" -> {call.id} \cup Below(call.to)
                   [] call.op \in {"remove", "remove_file", "rmdir"} ->
                        IF call.path = <<>> THEN Subtree(begun.tree, call.id)
                        ELSE Below(call.path)
                   [] OTHER -> {} IN
    begun.alone /\ call.op # "none" => \A c \in Ids \ Scope :
        LiveIn(begun.tree, c) => tree[c] = begun.tree[c]

\* A call nobody interferes with leaves no two entries with one name in one
\* folder, where there were none: a write not even when it fails, a move when
\* it succeeds.
NoDuplicatesMade ==
    begun.alone /\ call.pc \in {"ok", "failed"} /\ (call.op = "move" => call.pc = "ok")
        => NoDuplicates

\* remove_file nobody interferes with tells the truth: true if the address named
\* a file, which is gone, false if it named nothing.  A request that fails, an
\* address no secret covers and a folder are none of the two.
RemoveFileTellsTruth ==
    LET named == IF call.path = <<>> THEN {call.id} ELSE Denotes(begun.tree, call.path) IN
    begun.alone /\ call.op = "remove_file" =>
        /\ call.pc = "ok" => \E c \in named :
             begun.tree[c].kind = "file" /\ ~Live(c)
        /\ call.pc = "no" => None \notin named /\ \A c \in named : ~LiveIn(begun.tree, c)

\* gdrive_mutate.cpp: "never destroy data that has not already been replaced".
\* A move nobody interferes with destroys no file but the one it replaces.
DestroysOnlyTheReplaced ==
    call.op = "move" /\ begun.alone => \A c \in Ids :
        tree[c].kind = "file" /\ LiveIn(begun.tree, c) /\ c \notin Denotes(begun.tree, call.to)
            => Live(c)
=============================================================================
