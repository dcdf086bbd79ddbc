----------------------------- MODULE GDriveRead -----------------------------
(***************************************************************************)
(* Positional reads of one open handle by several threads, and the         *)
(* recovery of a handle whose file id died because another client deleted  *)
(* the file and created one at the same path (Read, ReadViaBlockCache and  *)
(* TryRecoverStaleHandle in gdrive_filesystem.cpp).                        *)
(*                                                                         *)
(* Ids are numbered in the order Drive hands them out, and a revision is   *)
(* the number of the change that made it.  A read asks for one block; the  *)
(* blocks are shared by handles, see GDriveBlockCache, and may be evicted  *)
(* at any time.  Nothing guards the handle: whoever reads a field while    *)
(* another thread assigns it sees the old value, the new or a mix.         *)
(***************************************************************************)
EXTENDS Integers, FiniteSets

CONSTANTS
    Threads,      \* threads that read through the handle
    Indices,      \* blocks of the file
    None,
    MaxIds,       \* bound: files created at the path
    MaxChanges    \* bound: changes of the path on Drive

ASSUME ReadAssumption ==
    /\ IsFiniteSet(Threads) /\ None \notin Threads \cup Indices
    /\ MaxIds \in Nat \ {0} /\ MaxChanges \in Nat \ {0}

VARIABLES
    file,       \* the version at the path on Drive; id 0: no file there
    ids,        \* how many files were created
    changes,
    entry,      \* the resolver cache's version for the path; id 0: no entry
    opener,     \* what another open of the path listed and has yet to Put
    meta,       \* h.meta
    block_key,  \* h.block_key
    block_size, \* h.block_size: 0 reads exact ranges
    blocks,     \* Version -> index -> Block
    read        \* what each thread is doing

driveVars == <<file, ids, changes>>
handleVars == <<meta, block_key, block_size>>
vars == <<driveVars, entry, opener, handleVars, blocks, read>>

Version == [id : 0..MaxIds, rev : 0..MaxChanges]
NoVersion == [id |-> 0, rev |-> 0]

\* A mix of two ids names no file, a mix of two keys no block.
Garbled == [id |-> 0, rev |-> MaxChanges]

\* `fetcher` runs the fetch others wait for; then `content` is there.
Block == [fetcher : Threads \cup {None}, content : Version]
NoBlock == [fetcher |-> None, content |-> NoVersion]

Read == [pc : {"idle", "block", "address", "download", "keep", "giveUp",
               "wait", "failing", "invalidate", "resolve", "put", "compare",
               "assignMeta", "assignKey", "copy", "done", "failed"},
         attempt : {0, 1},
         index : Indices \cup {None},
         key : Version,         \* the block key it asks the cache for
         got : Version,         \* id asked of Drive, the bytes, what resolved
         not_found : BOOLEAN,
         awaits : Threads \cup {None},
         began : 0..MaxIds,     \* history: the handle's id at the start, 0
                                \* when it was moved, or is moved back since
         alone : BOOLEAN,       \* history: nothing else has disturbed it
         fault : BOOLEAN]       \* history: some request failed on the way, or
                                \* the body ended before the bytes asked for

Idle == [pc |-> "idle", attempt |-> 0, index |-> None, key |-> NoVersion,
         got |-> NoVersion, not_found |-> FALSE, awaits |-> None, began |-> 0,
         alone |-> FALSE, fault |-> FALSE]

First == [id |-> 1, rev |-> 1]

\* The handle was just opened on the path's first file.
Init ==
    /\ file = First /\ ids = 1 /\ changes = 1
    /\ entry \in {First, NoVersion} /\ opener = NoVersion
    /\ meta = First /\ block_key = First /\ block_size \in {0, 1}
    /\ blocks = [k \in Version |-> [i \in Indices |-> NoBlock]]
    /\ read = [t \in Threads |-> Idle]

At(t, pc) == read[t].pc = pc
Goto(t, pc) == [read[t] EXCEPT !.pc = pc]

\* Whatever anyone but t does disturbs the reads of the other threads.
Disturb(r, t) ==
    [u \in Threads |-> IF u = t THEN r[u] ELSE [r[u] EXCEPT !.alone = FALSE]]

Continue(t, c) == read' = Disturb([read EXCEPT ![t] = c], t)

Disturbed == read' = Disturb(read, None)

-----------------------------------------------------------------------------
(***************************************************************************)
(* Drive, and what other handles of the process do to the caches.          *)
(***************************************************************************)
Change(version, created) ==
    /\ changes < MaxChanges /\ changes' = changes + 1
    /\ ids' = ids + created
    /\ file' = version
    /\ Disturbed
    /\ UNCHANGED <<entry, opener, handleVars, blocks>>

Overwrite == file.id # 0 /\ Change([file EXCEPT !.rev = changes + 1], 0)
Delete == file.id # 0 /\ Change(NoVersion, 0)
Recreate ==
    /\ file.id = 0 /\ ids < MaxIds
    /\ Change([id |-> ids + 1, rev |-> changes + 1], 1)

OpenerLists ==
    /\ opener = NoVersion /\ entry = NoVersion /\ file.id # 0
    /\ opener' = file
    /\ Disturbed
    /\ UNCHANGED <<driveVars, entry, handleVars, blocks>>

OpenerPuts ==
    /\ opener # NoVersion
    /\ entry' = opener /\ opener' = NoVersion
    /\ Disturbed
    /\ UNCHANGED <<driveVars, handleVars, blocks>>

Evict(k, i) ==
    /\ blocks[k][i] # NoBlock /\ blocks[k][i].fetcher = None
    /\ blocks' = [blocks EXCEPT ![k][i] = NoBlock]
    /\ UNCHANGED <<driveVars, entry, opener, handleVars, read>>

-----------------------------------------------------------------------------
(***************************************************************************)
(* A read.                                                                 *)
(***************************************************************************)
\* What a thread sees of a field while others may be assigning it.
Assigning(t, pc) == {u \in Threads \ {t} : At(u, pc)}
Seen(old, assigned) ==
    {old} \cup assigned \cup (IF assigned = {} THEN {} ELSE {Garbled})
SeenMeta(t) == Seen(meta, {read[u].got : u \in Assigning(t, "assignMeta")})

\* Mutated form: the key is not rebuilt.
KeyKept(u) == block_key

\* BuildBlockKey: id and revision of the handle's metadata.
BuildBlockKey(u) == meta
SeenKey(t) == Seen(block_key, {BuildBlockKey(u) : u \in Assigning(t, "assignKey")})

Start(t, i) ==
    /\ At(t, "idle")
    /\ Continue(t, [Idle EXCEPT !.index = i,
            !.pc = IF block_size > 0 THEN "block" ELSE "address",
            !.began = IF \E u \in Threads : read[u].pc \in {"assignMeta", "assignKey"}
                      THEN 0 ELSE meta.id,
            !.alone = \A u \in Threads : At(u, "idle")])
    /\ UNCHANGED <<driveVars, entry, opener, handleVars, blocks>>

Return(t) ==
    /\ read[t].pc \in {"done", "failed"}
    /\ Continue(t, Idle)
    /\ UNCHANGED <<driveVars, entry, opener, handleVars, blocks>>

\* GetBlock: a hit, somebody's fetch to wait for, or a fetch of one's own.
GetBlock(t) ==
    /\ At(t, "block")
    /\ \E k \in SeenKey(t) :
         LET c == [read[t] EXCEPT !.key = k]  b == blocks[k][c.index] IN
         \/ /\ b # NoBlock /\ b.fetcher = None
            /\ Continue(t, [c EXCEPT !.pc = "copy", !.got = b.content])
            /\ UNCHANGED blocks
         \/ /\ b.fetcher # None
            /\ Continue(t, [c EXCEPT !.pc = "wait", !.awaits = b.fetcher])
            /\ UNCHANGED blocks
         \/ /\ b = NoBlock
            /\ Continue(t, [c EXCEPT !.pc = "address"])
            /\ blocks' = IF k = Garbled THEN blocks
                                        ELSE [blocks EXCEPT ![k][c.index].fetcher = t]
    /\ UNCHANGED <<driveVars, entry, opener, handleVars>>

\* Download is called with the id the handle has now, not when it began.
Address(t) ==
    /\ At(t, "address")
    /\ \E v \in SeenMeta(t) :
         Continue(t, [Goto(t, "download") EXCEPT !.got = v])
    /\ UNCHANGED <<driveVars, entry, opener, handleVars, blocks>>

\* Drive sends what the file holds now, whatever revision was asked about.  A
\* request fails for any reason of its own, or because that file ends before the
\* range begins (416, or a whole body that does not reach it).
Download(t) ==
    LET c == read[t]
        failed == IF block_size > 0 THEN "giveUp" ELSE "failing"
    IN /\ At(t, "download")
       /\ \/ /\ c.got.id = file.id /\ file.id # 0
             /\ Continue(t, [c EXCEPT
                    !.pc = IF block_size > 0 THEN "keep" ELSE "copy", !.got = file])
          \/ /\ c.got.id # file.id \/ file.id = 0
             /\ Continue(t, [c EXCEPT !.pc = failed, !.not_found = TRUE])
          \/ Continue(t, [c EXCEPT !.pc = failed, !.fault = TRUE])
       /\ UNCHANGED <<driveVars, entry, opener, handleVars, blocks>>

Woken(t) == {u \in Threads : read[u].awaits = t}

\* Mutated form: the handle's key when the fetch is done.
StoreKeyNow(t) == block_key

\* The key is built before the fetch (GetBlock).
StoreKey(t) == read[t].key

\* Mutated form: a failed fetch leaves its entry.
AfterFailureKept(t) == blocks[StoreKey(t)][read[t].index]

AfterFailure(t) == NoBlock

\* The future is answered: the entry becomes ready or goes, and the threads
\* that wait have the content or the exception.
Settle(t, b, pc, got) ==
    /\ blocks' = IF read[t].key = Garbled THEN blocks
                                          ELSE [blocks EXCEPT ![StoreKey(t)][read[t].index] = b]
    /\ read' = Disturb([u \in Threads |->
            IF u = t THEN [read[u] EXCEPT !.pc = pc]
            ELSE IF u \in Woken(t)
            THEN [read[u] EXCEPT !.pc = pc, !.awaits = None, !.got = got,
                                 !.fault = read[t].fault]
            ELSE read[u]], t)
    /\ UNCHANGED <<driveVars, entry, opener, handleVars>>

Keep(t) ==
    At(t, "keep") /\ Settle(t, [fetcher |-> None, content |-> read[t].got],
                            "copy", read[t].got)
GiveUp(t) == At(t, "giveUp") /\ Settle(t, AfterFailure(t), "failing", NoVersion)

\* The bytes asked for lie within the file the handle was opened on.  The body
\* of another file or revision may end before them: a short read, from which
\* nothing recovers (ReadViaBlockCache, ReadExactRangeTail).
Copy(t) ==
    /\ At(t, "copy")
    /\ \/ Continue(t, Goto(t, "done"))
       \/ /\ read[t].got # First
          /\ Continue(t, [Goto(t, "failed") EXCEPT !.fault = TRUE])
    /\ UNCHANGED <<driveVars, entry, opener, handleVars, blocks>>

\* Mutated form: reads through the block cache do not recover.
MayRecoverExactOnly(c) == block_size = 0 /\ c.not_found /\ c.attempt = 0

\* One retry, and only by the thread whose own request said not found.
MayRecover(c) == c.not_found /\ c.attempt = 0

Failing(t) ==
    /\ At(t, "failing")
    /\ Continue(t, Goto(t, IF MayRecover(read[t]) THEN "invalidate" ELSE "failed"))
    /\ UNCHANGED <<driveVars, entry, opener, handleVars, blocks>>

InvalidatePrefix(t) ==
    /\ At(t, "invalidate")
    /\ entry' = NoVersion
    /\ Continue(t, Goto(t, "resolve"))
    /\ UNCHANGED <<driveVars, opener, handleVars, blocks>>

\* TryResolvePath: the entry another open put meanwhile, or a live listing.
Resolve(t) ==
    /\ At(t, "resolve")
    /\ \/ /\ entry # NoVersion
          /\ Continue(t, [Goto(t, "compare") EXCEPT !.got = entry])
       \/ /\ entry = NoVersion /\ file.id # 0
          /\ Continue(t, [Goto(t, "put") EXCEPT !.got = file])
       \/ /\ entry = NoVersion /\ file.id = 0
          /\ Continue(t, Goto(t, "failed"))
       \/ /\ entry = NoVersion
          /\ Continue(t, [Goto(t, "failed") EXCEPT !.fault = TRUE])
    /\ UNCHANGED <<driveVars, entry, opener, handleVars, blocks>>

Put(t) ==
    /\ At(t, "put")
    /\ entry' = read[t].got
    /\ Continue(t, Goto(t, "compare"))
    /\ UNCHANGED <<driveVars, opener, handleVars, blocks>>

\* "same id -- the 404 was not staleness"
Compare(t) ==
    /\ At(t, "compare")
    /\ \E v \in SeenMeta(t) :
         Continue(t, Goto(t, IF v.id = read[t].got.id THEN "failed"
                                                      ELSE "assignMeta"))
    /\ UNCHANGED <<driveVars, entry, opener, handleVars, blocks>>

AssignMeta(t) ==
    /\ At(t, "assignMeta")
    /\ meta' = read[t].got
    /\ read' = Disturb([u \in Threads |->
            [read[u] EXCEPT !.pc = IF u = t THEN "assignKey" ELSE @,
                            !.began = IF read[t].got.id < meta.id THEN 0 ELSE @]], t)
    /\ UNCHANGED <<driveVars, entry, opener, block_key, block_size, blocks>>

AssignKey(t) ==
    /\ At(t, "assignKey")
    /\ \/ block_key' = BuildBlockKey(t)
       \/ Assigning(t, "assignMeta") # {} /\ block_key' = Garbled
    /\ Continue(t, [read[t] EXCEPT
            !.pc = IF block_size > 0 THEN "block" ELSE "address",
            !.attempt = 1, !.not_found = FALSE])
    /\ UNCHANGED <<driveVars, entry, opener, meta, block_size, blocks>>

-----------------------------------------------------------------------------
Work(t) ==
    \/ GetBlock(t) \/ Address(t) \/ Download(t) \/ Keep(t) \/ GiveUp(t) \/ Copy(t)
    \/ Failing(t) \/ InvalidatePrefix(t) \/ Resolve(t) \/ Put(t)
    \/ Compare(t) \/ AssignMeta(t) \/ AssignKey(t) \/ Return(t)

Next ==
    \/ Overwrite \/ Delete \/ Recreate \/ OpenerLists \/ OpenerPuts
    \/ \E k \in Version, i \in Indices : Evict(k, i)
    \/ \E t \in Threads : Work(t) \/ \E i \in Indices : Start(t, i)

Spec == Init /\ [][Next]_vars

-----------------------------------------------------------------------------
TypeOK ==
    /\ file \in Version /\ ids \in 1..MaxIds /\ changes \in 1..MaxChanges
    /\ entry \in Version /\ opener \in Version
    /\ meta \in Version /\ block_key \in Version /\ block_size \in {0, 1}
    /\ blocks \in [Version -> [Indices -> Block]]
    /\ read \in [Threads -> Read]
    /\ \A k \in Version, i \in Indices :
           LET t == blocks[k][i].fetcher IN
           t # None => /\ read[t].key = k /\ read[t].index = i
                       /\ read[t].pc \in {"address", "download", "keep", "giveUp"}

\* The block cached for a file and revision is never older than they are: the
\* id and revision in the key (BuildBlockKey) keep what was there before an
\* overwrite or a recreation out of later opens.
BlocksNeverOlder ==
    \A k \in Version, i \in Indices :
        LET c == blocks[k][i].content IN
        blocks[k][i] # NoBlock /\ blocks[k][i].fetcher = None
        => c.id > k.id \/ (c.id = k.id /\ c.rev >= k.rev)

\* A read that begins when the handle has been pointed at a new file never
\* returns bytes of a file that was at the path before ("a recovered handle
\* went on serving the dead file's blocks", TryRecoverStaleHandle).  Left out:
\* a recovery that hits another open's late Put may move the handle back.
ReadsHandleFile ==
    \A t \in Threads : At(t, "done") => read[t].got.id >= read[t].began

\* A read nothing else disturbs succeeds whenever there is a file at the path
\* that reaches as far as the bytes asked for and no request fails, also after
\* the file was deleted and created anew and through the block cache as well as
\* by exact ranges (Read).  A replacement that is shorter is outside the claim:
\* the size was told at open and it "is read short" (TryRecoverStaleHandle).
LoneReadRecovers ==
    \A t \in Threads :
        At(t, "failed") /\ read[t].alone /\ ~read[t].fault
        => file.id = 0
=============================================================================
