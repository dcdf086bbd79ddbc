-------------------------- MODULE GDriveReadProofs --------------------------
(***************************************************************************)
(* Proofs about GDriveRead: no block is cached for a file or revision it   *)
(* is older than, no read returns what was at the path before its handle's *)
(* file, and a read left alone recovers, for any threads, blocks, files    *)
(* and changes.                                                            *)
(***************************************************************************)
EXTENDS GDriveRead, TLAPS

\* v names no file and no revision Drive has yet to make.
NotNewer(v) == v.id <= ids /\ (file.id # 0 /\ v.id = file.id => v.rev <= file.rev)

\* Content v may be cached under key k.
AtLeast(v, k) == v.id > k.id \/ (v.id = k.id /\ v.rev >= k.rev)

\* The file at the path is the last one created, and nothing is newer.
Current ==
    /\ file.id # 0 => file.id = ids
    /\ file.rev <= changes
    /\ NotNewer(entry) /\ NotNewer(opener) /\ NotNewer(meta) /\ NotNewer(block_key)

\* The key is that of the metadata, unless a thread is still assigning.
Assigned ==
    (\A t \in Threads : read[t].pc \notin {"assignMeta", "assignKey"})
        => block_key = meta

\* The handle has not moved back behind the file the read began with.
Follows(c) ==
    /\ c.began <= meta.id
    /\ block_key = Garbled \/ c.began <= block_key.id

\* What a read c has and has yet to use.
Sound(c) ==
    /\ Follows(c) /\ NotNewer(c.key)
    /\ c.pc # "idle" => c.index \in Indices
    /\ c.pc \in {"put", "compare", "assignMeta"} => NotNewer(c.got)
    /\ c.pc = "keep" => AtLeast(c.got, c.key) /\ c.began <= c.got.id
    /\ c.pc \in {"copy", "done"} => c.began <= c.got.id
    /\ c.pc \in {"block", "wait", "keep", "giveUp"} => block_size > 0

\* A thread waits for the one that fetches its block.
Joined(c) ==
    IF c.pc = "wait"
    THEN /\ c.awaits \in Threads
         /\ blocks[c.key][c.index].fetcher = c.awaits
         /\ c.began <= c.key.id
    ELSE c.awaits = None

\* A thread that fetches a block has its entry.
Owned(t, c) ==
    /\ c.pc \in {"address", "download", "keep", "giveUp"}
    /\ block_size > 0 /\ c.key # Garbled
    => blocks[c.key][c.index].fetcher = t

\* A read left alone that met no failure: what it saw is still so.
OthersIdle(t) == \A u \in Threads \ {t} : At(u, "idle")
Recovers(c) ==
    /\ c.pc # "wait"
    /\ c.pc = "download" => c.got = meta
    /\ c.pc \in {"block", "address", "download"} =>
         c.attempt = 0 \/ (meta.id = file.id /\ file.id # 0)
    /\ c.pc \in {"giveUp", "failing"} => c.attempt = 0 /\ c.not_found
    /\ c.pc \in {"giveUp", "failing", "invalidate", "resolve", "put", "compare"}
         => meta.id # file.id \/ file.id = 0
    /\ c.pc = "resolve" => entry = NoVersion
    /\ c.pc \in {"put", "compare", "assignMeta"} => c.got = file /\ file.id # 0
    /\ c.pc = "assignKey" => meta = file /\ file.id # 0
    /\ c.pc = "failed" => file.id = 0
Lone(t, c) == c.alone /\ ~c.fault => OthersIdle(t) /\ Recovers(c)

\* What a block is cached under, and who fetches it.
BlockSound(k, b) ==
    /\ b # NoBlock /\ b.fetcher = None => AtLeast(b.content, k)
    /\ b.fetcher # None => block_size > 0
    /\ k = Garbled => b = NoBlock

IInv ==
    /\ TypeOK /\ Current /\ Assigned
    /\ \A t \in Threads : /\ Sound(read[t]) /\ Joined(read[t])
                          /\ Owned(t, read[t]) /\ Lone(t, read[t])
    /\ \A k \in Version, i \in Indices : BlockSound(k, blocks[k][i])
-----------------------------------------------------------------------------
(***************************************************************************)
(* What a step leaves alone.                                               *)
(***************************************************************************)

\* A thread that fetches a block is where TypeOK says it is.
Owner(k, i) ==
    LET t == blocks[k][i].fetcher IN
    t # None => /\ read[t].key = k /\ read[t].index = i
                /\ read[t].pc \in {"address", "download", "keep", "giveUp"}

\* TypeOK, in the parts that steps are about.
LEMMA Types ==
    TypeOK <=> /\ file \in Version /\ ids \in 1..MaxIds /\ changes \in 1..MaxChanges
               /\ entry \in Version /\ opener \in Version
               /\ meta \in Version /\ block_key \in Version /\ block_size \in {0, 1}
               /\ blocks \in [Version -> [Indices -> Block]]
               /\ read \in [Threads -> Read]
               /\ \A k \in Version, i \in Indices : Owner(k, i)
BY DEF TypeOK, Owner

\* Versions have numbers, and the two special ones are versions.
LEMMA Versions ==
    ASSUME ReadAssumption
    PROVE  /\ \A v \in Version : v.id \in 0..MaxIds /\ v.rev \in 0..MaxChanges
           /\ \A v \in Version : v.id \in Int /\ v.rev \in Int
           /\ NoVersion \in Version /\ Garbled \in Version /\ First \in Version
           /\ Garbled.id = 0 /\ NoVersion.id = 0 /\ First.id = 1
           /\ NoBlock \in Block /\ Idle \in Read
BY DEF ReadAssumption, Version, NoVersion, Garbled, First, Block, NoBlock, Read, Idle

\* What names no file is not newer than what Drive has.
LEMMA NoFileNotNewer ==
    ASSUME IInv, ReadAssumption, NEW v, v.id = 0
    PROVE  NotNewer(v)
BY Versions DEF IInv, TypeOK, ReadAssumption, NotNewer

\* The reads of the threads other than t are only marked as disturbed.
Others(t) == \A u \in Threads \ {t} : read'[u] = [read[u] EXCEPT !.alone = FALSE]

LEMMA Continued ==
    ASSUME TypeOK, NEW t \in Threads, NEW c \in Read, Continue(t, c)
    PROVE  read' \in [Threads -> Read] /\ read'[t] = c /\ Others(t)
<1>1. read \in [Threads -> Read]  BY DEF TypeOK
<1>2. \A u \in Threads : [read[u] EXCEPT !.alone = FALSE] \in Read
  BY <1>1 DEF Read
<1>3. read' = [u \in Threads |-> IF u = t THEN c ELSE [read[u] EXCEPT !.alone = FALSE]]
  BY <1>1 DEF Continue, Disturb
<1> QED  BY <1>2, <1>3 DEF Others

\* A disturbed read keeps its place and what it has.
LEMMA Marked ==
    ASSUME NEW c \in Read, NEW d, d = [c EXCEPT !.alone = FALSE]
    PROVE  /\ d \in Read /\ ~d.alone
           /\ d.pc = c.pc /\ d.attempt = c.attempt /\ d.index = c.index
           /\ d.key = c.key /\ d.got = c.got /\ d.not_found = c.not_found
           /\ d.awaits = c.awaits /\ d.began = c.began /\ d.fault = c.fault
BY DEF Read

\* What a read has stays as long as the handle follows the files and nothing
\* it knows becomes newer than Drive.
LEMMA SoundStays ==
    ASSUME NEW c \in Read, NEW d \in Read, Sound(c),
           d.pc = c.pc, d.index = c.index, d.key = c.key, d.got = c.got,
           d.began = c.began,
           Follows(c)', block_size' = block_size,
           \A v \in Version : NotNewer(v) => NotNewer(v)'
    PROVE  Sound(d)'
<1>1. c.key \in Version /\ c.got \in Version  BY DEF Read
<1> QED  BY <1>1 DEF Sound, Follows, AtLeast

\* Thread t goes on with read c, and nothing of Drive or the handle changes.
Moves(t, c) ==
    /\ c \in Read /\ Continue(t, c)
    /\ UNCHANGED <<driveVars, opener, handleVars>>
    /\ read[t].pc \notin {"assignMeta", "assignKey"}

\* Such a step keeps the invariant when c is sound and a block t has begun to
\* fetch, if any, is the one c is about.
LEMMA MoveKeeps ==
    ASSUME IInv, ReadAssumption, NEW t \in Threads, NEW c, Moves(t, c),
           entry' \in Version, NotNewer(entry)',
           Sound(c), Joined(c)', Owned(t, c)',
           c.alone /\ ~c.fault => OthersIdle(t) /\ Recovers(c)',
           blocks' \in [Version -> [Indices -> Block]],
           \A k \in Version, i \in Indices :
              \/ blocks'[k][i] = blocks[k][i]
              \/ /\ blocks[k][i].fetcher = None /\ blocks'[k][i].fetcher = t
                 /\ BlockSound(k, blocks'[k][i]),
           \A k \in Version, i \in Indices :
              blocks'[k][i].fetcher = t =>
                 /\ c.key = k /\ c.index = i
                 /\ c.pc \in {"address", "download", "keep", "giveUp"}
    PROVE  IInv'
<1>1. TypeOK /\ Current /\ Assigned  BY DEF IInv
<1>2. read' \in [Threads -> Read] /\ read'[t] = c /\ Others(t)
  BY <1>1, Continued DEF Moves
<1>3. /\ UNCHANGED <<file, ids, changes, opener, meta, block_key, block_size>>
      /\ read[t].pc \notin {"assignMeta", "assignKey"}
  BY DEF Moves, driveVars, handleVars
<1>4. \A v : NotNewer(v)' <=> NotNewer(v)  BY <1>3 DEF NotNewer
<1>5. \A u \in Threads \ {t} : /\ read[u] \in Read
                               /\ read'[u] = [read[u] EXCEPT !.alone = FALSE]
  BY <1>1, <1>2 DEF Others, TypeOK
<1>6. \A u \in Threads \ {t} : /\ ~read'[u].alone /\ read'[u].pc = read[u].pc
                               /\ read'[u].key = read[u].key
                               /\ read'[u].index = read[u].index
  <2>1. TAKE u \in Threads \ {t}
  <2>2. PICK d : d = read[u]  OBVIOUS
  <2>3. PICK e : e = [d EXCEPT !.alone = FALSE]  OBVIOUS
  <2>4. d \in Read /\ read'[u] = e  BY <1>5, <2>2, <2>3
  <2> QED  BY <2>2, <2>3, <2>4, Marked
<1>7. TypeOK'
  <2>1. ASSUME NEW k \in Version, NEW i \in Indices
        PROVE  Owner(k, i)'
    <3>1. Owner(k, i)  BY <1>1, Types
    <3>2. blocks'[k][i].fetcher \in Threads \cup {None}  BY DEF Block
    <3>3. CASE blocks'[k][i].fetcher = t
      BY <1>2, <3>3 DEF Owner
    <3>4. CASE blocks'[k][i].fetcher # t /\ blocks'[k][i].fetcher # None
      <4>1. /\ blocks'[k][i] = blocks[k][i]
            /\ blocks[k][i].fetcher \in Threads \ {t}
        BY <3>2, <3>4
      <4> QED  BY <1>6, <3>1, <4>1 DEF Owner
    <3> QED  BY <3>3, <3>4 DEF Owner
  <2> QED  BY <1>1, <1>2, <1>3, <2>1 DEF TypeOK, Owner
<1>8. Current'  BY <1>1, <1>3, <1>4 DEF Current
<1>9. Assigned'  BY <1>1, <1>2, <1>3, <1>6 DEF Assigned
<1>10. Sound(c)'  BY <1>3, <1>4 DEF Sound, Follows, AtLeast
<1>11. Lone(t, c)'
  <2>1. OthersIdle(t) => OthersIdle(t)'  BY <1>6 DEF OthersIdle, At
  <2> QED  BY <2>1 DEF Lone
<1>12. ASSUME NEW u \in Threads \ {t}
       PROVE  /\ Sound(read[u])' /\ Joined(read[u])'
              /\ Owned(u, read[u])' /\ Lone(u, read[u])'
  <2>1. PICK d : d = read[u]  OBVIOUS
  <2>2. PICK e : e = [d EXCEPT !.alone = FALSE]  OBVIOUS
  <2>3. d \in Read /\ Sound(d) /\ Joined(d) /\ Owned(u, d) /\ read'[u] = e
    BY <1>5, <2>1, <2>2 DEF IInv
  <2>4. /\ e \in Read /\ ~e.alone /\ e.pc = d.pc /\ e.index = d.index /\ e.key = d.key
        /\ e.got = d.got /\ e.began = d.began /\ e.awaits = d.awaits
    BY <2>2, <2>3, Marked
  <2>5. Sound(e)'
    <3>1. Follows(d)'  BY <1>3, <2>3 DEF Sound, Follows
    <3> QED  BY <1>3, <1>4, <2>3, <2>4, <3>1, SoundStays
  <2>6. Joined(e)'
    <3>1. CASE d.pc = "wait"
      <4>1. /\ d.index \in Indices /\ d.key \in Version /\ d.awaits \in Threads
            /\ blocks[d.key][d.index].fetcher = d.awaits /\ d.began <= d.key.id
        BY <2>3, <3>1 DEF Sound, Joined, Read
      <4>2. blocks'[d.key][d.index].fetcher = d.awaits
        BY <4>1 DEF ReadAssumption
      <4> QED  BY <2>4, <3>1, <4>1, <4>2 DEF Joined
    <3> QED  BY <2>3, <2>4, <3>1 DEF Joined
  <2>7. Owned(u, e)'
    <3>1. CASE d.pc \in {"address", "download", "keep", "giveUp"} /\ block_size > 0
      <4>1. d.index \in Indices /\ d.key \in Version  BY <2>3, <3>1 DEF Sound, Read
      <4> QED  BY <1>3, <2>3, <2>4, <3>1, <4>1 DEF Owned, ReadAssumption
    <3> QED  BY <1>3, <2>3, <2>4, <3>1 DEF Owned
  <2> QED  BY <2>3, <2>4, <2>5, <2>6, <2>7 DEF Lone
<1>13. ASSUME NEW k \in Version, NEW i \in Indices
       PROVE  BlockSound(k, blocks[k][i])'
  <2>1. CASE blocks'[k][i] = blocks[k][i]
    BY <1>3, <2>1 DEF IInv, BlockSound, AtLeast
  <2>2. CASE BlockSound(k, blocks'[k][i])
    BY <1>3, <2>2 DEF BlockSound, AtLeast
  <2> QED  BY <2>1, <2>2
<1>14. \A u \in Threads : /\ Sound(read[u])' /\ Joined(read[u])'
                          /\ Owned(u, read[u])' /\ Lone(u, read[u])'
  BY <1>2, <1>10, <1>11, <1>12
<1> QED  BY <1>7, <1>8, <1>9, <1>13, <1>14 DEF IInv

\* The same when the blocks stay as they are.
LEMMA QuietMoveKeeps ==
    ASSUME IInv, ReadAssumption, NEW t \in Threads, NEW c, Moves(t, c),
           blocks' = blocks, entry' \in Version, NotNewer(entry)',
           Sound(c), Joined(c), Owned(t, c),
           c.alone /\ ~c.fault => OthersIdle(t) /\ Recovers(c)',
           \/ /\ c.key = read[t].key /\ c.index = read[t].index
              /\ c.pc \in {"address", "download", "keep", "giveUp"}
           \/ \A k \in Version, i \in Indices : blocks[k][i].fetcher # t
    PROVE  IInv'
<1>1. TypeOK /\ \A k \in Version, i \in Indices : Owner(k, i)  BY Types DEF IInv
<1>2. Joined(c)' /\ Owned(t, c)'  BY DEF Joined, Owned, Moves, handleVars
<1>3. blocks' \in [Version -> [Indices -> Block]]  BY <1>1 DEF TypeOK
<1>4. \A k \in Version, i \in Indices :
         blocks'[k][i].fetcher = t =>
            /\ c.key = k /\ c.index = i
            /\ c.pc \in {"address", "download", "keep", "giveUp"}
  BY <1>1 DEF Owner, ReadAssumption
<1> QED  BY <1>2, <1>3, <1>4, MoveKeeps

\* A thread fetches nothing before it asks for a block and after it settles.
LEMMA NotFetching ==
    ASSUME IInv, ReadAssumption, NEW t \in Threads,
           \/ read[t].pc \notin {"address", "download", "keep", "giveUp"}
           \/ block_size = 0
    PROVE  \A k \in Version, i \in Indices : blocks[k][i].fetcher # t
<1>1. CASE read[t].pc \notin {"address", "download", "keep", "giveUp"}
  BY <1>1, Types DEF IInv, Owner, ReadAssumption
<1>2. CASE block_size = 0
  BY <1>2 DEF IInv, BlockSound, ReadAssumption
<1> QED  BY <1>1, <1>2
-----------------------------------------------------------------------------
(***************************************************************************)
(* Drive and the other handles.                                            *)
(***************************************************************************)

\* What others do to Drive or the entry of the path keeps the invariant when
\* nothing known becomes newer than Drive by it.
LEMMA WorldKeeps ==
    ASSUME IInv, ReadAssumption, Disturbed, UNCHANGED <<handleVars, blocks>>,
           file' \in Version, ids' \in 1..MaxIds, changes' \in 1..MaxChanges,
           entry' \in Version, opener' \in Version,
           file'.id # 0 => file'.id = ids', file'.rev <= changes',
           NotNewer(entry)', NotNewer(opener)',
           \A v \in Version : NotNewer(v) => NotNewer(v)'
    PROVE  IInv'
<1>1. TypeOK /\ Current /\ Assigned /\ \A k \in Version, i \in Indices : Owner(k, i)
  BY Types DEF IInv
<1>2. /\ UNCHANGED <<meta, block_key, block_size, blocks>>
      /\ read' = [u \in Threads |-> [read[u] EXCEPT !.alone = FALSE]]
  BY DEF handleVars, Disturbed, Disturb, ReadAssumption
<1>3. ASSUME NEW u \in Threads
      PROVE  /\ read'[u] \in Read /\ ~read'[u].alone
             /\ read'[u].pc = read[u].pc /\ read'[u].key = read[u].key
             /\ read'[u].index = read[u].index
             /\ Sound(read[u])' /\ Joined(read[u])'
             /\ Owned(u, read[u])' /\ Lone(u, read[u])'
  <2>1. PICK d : d = read[u]  OBVIOUS
  <2>2. PICK e : e = [d EXCEPT !.alone = FALSE]  OBVIOUS
  <2>3. d \in Read /\ Sound(d) /\ Joined(d) /\ Owned(u, d) /\ read'[u] = e
    BY <1>1, <1>2, <2>1, <2>2 DEF IInv, TypeOK
  <2>4. /\ e \in Read /\ ~e.alone /\ e.pc = d.pc /\ e.index = d.index /\ e.key = d.key
        /\ e.got = d.got /\ e.began = d.began /\ e.awaits = d.awaits
    BY <2>2, <2>3, Marked
  <2>5. Follows(d)'  BY <1>2, <2>3 DEF Sound, Follows
  <2>6. Sound(e)'  BY <1>2, <2>3, <2>4, <2>5, SoundStays
  <2>7. Joined(e)' /\ Owned(u, e)'  BY <1>2, <2>3, <2>4 DEF Joined, Owned
  <2> QED  BY <2>1, <2>3, <2>4, <2>6, <2>7 DEF Lone
<1>4. TypeOK'
  <2>1. read' \in [Threads -> Read]  BY <1>2, <1>3
  <2>2. \A k \in Version, i \in Indices : Owner(k, i)'
    BY <1>1, <1>2, <1>3 DEF Owner, TypeOK, Block
  <2> QED  BY <1>1, <1>2, <2>1, <2>2 DEF TypeOK, Owner
<1>5. Current'  BY <1>1, <1>2 DEF Current, TypeOK
<1>6. Assigned'  BY <1>1, <1>2, <1>3 DEF Assigned
<1>7. \A k \in Version, i \in Indices : BlockSound(k, blocks[k][i])'
  BY <1>2 DEF IInv, BlockSound, AtLeast
<1> QED  BY <1>3, <1>4, <1>5, <1>6, <1>7 DEF IInv

\* A version at the path that is later than the one before makes nothing newer.
LEMMA OverwriteKeeps == ASSUME IInv, ReadAssumption, Overwrite PROVE IInv'
<1>1. TypeOK /\ Current  BY DEF IInv
<1>2. /\ file' = [file EXCEPT !.rev = changes + 1]
      /\ ids' = ids + 0 /\ changes' = changes + 1 /\ changes < MaxChanges
      /\ Disturbed /\ UNCHANGED <<entry, opener>> /\ UNCHANGED <<handleVars, blocks>>
  BY DEF Overwrite, Change
<1>3. /\ file \in Version /\ entry \in Version /\ opener \in Version
      /\ ids \in 1..MaxIds /\ changes \in 1..MaxChanges
  BY <1>1 DEF TypeOK
<1>4. /\ file'.id = file.id /\ file'.rev = changes + 1 /\ file' \in Version
      /\ ids' = ids /\ changes' \in 1..MaxChanges
  BY <1>2, <1>3 DEF Version, ReadAssumption
<1>5. ASSUME NEW v \in Version, NotNewer(v)
      PROVE  NotNewer(v)'
  BY <1>1, <1>3, <1>4, <1>5, Versions DEF NotNewer, Current
<1>6. NotNewer(entry)' /\ NotNewer(opener)'
  BY <1>1, <1>2, <1>3, <1>5 DEF Current
<1>7. file'.id # 0 => file'.id = ids'  BY <1>1, <1>4 DEF Current
<1>8. file'.rev <= changes'  BY <1>2, <1>3, <1>4
<1> QED  BY <1>2, <1>3, <1>4, <1>5, <1>6, <1>7, <1>8, WorldKeeps

LEMMA DeleteKeeps == ASSUME IInv, ReadAssumption, Delete PROVE IInv'
<1>1. TypeOK /\ Current  BY DEF IInv
<1>2. /\ file' = NoVersion
      /\ ids' = ids + 0 /\ changes' = changes + 1 /\ changes < MaxChanges
      /\ Disturbed /\ UNCHANGED <<entry, opener>> /\ UNCHANGED <<handleVars, blocks>>
  BY DEF Delete, Change
<1>3. /\ entry \in Version /\ opener \in Version
      /\ ids \in 1..MaxIds /\ changes \in 1..MaxChanges
  BY <1>1 DEF TypeOK
<1>4. /\ file'.id = 0 /\ file'.rev = 0 /\ file' \in Version
      /\ ids' = ids /\ changes' \in 1..MaxChanges
  BY <1>2, <1>3, Versions DEF NoVersion, ReadAssumption
<1>5. ASSUME NEW v \in Version, NotNewer(v)
      PROVE  NotNewer(v)'
  BY <1>4, <1>5 DEF NotNewer
<1>6. NotNewer(entry)' /\ NotNewer(opener)'
  BY <1>1, <1>2, <1>3, <1>5 DEF Current
<1>7. file'.rev <= changes'  BY <1>2, <1>3, <1>4
<1> QED  BY <1>2, <1>3, <1>4, <1>5, <1>6, <1>7, WorldKeeps

LEMMA RecreateKeeps == ASSUME IInv, ReadAssumption, Recreate PROVE IInv'
<1>1. TypeOK /\ Current  BY DEF IInv
<1>2. /\ file' = [id |-> ids + 1, rev |-> changes + 1] /\ ids < MaxIds
      /\ ids' = ids + 1 /\ changes' = changes + 1 /\ changes < MaxChanges
      /\ Disturbed /\ UNCHANGED <<entry, opener>> /\ UNCHANGED <<handleVars, blocks>>
  BY DEF Recreate, Change
<1>3. /\ entry \in Version /\ opener \in Version
      /\ ids \in 1..MaxIds /\ changes \in 1..MaxChanges
  BY <1>1 DEF TypeOK
<1>4. /\ file'.id = ids + 1 /\ file'.rev = changes + 1 /\ file' \in Version
      /\ ids' \in 1..MaxIds /\ changes' \in 1..MaxChanges
  BY <1>2, <1>3 DEF Version, ReadAssumption
<1>5. ASSUME NEW v \in Version, NotNewer(v)
      PROVE  NotNewer(v)'
  BY <1>2, <1>3, <1>4, <1>5, Versions DEF NotNewer
<1>6. NotNewer(entry)' /\ NotNewer(opener)'
  BY <1>1, <1>2, <1>3, <1>5 DEF Current
<1>7. file'.rev <= changes'  BY <1>2, <1>3, <1>4
<1> QED  BY <1>2, <1>3, <1>4, <1>5, <1>6, <1>7, WorldKeeps

\* What the other open lists is what Drive has, and it may put it late.
LEMMA OpenerKeeps == ASSUME IInv, ReadAssumption, OpenerLists \/ OpenerPuts PROVE IInv'
<1>1. TypeOK /\ Current  BY DEF IInv
<1>2. /\ UNCHANGED <<file, ids, changes>> /\ Disturbed /\ UNCHANGED <<handleVars, blocks>>
      /\ entry' \in {entry, opener} /\ opener' \in {opener, file, NoVersion}
  BY DEF OpenerLists, OpenerPuts, driveVars
<1>3. \A v : NotNewer(v)' <=> NotNewer(v)  BY <1>2 DEF NotNewer
<1>4. /\ entry \in Version /\ opener \in Version /\ file \in Version
      /\ NoVersion \in Version /\ NoVersion.id = 0
      /\ ids \in 1..MaxIds /\ changes \in 1..MaxChanges
  BY <1>1, Versions DEF TypeOK
<1>5. NotNewer(file)  BY <1>1, <1>4, Versions DEF NotNewer, Current
<1>6. NotNewer(NoVersion)  BY <1>4, NoFileNotNewer
<1>7. entry' \in Version /\ NotNewer(entry')
  BY <1>1, <1>2, <1>4 DEF Current
<1>8. opener' \in Version /\ NotNewer(opener')
  BY <1>1, <1>2, <1>4, <1>5, <1>6 DEF Current
<1>9. NotNewer(entry)' /\ NotNewer(opener)'  BY <1>2, <1>7, <1>8 DEF NotNewer
<1> QED  BY <1>1, <1>2, <1>3, <1>4, <1>7, <1>8, <1>9, WorldKeeps DEF Current

\* A block that nobody waits for may go.
LEMMA EvictKeeps ==
    ASSUME IInv, ReadAssumption, NEW k \in Version, NEW i \in Indices, Evict(k, i)
    PROVE  IInv'
<1>1. TypeOK  BY DEF IInv
<1>2. /\ UNCHANGED <<file, ids, changes, entry, opener, meta, block_key, block_size, read>>
      /\ blocks' = [blocks EXCEPT ![k][i] = NoBlock] /\ blocks[k][i].fetcher = None
  BY DEF Evict, driveVars, handleVars
<1>3. /\ blocks' \in [Version -> [Indices -> Block]]
      /\ \A j \in Version, m \in Indices :
           blocks'[j][m] = IF j = k /\ m = i THEN NoBlock ELSE blocks[j][m]
  BY <1>1, <1>2, Versions DEF TypeOK
<1>4. \A j \in Version, m \in Indices :
         /\ blocks'[j][m] = blocks[j][m] \/ blocks'[j][m] = NoBlock
         /\ blocks'[j][m].fetcher = blocks[j][m].fetcher
  BY <1>2, <1>3 DEF NoBlock
<1>5. TypeOK'
  <2>1. \A j \in Version, m \in Indices : Owner(j, m)'
    BY <1>1, <1>2, <1>4, Types DEF Owner
  <2> QED  BY <1>1, <1>2, <1>3, <2>1 DEF TypeOK, Owner
<1>6. \A v : NotNewer(v)' <=> NotNewer(v)  BY <1>2 DEF NotNewer
<1>7. Current' /\ Assigned'  BY <1>2, <1>6 DEF IInv, Current, Assigned
<1>8. ASSUME NEW u \in Threads
      PROVE  /\ Sound(read[u])' /\ Joined(read[u])'
             /\ Owned(u, read[u])' /\ Lone(u, read[u])'
  <2>1. PICK d : d = read[u]  OBVIOUS
  <2>2. /\ d \in Read /\ Sound(d) /\ Joined(d) /\ Owned(u, d) /\ Lone(u, d)
        /\ read'[u] = d
    BY <1>1, <1>2, <2>1 DEF IInv, TypeOK
  <2>3. Sound(d)'  BY <1>2, <1>6, <2>2 DEF Sound, Follows, AtLeast
  <2>4. Joined(d)' /\ Owned(u, d)'
    BY <1>2, <1>4, <2>2 DEF Joined, Owned, Sound, Read
  <2>5. Lone(u, d)'  BY <1>2, <2>2 DEF Lone, OthersIdle, Recovers, At
  <2> QED  BY <2>2, <2>3, <2>4, <2>5
<1>9. ASSUME NEW j \in Version, NEW m \in Indices
      PROVE  BlockSound(j, blocks[j][m])'
  <2>1. CASE blocks'[j][m] = blocks[j][m]
    BY <1>2, <2>1 DEF IInv, BlockSound, AtLeast
  <2>2. CASE blocks'[j][m] = NoBlock
    BY <2>2 DEF BlockSound, NoBlock
  <2> QED  BY <1>4, <2>1, <2>2
<1> QED  BY <1>5, <1>7, <1>8, <1>9 DEF IInv
-----------------------------------------------------------------------------
(***************************************************************************)
(* The steps of a read that leave the handle and the blocks alone.         *)
(***************************************************************************)

\* What is known of the read of thread t.
LEMMA Reads ==
    ASSUME IInv, ReadAssumption, NEW t \in Threads
    PROVE  /\ read[t] \in Read /\ Sound(read[t]) /\ Joined(read[t])
           /\ Owned(t, read[t]) /\ Lone(t, read[t])
           /\ read[t].key \in Version /\ read[t].got \in Version
           /\ read[t].began \in 0..MaxIds /\ read[t].began \in Nat
BY DEF IInv, TypeOK, Read, ReadAssumption

\* What is known of Drive and the handle.
LEMMA World ==
    ASSUME IInv, ReadAssumption
    PROVE  /\ file \in Version /\ entry \in Version
           /\ meta \in Version /\ block_key \in Version /\ block_size \in {0, 1}
           /\ file.id \in 0..MaxIds /\ meta.id \in 0..MaxIds /\ ids \in 1..MaxIds
           /\ NotNewer(file) /\ NotNewer(entry) /\ NotNewer(meta) /\ NotNewer(block_key)
           /\ NotNewer(NoVersion) /\ NotNewer(Garbled)
           /\ file.id # 0 => file.id = ids
           /\ meta.id <= ids
<1>1. TypeOK /\ Current  BY DEF IInv
<1>2. /\ file \in Version /\ entry \in Version
      /\ meta \in Version /\ block_key \in Version /\ block_size \in {0, 1}
      /\ file.id \in 0..MaxIds /\ meta.id \in 0..MaxIds /\ ids \in 1..MaxIds
  BY <1>1, Versions DEF TypeOK
<1>3. NotNewer(file)  BY <1>1, <1>2, Versions DEF NotNewer, Current
<1>4. NotNewer(NoVersion) /\ NotNewer(Garbled)  BY Versions, NoFileNotNewer
<1> QED  BY <1>1, <1>2, <1>3, <1>4 DEF Current, NotNewer

\* A thread alone sees no assignment under way.
LEMMA AloneSees ==
    ASSUME NEW t \in Threads, OthersIdle(t)
    PROVE  SeenMeta(t) = {meta} /\ SeenKey(t) = {block_key}
<1>1. Assigning(t, "assignMeta") = {} /\ Assigning(t, "assignKey") = {}
  BY DEF OthersIdle, Assigning, At
<1> QED  BY <1>1 DEF SeenMeta, SeenKey, Seen

LEMMA StartKeeps ==
    ASSUME IInv, ReadAssumption, NEW t \in Threads, NEW i \in Indices, Start(t, i)
    PROVE  IInv'
<1>1. PICK c : c = [Idle EXCEPT !.index = i,
            !.pc = IF block_size > 0 THEN "block" ELSE "address",
            !.began = IF \E u \in Threads : read[u].pc \in {"assignMeta", "assignKey"}
                      THEN 0 ELSE meta.id,
            !.alone = \A u \in Threads : At(u, "idle")]
  OBVIOUS
<1>2. /\ Continue(t, c) /\ read[t].pc = "idle"
      /\ UNCHANGED <<driveVars, opener, handleVars>> /\ blocks' = blocks /\ entry' = entry
      /\ file' = file /\ ids' = ids
  BY <1>1 DEF Start, At, driveVars, handleVars
<1>3. /\ c.index = i /\ c.pc = (IF block_size > 0 THEN "block" ELSE "address")
      /\ c.key = NoVersion /\ c.got = NoVersion /\ c.awaits = None /\ c.attempt = 0
      /\ c.began = (IF \E u \in Threads : read[u].pc \in {"assignMeta", "assignKey"}
                    THEN 0 ELSE meta.id)
      /\ c.alone = (\A u \in Threads : At(u, "idle"))
  BY <1>1 DEF Idle
<1>4. c \in Read
  BY <1>1, World, Versions DEF Idle, Read, NoVersion, Version, ReadAssumption
<1>5. Follows(c)
  <2>1. CASE \E u \in Threads : read[u].pc \in {"assignMeta", "assignKey"}
    BY <1>3, <2>1, World, Versions DEF Follows
  <2>2. CASE \A u \in Threads : read[u].pc \notin {"assignMeta", "assignKey"}
    BY <1>3, <2>2, World, Versions DEF Follows, IInv, Assigned
  <2> QED  BY <2>1, <2>2
<1>6. Sound(c)  BY <1>3, <1>5, World DEF Sound
<1>7. Joined(c) /\ Owned(t, c)  BY <1>3 DEF Joined, Owned
<1>8. c.alone => OthersIdle(t) /\ Recovers(c)'
  BY <1>3 DEF OthersIdle, Recovers
<1>9. \A k \in Version, j \in Indices : blocks[k][j].fetcher # t
  BY <1>2, NotFetching
<1>10. entry' \in Version /\ NotNewer(entry)'  BY <1>2, World DEF NotNewer
<1>11. Moves(t, c)  BY <1>2, <1>4 DEF Moves
<1> QED  BY <1>2, <1>6, <1>7, <1>8, <1>9, <1>10, <1>11, QuietMoveKeeps

LEMMA ReturnKeeps ==
    ASSUME IInv, ReadAssumption, NEW t \in Threads, Return(t)
    PROVE  IInv'
<1>1. /\ Continue(t, Idle) /\ read[t].pc \in {"done", "failed"}
      /\ UNCHANGED <<driveVars, opener, handleVars>> /\ blocks' = blocks /\ entry' = entry
      /\ file' = file /\ ids' = ids
  BY DEF Return, driveVars
<1>2. Moves(t, Idle)  BY <1>1, Versions DEF Moves
<1>3. Sound(Idle) /\ Joined(Idle) /\ Owned(t, Idle) /\ ~Idle.alone
  BY World, Versions DEF Idle, Sound, Joined, Owned, Follows
<1>4. \A k \in Version, j \in Indices : blocks[k][j].fetcher # t
  BY <1>1, NotFetching
<1>5. entry' \in Version /\ NotNewer(entry)'  BY <1>1, World DEF NotNewer
<1> QED  BY <1>1, <1>2, <1>3, <1>4, <1>5, QuietMoveKeeps

\* The id is what the thread sees of the metadata, torn or not.
LEMMA AddressKeeps ==
    ASSUME IInv, ReadAssumption, NEW t \in Threads, Address(t)
    PROVE  IInv'
<1>1. PICK v \in SeenMeta(t) : Continue(t, [Goto(t, "download") EXCEPT !.got = v])
  BY DEF Address
<1>2. PICK d : d = read[t]  OBVIOUS
<1>3. PICK c : c = [[d EXCEPT !.pc = "download"] EXCEPT !.got = v]  OBVIOUS
<1>4. /\ Continue(t, c) /\ d.pc = "address"
      /\ UNCHANGED <<driveVars, opener, handleVars>> /\ blocks' = blocks /\ entry' = entry
      /\ file' = file /\ ids' = ids /\ meta' = meta
  BY <1>1, <1>2, <1>3 DEF Address, At, Goto, driveVars, handleVars
<1>5. d \in Read /\ Sound(d) /\ Joined(d) /\ Owned(t, d) /\ Lone(t, d)  BY <1>2, Reads
<1>6. v \in Version
  <2>1. \A u \in Threads : read[u].got \in Version  BY Reads
  <2>2. meta \in Version /\ Garbled \in Version  BY World, Versions
  <2> QED  BY <1>1, <2>1, <2>2 DEF SeenMeta, Seen, Assigning
<1>7. /\ c \in Read /\ c.pc = "download" /\ c.got = v /\ c.index = d.index
      /\ c.key = d.key /\ c.began = d.began /\ c.awaits = d.awaits
      /\ c.attempt = d.attempt /\ c.alone = d.alone /\ c.fault = d.fault
  BY <1>3, <1>5, <1>6 DEF Read
<1>8. Sound(c)  BY <1>4, <1>5, <1>7 DEF Sound, Follows
<1>9. Joined(c) /\ Owned(t, c)  BY <1>4, <1>5, <1>7 DEF Joined, Owned
<1>10. ASSUME c.alone, ~c.fault
       PROVE  OthersIdle(t) /\ Recovers(c)'
  <2>1. OthersIdle(t) /\ Recovers(d)  BY <1>5, <1>7, <1>10 DEF Lone
  <2>2. v = meta  BY <1>1, <2>1, AloneSees
  <2> QED  BY <1>4, <1>7, <2>1, <2>2 DEF Recovers
<1>11. entry' \in Version /\ NotNewer(entry)'  BY <1>4, World DEF NotNewer
<1>12. Moves(t, c)  BY <1>2, <1>4, <1>7 DEF Moves
<1>13. c.key = read[t].key /\ c.index = read[t].index  BY <1>2, <1>7
<1> QED  BY <1>4, <1>7, <1>8, <1>9, <1>10, <1>11, <1>12, <1>13, QuietMoveKeeps

\* What Drive sends is the file at the path, or that there is none of that id.
LEMMA DownloadKeeps ==
    ASSUME IInv, ReadAssumption, NEW t \in Threads, Download(t)
    PROVE  IInv'
<1>1. PICK d : d = read[t]  OBVIOUS
<1>2. /\ d.pc = "download"
      /\ UNCHANGED <<driveVars, opener, handleVars>> /\ blocks' = blocks /\ entry' = entry
      /\ file' = file /\ ids' = ids /\ meta' = meta
  BY <1>1 DEF Download, At, driveVars, handleVars
<1>3. /\ d \in Read /\ Sound(d) /\ Joined(d) /\ Owned(t, d) /\ Lone(t, d)
      /\ d.key \in Version /\ d.began \in 0..MaxIds
  BY <1>1, Reads
<1>4. entry' \in Version /\ NotNewer(entry)'  BY <1>2, World DEF NotNewer
<1>5. d.awaits = None  BY <1>2, <1>3 DEF Joined
<1>6. CASE /\ d.got.id = file.id /\ file.id # 0
           /\ Continue(t, [d EXCEPT
                  !.pc = IF block_size > 0 THEN "keep" ELSE "copy", !.got = file])
  <2>1. PICK c : c = [d EXCEPT !.pc = IF block_size > 0 THEN "keep" ELSE "copy", !.got = file]
    OBVIOUS
  <2>2. /\ c \in Read /\ c.pc = (IF block_size > 0 THEN "keep" ELSE "copy") /\ c.got = file
        /\ c.index = d.index /\ c.key = d.key /\ c.began = d.began /\ c.awaits = d.awaits
        /\ c.alone = d.alone /\ c.fault = d.fault
    BY <1>3, <2>1, World DEF Read
  <2>3. c.began <= file.id
    <3>1. d.began <= meta.id  BY <1>3 DEF Sound, Follows
    <3> QED  BY <1>3, <1>6, <2>2, <3>1, World
  <2>4. AtLeast(file, c.key)
    <3>1. NotNewer(c.key)  BY <1>3, <2>2 DEF Sound
    <3>2. /\ c.key.id \in Int /\ c.key.rev \in Int /\ file.id \in Int /\ file.rev \in Int
          /\ file.id = ids /\ file.id # 0
      BY <1>3, <1>6, <2>2, World, Versions
    <3> QED  BY <3>1, <3>2 DEF NotNewer, AtLeast
  <2>5. Sound(c)
    <3>1. Follows(c)  BY <1>3, <2>2 DEF Sound, Follows
    <3> QED  BY <1>2, <1>3, <2>2, <2>3, <2>4, <3>1 DEF Sound
  <2>6. Joined(c) /\ Owned(t, c)  BY <1>2, <1>3, <1>5, <2>2 DEF Joined, Owned
  <2>7. c.alone /\ ~c.fault => OthersIdle(t) /\ Recovers(c)'
    BY <1>3, <2>2 DEF Lone, Recovers
  <2>8. Moves(t, c)  BY <1>1, <1>2, <1>6, <2>1, <2>2 DEF Moves
  <2>9. \/ /\ c.key = read[t].key /\ c.index = read[t].index
           /\ c.pc \in {"address", "download", "keep", "giveUp"}
        \/ \A k \in Version, i \in Indices : blocks[k][i].fetcher # t
    <3>1. CASE block_size > 0  BY <1>1, <2>2, <3>1
    <3>2. CASE block_size = 0  BY <3>2, NotFetching
    <3> QED  BY <3>1, <3>2, World
  <2> QED  BY <1>2, <1>4, <2>5, <2>6, <2>7, <2>8, <2>9, QuietMoveKeeps
<1>7. ASSUME NEW c \in Read, Continue(t, c),
             c.pc = (IF block_size > 0 THEN "giveUp" ELSE "failing"),
             c.index = d.index, c.key = d.key, c.began = d.began, c.awaits = d.awaits,
             c.alone = d.alone, c.attempt = d.attempt,
             ~c.fault => /\ ~d.fault /\ c.not_found
                         /\ d.got.id # file.id \/ file.id = 0
      PROVE  IInv'
  <2>1. Sound(c)
    <3>1. Follows(c)  BY <1>3, <1>7 DEF Sound, Follows
    <3> QED  BY <1>2, <1>3, <1>7, <3>1 DEF Sound
  <2>2. Joined(c) /\ Owned(t, c)  BY <1>2, <1>3, <1>5, <1>7 DEF Joined, Owned
  <2>3. ASSUME c.alone, ~c.fault
        PROVE  OthersIdle(t) /\ Recovers(c)'
    <3>1. OthersIdle(t) /\ Recovers(d)  BY <1>3, <1>7, <2>3 DEF Lone
    <3>2. d.got = meta /\ (d.attempt = 0 \/ (meta.id = file.id /\ file.id # 0))
      BY <1>2, <3>1 DEF Recovers
    <3> QED  BY <1>2, <1>7, <2>3, <3>1, <3>2 DEF Recovers
  <2>4. Moves(t, c)  BY <1>1, <1>2, <1>7 DEF Moves
  <2>5. \/ /\ c.key = read[t].key /\ c.index = read[t].index
           /\ c.pc \in {"address", "download", "keep", "giveUp"}
        \/ \A k \in Version, i \in Indices : blocks[k][i].fetcher # t
    <3>1. CASE block_size > 0  BY <1>1, <1>7, <3>1
    <3>2. CASE block_size = 0  BY <3>2, NotFetching
    <3> QED  BY <3>1, <3>2, World
  <2> QED  BY <1>2, <1>4, <2>1, <2>2, <2>3, <2>4, <2>5, QuietMoveKeeps
<1>8. CASE /\ d.got.id # file.id \/ file.id = 0
           /\ Continue(t, [d EXCEPT !.pc = IF block_size > 0 THEN "giveUp" ELSE "failing",
                                    !.not_found = TRUE])
  <2>1. PICK c : c = [d EXCEPT !.pc = IF block_size > 0 THEN "giveUp" ELSE "failing",
                               !.not_found = TRUE]
    OBVIOUS
  <2>2. /\ c \in Read /\ c.pc = (IF block_size > 0 THEN "giveUp" ELSE "failing")
        /\ c.index = d.index /\ c.key = d.key /\ c.began = d.began /\ c.awaits = d.awaits
        /\ c.alone = d.alone /\ c.attempt = d.attempt /\ c.fault = d.fault /\ c.not_found
    BY <1>3, <2>1 DEF Read
  <2> QED  BY <1>7, <1>8, <2>1, <2>2
<1>9. CASE Continue(t, [d EXCEPT !.pc = IF block_size > 0 THEN "giveUp" ELSE "failing",
                                 !.fault = TRUE])
  <2>1. PICK c : c = [d EXCEPT !.pc = IF block_size > 0 THEN "giveUp" ELSE "failing",
                               !.fault = TRUE]
    OBVIOUS
  <2>2. /\ c \in Read /\ c.pc = (IF block_size > 0 THEN "giveUp" ELSE "failing")
        /\ c.index = d.index /\ c.key = d.key /\ c.began = d.began /\ c.awaits = d.awaits
        /\ c.alone = d.alone /\ c.attempt = d.attempt /\ c.fault
    BY <1>3, <2>1 DEF Read
  <2> QED  BY <1>7, <1>9, <2>1, <2>2
<1> QED  BY <1>1, <1>6, <1>8, <1>9 DEF Download

\* The bytes are there, or the body ends before them.
LEMMA CopyKeeps ==
    ASSUME IInv, ReadAssumption, NEW t \in Threads, Copy(t)
    PROVE  IInv'
<1>1. PICK d : d = read[t]  OBVIOUS
<1>2. /\ d.pc = "copy"
      /\ UNCHANGED <<driveVars, opener, handleVars>> /\ blocks' = blocks /\ entry' = entry
      /\ file' = file /\ ids' = ids /\ meta' = meta
  BY <1>1 DEF Copy, At, driveVars, handleVars
<1>3. d \in Read /\ Sound(d) /\ Joined(d) /\ Owned(t, d) /\ Lone(t, d)  BY <1>1, Reads
<1>4. PICK c : /\ Continue(t, c)
               /\ \/ c = [d EXCEPT !.pc = "done"]
                  \/ c = [[d EXCEPT !.pc = "failed"] EXCEPT !.fault = TRUE]
  BY <1>1 DEF Copy, Goto
<1>5. /\ c \in Read
      /\ c.pc = "done" \/ (c.pc = "failed" /\ c.fault)
      /\ c.got = d.got /\ c.index = d.index /\ c.key = d.key /\ c.began = d.began
      /\ c.awaits = d.awaits /\ c.alone = d.alone
      /\ ~c.fault => ~d.fault
  BY <1>3, <1>4 DEF Read
<1>6. Sound(c)  BY <1>2, <1>3, <1>5 DEF Sound, Follows
<1>7. Joined(c) /\ Owned(t, c)  BY <1>2, <1>3, <1>5 DEF Joined, Owned
<1>8. c.alone /\ ~c.fault => OthersIdle(t) /\ Recovers(c)'
  BY <1>3, <1>5 DEF Lone, Recovers
<1>9. entry' \in Version /\ NotNewer(entry)'  BY <1>2, World DEF NotNewer
<1>10. Moves(t, c)  BY <1>1, <1>2, <1>4, <1>5 DEF Moves
<1>11. \A k \in Version, i \in Indices : blocks[k][i].fetcher # t
  BY <1>1, <1>2, NotFetching
<1> QED  BY <1>2, <1>6, <1>7, <1>8, <1>9, <1>10, <1>11, QuietMoveKeeps

\* A request that fails is looked at by the thread that made it.
LEMMA FailingKeeps ==
    ASSUME IInv, ReadAssumption, NEW t \in Threads, Failing(t)
    PROVE  IInv'
<1>1. PICK d : d = read[t]  OBVIOUS
<1>2. PICK c : c = [d EXCEPT !.pc = IF MayRecover(d) THEN "invalidate" ELSE "failed"]
  OBVIOUS
<1>3. /\ d.pc = "failing" /\ Continue(t, c)
      /\ UNCHANGED <<driveVars, opener, handleVars>> /\ blocks' = blocks /\ entry' = entry
      /\ file' = file /\ ids' = ids /\ meta' = meta
  BY <1>1, <1>2 DEF Failing, At, Goto, driveVars, handleVars
<1>4. d \in Read /\ Sound(d) /\ Joined(d) /\ Owned(t, d) /\ Lone(t, d)  BY <1>1, Reads
<1>5. /\ c \in Read /\ c.pc = (IF MayRecover(d) THEN "invalidate" ELSE "failed")
      /\ c.got = d.got /\ c.index = d.index /\ c.key = d.key /\ c.began = d.began
      /\ c.awaits = d.awaits /\ c.alone = d.alone /\ c.fault = d.fault
  BY <1>2, <1>4 DEF Read
<1>6. Sound(c)  BY <1>3, <1>4, <1>5 DEF Sound, Follows
<1>7. Joined(c) /\ Owned(t, c)  BY <1>3, <1>4, <1>5 DEF Joined, Owned
<1>8. c.alone /\ ~c.fault => OthersIdle(t) /\ Recovers(c)'
  BY <1>3, <1>4, <1>5 DEF Lone, Recovers, MayRecover
<1>9. entry' \in Version /\ NotNewer(entry)'  BY <1>3, World DEF NotNewer
<1>10. Moves(t, c)  BY <1>1, <1>3, <1>5 DEF Moves
<1>11. \A k \in Version, i \in Indices : blocks[k][i].fetcher # t
  BY <1>1, <1>3, NotFetching
<1> QED  BY <1>3, <1>6, <1>7, <1>8, <1>9, <1>10, <1>11, QuietMoveKeeps

LEMMA InvalidateKeeps ==
    ASSUME IInv, ReadAssumption, NEW t \in Threads, InvalidatePrefix(t)
    PROVE  IInv'
<1>1. PICK d : d = read[t]  OBVIOUS
<1>2. PICK c : c = [d EXCEPT !.pc = "resolve"]  OBVIOUS
<1>3. /\ d.pc = "invalidate" /\ Continue(t, c) /\ entry' = NoVersion
      /\ UNCHANGED <<driveVars, opener, handleVars>> /\ blocks' = blocks
      /\ file' = file /\ ids' = ids /\ meta' = meta
  BY <1>1, <1>2 DEF InvalidatePrefix, At, Goto, driveVars, handleVars
<1>4. d \in Read /\ Sound(d) /\ Joined(d) /\ Owned(t, d) /\ Lone(t, d)  BY <1>1, Reads
<1>5. /\ c \in Read /\ c.pc = "resolve"
      /\ c.got = d.got /\ c.index = d.index /\ c.key = d.key /\ c.began = d.began
      /\ c.awaits = d.awaits /\ c.alone = d.alone /\ c.fault = d.fault
  BY <1>2, <1>4 DEF Read
<1>6. Sound(c)  BY <1>3, <1>4, <1>5 DEF Sound, Follows
<1>7. Joined(c) /\ Owned(t, c)  BY <1>3, <1>4, <1>5 DEF Joined, Owned
<1>8. c.alone /\ ~c.fault => OthersIdle(t) /\ Recovers(c)'
  BY <1>3, <1>4, <1>5 DEF Lone, Recovers
<1>9. entry' \in Version /\ NotNewer(entry)'
  BY <1>3, World, Versions DEF NotNewer
<1>10. Moves(t, c)  BY <1>1, <1>3, <1>5 DEF Moves
<1>11. \A k \in Version, i \in Indices : blocks[k][i].fetcher # t
  BY <1>1, <1>3, NotFetching
<1> QED  BY <1>3, <1>6, <1>7, <1>8, <1>9, <1>10, <1>11, QuietMoveKeeps

\* The path resolves to what another open put, to what Drive has, or not at all.
LEMMA ResolveKeeps ==
    ASSUME IInv, ReadAssumption, NEW t \in Threads, Resolve(t)
    PROVE  IInv'
<1>1. PICK d : d = read[t]  OBVIOUS
<1>2. /\ d.pc = "resolve"
      /\ UNCHANGED <<driveVars, opener, handleVars>> /\ blocks' = blocks /\ entry' = entry
      /\ file' = file /\ ids' = ids /\ meta' = meta
  BY <1>1 DEF Resolve, At, driveVars, handleVars
<1>3. d \in Read /\ Sound(d) /\ Joined(d) /\ Owned(t, d) /\ Lone(t, d)  BY <1>1, Reads
<1>4. entry' \in Version /\ NotNewer(entry)'  BY <1>2, World DEF NotNewer
<1>5. \A k \in Version, i \in Indices : blocks[k][i].fetcher # t
  BY <1>1, <1>2, NotFetching
<1>6. ASSUME NEW c \in Read, Continue(t, c),
             c.index = d.index, c.key = d.key, c.began = d.began, c.awaits = d.awaits,
             c.alone = d.alone, c.fault = d.fault \/ c.fault,
             \/ c.pc = "compare" /\ c.got = entry /\ entry # NoVersion
             \/ c.pc = "put" /\ c.got = file /\ file.id # 0
             \/ c.pc = "failed" /\ (file.id = 0 \/ c.fault)
      PROVE  IInv'
  <2>1. NotNewer(entry) /\ NotNewer(file)  BY World
  <2>2. Sound(c)  BY <1>2, <1>3, <1>6, <2>1 DEF Sound, Follows
  <2>3. Joined(c) /\ Owned(t, c)  BY <1>2, <1>3, <1>6 DEF Joined, Owned
  <2>4. c.alone /\ ~c.fault => OthersIdle(t) /\ Recovers(c)'
    BY <1>2, <1>3, <1>6 DEF Lone, Recovers
  <2>5. Moves(t, c)  BY <1>1, <1>2, <1>6 DEF Moves
  <2> QED  BY <1>2, <1>4, <1>5, <2>2, <2>3, <2>4, <2>5, QuietMoveKeeps
<1>7. CASE entry # NoVersion /\ Continue(t, [[d EXCEPT !.pc = "compare"] EXCEPT !.got = entry])
  <2>1. PICK c : c = [[d EXCEPT !.pc = "compare"] EXCEPT !.got = entry]  OBVIOUS
  <2>2. /\ c \in Read /\ c.pc = "compare" /\ c.got = entry /\ c.index = d.index
        /\ c.key = d.key /\ c.began = d.began /\ c.awaits = d.awaits
        /\ c.alone = d.alone /\ c.fault = d.fault
    BY <1>3, <2>1, World DEF Read
  <2> QED  BY <1>6, <1>7, <2>1, <2>2
<1>8. CASE file.id # 0 /\ Continue(t, [[d EXCEPT !.pc = "put"] EXCEPT !.got = file])
  <2>1. PICK c : c = [[d EXCEPT !.pc = "put"] EXCEPT !.got = file]  OBVIOUS
  <2>2. /\ c \in Read /\ c.pc = "put" /\ c.got = file /\ c.index = d.index
        /\ c.key = d.key /\ c.began = d.began /\ c.awaits = d.awaits
        /\ c.alone = d.alone /\ c.fault = d.fault
    BY <1>3, <2>1, World DEF Read
  <2> QED  BY <1>6, <1>8, <2>1, <2>2
<1>9. CASE file.id = 0 /\ Continue(t, [d EXCEPT !.pc = "failed"])
  <2>1. PICK c : c = [d EXCEPT !.pc = "failed"]  OBVIOUS
  <2>2. /\ c \in Read /\ c.pc = "failed" /\ c.index = d.index
        /\ c.key = d.key /\ c.began = d.began /\ c.awaits = d.awaits
        /\ c.alone = d.alone /\ c.fault = d.fault
    BY <1>3, <2>1 DEF Read
  <2> QED  BY <1>6, <1>9, <2>1, <2>2
<1>10. CASE Continue(t, [[d EXCEPT !.pc = "failed"] EXCEPT !.fault = TRUE])
  <2>1. PICK c : c = [[d EXCEPT !.pc = "failed"] EXCEPT !.fault = TRUE]  OBVIOUS
  <2>2. /\ c \in Read /\ c.pc = "failed" /\ c.index = d.index
        /\ c.key = d.key /\ c.began = d.began /\ c.awaits = d.awaits
        /\ c.alone = d.alone /\ c.fault
    BY <1>3, <2>1 DEF Read
  <2> QED  BY <1>6, <1>10, <2>1, <2>2
<1> QED  BY <1>1, <1>7, <1>8, <1>9, <1>10 DEF Resolve, Goto

LEMMA PutKeeps ==
    ASSUME IInv, ReadAssumption, NEW t \in Threads, Put(t)
    PROVE  IInv'
<1>1. PICK d : d = read[t]  OBVIOUS
<1>2. PICK c : c = [d EXCEPT !.pc = "compare"]  OBVIOUS
<1>3. /\ d.pc = "put" /\ Continue(t, c) /\ entry' = d.got
      /\ UNCHANGED <<driveVars, opener, handleVars>> /\ blocks' = blocks
      /\ file' = file /\ ids' = ids /\ meta' = meta
  BY <1>1, <1>2 DEF Put, At, Goto, driveVars, handleVars
<1>4. /\ d \in Read /\ Sound(d) /\ Joined(d) /\ Owned(t, d) /\ Lone(t, d) /\ d.got \in Version
  BY <1>1, Reads
<1>5. /\ c \in Read /\ c.pc = "compare"
      /\ c.got = d.got /\ c.index = d.index /\ c.key = d.key /\ c.began = d.began
      /\ c.awaits = d.awaits /\ c.alone = d.alone /\ c.fault = d.fault
  BY <1>2, <1>4 DEF Read
<1>6. Sound(c)  BY <1>3, <1>4, <1>5 DEF Sound, Follows
<1>7. Joined(c) /\ Owned(t, c)  BY <1>3, <1>4, <1>5 DEF Joined, Owned
<1>8. c.alone /\ ~c.fault => OthersIdle(t) /\ Recovers(c)'
  BY <1>3, <1>4, <1>5 DEF Lone, Recovers
<1>9. entry' \in Version /\ NotNewer(entry)'
  BY <1>3, <1>4 DEF NotNewer, Sound
<1>10. Moves(t, c)  BY <1>1, <1>3, <1>5 DEF Moves
<1>11. \A k \in Version, i \in Indices : blocks[k][i].fetcher # t
  BY <1>1, <1>3, NotFetching
<1> QED  BY <1>3, <1>6, <1>7, <1>8, <1>9, <1>10, <1>11, QuietMoveKeeps

\* Left alone, what resolved has another id than the handle's dead one.
LEMMA CompareKeeps ==
    ASSUME IInv, ReadAssumption, NEW t \in Threads, Compare(t)
    PROVE  IInv'
<1>1. PICK d : d = read[t]  OBVIOUS
<1>2. PICK v \in SeenMeta(t) :
         Continue(t, [d EXCEPT !.pc = IF v.id = d.got.id THEN "failed" ELSE "assignMeta"])
  BY <1>1 DEF Compare, Goto
<1>3. PICK c : c = [d EXCEPT !.pc = IF v.id = d.got.id THEN "failed" ELSE "assignMeta"]
  OBVIOUS
<1>4. /\ d.pc = "compare" /\ Continue(t, c) /\ entry' = entry
      /\ UNCHANGED <<driveVars, opener, handleVars>> /\ blocks' = blocks
      /\ file' = file /\ ids' = ids /\ meta' = meta
  BY <1>1, <1>2, <1>3 DEF Compare, At, driveVars, handleVars
<1>5. d \in Read /\ Sound(d) /\ Joined(d) /\ Owned(t, d) /\ Lone(t, d)  BY <1>1, Reads
<1>6. /\ c \in Read /\ c.pc = (IF v.id = d.got.id THEN "failed" ELSE "assignMeta")
      /\ c.got = d.got /\ c.index = d.index /\ c.key = d.key /\ c.began = d.began
      /\ c.awaits = d.awaits /\ c.alone = d.alone /\ c.fault = d.fault
  BY <1>3, <1>5 DEF Read
<1>7. Sound(c)  BY <1>4, <1>5, <1>6 DEF Sound, Follows
<1>8. Joined(c) /\ Owned(t, c)  BY <1>4, <1>5, <1>6 DEF Joined, Owned
<1>9. ASSUME c.alone, ~c.fault
      PROVE  OthersIdle(t) /\ Recovers(c)'
  <2>1. OthersIdle(t) /\ Recovers(d)  BY <1>5, <1>6, <1>9 DEF Lone
  <2>2. v = meta  BY <1>2, <2>1, AloneSees
  <2> QED  BY <1>4, <1>6, <2>1, <2>2 DEF Recovers
<1>10. entry' \in Version /\ NotNewer(entry)'  BY <1>4, World DEF NotNewer
<1>11. Moves(t, c)  BY <1>1, <1>4, <1>6 DEF Moves
<1>12. \A k \in Version, i \in Indices : blocks[k][i].fetcher # t
  BY <1>1, <1>4, NotFetching
<1> QED  BY <1>4, <1>7, <1>8, <1>9, <1>10, <1>11, <1>12, QuietMoveKeeps
-----------------------------------------------------------------------------
(***************************************************************************)
(* Asking for a block, and answering those who wait for it.                *)
(***************************************************************************)

\* Any key a thread sees is that of a version there was, and unless it is torn
\* not behind the file its read began with.
LEMMA KeysSeen ==
    ASSUME IInv, ReadAssumption, NEW t \in Threads, NEW k \in SeenKey(t)
    PROVE  k \in Version /\ NotNewer(k) /\ (k = Garbled \/ read[t].began <= k.id)
<1>1. k \in {block_key, meta, Garbled}  BY DEF SeenKey, Seen, BuildBlockKey
<1>2. Follows(read[t])  BY Reads DEF Sound
<1> QED  BY <1>1, <1>2, World, Versions DEF Follows

LEMMA GetBlockKeeps ==
    ASSUME IInv, ReadAssumption, NEW t \in Threads, GetBlock(t)
    PROVE  IInv'
<1>1. PICK d : d = read[t]  OBVIOUS
<1>2. PICK k \in SeenKey(t) :
         LET c == [d EXCEPT !.key = k]  b == blocks[k][c.index] IN
         \/ /\ b # NoBlock /\ b.fetcher = None
            /\ Continue(t, [c EXCEPT !.pc = "copy", !.got = b.content])
            /\ UNCHANGED blocks
         \/ /\ b.fetcher # None
            /\ Continue(t, [c EXCEPT !.pc = "wait", !.awaits = b.fetcher])
            /\ UNCHANGED blocks
         \/ /\ b = NoBlock
            /\ Continue(t, [c EXCEPT !.pc = "address"])
            /\ blocks' = IF k = Garbled THEN blocks
                                        ELSE [blocks EXCEPT ![k][c.index].fetcher = t]
  BY <1>1 DEF GetBlock
<1>3. PICK i : i = d.index  OBVIOUS
<1>4. PICK b : b = blocks[k][i]  OBVIOUS
<1>5. /\ d.pc = "block" /\ entry' = entry
      /\ UNCHANGED <<driveVars, opener, handleVars>>
      /\ file' = file /\ ids' = ids /\ meta' = meta /\ block_size' = block_size
  BY <1>1 DEF GetBlock, At, driveVars, handleVars
<1>6. d \in Read /\ Sound(d) /\ Joined(d) /\ Lone(t, d)  BY <1>1, Reads
<1>7. /\ k \in Version /\ NotNewer(k) /\ (k = Garbled \/ d.began <= k.id)
      /\ d.began \in 0..MaxIds /\ k.id \in 0..MaxIds
  BY <1>1, KeysSeen, Reads, Versions
<1>8. i \in Indices /\ d.awaits = None /\ block_size > 0 /\ Follows(d)
  BY <1>3, <1>5, <1>6 DEF Sound, Joined
<1>9. /\ b \in Block /\ BlockSound(k, b) /\ b.content \in Version
      /\ b.fetcher \in Threads \cup {None}
  BY <1>4, <1>7, <1>8 DEF IInv, TypeOK, Block
<1>10. entry' \in Version /\ NotNewer(entry)'  BY <1>5, World DEF NotNewer
<1>11. \A j \in Version, m \in Indices : blocks[j][m].fetcher # t
  BY <1>1, <1>5, NotFetching
<1>12. [d EXCEPT !.key = k].index = i  BY <1>3, <1>6 DEF Read
<1>13. CASE /\ b # NoBlock /\ b.fetcher = None /\ blocks' = blocks
            /\ Continue(t, [[d EXCEPT !.key = k] EXCEPT !.pc = "copy", !.got = b.content])
  <2>1. PICK c : c = [[d EXCEPT !.key = k] EXCEPT !.pc = "copy", !.got = b.content]
    OBVIOUS
  <2>2. /\ c \in Read /\ c.pc = "copy" /\ c.got = b.content /\ c.key = k /\ c.index = i
        /\ c.awaits = d.awaits /\ c.began = d.began /\ c.alone = d.alone
        /\ c.fault = d.fault
    BY <1>3, <1>6, <1>7, <1>9, <2>1 DEF Read
  <2>3. c.began <= c.got.id
    <3>1. k # Garbled /\ AtLeast(b.content, k)  BY <1>9, <1>13 DEF BlockSound
    <3>2. b.content.id \in Int  BY <1>9, Versions
    <3> QED  BY <1>7, <2>2, <3>1, <3>2 DEF AtLeast
  <2>4. Sound(c)  BY <1>7, <1>8, <2>2, <2>3 DEF Sound, Follows
  <2>5. Joined(c) /\ Owned(t, c)  BY <1>8, <2>2 DEF Joined, Owned
  <2>6. c.alone /\ ~c.fault => OthersIdle(t) /\ Recovers(c)'
    BY <1>6, <2>2 DEF Lone, Recovers
  <2>7. Moves(t, c)  BY <1>1, <1>5, <1>13, <2>1, <2>2 DEF Moves
  <2> QED  BY <1>10, <1>11, <1>13, <2>4, <2>5, <2>6, <2>7, QuietMoveKeeps
<1>14. CASE /\ b.fetcher # None /\ blocks' = blocks
            /\ Continue(t, [[d EXCEPT !.key = k] EXCEPT !.pc = "wait", !.awaits = b.fetcher])
  <2>1. PICK c : c = [[d EXCEPT !.key = k] EXCEPT !.pc = "wait", !.awaits = b.fetcher]
    OBVIOUS
  <2>2. /\ c \in Read /\ c.pc = "wait" /\ c.awaits = b.fetcher /\ c.key = k /\ c.index = i
        /\ c.began = d.began /\ c.alone = d.alone /\ c.fault = d.fault
    BY <1>3, <1>6, <1>7, <1>9, <2>1 DEF Read
  <2>3. k # Garbled  BY <1>9, <1>14 DEF BlockSound, NoBlock
  <2>4. Sound(c)  BY <1>7, <1>8, <2>2 DEF Sound, Follows
  <2>5. Joined(c) /\ Owned(t, c)
    BY <1>4, <1>7, <1>9, <1>14, <2>2, <2>3 DEF Joined, Owned
  <2>6. ~(c.alone /\ ~c.fault)
    <3>1. ASSUME OthersIdle(t) PROVE FALSE
      <4>1. b.fetcher \in Threads \ {t}  BY <1>4, <1>7, <1>8, <1>9, <1>11, <1>14
      <4>2. read[b.fetcher].pc \in {"address", "download", "keep", "giveUp"}
        <5>1. Owner(k, i)  BY <1>7, <1>8, Types DEF IInv
        <5> QED  BY <1>4, <1>14, <5>1 DEF Owner
      <4> QED  BY <3>1, <4>1, <4>2 DEF OthersIdle, At
    <3> QED  BY <1>6, <2>2, <3>1 DEF Lone
  <2>7. Moves(t, c)  BY <1>1, <1>5, <1>14, <2>1, <2>2 DEF Moves
  <2> QED  BY <1>10, <1>11, <1>14, <2>4, <2>5, <2>6, <2>7, QuietMoveKeeps
<1>15. CASE /\ b = NoBlock
            /\ Continue(t, [[d EXCEPT !.key = k] EXCEPT !.pc = "address"])
            /\ blocks' = IF k = Garbled THEN blocks
                                        ELSE [blocks EXCEPT ![k][i].fetcher = t]
  <2>1. PICK c : c = [[d EXCEPT !.key = k] EXCEPT !.pc = "address"]  OBVIOUS
  <2>2. /\ c \in Read /\ c.pc = "address" /\ c.key = k /\ c.index = i
        /\ c.awaits = d.awaits /\ c.began = d.began /\ c.alone = d.alone
        /\ c.fault = d.fault /\ c.attempt = d.attempt
    BY <1>3, <1>6, <1>7, <2>1 DEF Read
  <2>3. Sound(c)  BY <1>7, <1>8, <2>2 DEF Sound, Follows
  <2>4. c.alone /\ ~c.fault => OthersIdle(t) /\ Recovers(c)'
    BY <1>5, <1>6, <2>2 DEF Lone, Recovers
  <2>5. Moves(t, c)  BY <1>1, <1>5, <1>15, <2>1, <2>2 DEF Moves
  <2>6. CASE k = Garbled
    <3>1. Joined(c) /\ Owned(t, c)  BY <1>8, <2>2, <2>6 DEF Joined, Owned
    <3> QED  BY <1>10, <1>11, <1>15, <2>3, <2>4, <2>5, <2>6, <3>1, QuietMoveKeeps
  <2>7. CASE k # Garbled
    <3>1. PICK e : e = [b EXCEPT !.fetcher = t]  OBVIOUS
    <3>2. e \in Block /\ e.fetcher = t /\ b.fetcher = None
      BY <1>9, <1>15, <3>1 DEF Block, NoBlock
    <3>3. blocks \in [Version -> [Indices -> Block]]  BY DEF IInv, TypeOK
    <3>4. /\ blocks' \in [Version -> [Indices -> Block]]
          /\ \A j \in Version, m \in Indices :
               blocks'[j][m] = IF j = k /\ m = i THEN e ELSE blocks[j][m]
      BY <1>4, <1>7, <1>8, <1>15, <2>7, <3>1, <3>2, <3>3
    <3>5. Joined(c)' /\ Owned(t, c)'
      BY <1>7, <1>8, <2>2, <3>2, <3>4 DEF Joined, Owned
    <3>6. BlockSound(k, e)
      BY <1>8, <2>7, <3>2 DEF BlockSound, ReadAssumption
    <3>7. \A j \in Version, m \in Indices :
             \/ blocks'[j][m] = blocks[j][m]
             \/ /\ blocks[j][m].fetcher = None /\ blocks'[j][m].fetcher = t
                /\ BlockSound(j, blocks'[j][m])
      BY <1>4, <3>2, <3>4, <3>6
    <3>8. \A j \in Version, m \in Indices :
             blocks'[j][m].fetcher = t =>
                /\ c.key = j /\ c.index = m
                /\ c.pc \in {"address", "download", "keep", "giveUp"}
      BY <1>11, <2>2, <3>4
    <3> QED  BY <1>10, <2>3, <2>4, <2>5, <3>4, <3>5, <3>7, <3>8, MoveKeeps
  <2> QED  BY <2>6, <2>7
<1> QED  BY <1>2, <1>4, <1>12, <1>13, <1>14, <1>15

\* The thread that fetched a block answers: its entry becomes b, and whoever
\* waits for it goes on as the thread itself does.
LEMMA SettleKeeps ==
    ASSUME IInv, ReadAssumption, NEW t \in Threads, NEW b \in Block, NEW pc, NEW got,
           Settle(t, b, pc, got), read[t].pc \in {"keep", "giveUp"},
           b.fetcher = None, b # NoBlock => AtLeast(b.content, read[t].key),
           got \in Version,
           \/ /\ pc = "copy" /\ got = read[t].got
              /\ AtLeast(got, read[t].key) /\ read[t].began <= got.id
           \/ /\ pc = "failing"
              /\ read[t].alone /\ ~read[t].fault
                   => OthersIdle(t) /\ Recovers([read[t] EXCEPT !.pc = "failing"])
    PROVE  IInv'
<1>1. TypeOK /\ Current /\ Assigned /\ \A k \in Version, i \in Indices : Owner(k, i)
  BY Types DEF IInv
<1>2. PICK d : d = read[t]  OBVIOUS
<1>3. /\ d \in Read /\ Sound(d) /\ Joined(d) /\ Owned(t, d) /\ Lone(t, d)
      /\ d.key \in Version /\ d.began \in 0..MaxIds /\ d.pc \in {"keep", "giveUp"}
  BY <1>2, Reads
<1>4. d.index \in Indices /\ d.awaits = None /\ block_size > 0 /\ Follows(d)
  BY <1>3 DEF Sound, Joined
<1>5. PICK w : w = Woken(t)  OBVIOUS
<1>6. /\ UNCHANGED <<file, ids, changes, entry, opener, meta, block_key, block_size>>
      /\ blocks' = IF d.key = Garbled THEN blocks
                                      ELSE [blocks EXCEPT ![d.key][d.index] = b]
      /\ read' = Disturb([u \in Threads |->
            IF u = t THEN [d EXCEPT !.pc = pc]
            ELSE IF u \in w
            THEN [read[u] EXCEPT !.pc = pc, !.awaits = None, !.got = got,
                                 !.fault = d.fault]
            ELSE read[u]], t)
  BY <1>2, <1>5 DEF Settle, StoreKey, driveVars, handleVars
<1>7. \A v : NotNewer(v)' <=> NotNewer(v)  BY <1>6 DEF NotNewer
<1>8. PICK e : e = [d EXCEPT !.pc = pc]  OBVIOUS
<1>9. /\ e \in Read /\ e.pc = pc /\ e.got = d.got /\ e.index = d.index /\ e.key = d.key
      /\ e.began = d.began /\ e.awaits = d.awaits /\ e.alone = d.alone /\ e.fault = d.fault
  BY <1>3, <1>8 DEF Read
<1>10. read'[t] = e  BY <1>6, <1>8 DEF Disturb
<1>11. \A u \in Threads \ {t} :
          read'[u] = IF u \in w
                     THEN [[read[u] EXCEPT !.pc = pc, !.awaits = None, !.got = got,
                                           !.fault = d.fault] EXCEPT !.alone = FALSE]
                     ELSE [read[u] EXCEPT !.alone = FALSE]
  BY <1>6 DEF Disturb
\* No other entry is touched, and no entry is left in the thread's name.
<1>12. /\ blocks' \in [Version -> [Indices -> Block]]
       /\ \A k \in Version, i \in Indices :
            blocks'[k][i] = IF d.key # Garbled /\ k = d.key /\ i = d.index
                            THEN b ELSE blocks[k][i]
  <2>1. blocks \in [Version -> [Indices -> Block]]  BY <1>1 DEF TypeOK
  <2>2. CASE d.key = Garbled  BY <1>6, <2>1, <2>2
  <2>3. CASE d.key # Garbled
    <3>1. blocks' = [blocks EXCEPT ![d.key][d.index] = b]  BY <1>6, <2>3
    <3>2. d.key \in Version /\ d.index \in Indices  BY <1>3, <1>4
    <3> QED  BY <2>1, <2>3, <3>1, <3>2
  <2> QED  BY <2>2, <2>3
<1>13. \A k \in Version, i \in Indices :
          blocks'[k][i].fetcher # None
            => blocks'[k][i] = blocks[k][i] /\ blocks[k][i].fetcher \in Threads \ {t}
  <2>1. ASSUME NEW k \in Version, NEW i \in Indices, blocks'[k][i].fetcher # None
        PROVE  blocks'[k][i] = blocks[k][i] /\ blocks[k][i].fetcher \in Threads \ {t}
    <3>1. blocks'[k][i] = blocks[k][i] /\ ~(d.key # Garbled /\ k = d.key /\ i = d.index)
      BY <1>12, <2>1
    <3>2. blocks[k][i].fetcher \in Threads \cup {None}  BY <1>1 DEF TypeOK, Block
    <3>3. ASSUME blocks[k][i].fetcher = t PROVE FALSE
      <4>1. d.key = k /\ d.index = i
        BY <1>1, <1>2, <3>3 DEF Owner, ReadAssumption
      <4>2. blocks[k][i] = NoBlock  BY <3>1, <4>1 DEF IInv, BlockSound
      <4> QED  BY <3>3, <4>2 DEF NoBlock, ReadAssumption
    <3> QED  BY <2>1, <3>1, <3>2, <3>3
  <2> QED  BY <2>1
\* The thread itself.
<1>14. Sound(e) /\ Joined(e)' /\ Owned(t, e)'
  <2>1. Follows(e)  BY <1>4, <1>9 DEF Follows
  <2>2. Sound(e)  BY <1>2, <1>3, <1>4, <1>9, <2>1 DEF Sound
  <2>3. Joined(e)'  BY <1>4, <1>9 DEF Joined
  <2>4. Owned(t, e)'  BY <1>9 DEF Owned
  <2> QED  BY <2>2, <2>3, <2>4
<1>15. Lone(t, e)'
  <2>1. ASSUME e.alone, ~e.fault
        PROVE  OthersIdle(t)' /\ Recovers(e)'
    <3>1. OthersIdle(t) /\ Recovers(d)  BY <1>3, <1>9, <2>1 DEF Lone
    <3>2. \A u \in Threads \ {t} : u \notin w
      <4>1. ASSUME NEW u \in Threads \ {t}, u \in w PROVE FALSE
        <5>1. read[u].pc = "idle"  BY <3>1 DEF OthersIdle, At
        <5>2. read[u].awaits = t  BY <1>5, <4>1 DEF Woken
        <5>3. Joined(read[u])  BY Reads
        <5> QED  BY <5>1, <5>2, <5>3 DEF Joined, ReadAssumption
      <4> QED  BY <4>1
    <3>3. OthersIdle(t)'
      <4>1. ASSUME NEW u \in Threads \ {t} PROVE read'[u].pc = "idle"
        <5>1. read[u] \in Read /\ read[u].pc = "idle"
          BY <3>1, Reads DEF OthersIdle, At
        <5>2. read'[u] = [read[u] EXCEPT !.alone = FALSE]  BY <1>11, <3>2
        <5> QED  BY <5>1, <5>2 DEF Read
      <4> QED  BY <4>1 DEF OthersIdle, At
    <3>4. Recovers(e)'
      BY <1>2, <1>6, <1>8, <1>9, <2>1 DEF Recovers
    <3> QED  BY <3>3, <3>4
  <2> QED  BY <2>1 DEF Lone
\* A thread that waited for it.
<1>16. ASSUME NEW u \in Threads \ {t}, u \in w
       PROVE  /\ read'[u] \in Read /\ read'[u].pc = pc
              /\ read[u].pc = "wait"
              /\ Sound(read[u])' /\ Joined(read[u])' /\ Owned(u, read[u])'
              /\ Lone(u, read[u])'
  <2>1. PICK a : a = read[u]  OBVIOUS
  <2>2. PICK c : c = [[a EXCEPT !.pc = pc, !.awaits = None, !.got = got,
                                !.fault = d.fault] EXCEPT !.alone = FALSE]
    OBVIOUS
  <2>3. read'[u] = c  BY <1>11, <1>16, <2>1, <2>2
  <2>4. a \in Read /\ Sound(a) /\ Joined(a) /\ a.began \in 0..MaxIds /\ a.key \in Version
    BY <2>1, Reads
  <2>5. a.awaits = t  BY <1>5, <1>16, <2>1 DEF Woken
  <2>6. /\ a.pc = "wait" /\ blocks[a.key][a.index].fetcher = t /\ a.began <= a.key.id
        /\ a.index \in Indices
    BY <2>4, <2>5 DEF Joined, Sound, ReadAssumption
  <2>7. a.key = d.key
    BY <1>1, <1>2, <2>4, <2>6 DEF Owner, ReadAssumption
  <2>8. /\ c \in Read /\ c.pc = pc /\ c.got = got /\ c.key = a.key /\ c.index = a.index
        /\ c.began = a.began /\ c.awaits = None /\ ~c.alone
    BY <1>3, <2>2, <2>4 DEF Read
  <2>9. pc = "copy" => c.began <= got.id
    <3>1. got.id \in Int /\ d.key.id \in Int  BY <1>3, Versions
    <3>2. pc = "copy" => AtLeast(got, d.key)  BY <1>2
    <3> QED  BY <2>4, <2>6, <2>7, <2>8, <3>1, <3>2 DEF AtLeast
  <2>10. Sound(c)
    <3>1. Follows(c)  BY <2>4, <2>8 DEF Sound, Follows
    <3> QED  BY <2>4, <2>6, <2>8, <2>9, <3>1 DEF Sound
  <2>11. Sound(c)'  BY <1>6, <1>7, <2>10 DEF Sound, Follows, AtLeast
  <2>12. Joined(c)' /\ Owned(u, c)'  BY <2>8 DEF Joined, Owned
  <2> QED  BY <2>1, <2>3, <2>6, <2>8, <2>11, <2>12 DEF Lone
\* Any other thread.
<1>17. ASSUME NEW u \in Threads \ {t}, u \notin w
       PROVE  /\ read'[u] \in Read /\ read'[u].pc = read[u].pc
              /\ read'[u].key = read[u].key /\ read'[u].index = read[u].index
              /\ Sound(read[u])' /\ Joined(read[u])' /\ Owned(u, read[u])'
              /\ Lone(u, read[u])'
  <2>1. PICK a : a = read[u]  OBVIOUS
  <2>2. PICK c : c = [a EXCEPT !.alone = FALSE]  OBVIOUS
  <2>3. read'[u] = c  BY <1>11, <1>17, <2>1, <2>2
  <2>4. a \in Read /\ Sound(a) /\ Joined(a) /\ Owned(u, a)  BY <2>1, Reads
  <2>5. /\ c \in Read /\ ~c.alone /\ c.pc = a.pc /\ c.index = a.index /\ c.key = a.key
        /\ c.got = a.got /\ c.began = a.began /\ c.awaits = a.awaits
    BY <2>2, <2>4, Marked
  <2>6. Sound(c)'
    <3>1. Follows(a)'  BY <1>6, <2>4 DEF Sound, Follows
    <3> QED  BY <1>6, <1>7, <2>4, <2>5, <3>1, SoundStays
  \* Entries in the name of another thread than t are what they were.
  <2>7. \A k \in Version, i \in Indices :
           blocks[k][i].fetcher \in Threads \ {t}
             => blocks'[k][i].fetcher = blocks[k][i].fetcher
    <3>1. ASSUME NEW k \in Version, NEW i \in Indices,
                 blocks[k][i].fetcher \in Threads \ {t}
          PROVE  blocks'[k][i].fetcher = blocks[k][i].fetcher
      <4>1. ~(d.key # Garbled /\ k = d.key /\ i = d.index)
        BY <1>3, <1>4, <3>1 DEF Owned
      <4> QED  BY <1>12, <4>1
    <3> QED  BY <3>1
  <2>8. Joined(c)'
    <3>1. CASE a.pc = "wait"
      <4>1. /\ a.key \in Version /\ a.index \in Indices
            /\ a.awaits \in Threads /\ a.awaits # t
            /\ blocks[a.key][a.index].fetcher = a.awaits /\ a.began <= a.key.id
        BY <1>5, <1>17, <2>1, <2>4, <3>1 DEF Joined, Sound, Read, Woken
      <4> QED  BY <2>5, <2>7, <3>1, <4>1 DEF Joined
    <3> QED  BY <2>4, <2>5, <3>1 DEF Joined
  <2>9. Owned(u, c)'
    <3>1. CASE /\ a.pc \in {"address", "download", "keep", "giveUp"}
               /\ block_size > 0 /\ a.key # Garbled
      <4>1. /\ a.key \in Version /\ a.index \in Indices
            /\ blocks[a.key][a.index].fetcher = u
        BY <2>4, <3>1 DEF Owned, Sound, Read
      <4> QED  BY <2>5, <2>7, <4>1 DEF Owned
    <3> QED  BY <1>6, <2>5, <3>1 DEF Owned
  <2> QED  BY <2>1, <2>3, <2>5, <2>6, <2>8, <2>9 DEF Lone
<1>18. TypeOK'
  <2>1. read' \in [Threads -> Read]
    <3>1. \A u \in Threads : read'[u] \in Read  BY <1>9, <1>10, <1>16, <1>17
    <3>2. PICK f : f = [u \in Threads |->
            IF u = t THEN [d EXCEPT !.pc = pc]
            ELSE IF u \in w
            THEN [read[u] EXCEPT !.pc = pc, !.awaits = None, !.got = got,
                                 !.fault = d.fault]
            ELSE read[u]]
      OBVIOUS
    <3>3. read' = Disturb(f, t)  BY <1>6, <3>2
    <3>4. read' = [u \in Threads |-> read'[u]]  BY <3>3 DEF Disturb
    <3> QED  BY <3>1, <3>4
  <2>2. \A k \in Version, i \in Indices : Owner(k, i)'
    <3>1. ASSUME NEW k \in Version, NEW i \in Indices, blocks'[k][i].fetcher # None
          PROVE  Owner(k, i)'
      <4>1. PICK u : u = blocks[k][i].fetcher  OBVIOUS
      <4>2. blocks'[k][i].fetcher = u /\ u \in Threads \ {t} /\ u # None
        BY <1>13, <3>1, <4>1
      <4>3. Owner(k, i)  BY <1>1
      <4>4. /\ read[u].key = k /\ read[u].index = i
            /\ read[u].pc \in {"address", "download", "keep", "giveUp"}
        BY <4>1, <4>2, <4>3 DEF Owner
      <4>5. u \notin w  BY <1>16, <4>2, <4>4
      <4> QED  BY <1>17, <4>2, <4>4, <4>5 DEF Owner
    <3> QED  BY <3>1 DEF Owner
  <2> QED  BY <1>1, <1>6, <1>12, <2>1, <2>2 DEF TypeOK, Owner
<1>19. Current'  BY <1>1, <1>6, <1>7 DEF Current
<1>20. Assigned'
  <2>1. ASSUME \A u \in Threads : read'[u].pc \notin {"assignMeta", "assignKey"}
        PROVE  block_key = meta
    <3>1. \A u \in Threads \ {t} : u \notin w =>
             read[u].pc \notin {"assignMeta", "assignKey"}
      BY <1>17, <2>1
    <3>2. \A u \in Threads \ {t} : u \in w =>
             read[u].pc \notin {"assignMeta", "assignKey"}
      BY <1>16
    <3>3. read[t].pc \notin {"assignMeta", "assignKey"}  OBVIOUS
    <3> QED  BY <1>1, <3>1, <3>2, <3>3 DEF Assigned
  <2> QED  BY <1>6, <2>1 DEF Assigned
<1>21. ASSUME NEW k \in Version, NEW i \in Indices
       PROVE  BlockSound(k, blocks[k][i])'
  <2>1. CASE d.key # Garbled /\ k = d.key /\ i = d.index
    <3>1. blocks'[k][i] = b  BY <1>12, <2>1
    <3> QED  BY <1>2, <2>1, <3>1 DEF BlockSound, AtLeast
  <2>2. CASE ~(d.key # Garbled /\ k = d.key /\ i = d.index)
    <3>1. blocks'[k][i] = blocks[k][i]  BY <1>12, <2>2
    <3> QED  BY <1>6, <3>1 DEF IInv, BlockSound, AtLeast
  <2> QED  BY <2>1, <2>2
<1>22. Sound(e)'  BY <1>6, <1>7, <1>14 DEF Sound, Follows, AtLeast
<1>23. \A u \in Threads : /\ Sound(read[u])' /\ Joined(read[u])'
                          /\ Owned(u, read[u])' /\ Lone(u, read[u])'
  BY <1>10, <1>14, <1>15, <1>16, <1>17, <1>22
<1> QED  BY <1>18, <1>19, <1>20, <1>21, <1>23 DEF IInv

LEMMA KeepKeeps ==
    ASSUME IInv, ReadAssumption, NEW t \in Threads, Keep(t)
    PROVE  IInv'
<1>1. PICK d : d = read[t]  OBVIOUS
<1>2. PICK b : b = [fetcher |-> None, content |-> d.got]  OBVIOUS
<1>3. d.pc = "keep" /\ Settle(t, b, "copy", d.got)  BY <1>1, <1>2 DEF Keep, At
<1>4. d.got \in Version /\ Sound(d)  BY <1>1, Reads
<1>5. b \in Block /\ b.fetcher = None /\ b.content = d.got  BY <1>2, <1>4 DEF Block
<1>6. AtLeast(d.got, d.key) /\ d.began <= d.got.id  BY <1>3, <1>4 DEF Sound
<1> QED  BY <1>1, <1>3, <1>4, <1>5, <1>6, SettleKeeps

LEMMA GiveUpKeeps ==
    ASSUME IInv, ReadAssumption, NEW t \in Threads, GiveUp(t)
    PROVE  IInv'
<1>1. read[t].pc = "giveUp" /\ Settle(t, NoBlock, "failing", NoVersion)
  BY DEF GiveUp, At, AfterFailure
<1>2. NoBlock \in Block /\ NoBlock.fetcher = None /\ NoVersion \in Version
  BY Versions DEF NoBlock
<1>3. ASSUME read[t].alone, ~read[t].fault
      PROVE  OthersIdle(t) /\ Recovers([read[t] EXCEPT !.pc = "failing"])
  <2>1. read[t] \in Read /\ OthersIdle(t) /\ Recovers(read[t])
    BY <1>3, Reads DEF Lone
  <2> QED  BY <1>1, <2>1 DEF Recovers, Read
<1> QED  BY <1>1, <1>2, <1>3, SettleKeeps
-----------------------------------------------------------------------------
(***************************************************************************)
(* Assigning the handle's fields.                                          *)
(***************************************************************************)

\* Another thread's read c, whose start may have been forgotten.
LEMMA OtherFollows ==
    ASSUME IInv, ReadAssumption, NEW u \in Threads, NEW c \in Read,
           read'[u] = c, ~c.alone, c.pc = read[u].pc, c.index = read[u].index,
           c.key = read[u].key, c.got = read[u].got, c.awaits = read[u].awaits,
           c.began \in {0, read[u].began}, Follows(c)',
           UNCHANGED <<file, ids, block_size, blocks>>
    PROVE  /\ Sound(read[u])' /\ Joined(read[u])'
           /\ Owned(u, read[u])' /\ Lone(u, read[u])'
<1>1. PICK d : d = read[u]  OBVIOUS
<1>2. /\ d \in Read /\ Sound(d) /\ Joined(d) /\ Owned(u, d)
      /\ d.key \in Version /\ d.got \in Version /\ d.began \in Nat
  BY <1>1, Reads
<1>3. d.key.id \in Nat /\ d.got.id \in Nat
  BY <1>2, Versions DEF ReadAssumption
<1>4. \A v : NotNewer(v)' <=> NotNewer(v)  BY DEF NotNewer
<1>5. c.began \in Nat /\ c.began <= d.began  BY <1>1, <1>2
<1>6. d.pc \in {"keep", "copy", "done"} => c.began <= d.got.id
  BY <1>2, <1>3, <1>5 DEF Sound
<1>7. d.pc = "wait" => c.began <= d.key.id
  BY <1>2, <1>3, <1>5 DEF Joined
<1>8. Sound(c)'
  BY <1>1, <1>2, <1>4, <1>6 DEF Sound, AtLeast
<1>9. Joined(c)' /\ Owned(u, c)'  BY <1>1, <1>2, <1>7 DEF Joined, Owned
<1> QED  BY <1>8, <1>9 DEF Lone

\* The rest of the invariant, when only the handle's fields and the reads
\* change, and no thread that fetches moves.
LEMMA HandleKeeps ==
    ASSUME IInv, ReadAssumption, UNCHANGED <<driveVars, entry, opener, block_size, blocks>>,
           meta' \in Version, block_key' \in Version, NotNewer(meta'), NotNewer(block_key'),
           Assigned', read' \in [Threads -> Read],
           \A u \in Threads :
              read[u].pc \in {"address", "download", "keep", "giveUp"} =>
                 /\ read'[u].pc = read[u].pc /\ read'[u].key = read[u].key
                 /\ read'[u].index = read[u].index,
           \A u \in Threads : /\ Sound(read[u])' /\ Joined(read[u])'
                              /\ Owned(u, read[u])' /\ Lone(u, read[u])'
    PROVE  IInv'
<1>1. TypeOK /\ Current /\ \A k \in Version, i \in Indices : Owner(k, i)
  BY Types DEF IInv
<1>2. UNCHANGED <<file, ids, changes, entry, opener, block_size, blocks>>
  BY DEF driveVars
<1>3. \A k \in Version, i \in Indices : Owner(k, i)'
  <2>1. ASSUME NEW k \in Version, NEW i \in Indices, blocks[k][i].fetcher # None
        PROVE  Owner(k, i)'
    <3>1. blocks[k][i].fetcher \in Threads /\ Owner(k, i)
      BY <1>1, <2>1 DEF TypeOK, Block
    <3> QED  BY <1>2, <2>1, <3>1 DEF Owner
  <2> QED  BY <1>2, <2>1 DEF Owner
<1>4. TypeOK'  BY <1>1, <1>2, <1>3 DEF TypeOK, Owner
<1>5. Current'  BY <1>1, <1>2 DEF Current, NotNewer
<1>6. \A k \in Version, i \in Indices : BlockSound(k, blocks[k][i])'
  BY <1>2 DEF IInv, BlockSound, AtLeast
<1> QED  BY <1>4, <1>5, <1>6 DEF IInv

\* The handle moves to what resolved; a read it moves back behind begins anew.
LEMMA AssignMetaKeeps ==
    ASSUME IInv, ReadAssumption, NEW t \in Threads, AssignMeta(t)
    PROVE  IInv'
<1>1. PICK d : d = read[t]  OBVIOUS
<1>2. PICK m : m = meta.id  OBVIOUS
<1>3. /\ d.pc = "assignMeta" /\ meta' = d.got /\ block_key' = block_key
      /\ UNCHANGED <<driveVars, entry, opener, block_size, blocks>>
      /\ UNCHANGED <<file, ids, block_size, blocks>>
      /\ read' = Disturb([u \in Threads |->
            [read[u] EXCEPT !.pc = IF u = t THEN "assignKey" ELSE @,
                            !.began = IF d.got.id < m THEN 0 ELSE @]], t)
  BY <1>1, <1>2 DEF AssignMeta, At, driveVars
<1>4. /\ d \in Read /\ Sound(d) /\ Joined(d) /\ Lone(t, d) /\ d.got \in Version
      /\ d.got.id \in Nat /\ d.began \in 0..MaxIds
  BY <1>1, Reads, Versions DEF ReadAssumption
<1>5. NotNewer(d.got)  BY <1>3, <1>4 DEF Sound
<1>6. /\ meta \in Version /\ block_key \in Version /\ NotNewer(block_key)
      /\ meta.id \in Nat /\ block_key.id \in Nat
  BY World, Versions DEF ReadAssumption
\* What becomes of a read's start.
<1>7. ASSUME NEW u \in Threads, NEW c \in Read,
             c.began = (IF d.got.id < m THEN 0 ELSE read[u].began)
      PROVE  c.began \in {0, read[u].began} /\ Follows(c)'
  <2>1. Follows(read[u]) /\ read[u].began \in Nat  BY Reads DEF Sound
  <2>2. CASE d.got.id < m
    <3>1. c.began = 0  BY <1>7, <2>2
    <3>2. meta'.id \in Nat /\ block_key'.id \in Nat  BY <1>3, <1>4, <1>6
    <3>3. 0 <= meta'.id /\ 0 <= block_key'.id  BY <3>2
    <3> QED  BY <3>1, <3>3 DEF Follows
  <2>3. CASE ~(d.got.id < m)
    <3>1. c.began = read[u].began  BY <1>7, <2>3
    <3>2. c.began <= d.got.id
      BY <1>2, <1>4, <1>6, <2>1, <2>3, <3>1 DEF Follows
    <3> QED  BY <1>3, <2>1, <3>1, <3>2 DEF Follows
  <2> QED  BY <2>2, <2>3
<1>8. PICK e : e = [d EXCEPT !.pc = "assignKey", !.began = IF d.got.id < m THEN 0 ELSE @]
  OBVIOUS
<1>9. read'[t] = e  BY <1>1, <1>3, <1>8 DEF Disturb
<1>10. /\ e \in Read /\ e.pc = "assignKey" /\ e.index = d.index /\ e.key = d.key
       /\ e.awaits = d.awaits /\ e.alone = d.alone /\ e.fault = d.fault
       /\ e.began = (IF d.got.id < m THEN 0 ELSE d.began)
  <2>1. PICK b : b = IF d.got.id < m THEN 0 ELSE d.began  OBVIOUS
  <2>2. b \in 0..MaxIds  BY <1>4, <2>1 DEF ReadAssumption
  <2>3. e = [d EXCEPT !.pc = "assignKey", !.began = b]  BY <1>8, <2>1
  <2> QED  BY <1>4, <2>1, <2>2, <2>3 DEF Read
<1>11. ASSUME NEW u \in Threads \ {t}
       PROVE  /\ read'[u] \in Read
              /\ read'[u].pc = read[u].pc /\ read'[u].key = read[u].key
              /\ read'[u].index = read[u].index
              /\ Sound(read[u])' /\ Joined(read[u])'
              /\ Owned(u, read[u])' /\ Lone(u, read[u])'
  <2>1. PICK a : a = read[u]  OBVIOUS
  <2>2. PICK c : c = [[a EXCEPT !.pc = @, !.began = IF d.got.id < m THEN 0 ELSE @]
                        EXCEPT !.alone = FALSE]
    OBVIOUS
  <2>3. read'[u] = c  BY <1>3, <2>1, <2>2 DEF Disturb
  <2>4. a \in Read /\ a.began \in 0..MaxIds  BY <2>1, Reads
  <2>5. /\ c \in Read /\ ~c.alone /\ c.pc = a.pc /\ c.index = a.index /\ c.key = a.key
        /\ c.got = a.got /\ c.awaits = a.awaits
        /\ c.began = (IF d.got.id < m THEN 0 ELSE a.began)
    <3>1. PICK b : b = IF d.got.id < m THEN 0 ELSE a.began  OBVIOUS
    <3>2. b \in 0..MaxIds  BY <2>4, <3>1 DEF ReadAssumption
    <3>3. c = [[a EXCEPT !.began = b] EXCEPT !.alone = FALSE]
      BY <2>2, <2>4, <3>1 DEF Read
    <3> QED  BY <2>4, <3>1, <3>2, <3>3 DEF Read
  <2>6. c.began \in {0, read[u].began} /\ Follows(c)'  BY <1>7, <2>1, <2>5
  <2> QED  BY <1>3, <2>1, <2>3, <2>5, <2>6, OtherFollows
<1>12. Sound(e)'
  <2>1. Follows(e)'  BY <1>1, <1>7, <1>10
  <2>2. NotNewer(e.key)'  BY <1>3, <1>4, <1>10 DEF Sound, NotNewer
  <2> QED  BY <1>3, <1>4, <1>10, <2>1, <2>2 DEF Sound
<1>13. Joined(e)' /\ Owned(t, e)'  BY <1>3, <1>4, <1>10 DEF Joined, Owned
<1>14. Lone(t, e)'
  <2>1. ASSUME e.alone, ~e.fault
        PROVE  OthersIdle(t)' /\ Recovers(e)'
    <3>1. OthersIdle(t) /\ Recovers(d)  BY <1>4, <1>10, <2>1 DEF Lone
    <3>2. OthersIdle(t)'  BY <1>11, <3>1 DEF OthersIdle, At
    <3>3. d.got = file /\ file.id # 0  BY <1>3, <3>1 DEF Recovers
    <3> QED  BY <1>3, <1>10, <3>2, <3>3 DEF Recovers
  <2> QED  BY <2>1 DEF Lone
<1>15. Assigned'  BY <1>9, <1>10 DEF Assigned
<1>16. read' \in [Threads -> Read]
  <2>1. \A u \in Threads : read'[u] \in Read  BY <1>9, <1>10, <1>11
  <2>2. PICK f : f = [u \in Threads |->
            [read[u] EXCEPT !.pc = IF u = t THEN "assignKey" ELSE @,
                            !.began = IF d.got.id < m THEN 0 ELSE @]]
    OBVIOUS
  <2>3. read' = Disturb(f, t)  BY <1>3, <2>2
  <2>4. read' = [u \in Threads |-> read'[u]]  BY <2>3 DEF Disturb
  <2> QED  BY <2>1, <2>4
<1>17. \A u \in Threads :
          read[u].pc \in {"address", "download", "keep", "giveUp"} =>
             /\ read'[u].pc = read[u].pc /\ read'[u].key = read[u].key
             /\ read'[u].index = read[u].index
  BY <1>1, <1>3, <1>11
<1>18. \A u \in Threads : /\ Sound(read[u])' /\ Joined(read[u])'
                          /\ Owned(u, read[u])' /\ Lone(u, read[u])'
  BY <1>9, <1>11, <1>12, <1>13, <1>14
<1>19. /\ meta' \in Version /\ block_key' \in Version
       /\ NotNewer(meta') /\ NotNewer(block_key')
  BY <1>3, <1>4, <1>5, <1>6
<1> QED  BY <1>3, <1>15, <1>16, <1>17, <1>18, <1>19, HandleKeeps

\* The key is built from the metadata, or torn while another thread assigns it.
LEMMA AssignKeyKeeps ==
    ASSUME IInv, ReadAssumption, NEW t \in Threads, AssignKey(t)
    PROVE  IInv'
<1>1. PICK d : d = read[t]  OBVIOUS
<1>2. PICK c : c = [d EXCEPT !.pc = IF block_size > 0 THEN "block" ELSE "address",
                             !.attempt = 1, !.not_found = FALSE]
  OBVIOUS
<1>3. /\ d.pc = "assignKey" /\ Continue(t, c) /\ meta' = meta
      /\ block_key' = meta \/ (Assigning(t, "assignMeta") # {} /\ block_key' = Garbled)
      /\ UNCHANGED <<driveVars, entry, opener, block_size, blocks>>
      /\ UNCHANGED <<file, ids, block_size, blocks>>
  BY <1>1, <1>2 DEF AssignKey, At, driveVars, BuildBlockKey
<1>4. d \in Read /\ Sound(d) /\ Joined(d) /\ Lone(t, d)  BY <1>1, Reads
<1>5. /\ c \in Read /\ c.pc = (IF block_size > 0 THEN "block" ELSE "address")
      /\ c.index = d.index /\ c.key = d.key /\ c.began = d.began
      /\ c.awaits = d.awaits /\ c.alone = d.alone /\ c.fault = d.fault
  BY <1>2, <1>4 DEF Read
<1>6. read' \in [Threads -> Read] /\ read'[t] = c /\ Others(t)
  BY <1>3, <1>5, Continued DEF IInv
<1>7. /\ meta \in Version /\ NotNewer(meta) /\ Garbled \in Version /\ NotNewer(Garbled)
  BY World, Versions
<1>8. ASSUME NEW a \in Read, Follows(a)
      PROVE  Follows(a)'
  BY <1>3, <1>8 DEF Follows
<1>9. ASSUME NEW u \in Threads \ {t}
      PROVE  /\ read'[u].pc = read[u].pc /\ read'[u].key = read[u].key
             /\ read'[u].index = read[u].index
             /\ Sound(read[u])' /\ Joined(read[u])'
             /\ Owned(u, read[u])' /\ Lone(u, read[u])'
  <2>1. PICK a : a = read[u]  OBVIOUS
  <2>2. PICK e : e = [a EXCEPT !.alone = FALSE]  OBVIOUS
  <2>3. a \in Read /\ Sound(a) /\ read'[u] = e  BY <1>6, <2>1, <2>2, Reads DEF Others
  <2>4. /\ e \in Read /\ ~e.alone /\ e.pc = a.pc /\ e.index = a.index /\ e.key = a.key
        /\ e.got = a.got /\ e.began = a.began /\ e.awaits = a.awaits
    BY <2>2, <2>3, Marked
  <2>5. Follows(e)'
    <3>1. Follows(e)  BY <2>3, <2>4 DEF Sound, Follows
    <3> QED  BY <1>8, <2>4, <3>1
  <2> QED  BY <1>3, <2>1, <2>3, <2>4, <2>5, OtherFollows
<1>10. Sound(c)'
  <2>1. Follows(c)'
    <3>1. Follows(c)  BY <1>4, <1>5 DEF Sound, Follows
    <3> QED  BY <1>5, <1>8, <3>1
  <2>2. NotNewer(c.key)'  BY <1>3, <1>4, <1>5 DEF Sound, NotNewer
  <2> QED  BY <1>3, <1>4, <1>5, <2>1, <2>2 DEF Sound
<1>11. Joined(c)' /\ Owned(t, c)'
  BY <1>3, <1>4, <1>5, World DEF Joined, Owned
<1>12. Lone(t, c)'
  <2>1. ASSUME c.alone, ~c.fault
        PROVE  OthersIdle(t)' /\ Recovers(c)'
    <3>1. OthersIdle(t) /\ Recovers(d)  BY <1>4, <1>5, <2>1 DEF Lone
    <3>2. OthersIdle(t)'  BY <1>9, <3>1 DEF OthersIdle, At
    <3>3. meta = file /\ file.id # 0  BY <1>3, <3>1 DEF Recovers
    <3> QED  BY <1>3, <1>5, <3>2, <3>3 DEF Recovers
  <2> QED  BY <2>1 DEF Lone
\* When nobody assigns any more, the key is whole.
<1>13. Assigned'
  <2>1. ASSUME \A u \in Threads : read'[u].pc \notin {"assignMeta", "assignKey"}
        PROVE  block_key' = meta'
    <3>1. \A u \in Threads \ {t} : read[u].pc # "assignMeta"  BY <1>9, <2>1
    <3>2. Assigning(t, "assignMeta") = {}  BY <3>1 DEF Assigning, At
    <3> QED  BY <1>3, <3>2
  <2> QED  BY <2>1 DEF Assigned
<1>14. \A u \in Threads :
          read[u].pc \in {"address", "download", "keep", "giveUp"} =>
             /\ read'[u].pc = read[u].pc /\ read'[u].key = read[u].key
             /\ read'[u].index = read[u].index
  BY <1>1, <1>3, <1>9
<1>15. \A u \in Threads : /\ Sound(read[u])' /\ Joined(read[u])'
                          /\ Owned(u, read[u])' /\ Lone(u, read[u])'
  BY <1>6, <1>9, <1>10, <1>11, <1>12
<1>16. /\ meta' \in Version /\ block_key' \in Version
       /\ NotNewer(meta') /\ NotNewer(block_key')
  BY <1>3, <1>7
<1> QED  BY <1>3, <1>6, <1>13, <1>14, <1>15, <1>16, HandleKeeps
-----------------------------------------------------------------------------
(***************************************************************************)
(* The theorems.                                                           *)
(***************************************************************************)

LEMMA InitHolds == ASSUME ReadAssumption, Init PROVE IInv
<1>1. /\ file = First /\ ids = 1 /\ changes = 1 /\ opener = NoVersion
      /\ entry \in {First, NoVersion} /\ meta = First /\ block_key = First
      /\ block_size \in {0, 1}
      /\ blocks = [k \in Version |-> [i \in Indices |-> NoBlock]]
      /\ read = [t \in Threads |-> Idle]
  BY DEF Init
<1>2. /\ First \in Version /\ NoVersion \in Version /\ NoBlock \in Block /\ Idle \in Read
      /\ First.id = 1 /\ First.rev = 1 /\ NoVersion.id = 0
      /\ NoBlock.fetcher = None /\ 1 \in 1..MaxIds /\ 1 \in 1..MaxChanges
  BY Versions DEF First, NoBlock, ReadAssumption
<1>3. TypeOK
  BY <1>1, <1>2 DEF TypeOK
<1>4. NotNewer(First) /\ NotNewer(NoVersion)  BY <1>1, <1>2 DEF NotNewer
<1>5. Current  BY <1>1, <1>2, <1>4 DEF Current
<1>6. Assigned  BY <1>1 DEF Assigned
<1>7. \A k \in Version, i \in Indices : BlockSound(k, blocks[k][i])
  BY <1>1, <1>2 DEF BlockSound
<1>8. Sound(Idle) /\ Joined(Idle)
  BY <1>1, <1>2, <1>4 DEF Sound, Joined, Follows, Idle
<1>9. \A t \in Threads : Owned(t, Idle) /\ Lone(t, Idle)  BY DEF Owned, Lone, Idle
<1> QED  BY <1>1, <1>3, <1>5, <1>6, <1>7, <1>8, <1>9 DEF IInv

\* The inductive invariant, kept by every step.
THEOREM StepKeeps == ASSUME ReadAssumption, IInv, [Next]_vars PROVE IInv'
<1>1. CASE Overwrite \/ Delete \/ Recreate \/ OpenerLists \/ OpenerPuts
  BY <1>1, OverwriteKeeps, DeleteKeeps, RecreateKeeps, OpenerKeeps
<1>2. ASSUME NEW k \in Version, NEW i \in Indices, Evict(k, i) PROVE IInv'
  BY <1>2, EvictKeeps
<1>3. ASSUME NEW t \in Threads, NEW i \in Indices, Start(t, i) PROVE IInv'
  BY <1>3, StartKeeps
<1>4. ASSUME NEW t \in Threads, Work(t) PROVE IInv'
  <2>1. CASE GetBlock(t)  BY <2>1, GetBlockKeeps
  <2>2. CASE Address(t)  BY <2>2, AddressKeeps
  <2>3. CASE Download(t)  BY <2>3, DownloadKeeps
  <2>4. CASE Keep(t)  BY <2>4, KeepKeeps
  <2>5. CASE GiveUp(t)  BY <2>5, GiveUpKeeps
  <2>6. CASE Failing(t)  BY <2>6, FailingKeeps
  <2>7. CASE InvalidatePrefix(t)  BY <2>7, InvalidateKeeps
  <2>8. CASE Resolve(t)  BY <2>8, ResolveKeeps
  <2>9. CASE Put(t)  BY <2>9, PutKeeps
  <2>10. CASE Compare(t)  BY <2>10, CompareKeeps
  <2>11. CASE AssignMeta(t)  BY <2>11, AssignMetaKeeps
  <2>12. CASE AssignKey(t)  BY <2>12, AssignKeyKeeps
  <2>13. CASE Return(t)  BY <2>13, ReturnKeeps
  <2>14. CASE Copy(t)  BY <2>14, CopyKeeps
  <2> QED
    BY <1>4, <2>1, <2>2, <2>3, <2>4, <2>5, <2>6, <2>7, <2>8, <2>9, <2>10, <2>11,
       <2>12, <2>13, <2>14 DEF Work
<1>5. CASE UNCHANGED vars
  <2>1. UNCHANGED <<file, ids, changes, entry, opener, meta, block_key, block_size,
                    blocks, read>>
    BY <1>5 DEF vars, driveVars, handleVars
  <2>2. TypeOK'  BY <2>1 DEF IInv, TypeOK
  <2>3. Current' /\ Assigned'  BY <2>1 DEF IInv, Current, Assigned, NotNewer
  <2>4. \A k \in Version, i \in Indices : BlockSound(k, blocks[k][i])'
    BY <2>1 DEF IInv, BlockSound, AtLeast
  <2>5. ASSUME NEW t \in Threads
        PROVE  /\ Sound(read[t])' /\ Joined(read[t])'
               /\ Owned(t, read[t])' /\ Lone(t, read[t])'
    <3>1. PICK d : d = read[t]  OBVIOUS
    <3>2. Sound(d) /\ Joined(d) /\ Owned(t, d) /\ Lone(t, d) /\ read'[t] = d
      BY <2>1, <3>1 DEF IInv
    <3>3. Sound(d)'  BY <2>1, <3>2 DEF Sound, Follows, NotNewer, AtLeast
    <3>4. Joined(d)' /\ Owned(t, d)'  BY <2>1, <3>2 DEF Joined, Owned
    <3>5. Lone(t, d)'  BY <2>1, <3>2 DEF Lone, OthersIdle, Recovers, At
    <3> QED  BY <3>2, <3>3, <3>4, <3>5
  <2> QED  BY <2>2, <2>3, <2>4, <2>5 DEF IInv
<1> QED  BY <1>1, <1>2, <1>3, <1>4, <1>5 DEF Next

THEOREM ReadInvariant == Spec => []IInv
<1>1. Init => IInv  BY InitHolds, ReadAssumption
<1>2. IInv /\ [Next]_vars => IInv'  BY StepKeeps, ReadAssumption
<1> QED  BY <1>1, <1>2, PTL DEF Spec

\* The handle, the blocks and the reads keep their types, and a block being
\* fetched names the thread that asks for it.
THEOREM ReadTypes == Spec => []TypeOK
<1>1. IInv => TypeOK  BY DEF IInv
<1> QED  BY <1>1, ReadInvariant, PTL

\* No block is cached for a file or a revision it is older than, however the
\* threads that share a handle tear its fields (BuildBlockKey, GetBlock).
THEOREM CachedBlocksNeverOlder == Spec => []BlocksNeverOlder
<1>1. IInv => BlocksNeverOlder
  BY DEF IInv, BlockSound, AtLeast, BlocksNeverOlder
<1> QED  BY <1>1, ReadInvariant, PTL

\* No read returns bytes of a file that was at the path before the one its
\* handle pointed at when it began (Read, TryRecoverStaleHandle).
THEOREM ReadsKeepToTheirFile == Spec => []ReadsHandleFile
<1>1. ASSUME IInv PROVE ReadsHandleFile
  <2>1. ASSUME NEW t \in Threads, read[t].pc = "done"
        PROVE  read[t].got.id >= read[t].began
    <3>1. read[t].began <= read[t].got.id  BY <1>1, <2>1 DEF IInv, Sound
    <3>2. read[t].began \in Int /\ read[t].got.id \in Int
      BY <1>1, Reads, ReadAssumption, Versions
    <3> QED  BY <3>1, <3>2
  <2> QED  BY <2>1 DEF ReadsHandleFile, At
<1> QED  BY <1>1, ReadInvariant, PTL

\* A read nothing else disturbs fails only by a failed request, by a file that is
\* not the one opened and ends before the bytes asked for, or when there is no file
\* at the path (Read, ReadViaBlockCache).
THEOREM LoneReadsRecover == Spec => []LoneReadRecovers
<1>1. IInv => LoneReadRecovers
  BY DEF IInv, Lone, Recovers, LoneReadRecovers, At
<1> QED  BY <1>1, ReadInvariant, PTL
=============================================================================
