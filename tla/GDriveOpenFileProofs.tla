------------------------ MODULE GDriveOpenFileProofs ------------------------
(***************************************************************************)
(* Proofs about GDriveOpenFile: what an open hands out belongs to its      *)
(* query, duplicates are never guessed at, and a shared fetch serves all   *)
(* who wait for it, for any threads, names, ids, queries and cache size,   *)
(* and for calls between statements or without a context as well.          *)
(***************************************************************************)
EXTENDS GDriveOpenFile, FiniteSetTheorems, SequenceTheorems, TLAPS

Fetching == {"get", "erase", "settle"}
HoldsId == Fetching \cup {"refresh", "through", "wait"}

\* Scope(t) of a call c.
ScopeOf(t, c) == IF c.generation \in Queries THEN c.generation ELSE t
Scoped(c) == c.generation # MAXIMUM_QUERY_ID

\* Since scope s began: file m.id was there as m says, and alone had name n.
Saw(s, m) == m \in during[s].versions
SawAlone(s, n, m) == Saw(s, m) /\ <<n, m.id>> \in during[s].bindings

\* Generations are those of queries that were started.
Started ==
    /\ metadata_generation \in Queries => metadata_generation <= queries
    /\ \A t \in Threads : call[t].generation \in Queries => call[t].generation <= queries

\* The history of what goes on has what Drive holds now.
Current ==
    \A s \in Scopes : s \in 1..queries \/ Watched(s) =>
        /\ Versions(drive) \subseteq during[s].versions
        /\ Bindings(drive) \subseteq during[s].bindings

\* A path entry is what a listing of its query found.
EntryListed(e) ==
    /\ e.meta.id \in Ids
    /\ e.fresh_generation \in Queries =>
         e.fresh_generation <= queries /\ SawAlone(e.fresh_generation, e.name, e.meta)
Listed == \A i \in DOMAIN entries : EntryListed(entries[i])

\* The guard of OpenedWithinQuery.
Owed(c) == c.name \notin Immutable /\ Scoped(c) /\ ~c.again /\ ~c.fellback

\* What call c of thread t may rely on.
Sound(t, c) ==
    /\ c.pc = "idle" => c = Idle
    /\ c.pc \in HoldsId => c.meta.id \in Ids
    /\ c.pc \in {"lookup", "list", "put", "invalidate"} => c.name \in Names
    /\ c.op = "open" => c.name \in Names
    /\ c.pc \notin {"put", "opened"} => ~c.fresh
    /\ c.pc = "put" => c.fresh /\ c.meta.id \in Ids
    /\ c.pc \in {"put", "opened"} /\ c.fresh => SawAlone(ScopeOf(t, c), c.name, c.meta)
    /\ \A p \in c.puts : p[2].id \in Ids /\ SawAlone(ScopeOf(t, c), p[1], p[2])
    /\ c.pc = "erase" => c.answer \in {"absent", "error"}
    /\ c.pc = "settle" => c.answer \in {"found", "absent", "error"}
    /\ c.pc = "opened" /\ Owed(c) => Saw(ScopeOf(t, c), c.meta)

\* Call c has fetched metadata, and it holds since scope s began.
Serves(c, s) ==
    c.pc = "settle" /\ c.answer = "found" /\ ~c.fellback => Saw(s, c.meta)

\* A thread waits for one that fetches the same file, and whose answer will be
\* one of its own scope.
Joined(t, c) ==
    IF c.pc = "wait"
    THEN /\ c.awaits \in Threads \ {t}
         /\ call[c.awaits].pc \in Fetching
         /\ call[c.awaits].meta.id = c.meta.id
         /\ Scoped(c) => Serves(call[c.awaits], ScopeOf(t, c))
    ELSE c.awaits = None

\* The scopes of the calls that the metadata entries may serve.
Live(s) ==
    \/ s \in Queries /\ s = metadata_generation
    \/ \E t \in Threads :
         s = ScopeOf(t, call[t]) /\ call[t].pc # "idle" /\ Scoped(call[t])

\* A metadata entry is being fetched by the thread it names, for that id, and
\* holds what was there since each call began that it may serve.
EntrySound(f, e) ==
    /\ e # NoEntry => metadata_generation # 0
    /\ e.fetcher # None =>
         /\ call[e.fetcher].pc \in Fetching
         /\ call[e.fetcher].meta.id = f
         /\ call[e.fetcher].pc = "settle" => call[e.fetcher].answer = "found"
         /\ \A s \in Scopes : Live(s) => Serves(call[e.fetcher], s)
    /\ e # NoEntry /\ e.fetcher = None =>
         /\ e.meta.id = f
         /\ ~e.fellback => \A s \in Scopes : Live(s) => Saw(s, e.meta)

\* A fetch has its entry, unless unanswered entries were dropped.
Owned(t, c) ==
    c.pc = "get" => dropped \/ metadata_entries[c.meta.id].fetcher = t

IInv ==
    /\ TypeOK
    /\ Started
    /\ Current
    /\ Listed
    /\ \A t \in Threads : /\ Sound(t, call[t])
                          /\ Serves(call[t], ScopeOf(t, call[t]))
                          /\ Joined(t, call[t])
                          /\ Owned(t, call[t])
    /\ \A f \in Ids : EntrySound(f, metadata_entries[f])
-----------------------------------------------------------------------------
(***************************************************************************)
(* The path entries: one for each name, within the cap.                    *)
(***************************************************************************)
Distinct(es) == \A i, j \in DOMAIN es : es[i].name = es[j].name => i = j
Within(es) == MaxEntries # 0 => Len(es) <= MaxEntries

\* Every element of es is one of entries.
From(es) == \A i \in DOMAIN es : \E j \in DOMAIN entries : es[i] = entries[j]

\* Without one of its elements a sequence keeps the others.
LEMMA OneRemoved ==
    ASSUME NEW S, NEW s \in Seq(S), NEW k \in DOMAIN s
    PROVE  /\ RemoveAt(s, k) \in Seq(S)
           /\ Len(RemoveAt(s, k)) = Len(s) - 1
           /\ \A i \in 1..(Len(s) - 1) :
                RemoveAt(s, k)[i] = s[IF i < k THEN i ELSE i + 1]
<1> DEFINE a == SubSeq(s, 1, k - 1)
           b == SubSeq(s, k + 1, Len(s))
<1>1. Len(s) \in Nat /\ k \in 1..Len(s) /\ k \in Int /\ \A i \in 1..Len(s) : s[i] \in S
  BY ElementOfSeq, LenProperties
<1>2. /\ a \in Seq(S) /\ Len(a) = k - 1
      /\ \A i \in 1..(k - 1) : a[i] = s[i]
  <2>1. \A i \in 1..(k - 1) : s[i] \in S  BY <1>1
  <2>2. /\ SubSeq(s, 1, k - 1) \in Seq(S)
        /\ Len(SubSeq(s, 1, k - 1)) = IF 1 <= k - 1 THEN (k - 1) - 1 + 1 ELSE 0
        /\ \A i \in 1..((k - 1) - 1 + 1) : SubSeq(s, 1, k - 1)[i] = s[1 + i - 1]
    <3>1. 1 \in Int /\ k - 1 \in Int  BY <1>1
    <3> QED  BY <2>1, <3>1, SubSeqProperties
  <2> QED  BY <1>1, <2>2
<1>3. /\ b \in Seq(S) /\ Len(b) = Len(s) - k
      /\ \A i \in 1..(Len(s) - k) : b[i] = s[k + i]
  <2>1. \A i \in (k + 1)..Len(s) : s[i] \in S  BY <1>1
  <2>2. /\ SubSeq(s, k + 1, Len(s)) \in Seq(S)
        /\ Len(SubSeq(s, k + 1, Len(s))) = IF k + 1 <= Len(s) THEN Len(s) - (k + 1) + 1 ELSE 0
        /\ \A i \in 1..(Len(s) - (k + 1) + 1) : SubSeq(s, k + 1, Len(s))[i] = s[k + 1 + i - 1]
    <3>1. k + 1 \in Int /\ Len(s) \in Int  BY <1>1
    <3> QED  BY <2>1, <3>1, SubSeqProperties
  <2> QED  BY <1>1, <2>2
<1>4. RemoveAt(s, k) = a \o b  BY DEF RemoveAt
<1> HIDE DEF a, b
<1>5. /\ a \o b \in Seq(S)
      /\ Len(a \o b) = Len(a) + Len(b)
      /\ \A i \in 1..(Len(a) + Len(b)) :
           (a \o b)[i] = IF i <= Len(a) THEN a[i] ELSE b[i - Len(a)]
  BY <1>2, <1>3, ConcatProperties
<1>6. ASSUME NEW i \in 1..(Len(s) - 1)
      PROVE  (a \o b)[i] = s[IF i < k THEN i ELSE i + 1]
  <2>1. CASE i < k
    <3>1. i \in 1..(k - 1) /\ i <= Len(a) /\ i \in 1..(Len(a) + Len(b))
      BY <1>1, <1>2, <1>3, <2>1
    <3> QED  BY <1>2, <1>5, <2>1, <3>1
  <2>2. CASE ~(i < k)
    <3>1. /\ i - Len(a) \in 1..(Len(s) - k) /\ ~(i <= Len(a)) /\ i \in 1..(Len(a) + Len(b))
          /\ k + (i - Len(a)) = i + 1
      BY <1>1, <1>2, <1>3, <2>2
    <3>2. (a \o b)[i] = b[i - Len(a)]  BY <1>5, <3>1
    <3>3. b[i - Len(a)] = s[k + (i - Len(a))]  BY <1>3, <3>1
    <3> QED  BY <2>2, <3>1, <3>2, <3>3
  <2> QED  BY <2>1, <2>2
<1>7. Len(a) + Len(b) = Len(s) - 1  BY <1>1, <1>2, <1>3
<1> QED  BY <1>4, <1>5, <1>6, <1>7

\* Others drops the one entry of that name.
LEMMA OthersOfName ==
    ASSUME TypeOK, NEW n \in Names
    PROVE  /\ Others(n) \in Seq(PathEntry) /\ Distinct(Others(n)) /\ From(Others(n))
           /\ \A i \in DOMAIN Others(n) : Others(n)[i].name # n
           /\ Len(Others(n)) = IF Cached(n) = {} THEN Len(entries) ELSE Len(entries) - 1
<1>1. entries \in Seq(PathEntry) /\ Distinct(entries) /\ Len(entries) \in Nat
      /\ DOMAIN entries = 1..Len(entries)
  BY LenProperties DEF TypeOK, Distinct
<1>2. CASE Cached(n) = {}
  BY <1>1, <1>2 DEF Others, Cached, From, Distinct
<1>3. CASE Cached(n) # {}
  <2> DEFINE k == CHOOSE i \in Cached(n) : TRUE
             o == RemoveAt(entries, k)
             at(i) == IF i < k THEN i ELSE i + 1
  <2>1. k \in Cached(n)  BY <1>3
  <2>2. k \in 1..Len(entries) /\ entries[k].name = n  BY <1>1, <2>1 DEF Cached
  <2>3. Others(n) = o  BY <1>3 DEF Others
  <2> HIDE DEF k
  <2>4. /\ o \in Seq(PathEntry) /\ Len(o) = Len(entries) - 1
        /\ \A i \in 1..(Len(entries) - 1) : o[i] = entries[at(i)]
    BY <1>1, <2>2, OneRemoved
  <2>5. DOMAIN o = 1..(Len(entries) - 1)  BY <2>4, LenProperties
  <2> HIDE DEF o
  <2>6. ASSUME NEW i \in DOMAIN o
        PROVE  at(i) \in DOMAIN entries /\ at(i) # k /\ o[i] = entries[at(i)]
    BY <1>1, <2>2, <2>4, <2>5
  <2>7. ASSUME NEW i \in DOMAIN o, NEW j \in DOMAIN o, at(i) = at(j)
        PROVE  i = j
    BY <1>1, <2>2, <2>5, <2>7
  <2> HIDE DEF at
  <2>8. Distinct(o)  BY <1>1, <2>6, <2>7 DEF Distinct
  <2>9. \A i \in DOMAIN o : o[i].name # n
    BY <1>1, <2>2, <2>6 DEF Distinct
  <2>10. From(o)  BY <2>6 DEF From
  <2> QED  BY <1>3, <2>3, <2>4, <2>8, <2>9, <2>10
<1> QED  BY <1>2, <1>3

\* An entry put after the others of its name.
LEMMA Appended ==
    ASSUME TypeOK, NEW e \in PathEntry
    PROVE  LET es == Append(Others(e.name), e) IN
           /\ es \in Seq(PathEntry) /\ Distinct(es)
           /\ Len(es) = IF Cached(e.name) = {} THEN Len(entries) + 1 ELSE Len(entries)
           /\ \A i \in DOMAIN es : es[i] = e \/ \E j \in DOMAIN entries : es[i] = entries[j]
<1> DEFINE o == Others(e.name)
           es == Append(o, e)
<1>1. e.name \in Names  BY DEF PathEntry
<1>2. /\ o \in Seq(PathEntry) /\ Distinct(o) /\ From(o)
      /\ \A i \in DOMAIN o : o[i].name # e.name
      /\ Len(o) = IF Cached(e.name) = {} THEN Len(entries) ELSE Len(entries) - 1
  BY <1>1, OthersOfName
<1>3. Len(entries) \in Nat  BY LenProperties DEF TypeOK
<1> HIDE DEF o
<1>4. Len(o) \in Nat /\ DOMAIN o = 1..Len(o)  BY <1>2, LenProperties
<1>5. /\ es \in Seq(PathEntry) /\ Len(es) = Len(o) + 1
      /\ \A i \in 1..Len(o) : es[i] = o[i]
      /\ es[Len(o) + 1] = e
  BY <1>2, AppendProperties
<1>6. DOMAIN es = 1..(Len(o) + 1)  BY <1>5, LenProperties
<1> HIDE DEF es
<1>7. \A i \in DOMAIN es : (i \in DOMAIN o /\ es[i] = o[i]) \/ (i = Len(o) + 1 /\ es[i] = e)
  BY <1>4, <1>5, <1>6
<1>8. Distinct(es)  BY <1>2, <1>7 DEF Distinct
<1>9. \A i \in DOMAIN es : es[i] = e \/ \E j \in DOMAIN entries : es[i] = entries[j]
  BY <1>2, <1>7 DEF From
<1>10. Len(es) = IF Cached(e.name) = {} THEN Len(entries) + 1 ELSE Len(entries)
  BY <1>2, <1>3, <1>5
<1> QED  BY <1>5, <1>8, <1>9, <1>10 DEF es, o

\* Eviction keeps the most recently used, as many as the cap allows.
LEMMA Evicted ==
    ASSUME OpenFileAssumption, NEW es \in Seq(PathEntry), Distinct(es)
    PROVE  LET kept == EvictPathsLocked(es) IN
           /\ kept \in Seq(PathEntry) /\ Distinct(kept) /\ Within(kept)
           /\ \A i \in DOMAIN kept : \E j \in DOMAIN es : kept[i] = es[j]
<1>1. Len(es) \in Nat /\ MaxEntries \in Nat /\ DOMAIN es = 1..Len(es)
      /\ \A i \in 1..Len(es) : es[i] \in PathEntry
  BY LenProperties, ElementOfSeq DEF OpenFileAssumption
<1>2. CASE MaxEntries # 0 /\ Len(es) > MaxEntries
  <2> DEFINE first == Len(es) - MaxEntries + 1
             kept == SubSeq(es, first, Len(es))
  <2>1. first \in Int /\ Len(es) \in Int /\ \A i \in first..Len(es) : es[i] \in PathEntry
    BY <1>1, <1>2
  <2>2. /\ kept \in Seq(PathEntry)
        /\ Len(kept) = IF first <= Len(es) THEN Len(es) - first + 1 ELSE 0
        /\ \A i \in 1..(Len(es) - first + 1) : kept[i] = es[first + i - 1]
    <3> HIDE DEF first
    <3> QED  BY <2>1, SubSeqProperties
  <2>3. Len(kept) = MaxEntries  BY <1>1, <1>2, <2>2
  <2>4. DOMAIN kept = 1..MaxEntries  BY <2>2, <2>3, LenProperties
  <2>5. EvictPathsLocked(es) = kept  BY <1>2 DEF EvictPathsLocked
  <2>6. /\ Len(es) - first + 1 = MaxEntries /\ first \in Nat /\ first >= 1
        /\ first + MaxEntries - 1 = Len(es)
    BY <1>1, <1>2
  <2> HIDE DEF kept, first
  <2>7. ASSUME NEW i \in DOMAIN kept
        PROVE  first + i - 1 \in DOMAIN es /\ kept[i] = es[first + i - 1]
    BY <1>1, <2>2, <2>4, <2>6
  <2>8. ASSUME NEW i \in DOMAIN kept, NEW j \in DOMAIN kept, first + i - 1 = first + j - 1
        PROVE  i = j
    BY <1>1, <2>4, <2>6, <2>8
  <2>9. Distinct(kept)  BY <2>7, <2>8 DEF Distinct
  <2> QED  BY <1>1, <2>2, <2>3, <2>5, <2>7, <2>9 DEF Within
<1>3. CASE ~(MaxEntries # 0 /\ Len(es) > MaxEntries)
  BY <1>1, <1>3 DEF EvictPathsLocked, Within
<1> QED  BY <1>2, <1>3
-----------------------------------------------------------------------------
(***************************************************************************)
(* What a step leaves alone.                                               *)
(***************************************************************************)

\* The history of scope s only grows.
Grows(s) ==
    /\ during[s].versions \subseteq during'[s].versions
    /\ during[s].bindings \subseteq during'[s].bindings

Entries(es) == es \in Seq(PathEntry) /\ Distinct(es) /\ Within(es)

\* TypeOK, in the parts that steps are about.
LEMMA Types ==
    TypeOK <=> /\ drive \in [Ids -> File] /\ changes \in 0..MaxChanges
               /\ queries \in 0..MaxQueries
               /\ Entries(entries)
               /\ metadata_entries \in [Ids -> MetaEntry]
               /\ metadata_generation \in Generations
               /\ call \in [Threads -> Call]
               /\ during \in [Scopes -> Seen]
               /\ dropped \in BOOLEAN
BY DEF TypeOK, Entries, Distinct, Within

\* The scope of a call has a history.
LEMMA ScopesOf == ASSUME NEW t \in Threads, NEW c \in Call PROVE ScopeOf(t, c) \in Scopes
BY DEF ScopeOf, Scopes

\* Scope(t) is that of the call thread t makes.
LEMMA ScopesAre ==
    ASSUME NEW t \in Threads, TypeOK
    PROVE  Scope(t) = ScopeOf(t, call[t]) /\ Scope(t) \in Scopes /\ call[t] \in Call
BY DEF Scope, ScopeOf, Scopes, TypeOK

\* The history of a call has what Drive holds.
LEMMA CallsSeeNow ==
    ASSUME IInv, OpenFileAssumption, NEW t \in Threads, call[t].pc # "idle"
    PROVE  LET s == ScopeOf(t, call[t]) IN
           /\ \A f \in Ids : drive[f].name # None => Saw(s, MetaOf(f))
           /\ \A n \in Names, f \in Ids : Named(drive, n) = {f}
                => SawAlone(s, n, MetaOf(f)) /\ drive[f].name # None
<1> DEFINE s == ScopeOf(t, call[t])
<1>1. s \in Scopes /\ s = Scope(t)  BY ScopesAre DEF IInv
<1>2. s \in 1..queries \/ Watched(s)
  <2>1. CASE call[t].generation \in Queries
    BY <2>1 DEF IInv, Started, ScopeOf, Queries, TypeOK
  <2>2. CASE call[t].generation \notin Queries
    BY <1>1, <2>2 DEF ScopeOf, Watched
  <2> QED  BY <2>1, <2>2
<1>3. /\ Versions(drive) \subseteq during[s].versions
      /\ Bindings(drive) \subseteq during[s].bindings
  BY <1>1, <1>2 DEF IInv, Current
<1> HIDE DEF s
<1>4. \A f \in Ids : drive[f].name # None => MetaOf(f) \in Versions(drive)
  BY DEF Versions, MetaOf
<1>5. ASSUME NEW n \in Names, NEW f \in Ids, Named(drive, n) = {f}
      PROVE  <<n, f>> \in Bindings(drive) /\ drive[f].name # None /\ MetaOf(f).id = f
  <2>1. drive[f].name = n  BY <1>5 DEF Named
  <2>2. <<n, f>> \in Names \X Ids  OBVIOUS
  <2> QED  BY <1>5, <2>1, <2>2 DEF Bindings, MetaOf, OpenFileAssumption
<1>6. \A f \in Ids : drive[f].name # None => Saw(s, MetaOf(f))
  BY <1>3, <1>4 DEF Saw
<1>7. ASSUME NEW n \in Names, NEW f \in Ids, Named(drive, n) = {f}
      PROVE  SawAlone(s, n, MetaOf(f)) /\ drive[f].name # None
  BY <1>3, <1>5, <1>6, <1>7 DEF SawAlone
<1> QED  BY <1>6, <1>7 DEF s

\* What a call relies on stays as long as its history does.
LEMMA SoundStays ==
    ASSUME NEW u, Sound(u, call[u]), call'[u] = call[u], Grows(ScopeOf(u, call[u]))
    PROVE  Sound(u, call[u])'
<1> DEFINE c == call[u]
           s == ScopeOf(u, c)
<1>1. \A m : Saw(s, m) => Saw(s, m)'  BY DEF Saw, Grows
<1>2. \A n, m : SawAlone(s, n, m) => SawAlone(s, n, m)'  BY <1>1 DEF SawAlone, Grows
<1> QED  BY <1>1, <1>2 DEF Sound, ScopeOf, Owed, Scoped

\* A thread's part of the invariant.
ThreadSound(t, c) ==
    Sound(t, c) /\ Serves(c, ScopeOf(t, c)) /\ Joined(t, c) /\ Owned(t, c)

\* A thread that takes no step keeps its part while its history grows and the
\* thread it waits for stays where it is.
LEMMA ThreadStays ==
    ASSUME IInv, NEW u \in Threads, call'[u] = call[u], Grows(ScopeOf(u, call[u])),
           call[u].pc = "wait" => call'[call[u].awaits] = call[call[u].awaits],
           Owned(u, call[u])'
    PROVE  ThreadSound(u, call[u])'
<1> DEFINE c == call[u]
           s == ScopeOf(u, c)
<1>1. Sound(u, c) /\ Serves(c, s) /\ Joined(u, c)  BY DEF IInv
<1>2. Sound(u, c)'  BY <1>1, SoundStays
<1>3. \A m : Saw(s, m) => Saw(s, m)'  BY DEF Saw, Grows, ScopeOf
<1>4. Serves(c, s)'  BY <1>1, <1>3 DEF Serves
<1>5. Joined(u, c)'  BY <1>1, <1>3 DEF Joined, Serves, Scoped
<1> QED  BY <1>2, <1>4, <1>5 DEF ThreadSound

\* A metadata entry keeps its part while no scope begins to be served, and its
\* fetching thread stays where it is.
LEMMA EntryStays ==
    ASSUME IInv, NEW f \in Ids, metadata_entries'[f] = metadata_entries[f],
           metadata_generation' = 0 => metadata_generation = 0,
           \A s \in Scopes : Live(s)' => Live(s) /\ Grows(s),
           metadata_entries[f].fetcher # None
             => call'[metadata_entries[f].fetcher] = call[metadata_entries[f].fetcher]
    PROVE  EntrySound(f, metadata_entries[f])'
<1> DEFINE e == metadata_entries[f]
<1>1. EntrySound(f, e)  BY DEF IInv
<1>2. \A s \in Scopes : \A m : Live(s)' /\ Saw(s, m) => Saw(s, m)'  BY DEF Saw, Grows
<1>3. ASSUME e.fetcher # None
      PROVE  \A s \in Scopes : Live(s)' => Serves(call[e.fetcher], s)'
  BY <1>1, <1>2, <1>3 DEF EntrySound, Serves
<1>4. ASSUME e # NoEntry, e.fetcher = None, ~e.fellback
      PROVE  \A s \in Scopes : Live(s)' => Saw(s, e.meta)'
  BY <1>1, <1>2, <1>4 DEF EntrySound
<1> QED  BY <1>1, <1>3, <1>4 DEF EntrySound

\* An id without an entry promises nothing.
LEMMA NoEntryIsSound ==
    ASSUME NEW f \in Ids, metadata_entries'[f] = NoEntry
    PROVE  EntrySound(f, metadata_entries[f])'
BY DEF EntrySound, NoEntry

\* Thread t goes on with its call, which becomes c.
Becomes(t, c) ==
    /\ c \in Call /\ call' = [call EXCEPT ![t] = c]
    /\ c.generation = call[t].generation
    /\ call[t].pc # "idle" /\ c.pc # "idle"

\* What no step of a call changes.
LEMMA StepFrame ==
    ASSUME IInv, NEW t \in Threads, Step(t), call' \in [Threads -> Call],
           \A u \in Threads : /\ call'[u].generation = call[u].generation
                              /\ call'[u].pc = "idle" <=> call[u].pc = "idle"
    PROVE  /\ Started' /\ Current'
           /\ \A s \in Scopes : Live(s)' => Live(s) /\ Grows(s)
           /\ \A s \in Scopes : Grows(s)
           /\ drive' \in [Ids -> File] /\ changes' \in 0..MaxChanges
           /\ queries' \in 0..MaxQueries /\ metadata_generation' \in Generations
           /\ during' \in [Scopes -> Seen]
           /\ \A u \in Threads : ScopeOf(u, call[u])' = ScopeOf(u, call[u])
<1>1. TypeOK  BY DEF IInv
<1>2. UNCHANGED <<drive, changes, queries, metadata_generation, during>>
  BY DEF Step, driveVars
<1>3. \A u \in Threads : ScopeOf(u, call[u])' = ScopeOf(u, call[u])  BY DEF ScopeOf
<1>4. \A s \in Scopes : Grows(s)  BY <1>2 DEF Grows
<1>5. Started'  BY <1>2 DEF IInv, Started
<1>6. \A s : Watched(s)' <=> Watched(s)
  BY DEF Watched, Scope
<1>7. Current'
  BY <1>2, <1>6 DEF IInv, Current, Versions, Bindings, Named
<1>8. \A s \in Scopes : Live(s)' => Live(s)
  BY <1>2, <1>3 DEF Live, Scoped
<1> QED  BY <1>1, <1>2, <1>3, <1>4, <1>5, <1>7, <1>8 DEF TypeOK

\* Only the thread that takes the step has a new call.
LEMMA BecomesFrame ==
    ASSUME IInv, NEW t \in Threads, NEW c, Becomes(t, c)
    PROVE  /\ call' \in [Threads -> Call]
           /\ \A u \in Threads : /\ call'[u].generation = call[u].generation
                                 /\ call'[u].pc = "idle" <=> call[u].pc = "idle"
           /\ call'[t] = c
           /\ \A u \in Threads \ {t} : call'[u] = call[u]
BY DEF Becomes, IInv, TypeOK

\* A step of a call that answers nobody: the other threads' parts stay.
LEMMA OwnStep ==
    ASSUME IInv, OpenFileAssumption, NEW t \in Threads, NEW c, Becomes(t, c), Step(t),
           call[t].pc \notin Fetching,
           Entries(entries)', Listed', ThreadSound(t, call[t])',
           metadata_entries' \in [Ids -> MetaEntry], dropped' \in BOOLEAN,
           \A u \in Threads \ {t} : Owned(u, call[u])',
           \A f \in Ids : metadata_entries'[f] = metadata_entries[f]
                            \/ EntrySound(f, metadata_entries[f])'
    PROVE  IInv'
<1>1. /\ call' \in [Threads -> Call]
      /\ \A u \in Threads : /\ call'[u].generation = call[u].generation
                            /\ call'[u].pc = "idle" <=> call[u].pc = "idle"
      /\ \A u \in Threads \ {t} : call'[u] = call[u]
  BY BecomesFrame
<1>2. /\ Started' /\ Current'
      /\ \A s \in Scopes : Live(s)' => Live(s) /\ Grows(s)
      /\ \A s \in Scopes : Grows(s)
      /\ drive' \in [Ids -> File] /\ changes' \in 0..MaxChanges
      /\ queries' \in 0..MaxQueries /\ metadata_generation' \in Generations
      /\ during' \in [Scopes -> Seen]
  BY <1>1, StepFrame
<1>3. TypeOK'
  BY <1>1, <1>2 DEF TypeOK, Entries, Distinct, Within
<1>4. metadata_generation' = metadata_generation  BY DEF Step
<1>5. ASSUME NEW u \in Threads \ {t}
      PROVE  ThreadSound(u, call[u])'
  <2>1. call[u] \in Call /\ ScopeOf(u, call[u]) \in Scopes
    BY ScopesAre DEF IInv, TypeOK
  <2>2. ASSUME call[u].pc = "wait"
        PROVE  call'[call[u].awaits] = call[call[u].awaits]
    <3>1. Joined(u, call[u])  BY DEF IInv
    <3>2. call[u].awaits \in Threads \ {t}  BY <2>2, <3>1 DEF Joined
    <3> QED  BY <1>1, <3>2
  <2> QED  BY <1>1, <1>2, <2>1, <2>2, ThreadStays
<1>6. ASSUME NEW f \in Ids, metadata_entries'[f] = metadata_entries[f]
      PROVE  EntrySound(f, metadata_entries[f])'
  <2>1. ASSUME metadata_entries[f].fetcher # None
        PROVE  call'[metadata_entries[f].fetcher] = call[metadata_entries[f].fetcher]
    <3>1. EntrySound(f, metadata_entries[f]) /\ metadata_entries[f] \in MetaEntry
      BY DEF IInv, TypeOK
    <3>2. metadata_entries[f].fetcher \in Threads \ {t}
      BY <2>1, <3>1 DEF EntrySound, MetaEntry
    <3> QED  BY <1>1, <3>2
  <2> QED  BY <1>2, <1>4, <1>6, <2>1, EntryStays
<1> QED  BY <1>2, <1>3, <1>5, <1>6 DEF IInv, ThreadSound

\* Likewise one that leaves the metadata alone.
LEMMA QuietStep ==
    ASSUME IInv, OpenFileAssumption, NEW t \in Threads, NEW c, Becomes(t, c), Step(t),
           call[t].pc \notin Fetching, c.pc \notin Fetching,
           UNCHANGED <<metadata_entries, dropped>>,
           Entries(entries)', Listed', Sound(t, c), Joined(t, c)
    PROVE  IInv'
<1>1. call'[t] = c /\ \A u \in Threads \ {t} : call'[u] = call[u]  BY BecomesFrame
<1>2. during' = during  BY DEF Step
<1>3. Sound(t, call[t])'
  BY <1>1, <1>2 DEF Sound, SawAlone, Saw, ScopeOf, Owed, Scoped
<1>4. Joined(t, call[t])'
  BY <1>1, <1>2 DEF Joined, Serves, Saw, ScopeOf, Scoped
<1>5. Serves(call[t], ScopeOf(t, call[t]))' /\ Owned(t, call[t])'
  BY <1>1 DEF Serves, Owned, Fetching
<1>6. \A u \in Threads \ {t} : Owned(u, call[u])'
  BY <1>1 DEF IInv, Owned
<1>7. metadata_entries' \in [Ids -> MetaEntry] /\ dropped' \in BOOLEAN
  BY DEF IInv, TypeOK
<1> QED  BY <1>3, <1>4, <1>5, <1>6, <1>7, OwnStep DEF ThreadSound

-----------------------------------------------------------------------------
(***************************************************************************)
(* Path entries, as the steps of a call leave them.                        *)
(***************************************************************************)
LEMMA EntriesAlone ==
    ASSUME IInv, NEW t, Step(t), UNCHANGED entries
    PROVE  Entries(entries)' /\ Listed'
<1>1. Entries(entries)  BY Types DEF IInv
<1>2. UNCHANGED <<queries, during>>  BY DEF Step
<1> QED
  BY <1>1, <1>2 DEF IInv, Entries, Distinct, Within, Listed, EntryListed, SawAlone, Saw

\* Entries that are old, or new and true, are listed.
LEMMA EntriesListed ==
    ASSUME IInv, NEW t, Step(t), NEW e, EntryListed(e),
           \A i \in DOMAIN entries' :
             entries'[i] = e \/ \E j \in DOMAIN entries : entries'[i] = entries[j]
    PROVE  Listed'
<1>1. UNCHANGED <<queries, during>>  BY DEF Step
<1>2. \A x : EntryListed(x) => EntryListed(x)'
  BY <1>1 DEF EntryListed, SawAlone, Saw
<1>3. \A i \in DOMAIN entries' : EntryListed(entries'[i])
  BY DEF IInv, Listed
<1>4. \A i \in DOMAIN entries' : EntryListed(entries[i])'  BY <1>2, <1>3
<1> QED  BY <1>4 DEF Listed

\* Put: what is stored was listed in the scope of the call.
LEMMA Stored ==
    ASSUME IInv, OpenFileAssumption, NEW t \in Threads, Step(t), NEW n \in Names,
           NEW m \in Meta, m.id \in Ids, SawAlone(ScopeOf(t, call[t]), n, m), Put(t, n, m)
    PROVE  Entries(entries)' /\ Listed'
<1> DEFINE e == [name |-> n, meta |-> m, fresh_generation |-> call[t].generation]
           es == Append(Others(n), e)
<1>1. TypeOK /\ Started /\ call[t] \in Call  BY DEF IInv, TypeOK
<1>2. e \in PathEntry /\ e.name = n  BY <1>1 DEF PathEntry, Call
<1>3. /\ es \in Seq(PathEntry) /\ Distinct(es)
      /\ \A i \in DOMAIN es : es[i] = e \/ \E j \in DOMAIN entries : es[i] = entries[j]
  <2> HIDE DEF e
  <2> QED  BY <1>1, <1>2, Appended
<1>4. entries' = EvictPathsLocked(es)  BY DEF Put
<1>5. EntryListed(e)
  BY <1>1 DEF EntryListed, Started, ScopeOf
<1> HIDE DEF e, es
<1>6. /\ entries' \in Seq(PathEntry) /\ Distinct(entries') /\ Within(entries')
      /\ \A i \in DOMAIN entries' : \E j \in DOMAIN es : entries'[i] = es[j]
  BY <1>3, <1>4, Evicted
<1>7. Listed'  BY <1>3, <1>5, <1>6, EntriesListed
<1> QED  BY <1>6, <1>7 DEF Entries, Distinct, Within

\* TryGet: a hit moves its entry to the end.
LEMMA Recalled ==
    ASSUME IInv, OpenFileAssumption, NEW t, Step(t), NEW i \in DOMAIN entries,
           entries' = Append(Others(entries[i].name), entries[i])
    PROVE  Entries(entries)' /\ Listed'
<1> DEFINE e == entries[i]
<1>1. TypeOK  BY DEF IInv
<1>2. e \in PathEntry /\ Cached(e.name) # {} /\ EntryListed(e)
  <2>1. entries \in Seq(PathEntry) /\ DOMAIN entries = 1..Len(entries)
    BY <1>1, LenProperties DEF TypeOK
  <2>2. e \in PathEntry  BY <2>1, ElementOfSeq
  <2> QED  BY <2>2 DEF Cached, IInv, Listed
<1> HIDE DEF e
<1>3. /\ entries' \in Seq(PathEntry) /\ Distinct(entries') /\ Len(entries') = Len(entries)
      /\ \A j \in DOMAIN entries' :
           entries'[j] = e \/ \E k \in DOMAIN entries : entries'[j] = entries[k]
  BY <1>1, <1>2, Appended DEF e
<1>4. Listed'  BY <1>2, <1>3, EntriesListed
<1> QED  BY <1>1, <1>3, <1>4 DEF Entries, Distinct, Within, TypeOK

\* InvalidatePrefix: the entry of the name goes.
LEMMA Forgotten ==
    ASSUME IInv, OpenFileAssumption, NEW t, Step(t), NEW n \in Names, entries' = Others(n)
    PROVE  Entries(entries)' /\ Listed'
<1>1. TypeOK  BY DEF IInv
<1>2. /\ entries' \in Seq(PathEntry) /\ Distinct(entries') /\ From(entries')
      /\ Len(entries') = IF Cached(n) = {} THEN Len(entries) ELSE Len(entries) - 1
  BY <1>1, OthersOfName
<1>3. Within(entries)'
  <2>1. Len(entries) \in Nat /\ MaxEntries \in Nat
    BY <1>1, LenProperties DEF TypeOK, OpenFileAssumption
  <2> QED  BY <1>1, <1>2, <2>1 DEF Within, TypeOK
<1>4. Listed'
  <2>1. UNCHANGED <<queries, during>>  BY DEF Step
  <2>2. \A x : EntryListed(x) => EntryListed(x)'
    BY <2>1 DEF EntryListed, SawAlone, Saw
  <2>3. \A i \in DOMAIN entries' : EntryListed(entries[i])'
    BY <1>2, <2>2 DEF IInv, Listed, From
  <2> QED  BY <2>3 DEF Listed
<1> QED  BY <1>2, <1>3, <1>4 DEF Entries, Distinct

-----------------------------------------------------------------------------
(***************************************************************************)
(* Resolving a path, and listing for a glob.                               *)
(***************************************************************************)

\* A thread with a call knows what its place says.
LEMMA CallFacts ==
    ASSUME IInv, NEW t \in Threads
    PROVE  /\ call[t] \in Call
           /\ Sound(t, call[t]) /\ Joined(t, call[t]) /\ Owned(t, call[t])
           /\ Serves(call[t], ScopeOf(t, call[t]))
BY DEF IInv, TypeOK

\* What Drive says of a file.
LEMMA MetasOf == ASSUME TypeOK, NEW f \in Ids PROVE MetaOf(f) \in Meta /\ MetaOf(f).id = f
BY DEF MetaOf, Meta, TypeOK, File

\* A call that goes somewhere without more.
LEMMA GoesTo ==
    ASSUME IInv, NEW t \in Threads, call[t].pc # "idle",
           NEW p \in {"lookup", "list", "put", "glob", "putAll", "refresh", "through",
                      "invalidate", "opened", "absent", "failed", "listed"},
           Continue(t, Goto(t, p))
    PROVE  Becomes(t, Goto(t, p)) /\ Goto(t, p) \in Call /\ Goto(t, p).pc = p
BY CallFacts DEF Becomes, Continue, Goto, Call

\* A hit is trusted at once only if its own query listed it.
LEMMA TryGetKeeps ==
    ASSUME IInv, OpenFileAssumption, NEW t \in Threads, TryGet(t)
    PROVE  IInv'
<1>1. /\ call[t] \in Call /\ Sound(t, call[t]) /\ Joined(t, call[t])
      /\ call[t].pc = "lookup" /\ call[t].pc # "idle" /\ call[t].pc \notin Fetching
  BY CallFacts DEF TryGet, At, Fetching
<1>2. Step(t) /\ UNCHANGED <<metadata_entries, dropped>>  BY DEF TryGet
<1>3. CASE UNCHANGED entries /\ Continue(t, Goto(t, "list"))
  <2> DEFINE c == Goto(t, "list")
  <2>1. Becomes(t, c)  BY <1>1, <1>3, GoesTo
  <2>2. Sound(t, c) /\ Joined(t, c) /\ c.pc \notin Fetching
    BY <1>1 DEF Goto, Sound, Joined, HoldsId, Fetching, ScopeOf, Owed, Scoped, Call
  <2>3. Entries(entries)' /\ Listed'  BY <1>2, <1>3, EntriesAlone
  <2> HIDE DEF c
  <2> QED  BY <1>1, <1>2, <2>1, <2>2, <2>3, QuietStep
<1>4. ASSUME NEW i \in Cached(call[t].name),
             LET e == entries[i]
                 c == [call[t] EXCEPT !.meta = e.meta, !.fresh = FreshInQuery(t, e)]
             IN /\ entries' = Append(Others(e.name), e)
                /\ Continue(t, [c EXCEPT !.pc = AfterResolve(c)])
      PROVE  IInv'
  <2> DEFINE e == entries[i]
             b == [call[t] EXCEPT !.meta = e.meta, !.fresh = FreshInQuery(t, e)]
             c == [b EXCEPT !.pc = AfterResolve(b)]
  <2>1. i \in DOMAIN entries /\ e.name = call[t].name /\ EntryListed(e)
    BY DEF Cached, IInv, Listed
  <2>2. e \in PathEntry
    <3>1. entries \in Seq(PathEntry) /\ DOMAIN entries = 1..Len(entries)
      BY LenProperties DEF IInv, TypeOK
    <3> QED  BY <2>1, <3>1, ElementOfSeq
  <2>3. Entries(entries)' /\ Listed'  BY <1>2, <1>4, <2>1, Recalled
  <2>4. call' = [call EXCEPT ![t] = c]  BY <1>4 DEF Continue
  <2>5. FreshInQuery(t, e) \in BOOLEAN  BY DEF FreshInQuery
  <2>6. FreshInQuery(t, e) => SawAlone(ScopeOf(t, call[t]), e.name, e.meta)
    BY <1>1, <2>1 DEF FreshInQuery, EntryListed, ScopeOf, Call, Generations
  <2> HIDE DEF e
  <2>7. b \in Call  BY <1>1, <2>2, <2>5 DEF Call, PathEntry
  <2>8. AfterResolve(b) \in {"opened", "refresh"}
        /\ (AfterResolve(b) = "refresh" => ~b.fresh)
        /\ (AfterResolve(b) = "opened" => b.again \/ b.fresh \/ b.name \in Immutable)
    BY DEF AfterResolve
  <2>9. /\ b.meta = e.meta /\ b.fresh = FreshInQuery(t, e)
        /\ b.name = call[t].name /\ b.generation = call[t].generation
        /\ b.puts = call[t].puts /\ b.awaits = call[t].awaits /\ b.op = call[t].op
    BY <1>1 DEF Call
  <2> HIDE DEF b
  <2>10. /\ c \in Call /\ c.pc = AfterResolve(b)
         /\ c.meta = e.meta /\ c.fresh = b.fresh
         /\ c.name = call[t].name /\ c.generation = call[t].generation
         /\ c.puts = call[t].puts /\ c.awaits = call[t].awaits /\ c.op = call[t].op
         /\ c.again = b.again
    BY <2>7, <2>8, <2>9 DEF Call
  <2> HIDE DEF c
  <2>11. Becomes(t, c) /\ c.pc \notin Fetching
    BY <1>1, <2>4, <2>8, <2>10 DEF Becomes, Fetching
  <2>12. Joined(t, c)
    BY <1>1, <2>8, <2>10 DEF Joined
  <2>13. c.fresh => SawAlone(ScopeOf(t, c), c.name, c.meta)
    BY <2>1, <2>6, <2>9, <2>10 DEF ScopeOf
  <2>14. c.pc = "opened" /\ Owed(c) => Saw(ScopeOf(t, c), c.meta)
    BY <2>8, <2>9, <2>10, <2>13 DEF Owed, SawAlone
  <2>15. Sound(t, c)
    <3>1. c.pc = "refresh" => ~c.fresh  BY <2>8, <2>10
    <3>2. ScopeOf(t, c) = ScopeOf(t, call[t])  BY <2>10 DEF ScopeOf
    <3>3. c.meta.id \in Ids  BY <2>1, <2>10 DEF EntryListed
    <3> QED
      BY <1>1, <2>8, <2>10, <2>13, <2>14, <3>1, <3>2, <3>3 DEF Sound, HoldsId, Fetching
  <2> QED  BY <1>1, <1>2, <2>3, <2>11, <2>12, <2>15, QuietStep
<1> QED  BY <1>3, <1>4 DEF TryGet

\* The one file of a name.
LEMMA TheOnlyMatch ==
    ASSUME IInv, OpenFileAssumption, NEW n \in Names, Cardinality(Named(drive, n)) = 1
    PROVE  \E f \in Ids : Named(drive, n) = {f} /\ (CHOOSE g \in Named(drive, n) : TRUE) = f
<1>1. Named(drive, n) \subseteq Ids /\ IsFiniteSet(Named(drive, n))
  BY FS_Subset DEF Named, OpenFileAssumption
<1>2. PICK f : Named(drive, n) = {f}  BY <1>1, FS_Singleton
<1> QED  BY <1>1, <1>2

\* A listing finds what Drive holds, and one file of the name or none is taken.
LEMMA ListByNameKeeps ==
    ASSUME IInv, OpenFileAssumption, NEW t \in Threads, ListByName(t)
    PROVE  IInv'
<1> DEFINE n == call[t].name
<1>1. /\ call[t] \in Call /\ Sound(t, call[t]) /\ Joined(t, call[t])
      /\ call[t].pc = "list" /\ call[t].pc # "idle" /\ call[t].pc \notin Fetching
  BY CallFacts DEF ListByName, At, Fetching
<1>2. Step(t) /\ UNCHANGED <<metadata_entries, dropped>> /\ UNCHANGED entries
  BY DEF ListByName, CacheKept
<1>3. Entries(entries)' /\ Listed'  BY <1>2, EntriesAlone
<1>4. ASSUME NEW p \in {"failed", "absent"}, Continue(t, Goto(t, p))
      PROVE  IInv'
  <2> DEFINE c == Goto(t, p)
  <2>1. Becomes(t, c)  BY <1>1, <1>4, GoesTo
  <2>2. Sound(t, c) /\ Joined(t, c) /\ c.pc \notin Fetching
    BY <1>1 DEF Goto, Sound, Joined, HoldsId, Fetching, ScopeOf, Owed, Scoped, Call
  <2> HIDE DEF c
  <2> QED  BY <1>1, <1>2, <1>3, <2>1, <2>2, QuietStep
<1>5. ASSUME OnlyMatch(n) # None,
             Continue(t, [Goto(t, "put") EXCEPT !.meta = MetaOf(OnlyMatch(n)), !.fresh = TRUE])
      PROVE  IInv'
  <2>1. n \in Names  BY <1>1 DEF Sound
  <2>2. PICK f \in Ids : Named(drive, n) = {f} /\ OnlyMatch(n) = f
    BY <1>5, <2>1, TheOnlyMatch DEF OnlyMatch
  <2> DEFINE c == [Goto(t, "put") EXCEPT !.meta = MetaOf(f), !.fresh = TRUE]
  <2>3. MetaOf(f) \in Meta /\ MetaOf(f).id = f  BY MetasOf DEF IInv
  <2>4. SawAlone(ScopeOf(t, call[t]), n, MetaOf(f))  BY <1>1, <2>1, <2>2, CallsSeeNow
  <2>5. /\ c \in Call /\ c.pc = "put" /\ c.meta = MetaOf(f) /\ c.fresh = TRUE
        /\ c.name = n /\ c.generation = call[t].generation
        /\ c.puts = call[t].puts /\ c.awaits = call[t].awaits /\ c.op = call[t].op
    BY <1>1, <2>3 DEF Goto, Call
  <2>6. call' = [call EXCEPT ![t] = c]  BY <1>5, <2>2 DEF Continue
  <2> HIDE DEF c
  <2>7. Becomes(t, c) /\ c.pc \notin Fetching
    BY <1>1, <2>5, <2>6 DEF Becomes, Fetching
  <2>8. Joined(t, c)  BY <1>1, <2>5 DEF Joined
  <2>9. ScopeOf(t, c) = ScopeOf(t, call[t])  BY <2>5 DEF ScopeOf
  <2>10. Sound(t, c)
    BY <1>1, <2>1, <2>3, <2>4, <2>5, <2>9 DEF Sound, HoldsId, Fetching
  <2> QED  BY <1>1, <1>2, <1>3, <2>7, <2>8, <2>10, QuietStep
<1> QED  BY <1>4, <1>5 DEF ListByName

\* The entry is stored with the generation of the query that listed it.
LEMMA PutListedKeeps ==
    ASSUME IInv, OpenFileAssumption, NEW t \in Threads, PutListed(t)
    PROVE  IInv'
<1> DEFINE p == AfterResolve(call[t])
           c == Goto(t, p)
<1>1. /\ call[t] \in Call /\ Sound(t, call[t]) /\ Joined(t, call[t])
      /\ call[t].pc = "put" /\ call[t].pc # "idle" /\ call[t].pc \notin Fetching
  BY CallFacts DEF PutListed, At, Fetching
<1>2. Step(t) /\ UNCHANGED <<metadata_entries, dropped>>
  BY DEF PutListed
<1>3. /\ call[t].name \in Names /\ call[t].meta \in Meta /\ call[t].meta.id \in Ids
      /\ SawAlone(ScopeOf(t, call[t]), call[t].name, call[t].meta)
      /\ call[t].fresh
  BY <1>1 DEF Sound, Call
<1>4. Put(t, call[t].name, call[t].meta)  BY DEF PutListed
<1>5. Entries(entries)' /\ Listed'  BY <1>2, <1>3, <1>4, Stored
<1>6. p = "opened"  BY <1>3 DEF AfterResolve
<1>7. Continue(t, c)  BY DEF PutListed
<1>8. Becomes(t, c)  BY <1>1, <1>6, <1>7, GoesTo
<1>9. Joined(t, c) /\ c.pc \notin Fetching
  BY <1>1, <1>6 DEF Goto, Joined, Fetching, Call
<1>10. Sound(t, c)
  BY <1>1, <1>3, <1>6 DEF Goto, Sound, HoldsId, Fetching, ScopeOf, Call, SawAlone
<1> HIDE DEF c, p
<1> QED  BY <1>1, <1>2, <1>5, <1>8, <1>9, <1>10, QuietStep

\* A glob takes from its listing only the names of one file.
LEMMA GlobListKeeps ==
    ASSUME IInv, OpenFileAssumption, NEW t \in Threads, GlobList(t)
    PROVE  IInv'
<1>1. /\ call[t] \in Call /\ Sound(t, call[t]) /\ Joined(t, call[t])
      /\ call[t].pc = "glob" /\ call[t].pc # "idle" /\ call[t].pc \notin Fetching
  BY CallFacts DEF GlobList, At, Fetching
<1>2. Step(t) /\ UNCHANGED <<metadata_entries, dropped>> /\ UNCHANGED entries
  BY DEF GlobList, CacheKept
<1>3. Entries(entries)' /\ Listed'  BY <1>2, EntriesAlone
<1> DEFINE found == {<<n, MetaOf(CHOOSE f \in Named(drive, n) : TRUE)>> :
                       n \in {m \in Names : Unambiguous(m)}}
<1>4. ASSUME Continue(t, Goto(t, "failed"))
      PROVE  IInv'
  <2> DEFINE c == Goto(t, "failed")
  <2>1. Becomes(t, c)  BY <1>1, <1>4, GoesTo
  <2>2. Sound(t, c) /\ Joined(t, c) /\ c.pc \notin Fetching
    BY <1>1 DEF Goto, Sound, Joined, HoldsId, Fetching, ScopeOf, Owed, Scoped, Call
  <2> HIDE DEF c
  <2> QED  BY <1>1, <1>2, <1>3, <2>1, <2>2, QuietStep
<1>5. ASSUME Continue(t, [Goto(t, "putAll") EXCEPT !.puts = found])
      PROVE  IInv'
  <2> DEFINE c == [Goto(t, "putAll") EXCEPT !.puts = found]
  <2>1. ASSUME NEW p \in found
        PROVE  /\ p \in Names \X Meta /\ p[2].id \in Ids
               /\ SawAlone(ScopeOf(t, call[t]), p[1], p[2])
    <3>1. PICK n \in Names : Unambiguous(n)
                             /\ p = <<n, MetaOf(CHOOSE f \in Named(drive, n) : TRUE)>>
      OBVIOUS
    <3>2. PICK f \in Ids : Named(drive, n) = {f} /\ p = <<n, MetaOf(f)>>
      BY <3>1, TheOnlyMatch DEF Unambiguous
    <3>3. MetaOf(f) \in Meta /\ MetaOf(f).id = f  BY MetasOf DEF IInv
    <3>4. SawAlone(ScopeOf(t, call[t]), n, MetaOf(f))  BY <1>1, <3>2, CallsSeeNow
    <3> QED  BY <3>2, <3>3, <3>4
  <2> HIDE DEF found
  <2>2. found \in SUBSET (Names \X Meta)  BY <2>1
  <2>3. /\ c \in Call /\ c.pc = "putAll" /\ c.puts = found /\ c.fresh = call[t].fresh
        /\ c.name = call[t].name /\ c.generation = call[t].generation
        /\ c.awaits = call[t].awaits /\ c.op = call[t].op
    BY <1>1, <2>2 DEF Goto, Call
  <2>4. call' = [call EXCEPT ![t] = c]  BY <1>5 DEF Continue
  <2> HIDE DEF c
  <2>5. Becomes(t, c) /\ c.pc \notin Fetching
    BY <1>1, <2>3, <2>4 DEF Becomes, Fetching
  <2>6. Joined(t, c)  BY <1>1, <2>3 DEF Joined
  <2>7. ScopeOf(t, c) = ScopeOf(t, call[t])  BY <2>3 DEF ScopeOf
  <2>8. ~c.fresh  BY <1>1, <2>3 DEF Sound
  <2>9. \A p \in c.puts : p[2].id \in Ids /\ SawAlone(ScopeOf(t, c), p[1], p[2])
    BY <2>1, <2>3, <2>7
  <2>10. Sound(t, c)
    BY <1>1, <2>3, <2>8, <2>9 DEF Sound, HoldsId, Fetching
  <2> QED  BY <1>1, <1>2, <1>3, <2>5, <2>6, <2>10, QuietStep
<1> QED  BY <1>4, <1>5 DEF GlobList

\* Each is stored as an open stores what it listed.
LEMMA GlobPutKeeps ==
    ASSUME IInv, OpenFileAssumption, NEW t \in Threads, GlobPut(t)
    PROVE  IInv'
<1>1. /\ call[t] \in Call /\ Sound(t, call[t]) /\ Joined(t, call[t])
      /\ call[t].pc = "putAll" /\ call[t].pc # "idle" /\ call[t].pc \notin Fetching
  BY CallFacts DEF GlobPut, At, Fetching
<1>2. Step(t) /\ UNCHANGED <<metadata_entries, dropped>>
  BY DEF GlobPut
<1>3. ASSUME UNCHANGED entries, Continue(t, Goto(t, "listed"))
      PROVE  IInv'
  <2> DEFINE c == Goto(t, "listed")
  <2>1. Becomes(t, c)  BY <1>1, <1>3, GoesTo
  <2>2. Sound(t, c) /\ Joined(t, c) /\ c.pc \notin Fetching
    BY <1>1 DEF Goto, Sound, Joined, HoldsId, Fetching, ScopeOf, Owed, Scoped, Call
  <2>3. Entries(entries)' /\ Listed'  BY <1>2, <1>3, EntriesAlone
  <2> HIDE DEF c
  <2> QED  BY <1>1, <1>2, <2>1, <2>2, <2>3, QuietStep
<1>4. ASSUME NEW p \in call[t].puts, Put(t, p[1], p[2]),
             Continue(t, [call[t] EXCEPT !.puts = @ \ {p}])
      PROVE  IInv'
  <2> DEFINE c == [call[t] EXCEPT !.puts = @ \ {p}]
  <2>1. /\ p[1] \in Names /\ p[2] \in Meta /\ p[2].id \in Ids
        /\ SawAlone(ScopeOf(t, call[t]), p[1], p[2])
    BY <1>1 DEF Sound, Call
  <2>2. Entries(entries)' /\ Listed'  BY <1>2, <1>4, <2>1, Stored
  <2>3. /\ c \in Call /\ c.pc = "putAll" /\ c.puts \subseteq call[t].puts
        /\ c.fresh = call[t].fresh
        /\ c.name = call[t].name /\ c.generation = call[t].generation
        /\ c.awaits = call[t].awaits /\ c.op = call[t].op
    BY <1>1 DEF Call
  <2>4. call' = [call EXCEPT ![t] = c]  BY <1>4 DEF Continue
  <2> HIDE DEF c
  <2>5. Becomes(t, c) /\ c.pc \notin Fetching
    BY <1>1, <2>3, <2>4 DEF Becomes, Fetching
  <2>6. Joined(t, c)  BY <1>1, <2>3 DEF Joined
  <2>7. ScopeOf(t, c) = ScopeOf(t, call[t])  BY <2>3 DEF ScopeOf
  <2>8. ~c.fresh  BY <1>1, <2>3 DEF Sound
  <2>9. Sound(t, c)
    BY <1>1, <2>3, <2>7, <2>8 DEF Sound, HoldsId, Fetching
  <2> QED  BY <1>1, <1>2, <2>2, <2>5, <2>6, <2>9, QuietStep
<1> QED  BY <1>3, <1>4 DEF GlobPut

-----------------------------------------------------------------------------
(***************************************************************************)
(* The metadata of an id: who fetches, who waits, and the answer.          *)
(***************************************************************************)

\* Every scope that is served has what Drive holds in its history.
LEMMA LiveSeeNow ==
    ASSUME IInv, OpenFileAssumption, NEW s \in Scopes, Live(s),
           NEW f \in Ids, drive[f].name # None
    PROVE  Saw(s, MetaOf(f))
<1>1. CASE s \in Queries /\ s = metadata_generation
  <2>1. s \in 1..queries  BY <1>1 DEF IInv, Started, Queries, TypeOK
  <2>2. Versions(drive) \subseteq during[s].versions  BY <2>1 DEF IInv, Current
  <2> QED  BY <2>2 DEF Saw, Versions, MetaOf
<1>2. CASE \E t \in Threads : s = ScopeOf(t, call[t]) /\ call[t].pc # "idle"
  BY <1>2, CallsSeeNow
<1> QED  BY <1>1, <1>2 DEF Live

\* A call with its answer.
LEMMA AnsweredIs ==
    ASSUME NEW c \in Call, NEW answer \in {"found", "absent", "error"},
           NEW m \in Meta, NEW fellback \in BOOLEAN
    PROVE  LET d == Answered(c, answer, m, fellback) IN
           /\ d \in Call
           /\ d.pc \in {"opened", "failed", "invalidate", "absent"}
           /\ d.pc = "opened" => answer = "found" /\ d.meta = m
           /\ d.pc = "invalidate" => c.op = "open"
           /\ d.awaits = None /\ d.fellback = fellback
           /\ d.generation = c.generation /\ d.name = c.name /\ d.op = c.op
           /\ d.puts = c.puts /\ d.fresh = c.fresh /\ d.again = c.again
<1> DEFINE p == CASE answer = "found" -> "opened"
                  [] answer = "error" -> "failed"
                  [] answer = "absent" /\ c.op = "open" -> "invalidate"
                  [] answer = "absent" /\ c.op # "open" -> "absent"
           n == IF answer = "found" THEN m ELSE c.meta
           d == [c EXCEPT !.pc = p, !.answer = "none", !.awaits = None,
                          !.fellback = fellback, !.meta = n]
<1>1. /\ p \in {"opened", "failed", "invalidate", "absent"}
      /\ p = "opened" => answer = "found"
      /\ p = "invalidate" => c.op = "open"
  BY Zenon
<1>2. n \in Meta /\ (answer = "found" => n = m)  BY DEF Call
<1>3. Answered(c, answer, m, fellback) = d  BY DEF Answered
<1> HIDE DEF p, n
<1>4. /\ d \in Call /\ d.pc = p /\ d.meta = n
      /\ d.awaits = None /\ d.fellback = fellback
      /\ d.generation = c.generation /\ d.name = c.name /\ d.op = c.op
      /\ d.puts = c.puts /\ d.fresh = c.fresh /\ d.again = c.again
  BY <1>1, <1>2 DEF Call
<1> HIDE DEF d
<1> QED  BY <1>1, <1>2, <1>3, <1>4

\* The answer is one the call may rely on if it is one of its scope.
LEMMA AnsweredSound ==
    ASSUME NEW t \in Threads, NEW c \in Call, Sound(t, c), c.pc \in HoldsId,
           NEW answer \in {"found", "absent", "error"},
           NEW m \in Meta, NEW fellback \in BOOLEAN,
           answer = "found" /\ Scoped(c) /\ ~fellback => Saw(ScopeOf(t, c), m)
    PROVE  LET d == Answered(c, answer, m, fellback) IN
           /\ d \in Call /\ Sound(t, d) /\ Joined(t, d)
           /\ d.generation = c.generation
           /\ d.pc \in {"opened", "failed", "invalidate", "absent"}
<1> DEFINE d == Answered(c, answer, m, fellback)
<1>1. /\ d \in Call
      /\ d.pc \in {"opened", "failed", "invalidate", "absent"}
      /\ d.pc = "opened" => answer = "found" /\ d.meta = m
      /\ d.pc = "invalidate" => c.op = "open"
      /\ d.awaits = None /\ d.fellback = fellback
      /\ d.generation = c.generation /\ d.name = c.name /\ d.op = c.op
      /\ d.puts = c.puts /\ d.fresh = c.fresh /\ d.again = c.again
  BY AnsweredIs
<1> HIDE DEF d
<1>2. Joined(t, d)  BY <1>1 DEF Joined
<1>3. ScopeOf(t, d) = ScopeOf(t, c)  BY <1>1 DEF ScopeOf
<1>4. d.pc = "opened" /\ Owed(d) => Saw(ScopeOf(t, d), d.meta)
  BY <1>1, <1>3 DEF Owed, Scoped
<1>5. ~d.fresh  BY <1>1 DEF Sound, HoldsId, Fetching
<1>6. Sound(t, d)
  BY <1>1, <1>3, <1>4, <1>5 DEF Sound, HoldsId, Fetching
<1> QED  BY <1>1, <1>2, <1>6 DEF d

\* A call that is answered at once.
LEMMA AnswerKeeps ==
    ASSUME IInv, OpenFileAssumption, NEW t \in Threads, Step(t), CacheKept,
           call[t].pc \in {"refresh", "through"},
           NEW answer \in {"found", "absent", "error"},
           NEW m \in Meta, NEW fellback \in BOOLEAN,
           answer = "found" /\ Scoped(call[t]) /\ ~fellback => Saw(ScopeOf(t, call[t]), m),
           Continue(t, Answered(call[t], answer, m, fellback))
    PROVE  IInv'
<1> DEFINE c == Answered(call[t], answer, m, fellback)
<1>1. call[t] \in Call /\ Sound(t, call[t])  BY CallFacts
<1>2. call[t].pc \in HoldsId /\ call[t].pc # "idle" /\ call[t].pc \notin Fetching
  BY DEF HoldsId, Fetching
<1>3. /\ c \in Call /\ Sound(t, c) /\ Joined(t, c) /\ c.generation = call[t].generation
      /\ c.pc \in {"opened", "failed", "invalidate", "absent"}
  BY <1>1, <1>2, AnsweredSound
<1>4. call' = [call EXCEPT ![t] = c]  BY DEF Continue
<1> HIDE DEF c
<1>5. Becomes(t, c) /\ c.pc \notin Fetching  BY <1>2, <1>3, <1>4 DEF Becomes, Fetching
<1>6. Entries(entries)' /\ Listed'  BY EntriesAlone DEF CacheKept
<1>7. UNCHANGED <<metadata_entries, dropped>>  BY DEF CacheKept
<1> QED  BY <1>2, <1>3, <1>5, <1>6, <1>7, QuietStep

\* The thread fetches through, publishes its fetch, waits for another's or is served.
LEMMA GetOrFetchMetadataKeeps ==
    ASSUME IInv, OpenFileAssumption, NEW t \in Threads, GetOrFetchMetadata(t)
    PROVE  IInv'
<1>1. /\ call[t] \in Call /\ Sound(t, call[t]) /\ Joined(t, call[t])
      /\ call[t].pc = "refresh" /\ call[t].pc # "idle" /\ call[t].pc \notin Fetching
  BY CallFacts DEF GetOrFetchMetadata, At, Fetching
<1>2. Step(t) /\ UNCHANGED <<entries, dropped>>
  BY DEF GetOrFetchMetadata
<1>3. Entries(entries)' /\ Listed'  BY <1>2, EntriesAlone
<1>0. PICK f \in Ids : f = call[t].meta.id  BY <1>1 DEF Sound, HoldsId
<1> DEFINE e == metadata_entries[f]
<1>4. EntrySound(f, e) /\ e \in MetaEntry
  BY DEF IInv, TypeOK
<1>5. Scoped(call[t]) => Live(ScopeOf(t, call[t]))  BY <1>1 DEF Live
<1>6. ScopeOf(t, call[t]) \in Scopes  BY <1>1, ScopesOf
<1>7. ASSUME UNCHANGED metadata_entries, Continue(t, Goto(t, "through"))
      PROVE  IInv'
  <2> DEFINE c == Goto(t, "through")
  <2>1. Becomes(t, c)  BY <1>1, <1>7, GoesTo
  <2>2. Sound(t, c) /\ Joined(t, c) /\ c.pc \notin Fetching
    BY <1>1 DEF Goto, Sound, Joined, HoldsId, Fetching, ScopeOf, Owed, Scoped, Call
  <2> HIDE DEF c
  <2> QED  BY <1>1, <1>2, <1>3, <1>7, <2>1, <2>2, QuietStep
<1>8. ASSUME metadata_generation # 0, e = NoEntry, Publish(t, f), Continue(t, Goto(t, "get"))
      PROVE  IInv'
  <2> DEFINE c == Goto(t, "get")
  <2>1. /\ c \in Call /\ c.pc = "get" /\ c.meta = call[t].meta
        /\ c.generation = call[t].generation
    BY <1>1 DEF Goto, Call
  <2>2. call' = [call EXCEPT ![t] = c] /\ Becomes(t, c)
    BY <1>1, <1>8, <2>1 DEF Continue, Becomes
  <2>3. Sound(t, c) /\ Joined(t, c)
    BY <1>1 DEF Goto, Sound, Joined, HoldsId, Fetching, ScopeOf, Owed, Scoped, Call
  <2> HIDE DEF c
  <2>4. call'[t] = c  BY <2>2, BecomesFrame
  <2>5. /\ metadata_entries' \in [Ids -> MetaEntry]
        /\ metadata_entries'[f].fetcher = t
        /\ \A g \in Ids \ {f} : metadata_entries'[g] = metadata_entries[g]
    BY <1>4, <1>8 DEF Publish, IInv, TypeOK, MetaEntry
  <2>6. EntrySound(f, metadata_entries[f])'
    BY <1>0, <1>2, <1>8, <2>1, <2>4, <2>5 DEF EntrySound, Fetching, Serves, OpenFileAssumption, Step
  <2>7. ThreadSound(t, call[t])'
    <3>1. during' = during  BY <1>2 DEF Step
    <3>2. Sound(t, call[t])'
      BY <2>3, <2>4, <3>1 DEF Sound, SawAlone, Saw, ScopeOf, Owed, Scoped
    <3>3. Joined(t, call[t])'  BY <2>1, <2>3, <2>4 DEF Joined
    <3>4. Serves(call[t], ScopeOf(t, call[t]))'  BY <2>1, <2>4 DEF Serves
    <3>5. Owned(t, call[t])'  BY <1>0, <2>1, <2>4, <2>5 DEF Owned
    <3> QED  BY <3>2, <3>3, <3>4, <3>5 DEF ThreadSound
  <2>8. ASSUME NEW u \in Threads \ {t}
        PROVE  Owned(u, call[u])'
    <3>1. Owned(u, call[u]) /\ Sound(u, call[u])  BY CallFacts
    <3>2. call'[u] = call[u]  BY <2>2, BecomesFrame
    <3>3. CASE call[u].pc = "get"
      <4>1. call[u].meta.id \in Ids  BY <3>1, <3>3 DEF Sound, HoldsId, Fetching
      <4> QED
        BY <1>2, <1>8, <2>5, <3>1, <3>2, <3>3, <4>1 DEF Owned, NoEntry, OpenFileAssumption
    <3>4. CASE call[u].pc # "get"  BY <3>2, <3>4 DEF Owned
    <3> QED  BY <3>3, <3>4
  <2>9. dropped' \in BOOLEAN  BY <1>2 DEF IInv, TypeOK
  <2>10. \A g \in Ids : metadata_entries'[g] = metadata_entries[g]
                         \/ EntrySound(g, metadata_entries[g])'
    BY <2>5, <2>6
  <2> HIDE DEF e
  <2> QED  BY <1>1, <1>2, <1>3, <2>2, <2>5, <2>7, <2>8, <2>9, <2>10, OwnStep
<1>9. ASSUME e.fetcher # None, UNCHANGED metadata_entries,
             Continue(t, [Goto(t, "wait") EXCEPT !.awaits = e.fetcher])
      PROVE  IInv'
  <2> DEFINE c == [Goto(t, "wait") EXCEPT !.awaits = e.fetcher]
  <2>1. e.fetcher \in Threads  BY <1>4, <1>9 DEF MetaEntry
  <2>2. /\ c \in Call /\ c.pc = "wait" /\ c.meta = call[t].meta
        /\ c.generation = call[t].generation /\ c.awaits = e.fetcher
        /\ c.name = call[t].name /\ c.op = call[t].op /\ c.fresh = call[t].fresh
        /\ c.puts = call[t].puts
    BY <1>1, <2>1 DEF Goto, Call
  <2>3. call' = [call EXCEPT ![t] = c]  BY <1>9 DEF Continue
  <2> HIDE DEF c
  <2>4. ScopeOf(t, c) = ScopeOf(t, call[t])  BY <2>2 DEF ScopeOf
  <2>5. Sound(t, c)
    BY <1>0, <1>1, <1>4, <2>2, <2>4 DEF Sound, HoldsId, Fetching
  <2>6. Joined(t, c)
    BY <1>0, <1>1, <1>4, <1>5, <1>6, <1>9, <2>1, <2>2, <2>4 DEF Joined, EntrySound, Scoped
  <2>7. Becomes(t, c) /\ c.pc \notin Fetching
    BY <1>1, <2>2, <2>3 DEF Becomes, Fetching
  <2> QED  BY <1>1, <1>2, <1>3, <1>9, <2>5, <2>6, <2>7, QuietStep
<1>10. ASSUME e # NoEntry, e.fetcher = None, UNCHANGED metadata_entries,
              Continue(t, Answered(call[t], "found", e.meta, e.fellback))
       PROVE  IInv'
  <2>1. e.meta \in Meta /\ e.fellback \in BOOLEAN  BY <1>4 DEF MetaEntry
  <2>2. Scoped(call[t]) /\ ~e.fellback => Saw(ScopeOf(t, call[t]), e.meta)
    BY <1>4, <1>5, <1>6, <1>10 DEF EntrySound
  <2>3. CacheKept  BY <1>2, <1>10 DEF CacheKept
  <2> HIDE DEF e
  <2> QED  BY <1>1, <1>2, <1>10, <2>1, <2>2, <2>3, AnswerKeeps
<1> QED  BY <1>0, <1>7, <1>8, <1>9, <1>10 DEF GetOrFetchMetadata

\* What files.get told: metadata it gives is what Drive holds.
LEMMA FetchedIs ==
    ASSUME IInv, OpenFileAssumption, NEW t \in Threads, call[t].meta.id \in Ids,
           NEW r \in Fetched(call[t])
    PROVE  /\ r.answer \in {"found", "absent", "error"} /\ r.meta \in Meta
           /\ r.fellback \in BOOLEAN /\ r.meta.id = call[t].meta.id
           /\ r.answer = "found" /\ ~r.fellback =>
                /\ \A u \in Threads : call[u].pc # "idle"
                     => Saw(ScopeOf(u, call[u]), r.meta)
                /\ \A s \in Scopes : Live(s) => Saw(s, r.meta)
<1> DEFINE f == call[t].meta.id
           found == [answer |-> "found", meta |-> MetaOf(f), fellback |-> FALSE]
           absent == [answer |-> "absent", meta |-> call[t].meta, fellback |-> FALSE]
           resolved == [answer |-> "found", meta |-> call[t].meta, fellback |-> TRUE]
           error == [answer |-> "error", meta |-> call[t].meta, fellback |-> FALSE]
<1>1. \/ r = found /\ drive[f].name # None
      \/ r = absent \/ r = resolved \/ r = error
  BY DEF Fetched
<1>2. call[t].meta \in Meta  BY CallFacts DEF Call
<1>3. MetaOf(f) \in Meta /\ MetaOf(f).id = f  BY MetasOf DEF IInv
<1>4. CASE r = found /\ drive[f].name # None
  <2>1. \A u \in Threads : call[u].pc # "idle" => Saw(ScopeOf(u, call[u]), MetaOf(f))
    BY <1>4, CallsSeeNow
  <2>2. \A s \in Scopes : Live(s) => Saw(s, MetaOf(f))
    BY <1>4, LiveSeeNow
  <2>3. r.answer = "found" /\ r.meta = MetaOf(f) /\ r.fellback \in BOOLEAN
    BY <1>4
  <2> QED  BY <1>3, <2>1, <2>2, <2>3
<1>5. CASE r = absent
  BY <1>2, <1>5
<1>6. CASE r = resolved
  <2>1. r.answer = "found" /\ r.meta = call[t].meta  BY <1>6
  <2>2. r.fellback = TRUE  BY <1>6
  <2> QED  BY <1>2, <2>1, <2>2
<1>7. CASE r = error
  BY <1>2, <1>7
<1> QED  BY <1>1, <1>4, <1>5, <1>6, <1>7

\* The fetching thread goes on, its fetch done.
LEMMA FetchStep ==
    ASSUME IInv, OpenFileAssumption, NEW t \in Threads, NEW c, Becomes(t, c), Step(t),
           call[t].pc \in Fetching, c.pc \in {"erase", "settle"},
           c.meta.id = call[t].meta.id, c.awaits = None,
           UNCHANGED entries, Sound(t, c),
           \A u \in Threads : call[u].pc # "idle" => Serves(c, ScopeOf(u, call[u])),
           \A s \in Scopes : Live(s) => Serves(c, s),
           metadata_entries' \in [Ids -> MetaEntry], dropped' \in BOOLEAN,
           \A f \in Ids : metadata_entries'[f] \in {metadata_entries[f], NoEntry},
           \A f \in Ids : c.pc = "settle" /\ metadata_entries'[f].fetcher = t
                            => c.answer = "found",
           \A u \in Threads \ {t} : Owned(u, call[u])'
    PROVE  IInv'
<1>1. /\ call' \in [Threads -> Call]
      /\ \A u \in Threads : /\ call'[u].generation = call[u].generation
                            /\ call'[u].pc = "idle" <=> call[u].pc = "idle"
      /\ call'[t] = c
      /\ \A u \in Threads \ {t} : call'[u] = call[u]
  BY BecomesFrame
<1>2. /\ Started' /\ Current'
      /\ \A s \in Scopes : Live(s)' => Live(s) /\ Grows(s)
      /\ \A s \in Scopes : Grows(s)
      /\ drive' \in [Ids -> File] /\ changes' \in 0..MaxChanges
      /\ queries' \in 0..MaxQueries /\ metadata_generation' \in Generations
      /\ during' \in [Scopes -> Seen]
      /\ \A u \in Threads : ScopeOf(u, call[u])' = ScopeOf(u, call[u])
  BY <1>1, StepFrame
<1>3. UNCHANGED <<during, metadata_generation>>  BY DEF Step
<1>4. Entries(entries)' /\ Listed'  BY EntriesAlone
<1>5. TypeOK'
  BY <1>1, <1>2, <1>4 DEF TypeOK, Entries, Distinct, Within
<1>6. ThreadSound(t, call[t])'
  <2>1. Sound(t, call[t])'
    BY <1>1, <1>3 DEF Sound, SawAlone, Saw, ScopeOf, Owed, Scoped
  <2>2. Serves(call[t], ScopeOf(t, call[t]))'
    <3>1. Serves(c, ScopeOf(t, call[t]))  BY DEF Becomes
    <3> QED  BY <1>1, <1>2, <1>3, <3>1 DEF Serves, Saw
  <2>3. Joined(t, call[t])'  BY <1>1 DEF Joined
  <2>4. Owned(t, call[t])'  BY <1>1 DEF Owned
  <2> QED  BY <2>1, <2>2, <2>3, <2>4 DEF ThreadSound
<1>7. ASSUME NEW u \in Threads \ {t}
      PROVE  ThreadSound(u, call[u])'
  <2>1. /\ call[u] \in Call /\ ScopeOf(u, call[u]) \in Scopes /\ call'[u] = call[u]
        /\ Sound(u, call[u]) /\ Joined(u, call[u]) /\ Serves(call[u], ScopeOf(u, call[u]))
    BY <1>1, CallFacts, ScopesOf
  <2>2. CASE call[u].pc = "wait" /\ call[u].awaits = t
    <3>1. Sound(u, call[u])'  BY <1>2, <2>1, SoundStays
    <3>2. Serves(call[u], ScopeOf(u, call[u]))' /\ Owned(u, call[u])'
      BY <2>1, <2>2 DEF Serves, Owned
    <3>3. Serves(c, ScopeOf(u, call[u]))  BY <2>2
    <3>4. Joined(u, call[u])'
      BY <1>1, <1>2, <1>3, <2>1, <2>2, <3>3 DEF Joined, Serves, Saw, Fetching
    <3> QED  BY <3>1, <3>2, <3>4 DEF ThreadSound
  <2>3. CASE ~(call[u].pc = "wait" /\ call[u].awaits = t)
    <3>1. call[u].pc = "wait" => call'[call[u].awaits] = call[call[u].awaits]
      BY <1>1, <2>1, <2>3 DEF Joined
    <3> QED  BY <1>2, <2>1, <3>1, ThreadStays
  <2> QED  BY <2>2, <2>3
<1>8. ASSUME NEW f \in Ids
      PROVE  EntrySound(f, metadata_entries[f])'
  <2>1. EntrySound(f, metadata_entries[f]) /\ metadata_entries[f] \in MetaEntry
    BY DEF IInv, TypeOK
  <2>2. CASE metadata_entries'[f] = NoEntry
    BY <2>2, NoEntryIsSound
  <2>3. CASE metadata_entries'[f] = metadata_entries[f] /\ metadata_entries[f].fetcher # t
    <3>1. metadata_entries[f].fetcher # None
            => call'[metadata_entries[f].fetcher] = call[metadata_entries[f].fetcher]
      BY <1>1, <2>1, <2>3 DEF MetaEntry
    <3> QED  BY <1>2, <1>3, <2>3, <3>1, EntryStays
  <2>4. CASE metadata_entries'[f] = metadata_entries[f] /\ metadata_entries[f].fetcher = t
    <3>1. t # None  BY DEF OpenFileAssumption
    <3>2. /\ metadata_entries'[f].fetcher = t
          /\ c.meta.id = f /\ c.pc \in Fetching
          /\ c.pc = "settle" => c.answer = "found"
          /\ metadata_generation # 0
      BY <2>1, <2>4, <3>1 DEF EntrySound, Fetching, NoEntry
    <3>3. \A s \in Scopes : Live(s)' => Serves(call[t], s)'
      BY <1>1, <1>2, <1>3 DEF Serves, Saw
    <3> QED  BY <1>1, <1>3, <3>1, <3>2, <3>3 DEF EntrySound
  <2> QED  BY <2>2, <2>3, <2>4
<1> QED  BY <1>2, <1>4, <1>5, <1>6, <1>7, <1>8 DEF IInv, ThreadSound

\* What files.get tells holds now, hence in every scope that is served.
LEMMA FetchKeeps ==
    ASSUME IInv, OpenFileAssumption, NEW t \in Threads, Fetch(t)
    PROVE  IInv'
<1>1. /\ call[t] \in Call /\ Sound(t, call[t]) /\ Joined(t, call[t])
      /\ call[t].pc \in {"get", "through"} /\ call[t].pc # "idle"
  BY CallFacts DEF Fetch
<1>2. Step(t) /\ CacheKept  BY DEF Fetch
<1>3. call[t].meta.id \in Ids  BY <1>1 DEF Sound, HoldsId, Fetching
<1>4. ASSUME NEW r \in Fetched(call[t]), call[t].pc = "through",
             Continue(t, Answered(call[t], r.answer, r.meta, r.fellback))
      PROVE  IInv'
  BY <1>1, <1>2, <1>3, <1>4, FetchedIs, AnswerKeeps
<1>5. ASSUME NEW r \in Fetched(call[t]), call[t].pc = "get",
             Continue(t, [call[t] EXCEPT
                    !.pc = IF r.answer = "found" THEN "settle" ELSE "erase",
                    !.answer = r.answer, !.meta = r.meta, !.fellback = r.fellback])
      PROVE  IInv'
  <2> DEFINE p == IF r.answer = "found" THEN "settle" ELSE "erase"
             c == [call[t] EXCEPT !.pc = p, !.answer = r.answer, !.meta = r.meta,
                                  !.fellback = r.fellback]
  <2>1. /\ r.answer \in {"found", "absent", "error"} /\ r.meta \in Meta
        /\ r.fellback \in BOOLEAN /\ r.meta.id = call[t].meta.id
        /\ r.answer = "found" /\ ~r.fellback =>
             /\ \A u \in Threads : call[u].pc # "idle"
                  => Saw(ScopeOf(u, call[u]), r.meta)
             /\ \A s \in Scopes : Live(s) => Saw(s, r.meta)
    BY <1>3, FetchedIs
  <2>2. /\ p \in {"erase", "settle"}
        /\ p = "settle" <=> r.answer = "found"
    BY <2>1
  <2>3. call' = [call EXCEPT ![t] = c]  BY <1>5 DEF Continue
  <2> HIDE DEF p
  <2>4. /\ c \in Call /\ c.pc = p /\ c.answer = r.answer /\ c.meta = r.meta
        /\ c.fellback = r.fellback /\ c.generation = call[t].generation
        /\ c.name = call[t].name /\ c.op = call[t].op /\ c.fresh = call[t].fresh
        /\ c.puts = call[t].puts /\ c.awaits = call[t].awaits
    BY <1>1, <2>1, <2>2 DEF Call
  <2> HIDE DEF c
  <2>5. Becomes(t, c) /\ c.pc \in {"erase", "settle"}
    BY <1>1, <2>2, <2>3, <2>4 DEF Becomes
  <2>6. c.meta.id = call[t].meta.id /\ c.awaits = None /\ call[t].pc \in Fetching
    BY <1>1, <1>5, <2>1, <2>4 DEF Joined, Fetching
  <2>7. ScopeOf(t, c) = ScopeOf(t, call[t])  BY <2>4 DEF ScopeOf
  <2>8. ~c.fresh  BY <1>1, <1>5, <2>4 DEF Sound
  <2>9. Sound(t, c)
    BY <1>1, <1>3, <2>1, <2>2, <2>4, <2>7, <2>8 DEF Sound, HoldsId, Fetching
  <2>10. /\ \A u \in Threads : call[u].pc # "idle" => Serves(c, ScopeOf(u, call[u]))
         /\ \A s \in Scopes : Live(s) => Serves(c, s)
    BY <2>1, <2>4 DEF Serves
  <2>11. /\ UNCHANGED entries /\ UNCHANGED metadata_entries /\ UNCHANGED dropped
         /\ metadata_entries' \in [Ids -> MetaEntry] /\ dropped' \in BOOLEAN
    BY <1>2 DEF CacheKept, IInv, TypeOK
  <2>12. \A u \in Threads \ {t} : Owned(u, call[u])'
    BY <2>5, <2>11, BecomesFrame, CallFacts DEF Owned
  <2> QED
    BY <1>2, <2>2, <2>4, <2>5, <2>6, <2>9, <2>10, <2>11, <2>12, FetchStep
<1> QED  BY <1>4, <1>5 DEF Fetch, At

\* A fetch without an answer to share takes its entry away, or another's.
LEMMA EraseKeeps ==
    ASSUME IInv, OpenFileAssumption, NEW t \in Threads, Erase(t)
    PROVE  IInv'
<1> DEFINE c == Goto(t, "settle")
<1>1. /\ call[t] \in Call /\ Sound(t, call[t]) /\ Joined(t, call[t])
      /\ call[t].pc = "erase" /\ call[t].pc # "idle" /\ call[t].pc \in Fetching
  BY CallFacts DEF Erase, At, Fetching
<1>0. PICK f \in Ids : f = call[t].meta.id  BY <1>1 DEF Sound, HoldsId
<1>2. /\ Step(t) /\ UNCHANGED entries
      /\ metadata_entries' = [metadata_entries EXCEPT ![f] = NoEntry]
      /\ dropped' = (dropped \/ metadata_entries[f].fetcher \notin {None, t})
      /\ call' = [call EXCEPT ![t] = c]
  BY <1>0 DEF Erase, Continue
<1>3. /\ c \in Call /\ c.pc = "settle" /\ c.answer = call[t].answer /\ c.meta = call[t].meta
      /\ c.fellback = call[t].fellback /\ c.generation = call[t].generation
      /\ c.name = call[t].name /\ c.op = call[t].op /\ c.fresh = call[t].fresh
      /\ c.puts = call[t].puts /\ c.awaits = call[t].awaits
  BY <1>1 DEF Goto, Call
<1> HIDE DEF c
<1>4. Becomes(t, c)  BY <1>1, <1>2, <1>3 DEF Becomes
<1>5. c.awaits = None  BY <1>1, <1>3 DEF Joined
<1>6. c.answer \in {"absent", "error"} /\ ~c.fresh  BY <1>1, <1>3 DEF Sound
<1>7. ScopeOf(t, c) = ScopeOf(t, call[t])  BY <1>3 DEF ScopeOf
<1>8. Sound(t, c)
  BY <1>1, <1>3, <1>6, <1>7 DEF Sound, HoldsId, Fetching
<1>9. \A s : Serves(c, s)  BY <1>6 DEF Serves
<1>10. /\ metadata_entries' \in [Ids -> MetaEntry]
       /\ metadata_entries'[f] = NoEntry
       /\ \A g \in Ids \ {f} : metadata_entries'[g] = metadata_entries[g]
  <2>1. NoEntry \in MetaEntry  BY DEF NoEntry, NoMeta, MetaEntry, Meta, OpenFileAssumption, IInv, TypeOK
  <2> QED  BY <1>2, <2>1 DEF IInv, TypeOK
<1>11. \A g \in Ids : metadata_entries'[g].fetcher # t
  <2>1. t # None /\ NoEntry.fetcher = None  BY DEF OpenFileAssumption, NoEntry
  <2>2. \A g \in Ids : metadata_entries[g].fetcher = t => g = f
    BY <1>0, <2>1 DEF IInv, EntrySound
  <2> QED  BY <1>10, <2>1, <2>2
<1>12. dropped' \in BOOLEAN  BY <1>2
<1>13. ASSUME NEW u \in Threads \ {t}
       PROVE  Owned(u, call[u])'
  <2>1. Owned(u, call[u]) /\ Sound(u, call[u]) /\ call'[u] = call[u]
    BY <1>4, CallFacts, BecomesFrame
  <2>2. CASE call[u].pc = "get"
    <3>1. call[u].meta.id \in Ids  BY <2>1, <2>2 DEF Sound, HoldsId, Fetching
    <3>2. u # None /\ u # t  BY DEF OpenFileAssumption
    <3> QED  BY <1>2, <1>10, <2>1, <2>2, <3>1, <3>2 DEF Owned
  <2>3. CASE call[u].pc # "get"  BY <2>1, <2>3 DEF Owned
  <2> QED  BY <2>2, <2>3
<1>14. \A g \in Ids : metadata_entries'[g] \in {metadata_entries[g], NoEntry}
  BY <1>10
<1> QED
  BY <1>1, <1>2, <1>3, <1>4, <1>5, <1>8, <1>9, <1>10, <1>11, <1>12, <1>13, <1>14, FetchStep

\* The promise is answered for the entry and for all who wait.
LEMMA SettleKeeps ==
    ASSUME IInv, OpenFileAssumption, NEW t \in Threads, Settle(t)
    PROVE  IInv'
<1> DEFINE c == call[t]
           told(u) == Answered(call[u], c.answer, c.meta, c.fellback)
<1>1. /\ c \in Call /\ Sound(t, c) /\ Serves(c, ScopeOf(t, c))
      /\ c.pc = "settle" /\ c.pc # "idle" /\ c.pc \in Fetching
  BY CallFacts DEF Settle, At, Fetching
<1>2. /\ Step(t) /\ UNCHANGED <<entries, dropped, metadata_generation>>
      /\ call' = [u \in Threads |-> IF u \in Woken(t) \cup {t} THEN told(u) ELSE call[u]]
      /\ metadata_entries' = [f \in Ids |->
            IF metadata_entries[f].fetcher = t
            THEN [fetcher |-> None, meta |-> c.meta, fellback |-> c.fellback]
            ELSE metadata_entries[f]]
  BY DEF Settle, Step
<1>3. /\ c.answer \in {"found", "absent", "error"} /\ c.meta \in Meta
      /\ c.fellback \in BOOLEAN
  BY <1>1 DEF Sound, Call
<1>4. t # None  BY DEF OpenFileAssumption
<1>5. ASSUME NEW u \in Threads, u \in Woken(t) \cup {t}
      PROVE  /\ call[u].pc \in HoldsId /\ call[u].pc # "idle"
             /\ Scoped(call[u]) => Serves(c, ScopeOf(u, call[u]))
  <2>1. CASE u = t  BY <1>1, <2>1 DEF HoldsId
  <2>2. CASE u # t
    <3>1. call[u].awaits = t /\ Joined(u, call[u])  BY <1>5, <2>2, CallFacts DEF Woken
    <3>2. call[u].pc = "wait"  BY <1>4, <3>1 DEF Joined
    <3> QED  BY <3>1, <3>2 DEF Joined, HoldsId
  <2> QED  BY <2>1, <2>2
<1>6. ASSUME NEW u \in Threads, u \in Woken(t) \cup {t}
      PROVE  /\ told(u) \in Call /\ Sound(u, told(u)) /\ Joined(u, told(u))
             /\ told(u).generation = call[u].generation
             /\ told(u).pc \in {"opened", "failed", "invalidate", "absent"}
  <2>1. call[u] \in Call /\ Sound(u, call[u])  BY CallFacts
  <2>2. c.answer = "found" /\ Scoped(call[u]) /\ ~c.fellback
          => Saw(ScopeOf(u, call[u]), c.meta)
    BY <1>1, <1>5, <1>6 DEF Serves
  <2> QED  BY <1>3, <1>5, <1>6, <2>1, <2>2, AnsweredSound
<1> HIDE DEF told
<1>7. /\ \A u \in Threads : u \in Woken(t) \cup {t} => call'[u] = told(u)
      /\ \A u \in Threads : u \notin Woken(t) \cup {t} => call'[u] = call[u]
  BY <1>2
<1>8. /\ call' \in [Threads -> Call]
      /\ \A u \in Threads : /\ call'[u].generation = call[u].generation
                            /\ call'[u].pc = "idle" <=> call[u].pc = "idle"
  <2>1. \A u \in Threads : call'[u] \in Call  BY <1>6, <1>7, CallFacts
  <2>2. call' \in [Threads -> Call]  BY <1>2, <2>1
  <2>3. \A u \in Threads : /\ call'[u].generation = call[u].generation
                           /\ call'[u].pc = "idle" <=> call[u].pc = "idle"
    BY <1>5, <1>6, <1>7
  <2> QED  BY <2>2, <2>3
<1>9. /\ Started' /\ Current'
      /\ \A s \in Scopes : Live(s)' => Live(s) /\ Grows(s)
      /\ \A s \in Scopes : Grows(s)
      /\ drive' \in [Ids -> File] /\ changes' \in 0..MaxChanges
      /\ queries' \in 0..MaxQueries /\ metadata_generation' \in Generations
      /\ during' \in [Scopes -> Seen]
      /\ \A u \in Threads : ScopeOf(u, call[u])' = ScopeOf(u, call[u])
  BY <1>2, <1>8, StepFrame
<1>10. during' = during  BY <1>2 DEF Step
<1>11. Entries(entries)' /\ Listed'  BY <1>2, EntriesAlone
<1>12. metadata_entries' \in [Ids -> MetaEntry]
  <2>1. \A f \in Ids : metadata_entries[f] \in MetaEntry  BY DEF IInv, TypeOK
  <2>2. [fetcher |-> None, meta |-> c.meta, fellback |-> c.fellback] \in MetaEntry
    BY <1>3 DEF MetaEntry
  <2> HIDE DEF c
  <2> QED  BY <1>2, <2>1, <2>2
<1>13. TypeOK'
  BY <1>2, <1>8, <1>9, <1>11, <1>12 DEF IInv, TypeOK, Entries, Distinct, Within
<1>14. ASSUME NEW u \in Threads, u \in Woken(t) \cup {t}
       PROVE  ThreadSound(u, call[u])'
  <2>1. call'[u] = told(u)  BY <1>7, <1>14
  <2>2. Sound(u, call[u])'
    BY <1>6, <1>10, <1>14, <2>1 DEF Sound, SawAlone, Saw, ScopeOf, Owed, Scoped
  <2>3. Joined(u, call[u])'  BY <1>6, <1>14, <2>1 DEF Joined
  <2>4. Serves(call[u], ScopeOf(u, call[u]))' /\ Owned(u, call[u])'
    BY <1>6, <1>14, <2>1 DEF Serves, Owned
  <2> QED  BY <2>2, <2>3, <2>4 DEF ThreadSound
<1>15. ASSUME NEW u \in Threads, call[u].pc \in Fetching, u # t
       PROVE  call'[u] = call[u]
  <2>1. u \notin Woken(t)
    BY <1>4, <1>15, CallFacts DEF Woken, Joined, Fetching
  <2> QED  BY <1>7, <1>15, <2>1
<1>16. ASSUME NEW u \in Threads, u \notin Woken(t) \cup {t}
       PROVE  ThreadSound(u, call[u])'
  <2>1. /\ call[u] \in Call /\ ScopeOf(u, call[u]) \in Scopes /\ call'[u] = call[u]
        /\ Sound(u, call[u]) /\ Joined(u, call[u]) /\ Owned(u, call[u])
    BY <1>7, <1>16, CallFacts, ScopesOf
  <2>2. call[u].pc = "wait" => call'[call[u].awaits] = call[call[u].awaits]
    BY <1>15, <1>16, <2>1 DEF Joined, Woken
  <2>3. Owned(u, call[u])'
    <3>1. CASE call[u].pc = "get"
      <4>1. call[u].meta.id \in Ids  BY <2>1, <3>1 DEF Sound, HoldsId, Fetching
      <4> QED  BY <1>2, <1>16, <2>1, <4>1 DEF Owned
    <3>2. CASE call[u].pc # "get"  BY <2>1, <3>2 DEF Owned
    <3> QED  BY <3>1, <3>2
  <2> QED  BY <1>9, <2>1, <2>2, <2>3, ThreadStays
<1>17. ASSUME NEW f \in Ids
       PROVE  EntrySound(f, metadata_entries[f])'
  <2>1. EntrySound(f, metadata_entries[f]) /\ metadata_entries[f] \in MetaEntry
    BY DEF IInv, TypeOK
  <2>2. CASE metadata_entries[f].fetcher = t
    <3>1. /\ metadata_entries'[f].fetcher = None
          /\ metadata_entries'[f].meta = c.meta
          /\ metadata_entries'[f].fellback = c.fellback
      BY <1>2, <2>2
    <3>2. metadata_generation # 0 /\ c.meta.id = f /\ c.answer = "found"
      BY <1>1, <1>4, <2>1, <2>2 DEF EntrySound, NoEntry
    <3>3. ASSUME ~c.fellback
          PROVE  \A s \in Scopes : Live(s) => Saw(s, c.meta)
      BY <1>1, <1>4, <2>1, <2>2, <3>2, <3>3 DEF EntrySound, Serves
    <3>4. ASSUME ~c.fellback
          PROVE  \A s \in Scopes : Live(s)' => c.meta \in during'[s].versions
      BY <1>9, <1>10, <3>3, <3>4 DEF Saw
    <3> HIDE DEF c
    <3> QED  BY <1>2, <3>1, <3>2, <3>4 DEF EntrySound, Saw
  <2>3. CASE metadata_entries[f].fetcher # t
    <3>1. metadata_entries'[f] = metadata_entries[f]  BY <1>2, <2>3
    <3>2. metadata_entries[f].fetcher # None
            => call'[metadata_entries[f].fetcher] = call[metadata_entries[f].fetcher]
      BY <1>15, <2>1, <2>3 DEF EntrySound, MetaEntry
    <3> QED  BY <1>2, <1>9, <3>1, <3>2, EntryStays
  <2> QED  BY <2>2, <2>3
<1> QED
  BY <1>9, <1>11, <1>13, <1>14, <1>16, <1>17 DEF IInv, ThreadSound

\* The metadata entries of S are dropped, and what was unanswered is remembered.
LEMMA Dropped ==
    ASSUME IInv, OpenFileAssumption, NEW S \in SUBSET Ids, Drop(S)
    PROVE  /\ metadata_entries' \in [Ids -> MetaEntry] /\ dropped' \in BOOLEAN
           /\ \A f \in Ids : metadata_entries'[f]
                = IF f \in S THEN NoEntry ELSE metadata_entries[f]
           /\ \A u \in Threads : call'[u] = call[u] => Owned(u, call[u])'
<1>1. NoEntry \in MetaEntry
  BY DEF NoEntry, NoMeta, MetaEntry, Meta, OpenFileAssumption
<1>2. \A f \in Ids : metadata_entries[f] \in MetaEntry  BY DEF IInv, TypeOK
<1>3. /\ metadata_entries' \in [Ids -> MetaEntry]
      /\ \A f \in Ids : metadata_entries'[f]
           = IF f \in S THEN NoEntry ELSE metadata_entries[f]
  BY <1>1, <1>2 DEF Drop
<1>4. dropped' = (dropped \/ S \cap Pending(metadata_entries) # {})  BY DEF Drop
<1>5. ASSUME NEW u \in Threads, call'[u] = call[u]
      PROVE  Owned(u, call[u])'
  <2>1. Owned(u, call[u]) /\ Sound(u, call[u])  BY CallFacts
  <2>2. CASE call[u].pc = "get"
    <3>1. call[u].meta.id \in Ids /\ u # None
      BY <2>1, <2>2 DEF Sound, HoldsId, Fetching, OpenFileAssumption
    <3>2. metadata_entries[call[u].meta.id].fetcher = u /\ call[u].meta.id \in S
            => dropped'
      BY <1>4, <3>1 DEF Pending
    <3> QED  BY <1>3, <1>4, <1>5, <2>1, <2>2, <3>1, <3>2 DEF Owned
  <2>3. CASE call[u].pc # "get"  BY <1>5, <2>3 DEF Owned
  <2> QED  BY <2>2, <2>3
<1>6. dropped' \in BOOLEAN  BY <1>4
<1> QED  BY <1>3, <1>5, <1>6

\* A dead id makes the open resolve anew, without any metadata.
LEMMA InvalidatePrefixKeeps ==
    ASSUME IInv, OpenFileAssumption, NEW t \in Threads, InvalidatePrefix(t)
    PROVE  IInv'
<1> DEFINE c == [Goto(t, "lookup") EXCEPT !.again = TRUE, !.meta = NoMeta]
<1>1. /\ call[t] \in Call /\ Sound(t, call[t]) /\ Joined(t, call[t])
      /\ call[t].pc = "invalidate" /\ call[t].pc # "idle" /\ call[t].pc \notin Fetching
  BY CallFacts DEF InvalidatePrefix, At, Fetching
<1>2. Step(t) /\ entries' = Others(call[t].name) /\ Drop(Ids)
      /\ call' = [call EXCEPT ![t] = c]
  BY DEF InvalidatePrefix, Continue
<1>3. NoMeta \in Meta  BY DEF NoMeta, Meta, OpenFileAssumption
<1>4. /\ c \in Call /\ c.pc = "lookup" /\ c.generation = call[t].generation
      /\ c.name = call[t].name /\ c.op = call[t].op /\ c.fresh = call[t].fresh
      /\ c.puts = call[t].puts /\ c.awaits = call[t].awaits
  BY <1>1, <1>3 DEF Goto, Call
<1> HIDE DEF c
<1>5. Becomes(t, c)  BY <1>1, <1>2, <1>4 DEF Becomes
<1>6. call[t].name \in Names  BY <1>1 DEF Sound
<1>7. Entries(entries)' /\ Listed'  BY <1>2, <1>6, Forgotten
<1>8. call'[t] = c /\ \A u \in Threads \ {t} : call'[u] = call[u]
  BY <1>5, BecomesFrame
<1>9. /\ metadata_entries' \in [Ids -> MetaEntry] /\ dropped' \in BOOLEAN
      /\ \A f \in Ids : metadata_entries'[f] = NoEntry
      /\ \A u \in Threads \ {t} : Owned(u, call[u])'
  BY <1>2, <1>8, Dropped
<1>10. ThreadSound(t, call[t])'
  <2>1. during' = during  BY <1>2 DEF Step
  <2>2. ScopeOf(t, c) = ScopeOf(t, call[t])  BY <1>4 DEF ScopeOf
  <2>3. ~c.fresh  BY <1>1, <1>4 DEF Sound
  <2>4. Sound(t, c)
    BY <1>1, <1>4, <1>6, <2>2, <2>3 DEF Sound, HoldsId, Fetching
  <2>5. Sound(t, call[t])'
    BY <1>8, <2>1, <2>4 DEF Sound, SawAlone, Saw, ScopeOf, Owed, Scoped
  <2>6. Joined(t, call[t])'  BY <1>1, <1>4, <1>8 DEF Joined
  <2>7. Serves(call[t], ScopeOf(t, call[t]))' /\ Owned(t, call[t])'
    BY <1>4, <1>8 DEF Serves, Owned
  <2> QED  BY <2>5, <2>6, <2>7 DEF ThreadSound
<1>11. \A f \in Ids : EntrySound(f, metadata_entries[f])'
  BY <1>9, NoEntryIsSound
<1> QED  BY <1>1, <1>2, <1>5, <1>7, <1>9, <1>10, <1>11, OwnStep

-----------------------------------------------------------------------------
(***************************************************************************)
(* Calls begin and end, queries begin, and the folder changes.             *)
(***************************************************************************)

\* No thread is a query, so the scope of a thread is nobody else's.
LEMMA OwnScope ==
    ASSUME OpenFileAssumption, NEW t \in Threads
    PROVE  /\ t \notin Queries
           /\ \A u \in Threads : \A c : ScopeOf(u, c) = t => u = t
BY DEF OpenFileAssumption, Queries, ScopeOf

\* A call ends, and with it the history that is its own.
LEMMA ReturnKeeps ==
    ASSUME IInv, OpenFileAssumption, NEW t \in Threads, Return(t)
    PROVE  IInv'
<1>1. /\ call[t] \in Call /\ call[t].pc # "idle" /\ call[t].pc \notin Fetching
      /\ call' = [call EXCEPT ![t] = Idle]
      /\ during' = [during EXCEPT ![t] = Nothing]
      /\ UNCHANGED <<drive, changes, queries, entries, metadata_entries,
                     metadata_generation, dropped>>
  BY CallFacts DEF Return, Continue, Fetching, driveVars, cacheVars
<1>2. TypeOK /\ t \in Scopes  BY DEF IInv, Scopes
<1>3. Idle \in Call /\ Idle.pc = "idle" /\ Idle.generation = 0 /\ Idle.awaits = None
      /\ Idle.puts = {} /\ Idle.fresh = FALSE /\ Idle.op = "none"
  BY DEF Idle, Call, Meta, NoMeta, Generations, OpenFileAssumption
<1>4. Nothing \in Seen  BY DEF Nothing, Seen
<1>5. /\ call' \in [Threads -> Call] /\ call'[t] = Idle
      /\ \A u \in Threads \ {t} : call'[u] = call[u]
      /\ during' \in [Scopes -> Seen]
      /\ \A s \in Scopes \ {t} : during'[s] = during[s]
  BY <1>1, <1>2, <1>3, <1>4 DEF TypeOK
<1>6. \A s \in Scopes : s # t => Grows(s)  BY <1>5 DEF Grows
<1>7. t \notin Queries /\ \A u \in Threads : \A c : ScopeOf(u, c) = t => u = t  BY OwnScope
<1>8. TypeOK'  BY <1>1, <1>2, <1>5 DEF TypeOK
<1>9. 0 \notin Queries  BY DEF Queries, OpenFileAssumption
<1>10. Started'
  BY <1>1, <1>3, <1>5, <1>9 DEF IInv, Started
<1>11. Current'
  <2>1. ASSUME NEW s \in Scopes, s \in 1..queries' \/ Watched(s)'
        PROVE  s # t /\ (s \in 1..queries \/ Watched(s))
    <3>1. CASE s \in 1..queries'
      BY <1>1, <1>2, <1>7, <3>1 DEF TypeOK, Queries, OpenFileAssumption
    <3>2. CASE Watched(s)'
      BY <1>3, <1>5, <3>2 DEF Watched, Scope
    <3> QED  BY <2>1, <3>1, <3>2
  <2> QED  BY <1>1, <1>5, <2>1 DEF IInv, Current, Versions, Bindings, Named
<1>12. Listed'
  <2>1. \A s \in Queries : during'[s] = during[s]  BY <1>5, <1>7 DEF Scopes
  <2>2. \A i \in DOMAIN entries : EntryListed(entries[i])'
    BY <1>1, <2>1 DEF IInv, Listed, EntryListed, SawAlone, Saw
  <2> QED  BY <1>1, <2>2 DEF Listed
<1>13. \A s \in Scopes : Live(s)' => Live(s) /\ Grows(s)
  <2>1. ASSUME NEW s \in Scopes, Live(s)'
        PROVE  Live(s) /\ s # t
    <3>1. CASE s \in Queries /\ s = metadata_generation'
      BY <1>1, <1>7, <3>1 DEF Live
    <3>2. ASSUME NEW u \in Threads, s = ScopeOf(u, call'[u]), call'[u].pc # "idle",
                 Scoped(call'[u])
          PROVE  Live(s) /\ s # t
      BY <1>3, <1>5, <1>7, <3>2 DEF Live
    <3> QED  BY <2>1, <3>1, <3>2 DEF Live, ScopeOf, Scoped
  <2> QED  BY <1>6, <2>1
<1>14. ThreadSound(t, call[t])'
  <2>1. Sound(t, call[t])'
    BY <1>3, <1>5 DEF Sound, HoldsId, Fetching
  <2>2. Joined(t, call[t])' /\ Serves(call[t], ScopeOf(t, call[t]))' /\ Owned(t, call[t])'
    BY <1>3, <1>5 DEF Joined, Serves, Owned
  <2> QED  BY <2>1, <2>2 DEF ThreadSound
<1>15. ASSUME NEW u \in Threads \ {t}
       PROVE  ThreadSound(u, call[u])'
  <2>1. /\ ScopeOf(u, call[u]) \in Scopes /\ ScopeOf(u, call[u]) # t
        /\ call'[u] = call[u] /\ Joined(u, call[u]) /\ Owned(u, call[u])
    BY <1>5, <1>7, CallFacts, ScopesOf
  <2>2. call[u].pc = "wait" => call'[call[u].awaits] = call[call[u].awaits]
    BY <1>1, <1>5, <2>1 DEF Joined
  <2>3. Owned(u, call[u])'  BY <1>1, <2>1 DEF Owned
  <2> QED  BY <1>6, <2>1, <2>2, <2>3, ThreadStays
<1>16. ASSUME NEW f \in Ids
       PROVE  EntrySound(f, metadata_entries[f])'
  <2>1. EntrySound(f, metadata_entries[f]) /\ metadata_entries[f] \in MetaEntry
    BY DEF IInv, TypeOK
  <2>2. metadata_entries[f].fetcher # None
          => call'[metadata_entries[f].fetcher] = call[metadata_entries[f].fetcher]
    BY <1>1, <1>5, <2>1 DEF EntrySound, MetaEntry
  <2> QED  BY <1>1, <1>13, <2>2, EntryStays
<1> QED
  BY <1>8, <1>10, <1>11, <1>12, <1>14, <1>15, <1>16 DEF IInv, ThreadSound

\* A call begins: it serves itself of the entries of its own query only.
LEMMA StartCallKeeps ==
    ASSUME IInv, OpenFileAssumption, UnscopedAssumption, NEW t \in Threads, NEW g,
           NEW b \in Call, b.pc \in {"lookup", "refresh", "glob"},
           b.pc = "lookup" \/ b.op = "open" => b.name \in Names,
           b.pc = "refresh" => b.meta.id \in Ids,
           ~b.fresh, b.puts = {}, b.awaits = None,
           StartCall(t, g, b)
    PROVE  IInv'
<1> DEFINE c == [b EXCEPT !.generation = g]
<1>1. /\ call[t].pc = "idle" /\ g \in (1..queries) \cup Unscoped
      /\ metadata_generation' = g
      /\ Drop(IF g # metadata_generation THEN Ids ELSE {})
      /\ during' = IF g \in Queries THEN during ELSE [during EXCEPT ![t] = Now(drive)]
      /\ call' = [call EXCEPT ![t] = c]
      /\ UNCHANGED <<drive, changes, queries, entries>>
  BY DEF StartCall, At, BeginQuery, Continue, driveVars
<1>2. TypeOK /\ t \in Scopes  BY DEF IInv, Scopes
<1>3. g \in Generations /\ (g \in Queries => g \in 1..queries)
  BY <1>1, <1>2
     DEF Generations, Queries, TypeOK, UnscopedAssumption, OpenFileAssumption, MAXIMUM_QUERY_ID
<1>4. /\ c \in Call /\ c.generation = g /\ c.pc = b.pc /\ c.name = b.name /\ c.op = b.op
      /\ c.meta = b.meta /\ c.fresh = b.fresh /\ c.puts = b.puts /\ c.awaits = b.awaits
  BY <1>3 DEF Call
<1> HIDE DEF c
<1>5. Now(drive) \in Seen
  <2>1. Versions(drive) \subseteq Meta  BY <1>2 DEF Versions, Meta, TypeOK, File
  <2>2. Bindings(drive) \subseteq Names \X Ids  BY DEF Bindings
  <2> QED  BY <2>1, <2>2 DEF Now, Seen
<1>6. /\ call' \in [Threads -> Call] /\ call'[t] = c
      /\ \A u \in Threads \ {t} : call'[u] = call[u]
      /\ during' \in [Scopes -> Seen]
      /\ \A s \in Scopes \ {t} : during'[s] = during[s]
      /\ g \notin Queries => during'[t] = Now(drive)
  BY <1>1, <1>2, <1>4, <1>5 DEF TypeOK
<1>7. \A s \in Scopes : s # t => Grows(s)  BY <1>6 DEF Grows
<1>8. t \notin Queries /\ \A u \in Threads : \A d : ScopeOf(u, d) = t => u = t  BY OwnScope
<1>9. /\ metadata_entries' \in [Ids -> MetaEntry] /\ dropped' \in BOOLEAN
      /\ \A f \in Ids : metadata_entries'[f]
           = IF g # metadata_generation THEN NoEntry ELSE metadata_entries[f]
      /\ \A u \in Threads : call'[u] = call[u] => Owned(u, call[u])'
  <2> DEFINE S == IF g # metadata_generation THEN Ids ELSE {}
  <2>1. S \in SUBSET Ids /\ Drop(S)  BY <1>1
  <2>2. \A f \in Ids : f \in S <=> g # metadata_generation  OBVIOUS
  <2> HIDE DEF S
  <2> QED  BY <2>1, <2>2, Dropped
<1>10. TypeOK'  BY <1>1, <1>2, <1>3, <1>6, <1>9 DEF TypeOK
<1>11. Started'
  BY <1>1, <1>2, <1>3, <1>4, <1>6 DEF IInv, Started, TypeOK
<1>12. Current'
  <2>1. ASSUME NEW s \in Scopes, s \in 1..queries' \/ Watched(s)', s # t
        PROVE  s \in 1..queries \/ Watched(s)
    BY <1>1, <1>6, <2>1 DEF Watched, Scope
  <2>2. ASSUME t \in 1..queries' \/ Watched(t)'
        PROVE  during'[t] = Now(drive)
    <3>1. t \notin 1..queries'  BY <1>1, <1>2, <1>8 DEF TypeOK, Queries, OpenFileAssumption
    <3>2. g \notin Queries
      BY <1>4, <1>6, <1>8, <2>2, <3>1 DEF Watched, Scope
    <3> QED  BY <1>6, <3>2
  <2>3. ASSUME NEW s \in Scopes, s \in 1..queries' \/ Watched(s)'
        PROVE  /\ Versions(drive) \subseteq during'[s].versions
               /\ Bindings(drive) \subseteq during'[s].bindings
    <3>1. CASE s = t  BY <2>2, <2>3, <3>1 DEF Now
    <3>2. CASE s # t  BY <1>6, <2>1, <2>3, <3>2 DEF IInv, Current
    <3> QED  BY <3>1, <3>2
  <2>4. Versions(drive)' = Versions(drive) /\ Bindings(drive)' = Bindings(drive)
    BY <1>1 DEF Versions, Bindings, Named
  <2> QED  BY <2>3, <2>4 DEF Current
<1>13. Listed'
  <2>1. \A s \in Queries : during'[s] = during[s]  BY <1>6, <1>8 DEF Scopes
  <2>2. \A i \in DOMAIN entries : EntryListed(entries[i])'
    BY <1>1, <2>1 DEF IInv, Listed, EntryListed, SawAlone, Saw
  <2> QED  BY <1>1, <2>2 DEF Listed
<1>14. ThreadSound(t, call[t])'
  <2>1. Sound(t, call[t])'
    BY <1>4, <1>6 DEF Sound, HoldsId, Fetching
  <2>2. Joined(t, call[t])' /\ Serves(call[t], ScopeOf(t, call[t]))' /\ Owned(t, call[t])'
    BY <1>4, <1>6 DEF Joined, Serves, Owned
  <2> QED  BY <2>1, <2>2 DEF ThreadSound
<1>15. ASSUME NEW u \in Threads \ {t}
       PROVE  ThreadSound(u, call[u])'
  <2>1. /\ ScopeOf(u, call[u]) \in Scopes /\ ScopeOf(u, call[u]) # t
        /\ call'[u] = call[u] /\ Joined(u, call[u]) /\ Owned(u, call[u])'
    BY <1>6, <1>8, <1>9, CallFacts, ScopesOf
  <2>2. call[u].pc = "wait" => call'[call[u].awaits] = call[call[u].awaits]
    BY <1>1, <1>6, <2>1 DEF Joined, Fetching
  <2> QED  BY <1>7, <2>1, <2>2, ThreadStays
<1>16. ASSUME NEW f \in Ids
       PROVE  EntrySound(f, metadata_entries[f])'
  <2>1. EntrySound(f, metadata_entries[f]) /\ metadata_entries[f] \in MetaEntry
    BY DEF IInv, TypeOK
  <2>2. CASE metadata_entries'[f] = NoEntry  BY <2>2, NoEntryIsSound
  <2>3. CASE metadata_entries'[f] # NoEntry
    <3>1. g = metadata_generation /\ metadata_entries'[f] = metadata_entries[f]
      BY <1>9, <2>3
    <3>2. g # 0  BY <2>1, <2>3, <3>1 DEF EntrySound
    <3>3. ASSUME NEW s \in Scopes, Live(s)'
          PROVE  Live(s) /\ s # t
      <4>1. CASE s \in Queries /\ s = metadata_generation'
        BY <1>1, <1>8, <3>1, <4>1 DEF Live
      <4>2. ASSUME NEW u \in Threads, s = ScopeOf(u, call'[u]), call'[u].pc # "idle",
                   Scoped(call'[u])
            PROVE  Live(s) /\ s # t
        <5>1. CASE u # t  BY <1>6, <1>8, <4>2, <5>1 DEF Live
        <5>2. CASE u = t
          <6>1. g \in Queries
            BY <1>3, <1>4, <1>6, <3>2, <4>2, <5>2 DEF Scoped, Generations
          <6>2. s = g  BY <1>4, <1>6, <4>2, <5>2, <6>1 DEF ScopeOf
          <6> QED  BY <1>8, <3>1, <6>1, <6>2 DEF Live
        <5> QED  BY <5>1, <5>2
      <4> QED  BY <3>3, <4>1, <4>2 DEF Live, ScopeOf, Scoped
    <3>4. metadata_entries[f].fetcher # None
            => call'[metadata_entries[f].fetcher] = call[metadata_entries[f].fetcher]
      BY <1>1, <1>6, <2>1 DEF EntrySound, MetaEntry, Fetching
    <3>5. \A s \in Scopes : Live(s)' => Live(s) /\ Grows(s)  BY <1>7, <3>3
    <3>6. metadata_generation' = 0 => metadata_generation = 0  BY <1>1, <3>1
    <3> QED  BY <3>1, <3>4, <3>5, <3>6, EntryStays
  <2> QED  BY <2>2, <2>3
<1> QED
  BY <1>10, <1>11, <1>12, <1>13, <1>14, <1>15, <1>16 DEF IInv, ThreadSound

\* Steps of the world: no call and no cache changes, and what is watched grows.
LEMMA WorldStep ==
    ASSUME IInv, OpenFileAssumption, UNCHANGED <<cacheVars, call, dropped>>,
           queries' >= queries, TypeOK', Current',
           \A s \in Scopes : s \in 1..queries \/ s \in Threads => Grows(s)
    PROVE  IInv'
<1>1. UNCHANGED <<entries, metadata_entries, metadata_generation, call, dropped>>
  BY DEF cacheVars
<1>2. queries \in Nat /\ queries' \in Nat /\ TypeOK
  BY DEF IInv, TypeOK, OpenFileAssumption
<1>3. Started'  BY <1>1, <1>2 DEF IInv, Started, Queries
<1>4. ASSUME NEW u \in Threads
      PROVE  ScopeOf(u, call[u]) \in Scopes /\ Grows(ScopeOf(u, call[u]))
  <2>1. call[u] \in Call /\ ScopeOf(u, call[u]) \in Scopes  BY CallFacts, ScopesOf
  <2>2. ScopeOf(u, call[u]) \in 1..queries \/ ScopeOf(u, call[u]) \in Threads
    BY <1>2 DEF IInv, Started, ScopeOf, Queries
  <2> QED  BY <2>1, <2>2
<1>5. Listed'
  <2>1. ASSUME NEW i \in DOMAIN entries
        PROVE  EntryListed(entries[i])'
    <3> DEFINE e == entries[i]
    <3>1. EntryListed(e)  BY DEF IInv, Listed
    <3>2. e.fresh_generation \in Queries
            => e.fresh_generation \in Scopes /\ Grows(e.fresh_generation)
      BY <1>2, <3>1 DEF EntryListed, Queries, Scopes
    <3>3. e' = e  BY <1>1
    <3>4. ASSUME e.fresh_generation \in Queries
          PROVE  e.fresh_generation <= queries'
      <4>1. e.fresh_generation <= queries /\ e.fresh_generation \in Nat
        BY <3>1, <3>4 DEF EntryListed, Queries
      <4> QED  BY <1>2, <4>1
    <3> HIDE DEF e
    <3>5. EntryListed(e)'
      BY <3>1, <3>2, <3>3, <3>4 DEF EntryListed, SawAlone, Saw, Grows
    <3> QED  BY <3>5 DEF e
  <2> QED  BY <1>1, <2>1 DEF Listed
<1>6. \A s \in Scopes : Live(s)' => Live(s) /\ Grows(s)
  <2>1. ASSUME NEW s \in Scopes, Live(s)
        PROVE  Grows(s)
    <3>1. CASE s \in Queries /\ s = metadata_generation
      <4>1. s \in 1..queries  BY <1>2, <3>1 DEF IInv, Started, Queries
      <4> QED  BY <4>1
    <3>2. CASE \E u \in Threads : s = ScopeOf(u, call[u])  BY <1>4, <3>2
    <3> QED  BY <2>1, <3>1, <3>2 DEF Live
  <2>2. \A s : Live(s)' <=> Live(s)  BY <1>1 DEF Live, ScopeOf, Scoped
  <2> QED  BY <2>1, <2>2
<1>7. ASSUME NEW u \in Threads
      PROVE  ThreadSound(u, call[u])'
  <2>1. call'[u] = call[u] /\ (call[u].pc = "wait" => call'[call[u].awaits] = call[call[u].awaits])
    BY <1>1
  <2>2. Owned(u, call[u])'  BY <1>1, CallFacts DEF Owned
  <2> QED  BY <1>4, <2>1, <2>2, ThreadStays
<1>8. ASSUME NEW f \in Ids
      PROVE  EntrySound(f, metadata_entries[f])'
  BY <1>1, <1>6, EntryStays
<1> QED  BY <1>3, <1>5, <1>7, <1>8 DEF IInv, ThreadSound

\* The folder changes: all that is watched sees it.
LEMMA ChangeKeeps ==
    ASSUME IInv, OpenFileAssumption, NEW f \in Ids, NEW n \in Names \cup {None}, Change(f, n)
    PROVE  IInv'
<1>1. /\ changes < MaxChanges /\ changes' = changes + 1
      /\ drive' = [drive EXCEPT ![f] = [name |-> n, rev |-> changes + 1]]
      /\ during' = [s \in Scopes |->
                      IF s \in 1..queries \/ Watched(s)
                      THEN [versions |-> during[s].versions \cup Versions(drive'),
                            bindings |-> during[s].bindings \cup Bindings(drive')]
                      ELSE during[s]]
      /\ UNCHANGED <<queries, cacheVars, call, dropped>>
  BY DEF Change
<1>2. TypeOK  BY DEF IInv
<1>3. drive' \in [Ids -> File] /\ changes' \in 0..MaxChanges
  <2>1. changes + 1 \in 0..MaxChanges  BY <1>1, <1>2 DEF TypeOK, OpenFileAssumption
  <2> QED  BY <1>1, <1>2, <2>1 DEF TypeOK, File
<1>4. Versions(drive') \subseteq Meta /\ Bindings(drive') \subseteq Names \X Ids
  BY <1>3 DEF Versions, Bindings, Meta, File
<1>5. ASSUME NEW s \in Scopes
      PROVE  /\ during'[s] \in Seen /\ Grows(s)
             /\ s \in 1..queries \/ Watched(s) =>
                  /\ Versions(drive') \subseteq during'[s].versions
                  /\ Bindings(drive') \subseteq during'[s].bindings
  <2>1. during[s] \in Seen  BY <1>2 DEF TypeOK
  <2>2. CASE s \in 1..queries \/ Watched(s)
    <3>1. during'[s] = [versions |-> during[s].versions \cup Versions(drive'),
                        bindings |-> during[s].bindings \cup Bindings(drive')]
      BY <1>1, <2>2
    <3> QED  BY <1>4, <2>1, <3>1 DEF Seen, Grows
  <2>3. CASE ~(s \in 1..queries \/ Watched(s))
    <3>1. during'[s] = during[s]  BY <1>1, <2>3
    <3> QED  BY <2>1, <2>3, <3>1 DEF Grows
  <2> QED  BY <2>2, <2>3
<1>6. during' \in [Scopes -> Seen]
  <2>1. DOMAIN during' = Scopes /\ during' = [s \in Scopes |-> during'[s]]  BY <1>1
  <2> QED  BY <1>5, <2>1
<1>7. TypeOK'  BY <1>1, <1>2, <1>3, <1>6 DEF TypeOK, cacheVars
<1>8. Current'
  <2>1. \A s : Watched(s)' <=> Watched(s)  BY <1>1 DEF Watched, Scope
  <2>2. Versions(drive)' = Versions(drive') /\ Bindings(drive)' = Bindings(drive')
    BY DEF Versions, Bindings, Named
  <2> QED  BY <1>1, <1>5, <2>1, <2>2 DEF Current
<1>9. queries' >= queries  BY <1>1, <1>2 DEF TypeOK, OpenFileAssumption
<1> QED  BY <1>1, <1>5, <1>7, <1>8, <1>9, WorldStep

\* A query begins with what Drive holds.
LEMMA StartQueryKeeps ==
    ASSUME IInv, OpenFileAssumption, StartQuery
    PROVE  IInv'
<1> DEFINE q == queries + 1
<1>1. /\ queries < MaxQueries /\ queries' = q
      /\ during' = [during EXCEPT ![q] = Now(drive)]
      /\ UNCHANGED <<drive, changes, cacheVars, call, dropped>>
  BY DEF StartQuery, driveVars
<1>2. TypeOK /\ queries \in Nat  BY DEF IInv, TypeOK, OpenFileAssumption
<1>3. q \in Queries /\ q \in Scopes /\ q \notin 1..queries /\ q \notin Threads
  BY <1>1, <1>2 DEF Queries, Scopes, OpenFileAssumption
<1>4. Now(drive) \in Seen
  <2>1. Versions(drive) \subseteq Meta  BY <1>2 DEF Versions, Meta, TypeOK, File
  <2>2. Bindings(drive) \subseteq Names \X Ids  BY DEF Bindings
  <2> QED  BY <2>1, <2>2 DEF Now, Seen
<1>5. /\ during' \in [Scopes -> Seen] /\ during'[q] = Now(drive)
      /\ \A s \in Scopes \ {q} : during'[s] = during[s]
  BY <1>1, <1>2, <1>3, <1>4 DEF TypeOK
<1>6. queries' \in 0..MaxQueries /\ queries' >= queries /\ 1..queries' = (1..queries) \cup {q}
  BY <1>1, <1>2 DEF OpenFileAssumption
<1> HIDE DEF q
<1>7. TypeOK'  BY <1>1, <1>2, <1>5, <1>6 DEF TypeOK, cacheVars
<1>8. \A s \in Scopes : s \in 1..queries \/ s \in Threads => Grows(s)
  BY <1>3, <1>5 DEF Grows
<1>9. Current'
  <2>1. \A s : Watched(s)' <=> Watched(s)  BY <1>1 DEF Watched, Scope
  <2>2. Versions(drive)' = Versions(drive) /\ Bindings(drive)' = Bindings(drive)
    BY <1>1 DEF Versions, Bindings, Named
  <2>3. Versions(drive) \subseteq during'[q].versions /\ Bindings(drive) \subseteq during'[q].bindings
    BY <1>5 DEF Now
  <2> QED  BY <1>5, <1>6, <2>1, <2>2, <2>3 DEF IInv, Current
<1> QED  BY <1>1, <1>6, <1>7, <1>8, <1>9, WorldStep

\* Nothing is cached, nobody calls.
LEMMA InitHolds ==
    ASSUME OpenFileAssumption, Init
    PROVE  IInv
<1>1. NoEntry \in MetaEntry
  BY DEF NoEntry, NoMeta, MetaEntry, Meta, OpenFileAssumption
<1>2. Idle \in Call /\ Idle.pc = "idle" /\ Idle.generation = 0 /\ Idle.awaits = None
      /\ Idle.puts = {} /\ Idle.fresh = FALSE /\ Idle.op = "none"
  BY DEF Idle, Call, Meta, NoMeta, Generations, OpenFileAssumption
<1>3. Nothing \in Seen /\ Nothing.versions = {} /\ Nothing.bindings = {}  BY DEF Nothing, Seen
<1>4. /\ \A f \in Ids : drive[f].name = None
      /\ drive \in [Ids -> File] /\ queries = 0 /\ changes = 0
      /\ metadata_generation = 0 /\ 0 \in Generations
  BY DEF Init, File, OpenFileAssumption, Generations
<1>5. /\ entries \in Seq(PathEntry) /\ Len(entries) = 0 /\ DOMAIN entries = {}
  BY DEF Init
<1>6. call \in [Threads -> Call] /\ \A t \in Threads : call[t] = Idle  BY <1>2 DEF Init
<1>7. metadata_entries \in [Ids -> MetaEntry] /\ \A f \in Ids : metadata_entries[f] = NoEntry
  BY <1>1 DEF Init
<1>8. during \in [Scopes -> Seen] /\ dropped \in BOOLEAN  BY <1>3 DEF Init
<1>9. TypeOK
  BY <1>4, <1>5, <1>6, <1>7, <1>8 DEF TypeOK, OpenFileAssumption
<1>10. Started
  BY <1>2, <1>4, <1>6 DEF Started, Queries
<1>11. Current
  <2>1. ASSUME NEW s \in Scopes, s \in 1..queries \/ Watched(s) PROVE FALSE
    BY <1>2, <1>4, <1>6, <2>1 DEF Watched
  <2> QED  BY <2>1 DEF Current
<1>12. Listed  BY <1>5 DEF Listed
<1>13. ASSUME NEW t \in Threads PROVE ThreadSound(t, call[t])
  BY <1>2, <1>6 DEF ThreadSound, Sound, HoldsId, Fetching, Joined, Serves, Owned
<1>14. \A f \in Ids : EntrySound(f, metadata_entries[f])
  BY <1>7 DEF EntrySound, NoEntry
<1> QED  BY <1>9, <1>10, <1>11, <1>12, <1>13, <1>14 DEF IInv, ThreadSound

-----------------------------------------------------------------------------
\* The three calls as they begin.
LEMMA CallsStart ==
    ASSUME IInv, OpenFileAssumption, UnscopedAssumption, NEW t \in Threads, NEW g,
           \/ Glob(t, g)
           \/ \E n \in Names : OpenPath(t, g, n)
           \/ \E f \in Ids : OpenId(t, g, f)
    PROVE  IInv'
<1>1. /\ Idle \in Call /\ Idle.awaits = None /\ Idle.puts = {} /\ Idle.fresh = FALSE
      /\ Idle.op = "none"
  BY DEF Idle, Call, Meta, NoMeta, Generations, OpenFileAssumption
<1>2. CASE Glob(t, g)
  <2> DEFINE b == [Idle EXCEPT !.op = "glob", !.pc = "glob"]
  <2>1. /\ b \in Call /\ b.pc = "glob" /\ b.op = "glob" /\ b.fresh = FALSE
        /\ b.puts = {} /\ b.awaits = None
    BY <1>1 DEF Call
  <2>2. StartCall(t, g, b)  BY <1>2 DEF Glob
  <2> HIDE DEF b
  <2> QED  BY <2>1, <2>2, StartCallKeeps
<1>3. ASSUME NEW n \in Names, OpenPath(t, g, n)
      PROVE  IInv'
  <2> DEFINE b == [Idle EXCEPT !.op = "open", !.name = n, !.pc = "lookup"]
  <2>1. /\ b \in Call /\ b.pc = "lookup" /\ b.op = "open" /\ b.fresh = FALSE
        /\ b.puts = {} /\ b.awaits = None /\ b.name = n
    BY <1>1 DEF Call
  <2>2. StartCall(t, g, b)  BY <1>3 DEF OpenPath
  <2> HIDE DEF b
  <2> QED  BY <2>1, <2>2, StartCallKeeps
<1>4. ASSUME NEW f \in Ids, OpenId(t, g, f)
      PROVE  IInv'
  <2> DEFINE b == [Idle EXCEPT !.op = "openId", !.meta.id = f, !.pc = "refresh"]
  <2>1. Idle.meta = NoMeta /\ [NoMeta EXCEPT !.id = f] \in Meta
        /\ [NoMeta EXCEPT !.id = f].id = f
    BY DEF Idle, NoMeta, Meta, OpenFileAssumption
  <2>2. /\ b \in Call /\ b.pc = "refresh" /\ b.op = "openId" /\ b.fresh = FALSE
        /\ b.puts = {} /\ b.awaits = None /\ b.meta.id = f
    BY <1>1, <2>1 DEF Call
  <2>3. StartCall(t, g, b)  BY <1>4 DEF OpenId
  <2> HIDE DEF b
  <2> QED  BY <2>2, <2>3, StartCallKeeps
<1> QED  BY <1>2, <1>3, <1>4

\* Every step keeps the invariant.
THEOREM StepKeeps ==
    ASSUME IInv, OpenFileAssumption, UnscopedAssumption, [Next]_vars
    PROVE  IInv'
<1>1. ASSUME NEW t \in Threads, Work(t)
      PROVE  IInv'
  <2>1. CASE TryGet(t)  BY <2>1, TryGetKeeps
  <2>2. CASE ListByName(t)  BY <2>2, ListByNameKeeps
  <2>3. CASE PutListed(t)  BY <2>3, PutListedKeeps
  <2>4. CASE GlobList(t)  BY <2>4, GlobListKeeps
  <2>5. CASE GlobPut(t)  BY <2>5, GlobPutKeeps
  <2>6. CASE GetOrFetchMetadata(t)  BY <2>6, GetOrFetchMetadataKeeps
  <2>7. CASE Fetch(t)  BY <2>7, FetchKeeps
  <2>8. CASE Erase(t)  BY <2>8, EraseKeeps
  <2>9. CASE Settle(t)  BY <2>9, SettleKeeps
  <2>10. CASE InvalidatePrefix(t)  BY <2>10, InvalidatePrefixKeeps
  <2>11. CASE Return(t)  BY <2>11, ReturnKeeps
  <2> QED
    BY <1>1, <2>1, <2>2, <2>3, <2>4, <2>5, <2>6, <2>7, <2>8, <2>9, <2>10, <2>11 DEF Work
<1>2. ASSUME NEW f \in Ids, Overwrite(f) \/ DeleteOnDrive(f)
      PROVE  IInv'
  <2>1. drive[f].name \in Names \cup {None}  BY DEF IInv, TypeOK, File
  <2> QED  BY <1>2, <2>1, ChangeKeeps DEF Overwrite, DeleteOnDrive
<1>3. ASSUME NEW f \in Ids, NEW n \in Names, Create(f, n)
      PROVE  IInv'
  BY <1>3, ChangeKeeps DEF Create
<1>4. CASE StartQuery  BY <1>4, StartQueryKeeps
<1>5. ASSUME NEW t \in Threads, NEW g \in Generations,
             \/ Glob(t, g)
             \/ \E n \in Names : OpenPath(t, g, n)
             \/ \E f \in Ids : OpenId(t, g, f)
      PROVE  IInv'
  BY <1>5, CallsStart
<1>6. CASE UNCHANGED vars
  <2>1. UNCHANGED <<cacheVars, call, dropped>> /\ UNCHANGED <<drive, changes, queries, during>>
    BY <1>6 DEF vars, driveVars
  <2>2. queries \in Nat /\ TypeOK  BY DEF IInv, TypeOK, OpenFileAssumption
  <2>3. TypeOK'  BY <2>1, <2>2 DEF TypeOK, cacheVars
  <2>4. Current'
    BY <2>1 DEF IInv, Current, Versions, Bindings, Named, Watched, Scope
  <2>5. \A s : Grows(s)  BY <2>1 DEF Grows
  <2>6. queries' >= queries  BY <2>1, <2>2
  <2> QED  BY <2>1, <2>3, <2>4, <2>5, <2>6, WorldStep
<1> QED  BY <1>1, <1>2, <1>3, <1>4, <1>5, <1>6 DEF Next

\* IInv holds throughout.
LEMMA Invariance == Spec => []IInv
<1>1. Init => IInv  BY InitHolds, OpenFileAssumption
<1>2. IInv /\ [Next]_vars => IInv'  BY StepKeeps, OpenFileAssumption, UnscopedAssumption
<1> QED  BY <1>1, <1>2, PTL DEF Spec

\* What the invariant says of the calls that ended, and of those that wait.
LEMMA WhatItMeans ==
    ASSUME IInv
    PROVE  OpenedWithinQuery /\ NeverGuesses /\ SharedFetchServesAll
<1>1. ASSUME NEW t \in Threads
      PROVE  /\ call[t] \in Call /\ Sound(t, call[t]) /\ Joined(t, call[t])
             /\ Owned(t, call[t]) /\ Scope(t) = ScopeOf(t, call[t])
  BY CallFacts DEF Scope, ScopeOf
<1>2. OpenedWithinQuery
  <2>1. ASSUME NEW t \in Threads, At(t, "opened"), Owed(call[t])
        PROVE  call[t].meta \in during[Scope(t)].versions
    BY <1>1, <2>1 DEF Sound, At, Saw
  <2> QED  BY <2>1 DEF OpenedWithinQuery, Owed, Scoped
<1>3. NeverGuesses
  BY <1>1 DEF NeverGuesses, Sound, At, SawAlone
<1>4. SharedFetchServesAll
  <2>1. ASSUME NEW t \in Threads, NEW u \in Threads \ {t}, At(t, "get"), At(u, "get"),
               call[u].meta.id = call[t].meta.id
        PROVE  dropped
    BY <1>1, <2>1 DEF Owned, At
  <2>2. ASSUME NEW t \in Threads, At(t, "wait")
        PROVE  /\ call[t].awaits # t
               /\ call[call[t].awaits].pc \in {"get", "erase", "settle"}
               /\ call[call[t].awaits].meta.id = call[t].meta.id
    BY <1>1, <2>2 DEF Joined, At, Fetching
  <2> QED  BY <2>1, <2>2 DEF SharedFetchServesAll
<1> QED  BY <1>2, <1>3, <1>4

\* The cache holds one entry for a name and never more entries than it may, and
\* every call, entry and history is one the code can have.
THEOREM OpenTypes == Spec => []TypeOK
<1>1. IInv => TypeOK  BY DEF IInv
<1> QED  BY <1>1, Invariance, PTL

\* What an open hands to the reader was what Drive held since its query began,
\* however queries, calls and changes interleave and whoever fetched it.
THEOREM OpensBelongToTheirQuery == Spec => []OpenedWithinQuery
<1>1. IInv => OpenedWithinQuery  BY WhatItMeans
<1> QED  BY <1>1, Invariance, PTL

\* An open that trusts a listing of its query opens a file that alone had the name.
THEOREM NothingIsGuessed == Spec => []NeverGuesses
<1>1. IInv => NeverGuesses  BY WhatItMeans
<1> QED  BY <1>1, Invariance, PTL

\* Two threads fetch the same metadata only after an unanswered entry was dropped,
\* and a thread waits only for one that will answer it.
THEOREM NobodyWaitsInVain == Spec => []SharedFetchServesAll
<1>1. IInv => SharedFetchServesAll  BY WhatItMeans
<1> QED  BY <1>1, Invariance, PTL
=============================================================================
