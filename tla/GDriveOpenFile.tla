--------------------------- MODULE GDriveOpenFile ---------------------------
(***************************************************************************)
(* Opening a file for reading: OpenFile and Glob (gdrive_filesystem.cpp)   *)
(* over the resolver cache (gdrive_path_cache.cpp), which every connection *)
(* of the database shares.  Paths map to file ids until they are evicted   *)
(* or dropped; metadata by id lives for one query and is fetched once for  *)
(* all the threads that ask.  Other clients, and the closing writers of    *)
(* this process, change the Drive folder meanwhile.                        *)
(*                                                                         *)
(* Each critical section and each Drive request is one action.  The folder *)
(* is flat: a path is one name.  A revision is the number of the change    *)
(* that made it.                                                           *)
(***************************************************************************)
EXTENDS Integers, Sequences, FiniteSets, SequencesExt

CONSTANTS
    Threads,      \* threads that open files
    Names,        \* names in the folder
    Ids,          \* file ids Drive can hand out
    None,         \* no name, no id, no thread
    Immutable,    \* names under gdrive_immutable_prefixes
    MaxEntries,   \* gdrive_path_cache_entries; 0 is unbounded
    Unscoped,     \* generations to use beside those of queries, see below
    MaxQueries,   \* bound: queries started
    MaxChanges    \* bound: changes of the folder

ASSUME OpenFileAssumption ==
    /\ IsFiniteSet(Threads) /\ IsFiniteSet(Names) /\ IsFiniteSet(Ids)
    /\ None \notin Threads \cup Names \cup Ids
    /\ Immutable \subseteq Names
    /\ Threads \cap (1..MaxQueries) = {}
    /\ MaxEntries \in Nat /\ MaxQueries \in Nat /\ MaxChanges \in Nat

Queries == 1..MaxQueries

\* What every context between two statements reports as its query.
MAXIMUM_QUERY_ID == MaxQueries + 1

\* 0: the caller has no client context.
Generations == {0, MAXIMUM_QUERY_ID} \cup Queries

ASSUME UnscopedAssumption == Unscoped \subseteq {0, MAXIMUM_QUERY_ID}

VARIABLES
    drive,                \* Ids -> File, what the folder holds
    changes,              \* how often it changed
    queries,              \* how many queries were started; they run on
    entries,              \* PathEntry by last use, the coldest first
    metadata_entries,     \* Ids -> MetaEntry
    metadata_generation,
    call,                 \* what each thread is doing
    during,               \* history: what held since a query or call began
    dropped               \* history: an unanswered metadata entry was dropped

driveVars == <<drive, changes>>
cacheVars == <<entries, metadata_entries, metadata_generation>>
vars == <<driveVars, queries, cacheVars, call,
          during, dropped>>

-----------------------------------------------------------------------------
\* name None: not in the folder, with rev 0 not yet, else not any more.
File == [name : Names \cup {None}, rev : 0..MaxChanges]
Meta == [id : Ids \cup {None}, rev : 0..MaxChanges]
PathEntry == [name : Names, meta : Meta, fresh_generation : Generations]

NoMeta == [id |-> None, rev |-> 0]

\* Each entry of metadata_entries holds a shared_future: `fetcher` answers it,
\* `meta` is the answer.
MetaEntry == [fetcher : Threads \cup {None}, meta : Meta, fellback : BOOLEAN]
NoEntry == [fetcher |-> None, meta |-> NoMeta, fellback |-> FALSE]

Call == [pc : {"idle", "lookup", "list", "put", "glob", "putAll", "refresh",
               "get", "through", "erase", "settle", "wait", "invalidate",
               "opened", "absent", "failed", "listed"},
         op : {"none", "open", "openId", "glob"},
         generation : Generations,    \* the thread's t_query_generation
         name : Names \cup {None},
         meta : Meta,                 \* what the call found out so far
         fresh : BOOLEAN,             \* leaf_is_fresh
         again : BOOLEAN,             \* the cached id was dead: resolving anew
         fellback : BOOLEAN,          \* history: a refresh could not be made
         answer : {"none", "found", "absent", "error"},
         awaits : Threads \cup {None},
         puts : SUBSET (Names \X Meta)]  \* what Glob has yet to cache

Idle == [pc |-> "idle", op |-> "none", generation |-> 0, name |-> None,
         meta |-> NoMeta, fresh |-> FALSE, again |-> FALSE, fellback |-> FALSE,
         answer |-> "none", awaits |-> None, puts |-> {}]

MetaOf(f) == [id |-> f, rev |-> drive[f].rev]
Named(d, n) == {f \in Ids : d[f].name = n}

\* Since a query began, or for a call outside any since the call did: which
\* versions were current at some moment, and which name had which one file.
Scope(t) == IF call[t].generation \in Queries THEN call[t].generation
                                                 ELSE t
Versions(d) == {[id |-> f, rev |-> d[f].rev] : f \in {g \in Ids : d[g].name # None}}
Bindings(d) == {p \in Names \X Ids : Named(d, p[1]) = {p[2]}}
Seen == [versions : SUBSET Meta, bindings : SUBSET (Names \X Ids)]
Nothing == [versions |-> {}, bindings |-> {}]
Now(d) == [versions |-> Versions(d), bindings |-> Bindings(d)]
Scopes == Queries \cup Threads
Watched(t) == t \in Threads /\ call[t].pc # "idle" /\ Scope(t) = t

Init ==
    /\ drive = [f \in Ids |-> [name |-> None, rev |-> 0]]
    /\ changes = 0
    /\ queries = 0
    /\ entries = <<>>
    /\ metadata_entries = [f \in Ids |-> NoEntry]
    /\ metadata_generation = 0
    /\ call = [t \in Threads |-> Idle]
    /\ during = [s \in Scopes |-> Nothing]
    /\ dropped = FALSE

-----------------------------------------------------------------------------
(***************************************************************************)
(* The folder, as other clients and closing writers change it, and the     *)
(* start of queries.                                                       *)
(***************************************************************************)
Change(f, n) ==
    /\ changes < MaxChanges
    /\ changes' = changes + 1
    /\ drive' = [drive EXCEPT ![f] = [name |-> n, rev |-> changes + 1]]
    /\ during' = [s \in Scopes |->
                    IF s \in 1..queries \/ Watched(s)
                    THEN [versions |-> during[s].versions \cup Versions(drive'),
                          bindings |-> during[s].bindings \cup Bindings(drive')]
                    ELSE during[s]]
    /\ UNCHANGED <<queries, cacheVars, call, dropped>>

Create(f, n) == drive[f] = [name |-> None, rev |-> 0] /\ Change(f, n)
Overwrite(f) == drive[f].name # None /\ Change(f, drive[f].name)
DeleteOnDrive(f) == drive[f].name # None /\ Change(f, None)

StartQuery ==
    /\ queries < MaxQueries
    /\ queries' = queries + 1
    /\ during' = [during EXCEPT ![queries + 1] = Now(drive)]
    /\ UNCHANGED <<driveVars, cacheVars, call, dropped>>

-----------------------------------------------------------------------------
(***************************************************************************)
(* The cache.                                                              *)
(***************************************************************************)
Pending(m) == {f \in Ids : m[f].fetcher # None}

\* The metadata entries of the ids in S go, answered or not.
Drop(S) ==
    /\ metadata_entries' = [f \in Ids |-> IF f \in S THEN NoEntry
                                                     ELSE metadata_entries[f]]
    /\ dropped' = (dropped \/ S \cap Pending(metadata_entries) # {})

Cached(n) == {i \in DOMAIN entries : entries[i].name = n}
Others(n) == IF Cached(n) = {} THEN entries
             ELSE RemoveAt(entries, CHOOSE i \in Cached(n) : TRUE)

\* Mutated form: one entry more than the cap.
EvictOneLate(es) ==
    IF MaxEntries # 0 /\ Len(es) > MaxEntries + 1
    THEN SubSeq(es, Len(es) - MaxEntries + 1, Len(es))
    ELSE es

\* EvictPathsLocked: the least recently used entries go.
EvictPathsLocked(es) ==
    IF MaxEntries # 0 /\ Len(es) > MaxEntries
    THEN SubSeq(es, Len(es) - MaxEntries + 1, Len(es))
    ELSE es

\* Mutated form: fresh when listed during the query that last began anywhere.
FreshInSharedQuery(t, e) ==
    metadata_generation # 0 /\ e.fresh_generation = metadata_generation

\* TryGet's fresh_in_query: listed during the query this thread serves.
FreshInQuery(t, e) ==
    /\ call[t].generation \notin {0, MAXIMUM_QUERY_ID}
    /\ e.fresh_generation = call[t].generation

Put(t, n, meta) ==
    entries' = EvictPathsLocked(Append(Others(n),
        [name |-> n, meta |-> meta, fresh_generation |-> call[t].generation]))

\* Mutated form: the metadata of the query before stays.
BeginQueryKeepingMetadata(g) ==
    /\ metadata_generation' = g
    /\ UNCHANGED <<metadata_entries, dropped>>

BeginQuery(g) ==
    /\ metadata_generation' = g
    /\ Drop(IF g # metadata_generation THEN Ids ELSE {})

-----------------------------------------------------------------------------
(***************************************************************************)
(* A call: its place is call[t].pc, named after what it does next.         *)
(***************************************************************************)
Continue(t, c) == call' = [call EXCEPT ![t] = c]
At(t, pc) == call[t].pc = pc
Goto(t, pc) == [call[t] EXCEPT !.pc = pc]

StartCall(t, g, c) ==
    /\ At(t, "idle")
    /\ g \in (1..queries) \cup Unscoped
    /\ BeginQuery(g)
    /\ during' = IF g \in Queries THEN during ELSE [during EXCEPT ![t] = Now(drive)]
    /\ Continue(t, [c EXCEPT !.generation = g])
    /\ UNCHANGED <<driveVars, queries, entries>>

OpenPath(t, g, n) ==
    StartCall(t, g, [Idle EXCEPT !.op = "open", !.name = n, !.pc = "lookup"])

\* The id: form goes to the metadata cache at once.
OpenId(t, g, f) ==
    StartCall(t, g, [Idle EXCEPT !.op = "openId", !.meta.id = f, !.pc = "refresh"])

Glob(t, g) == StartCall(t, g, [Idle EXCEPT !.op = "glob", !.pc = "glob"])

Return(t) ==
    /\ call[t].pc \in {"opened", "absent", "failed", "listed"}
    /\ Continue(t, Idle)
    /\ during' = [during EXCEPT ![t] = Nothing]
    /\ UNCHANGED <<driveVars, queries, cacheVars, dropped>>

Step(t) == UNCHANGED <<driveVars, queries, metadata_generation,
                       during>>
CacheKept == UNCHANGED <<entries, metadata_entries, dropped>>

\* Where OpenFile goes on after the leaf was resolved: a second resolution,
\* a leaf listed in this query and an immutable one are not refreshed.
AfterResolve(c) ==
    IF c.again \/ c.fresh \/ c.name \in Immutable THEN "opened" ELSE "refresh"

TryGet(t) ==
    /\ At(t, "lookup") /\ Step(t)
    /\ UNCHANGED <<metadata_entries, dropped>>
    /\ \/ /\ Cached(call[t].name) = {}
          /\ UNCHANGED entries
          /\ Continue(t, Goto(t, "list"))
       \/ \E i \in Cached(call[t].name) :
            LET e == entries[i]
                c == [call[t] EXCEPT !.meta = e.meta, !.fresh = FreshInQuery(t, e)]
            IN /\ entries' = Append(Others(e.name), e)
               /\ Continue(t, [c EXCEPT !.pc = AfterResolve(c)])

\* Mutated form: the first of several files of that name.
AnyMatch(n) ==
    IF Named(drive, n) = {} THEN None ELSE CHOOSE f \in Named(drive, n) : TRUE

OnlyMatch(n) ==
    IF Cardinality(Named(drive, n)) = 1 THEN CHOOSE f \in Named(drive, n) : TRUE
                                        ELSE None

\* ListByName and what the resolver makes of it; any request may also fail.
ListByName(t) ==
    /\ At(t, "list") /\ Step(t) /\ CacheKept
    /\ LET n == call[t].name  f == OnlyMatch(n) IN
       \/ Continue(t, Goto(t, "failed"))
       \/ Named(drive, n) = {} /\ Continue(t, Goto(t, "absent"))
       \/ f = None /\ Named(drive, n) # {} /\ Continue(t, Goto(t, "failed"))
       \/ f # None /\ Continue(t, [Goto(t, "put") EXCEPT !.meta = MetaOf(f),
                                                         !.fresh = TRUE])

PutListed(t) ==
    /\ At(t, "put") /\ Step(t)
    /\ Put(t, call[t].name, call[t].meta)
    /\ Continue(t, Goto(t, AfterResolve(call[t])))
    /\ UNCHANGED <<metadata_entries, dropped>>

\* Mutated form: every name is cached, duplicates too.
EveryName(n) == Named(drive, n) # {}

\* Glob caches only the names one file has.
Unambiguous(n) == Cardinality(Named(drive, n)) = 1

GlobList(t) ==
    /\ At(t, "glob") /\ Step(t) /\ CacheKept
    /\ \/ Continue(t, Goto(t, "failed"))
       \/ Continue(t, [Goto(t, "putAll") EXCEPT
                !.puts = {<<n, MetaOf(CHOOSE f \in Named(drive, n) : TRUE)>> :
                            n \in {m \in Names : Unambiguous(m)}}])

GlobPut(t) ==
    /\ At(t, "putAll") /\ Step(t)
    /\ UNCHANGED <<metadata_entries, dropped>>
    /\ \/ /\ call[t].puts = {} /\ UNCHANGED entries
          /\ Continue(t, Goto(t, "listed"))
       \/ \E p \in call[t].puts :
            /\ Put(t, p[1], p[2])
            /\ Continue(t, [call[t] EXCEPT !.puts = @ \ {p}])

-----------------------------------------------------------------------------
(***************************************************************************)
(* GetOrFetchMetadata for the id the call holds, and what OpenFile does    *)
(* with its answer.                                                        *)
(***************************************************************************)
\* Call c once it has the answer: a failure is rethrown, and a dead id makes
\* an open by path resolve anew.
Answered(c, answer, meta, fellback) ==
    [c EXCEPT
        !.pc = CASE answer = "found" -> "opened"
                 [] answer = "error" -> "failed"
                 [] answer = "absent" /\ c.op = "open" -> "invalidate"
                 [] answer = "absent" /\ c.op # "open" -> "absent",
        !.answer = "none", !.awaits = None, !.fellback = fellback,
        !.meta = IF answer = "found" THEN meta ELSE c.meta]

Publish(t, f) ==
    metadata_entries' = [metadata_entries EXCEPT ![f].fetcher = t]

GetOrFetchMetadata(t) ==
    LET f == call[t].meta.id
        e == metadata_entries[f]
    IN /\ At(t, "refresh") /\ Step(t) /\ UNCHANGED <<entries, dropped>>
       /\ \/ /\ metadata_generation = 0
             /\ UNCHANGED metadata_entries
             /\ Continue(t, Goto(t, "through"))
          \/ /\ metadata_generation # 0 /\ e = NoEntry
             /\ Publish(t, f)
             /\ Continue(t, Goto(t, "get"))
          \/ /\ metadata_generation # 0 /\ e.fetcher # None
             /\ UNCHANGED metadata_entries
             /\ Continue(t, [Goto(t, "wait") EXCEPT !.awaits = e.fetcher])
          \/ /\ metadata_generation # 0 /\ e # NoEntry /\ e.fetcher = None
             /\ UNCHANGED metadata_entries
             /\ Continue(t, Answered(call[t], "found", e.meta, e.fellback))

\* What files.get tells the fetching call: the metadata, that the file is
\* gone, or a failure.  Opening by path falls back to what it resolved.
Fetched(c) ==
    LET f == c.meta.id IN
    (IF drive[f].name # None
     THEN {[answer |-> "found", meta |-> MetaOf(f), fellback |-> FALSE]}
     ELSE {[answer |-> "absent", meta |-> c.meta, fellback |-> FALSE]})
    \cup {IF c.op = "open"
          THEN [answer |-> "found", meta |-> c.meta, fellback |-> TRUE]
          ELSE [answer |-> "error", meta |-> c.meta, fellback |-> FALSE]}

Fetch(t) ==
    /\ call[t].pc \in {"get", "through"} /\ Step(t) /\ CacheKept
    /\ \E r \in Fetched(call[t]) :
         \/ /\ At(t, "through")
            /\ Continue(t, Answered(call[t], r.answer, r.meta, r.fellback))
         \/ /\ At(t, "get")
            /\ Continue(t, [call[t] EXCEPT
                    !.pc = IF r.answer = "found" THEN "settle" ELSE "erase",
                    !.answer = r.answer, !.meta = r.meta, !.fellback = r.fellback])

\* No answer to share: the entry goes, by key, whoever published it.
Erase(t) ==
    /\ At(t, "erase") /\ Step(t) /\ UNCHANGED entries
    /\ LET f == call[t].meta.id IN
       /\ metadata_entries' = [metadata_entries EXCEPT ![f] = NoEntry]
       /\ dropped' = (dropped \/ metadata_entries[f].fetcher \notin {None, t})
    /\ Continue(t, Goto(t, "settle"))

\* Mutated form: the promise is dropped unanswered when the file is gone.
WokenWhenFound(t) ==
    IF call[t].answer = "found" THEN {u \in Threads : call[u].awaits = t} ELSE {}

Woken(t) == {u \in Threads : call[u].awaits = t}

\* The promise is answered, for the waiting threads and for those to come.
Settle(t) ==
    LET c == call[t] IN
    /\ At(t, "settle") /\ Step(t) /\ UNCHANGED <<entries, dropped>>
    /\ metadata_entries' = [f \in Ids |->
            IF metadata_entries[f].fetcher = t
            THEN [fetcher |-> None, meta |-> c.meta, fellback |-> c.fellback]
            ELSE metadata_entries[f]]
    /\ call' = [u \in Threads |->
            IF u \in Woken(t) \cup {t}
            THEN Answered(call[u], c.answer, c.meta, c.fellback)
            ELSE call[u]]

\* InvalidatePrefix of a path whose id is dead, before it is resolved anew.
InvalidatePrefix(t) ==
    /\ At(t, "invalidate") /\ Step(t)
    /\ entries' = Others(call[t].name)
    /\ Drop(Ids)
    /\ Continue(t, [Goto(t, "lookup") EXCEPT !.again = TRUE, !.meta = NoMeta])

-----------------------------------------------------------------------------
Work(t) ==
    \/ TryGet(t) \/ ListByName(t) \/ PutListed(t) \/ GlobList(t) \/ GlobPut(t)
    \/ GetOrFetchMetadata(t) \/ Fetch(t) \/ Erase(t) \/ Settle(t)
    \/ InvalidatePrefix(t) \/ Return(t)

Next ==
    \/ \E f \in Ids : Overwrite(f) \/ DeleteOnDrive(f)
    \/ \E f \in Ids, n \in Names : Create(f, n)
    \/ StartQuery
    \/ \E t \in Threads : Work(t)
    \/ \E t \in Threads, g \in Generations :
          \/ Glob(t, g)
          \/ \E n \in Names : OpenPath(t, g, n)
          \/ \E f \in Ids : OpenId(t, g, f)

Spec == Init /\ [][Next]_vars

-----------------------------------------------------------------------------
TypeOK ==
    /\ drive \in [Ids -> File] /\ changes \in 0..MaxChanges
    /\ queries \in 0..MaxQueries
    /\ entries \in Seq(PathEntry)
    /\ MaxEntries # 0 => Len(entries) <= MaxEntries
    /\ \A i, j \in DOMAIN entries : entries[i].name = entries[j].name => i = j
    /\ metadata_entries \in [Ids -> MetaEntry]
    /\ metadata_generation \in Generations
    /\ call \in [Threads -> Call]
    /\ during \in [Scopes -> Seen]
    /\ dropped \in BOOLEAN

\* What an open hands to the reader -- size, revision -- was what Drive held at
\* some moment since the query began, not what an earlier query had listed or
\* fetched (GDrivePathCache::TryGet, GetOrFetchMetadata).  Left out: a refresh
\* Drive failed to answer, the sentinel query number, a dead id resolved anew.
OpenedWithinQuery ==
    \A t \in Threads :
        /\ At(t, "opened") /\ call[t].name \notin Immutable
        /\ call[t].generation # MAXIMUM_QUERY_ID
        /\ ~call[t].again /\ ~call[t].fellback
        => call[t].meta \in during[Scope(t)].versions

\* An open that trusts a listing of its own query opens a file that alone had
\* the name at some moment of the query: duplicates are never guessed at.
NeverGuesses ==
    \A t \in Threads :
        At(t, "opened") /\ call[t].op = "open" /\ call[t].fresh
        => <<call[t].name, call[t].meta.id>> \in during[Scope(t)].bindings

\* A fetch of a file's metadata serves every thread that asks meanwhile: a second
\* one begins only after an unanswered entry was dropped, by another query or an
\* invalidation, and a thread waits only for a fetch whose thread has yet to
\* answer it: nobody is left on a future that was erased, dropped or settled
\* without them, whether the file is gone or Drive failed.
SharedFetchServesAll ==
    \A t \in Threads :
        /\ At(t, "get") => \A u \in Threads \ {t} :
             At(u, "get") /\ call[u].meta.id = call[t].meta.id => dropped
        /\ At(t, "wait") =>
             /\ call[t].awaits # t
             /\ call[call[t].awaits].pc \in {"get", "erase", "settle"}
             /\ call[call[t].awaits].meta.id = call[t].meta.id

\* "Any OTHER failure (transient 5xx, rate limit) must not fail an open the
\* resolver already satisfied."
ResolvedOpenSurvives ==
    \A t \in Threads :
        At(t, "failed") /\ call[t].op = "open" => call[t].meta = NoMeta
=============================================================================
