# TLA+ models of duckdb-gdrive

duckdb-gdrive is a DuckDB extension: a virtual file system that turns path
operations (`gdrive://folder/file.parquet`) into calls of the Google Drive API.
One `GDriveFileSystem` object serves all connections and threads of a database,
so its caches and its tokens are shared, while Drive is changed by other
clients at any time, answers late, twice or not at all, and allows several
files of one name in one folder.  That is where the hard behaviour is, and what
these modules model.

Paths below are those of the repository; line numbers are in `PROJECT.json`
(`map` for definitions, `hazards` for what can go wrong and which property
would notice).

## The system

| component | state | operations | talks to |
|---|---|---|---|
| chunked upload: `gdrive_upload_plan`, `gdrive_upload`, `gdrive_file_handle` | per write handle: pending bytes, bytes sent, session URI, `write_failed` | `Write`, `Close`, `CancelWrite`, destructor | the client, for each chunk |
| client: `gdrive_client` | one connection per thread | list, get, download, create, update, delete, the resumable session; `ExecuteWithRetry` around each | Drive, the token source |
| token source: `gdrive_auth` (`CachedTokenSource`), `gdrive_token_policy` | process-wide token cache, mint locks, remembered mint failures | `Token`, `Refresh`, `MintAndStore` | the token endpoint |
| path and metadata cache: `gdrive_path_cache` | path -> metadata (LRU, generation of the query that listed it); id -> shared future of metadata | `TryGet`, `Put`, `BeginQuery`, `GetOrFetchMetadata`, `InvalidatePrefix`, `Clear` | called by everything below |
| opening: `gdrive_filesystem` `OpenFile`, `TryResolvePath` | the caches | resolve segment by segment, refresh a cached leaf, resolve anew if its id is dead | client, path cache |
| reading: `Read`, `ReadViaBlockCache`, `TryRecoverStaleHandle` | per handle: metadata, block key, position | positional reads from several threads; recovery of a handle whose file was replaced | client, block cache, resolver |
| block cache: `gdrive_blockcache` | key -> shared future of a block, LRU, `cached_bytes` | `GetBlock`, `SetCapacity`, `Clear` | the read path's fetch |
| changing the tree: `gdrive_mutate`, the write branch of `OpenFile`, `FileExists`, `DirectoryExists`, `CreateDirectory` | the path cache, Drive's tree | write, mkdir, rmdir, remove, move | client, path cache |
| globs: `gdrive_glob`, `Glob` | the path cache | expand, list, match, cache what was listed | resolver |
| secrets and authentication context: `gdrive_auth`, `gdrive_secret`, `gdrive_identity` | DuckDB's secrets; key files | find the secret of a path, fingerprint the identity, build the token source | every operation starts here |
| providers: service account, ADC, OAuth parameters | none | parse, sign, build token requests | the token endpoint |
| addresses and errors: `gdrive_uri`, `gdrive_errors` | none | parse an address, write it, compare it with prefixes; classify an answer, read `Retry-After` | opening, globs; the client |
| SQL functions: `gdrive_vfs_functions` | none | `remove_file`, `move_file`, `write_blob`, `file_size` | the file system |
| rest: statistics, trace, export, registration | counters | | |

What makes each correct:

* upload: a file appears whole or not at all, once, and `Close` says which;
* requests: a change is never repeated when it may already have been applied, and
  what is reported of it is so; a dead token is replaced once for all threads,
  and none is believed to live longer than it does; every call ends;
* caches: one fetch for all who wait, everyone is answered, exact accounting,
  nothing served beyond the query it was fetched for, no guess among duplicates;
* reads: bytes of the file the handle names, recovery where one is promised;
* tree: nothing is destroyed that was not replaced, no call touches what its
  paths do not name, cached paths follow the changes made here, no duplicates;
* globs: exactly the files the pattern means, and a cache that names one each;
* addresses: one meaning each, the same for the parser, the writer of results,
  the cache and the prefixes.

## The modules

**`UploadPlan`, `GDriveUpload`, `AtomicPublish`.**  `UploadPlan` has the pure
decisions of `gdrive_upload_plan.cpp` (`SendLimit`, the answer of a resumable
session, `NextUploadStep`).  `GDriveUpload` is one write handle, its requests
and Drive's session: requests may be executed with the reply lost, executed
late after the client gave up, or refused.  The initiation is retried as it is
(`StartRetries`), and each of its requests that fails may have opened a session
whose URI never reaches the handle (`orphans`): it gets no bytes and nobody asks
it to go.  `AtomicPublish` is the promise (a
stream that is published whole at most once, and an outcome that is success,
failure or unknown); `ImplementsAtomicPublish` states the refinement.
`GDriveUploadProofs` has the proofs.

**`GDriveBlockCache`.**  One action per critical section of `GetBlock`, for
several threads: lookup (hit, or insertion of a future), the fetch, its
accounting and eviction, `promise.set_value`, the failure path, and the wait on
the future, with `SetCapacity` and `Clear` at any moment.  `Entry::generation`
is kept, for it is what the accounting rests on.
`GDriveBlockCacheProofs` has the proofs.

**`TokenPolicy`, `DriveErrors`, `GDriveRequest`.**  `TokenIsFresh`,
`DecideAfterRejection` and `ShouldResendAfter401` with the code's overflow
guards; `ClassifyDriveError` on the status and the two reasons it reads, and the
wait `SleepBackoff` makes of an attempt and a `Retry-After`; and threads that run
`ExecuteWithRetry` over one shared `CachedTokenSource`: lookup, mint lock,
second lookup, mint, remembered failure, the request, the 401 branch, the retry
gates.  A mint has three steps: it reads the clock, the endpoint issues a token
(the refresh grant and the service account's assertion are told its lifetime or
assume it, the second hop of a federation assumes it), the reply arrives.  Time
passes in between, tokens expire or are revoked, Drive applies a request and
loses the reply.  The decision under the mint lock that mints nothing is one step:
what a thread does there is seen by no one else.  `GDriveRequestProofs` has the
proofs, those of the pure decisions included.

**`GDriveAuthContext`** (`MCAuthContext`).  Threads in `GetAuthContext`: the
lookup and the identity stamp, then the branch of the secret's provider, in the
order in which each stamps and reads the credential file; the first token from
the process-wide cache or a mint; the browser flow, the write-back of its
refresh token and the store of its access token.  Meanwhile the secret and the
file are replaced, tokens lapse, and the sources handed out go on minting.  A
credential or a token is the user it acts as, and `FingerprintKey` keeps the
material itself, as a collision-free hash does.  `GDriveAuthContextProofs` has the
proofs.

**`GDriveOpenFile`** (`MCOpenFile`).  Threads open by path or by id, or glob,
each in a query, between statements, or without a context, over one path and
metadata cache; other clients create, overwrite and delete.  Every critical
section of the cache is an action, and every Drive request another.  Names in
`Immutable` are below a prefix of the setting: an open takes what the cache has
of them.  `GDriveOpenFileProofs` has the proofs.

**`GDriveRead`** (`MCRead`).  One handle shared by threads, its block cache
entries, the path cache entry of its path and another open that may `Put` late.
`TryRecoverStaleHandle` assigns `h.meta` and `h.block_key` without a lock: a
thread that reads a field while another is assigning it sees the old value, the
new one or neither.  What is downloaded or cached may end before the bytes asked
for, unless it is the file the handle was opened on: a short read (`Copy`).
`GDriveReadProofs` has the proofs.

**`GDriveTree`** (`MCTree`).  Drive's tree of entries (parent, name, kind,
trashed), the path cache, one call at a time walking through its requests, and
another client that changes the tree between any two of them.  Each request may
fail, and be applied or not when its reply is lost.  The calls are those of the
file system and of the SQL functions above it: `remove_file` asks whether the
address is a file, a folder or nothing before it deletes, `write_blob` makes the
missing folders first.  What Drive holds before the first call is the constant
`InitialTrees`.  `GDriveTreeProofs` has the proofs.

**`GDriveUri`, `GDriveSegment`, `GDriveGlobPatterns`, `GDriveGlob`** (`MCGlob`).
The pure functions of `gdrive_uri.cpp` on texts of symbols (`id:` is one, the
others are characters); those of `gdrive_glob.cpp`, `MatchSegment` as the loop it
is, one round per step; and `Glob`: the address is parsed, refused or taken for the
probe DuckDB derives from a missing id, then expanded and resolved, expansion by
expansion, with the path cache.  The code's loops and recursions are recursive
functions here: `MatchSegments` its table, `ExpandBracesInto` one function for each
level of nesting left, `TryResolvePath` the walk from segment to segment,
`ListFolder` one level of folders after the other.  `GDriveGlobProofs` has the
proofs.  A file whose name is shared is returned by its
id; one below a folder whose name is shared, by a path, which an open refuses as
ambiguous.  The references a pattern is compared with
(`Means`, `PathMeans`, `Language`) are written independently of the code: by
choosing, for each character, the place of the pattern that takes it, for each
segment its owner, and innermost groups.

They do not share variables: the upload is composed with the request layer only
through what a request may do (be applied, answered, lost), the block cache
with the read path through what a fetch may return, the path cache appears with
the part of its operations that each caller uses.

## The runs

`tlc -config X.cfg M` checks each; `PROJECT.json` lists the properties.

| run | instance | what it shows |
|---|---|---|
| `upload` | chunk multiple 2, chunk 5 rounded to 4, writes of 2 and 5 up to 9 bytes, 2 attempts per chunk and per request, one late request | atomicity, honesty of the outcome, bounds and release of the session the handle learnt of, a bound on the sessions opened, for streams below, at and beyond one chunk; termination; refinement of `AtomicPublish` |
| `upload_honesty` | the same | violated: a single-request write can fail in `Close` although it was published, without saying that the outcome is unknown |
| `block_cache` | 2 threads, 3 keys, sizes 0 and 2, capacities 0 and 2, 4 fetches | accounting, single flight, overshoot, every waiter answered |
| `request` | 2 threads, 2 calls, 2 attempts, 3 tokens of lifetime 2, 3 instants; a pasted token with and without the means to refresh it, and a federation | no repeated change, and none misreported; minting only when needed; no token trusted beyond its life, however slow the endpoint; honest 401s; termination |
| `auth_context` | 2 threads, 2 users, all four providers, one database whose secret is created anew once, 2 versions of the file, 3 resolutions, 2 consents, 1 lapse | sources act as the user of their own credential; a replaced key is used from the next open; one identity, one user; a consent is found by the open after it |
| `auth_identity` | 1 thread, `authorization_code` only | violated: two users' contexts have one cache identity |
| `open_file` | 2 threads, 2 queries, no calls outside them (the proofs cover those), 2 names of which one is immutable, 2 ids, 2 changes, a path cache of one entry (so that eviction happens) | what an open hands out belongs to its query; duplicates are not guessed at; one fetch per id, and nobody waits for an answer that will not come |
| `open_shared_failure` | 2 threads, 1 id | violated: an open that is resolved fails with another open's transient failure |
| `read` | 2 threads, 2 blocks, 2 files, 3 changes | no older content under a newer key, no bytes of a dead file after the recovery, recovery of an undisturbed read as far as the bytes reach |
| `tree` | paths `d`, `f`, `d/f`; 3 ids, 3 calls, 1 change by another client | the path cache follows this process's changes; moves lose nothing; calls keep to their paths; no duplicates; `remove_file` answers what is so |
| `tree_move_onto_folder` | 2 calls, nobody else | violated: a move onto a folder deletes what is in it |
| `glob` | all patterns of up to 4 characters over two alphabets, against all names of up to 3; addresses of up to 4 symbols and those one symbol away from the probe; some 200 globs over all trees of 10 entries | the matcher is exact and within O(pattern * name) rounds; the expansion is the whole product; a glob returns the right files once, by names that are theirs; what it caches is unambiguous; an address means what its text says |

Why these bounds: each is the smallest at which the case of interest happens.
Two threads are enough for every race between a critical section and a waiter;
a third thread in the same place is in the state of one of the two.  Nine bytes
make a first chunk, a second one with an unaligned rest, and a resume in the
middle of both.  Two attempts have a first, a last and a retry in between.
Three ids make a folder, a file in it and a file at the target of a move; three
calls suffice for a cache entry to be made, made false and used.  Four
characters hold the shortest patterns in which a class contains a range or a
bracket and a star follows.  Bounds appear as `Max...` constants
in guards; in particular `MaxFetches` and `MaxClock` cap counters that are unbounded in
the code, and `MaxChanges`, `MaxOthers`, `MaxTime` what the environment does.
Hazards not in the list, which no property covers: a retried `files.delete` that
answers 404 after the first was applied (`gdrive_client.cpp:895`); a folder on
the way cached where a file of its name would be looked up
(`gdrive_filesystem.cpp:306`); two writers that make two folders of one name
(`gdrive_vfs_functions.cpp:86`); the authorization-code flow, which reads the
clock after its exchange (`gdrive_auth.cpp:1108`); a consent without a refresh
token after a refused one (`gdrive_auth.cpp:1106`); and a `Retry-After` beyond
`INT_MAX`, which the cast to `int` makes a small or negative number
(`gdrive_errors.cpp:125`).

`CHECK_DEADLOCK FALSE` is set where the system may stop: a handle is destroyed,
the callers make no further call, or a bound is reached.  `GDriveGlob` has an
explicit `Returned` step instead, so a deadlock there would be a glob that
hangs.

### Fairness

Only the runs with a liveness property use it.  `GDriveUpload`:
`WF(Progress)`, what goes on by itself once `Write` or `Close` was called; the
thread runs, and `DoHttp`'s 60-second timeouts end every request.
`GDriveBlockCache`, `GDriveRequest`: weak fairness of each
thread's own steps, for the same two reasons and because `std::mutex` and
`shared_future` wake the threads that wait.  No fairness is assumed of Drive's
answers (it may fail for ever), of other clients, of callers, or of the clock.
Fairness of a lock's order is not assumed either: a thread that waits for the
mint lock gets it because the number of calls is bounded, which the code does
not guarantee for an endless stream of calls.

## The disagreements

Each is a run that must fail, with the code's own words in `findings`:

* `gdrive_file_handle.cpp:67` says that a failed `Close` published nothing
  unless it says that the outcome is ambiguous; the multipart update and create
  report a plain error after a 5xx that was applied (`upload_honesty`).
* `gdrive_filesystem.cpp:635` says that a transient failure does not fail an
  open that is resolved; it does for the thread that waits on another's future
  (`open_shared_failure`).
* `gdrive_auth.hpp:70` says that a secret created anew with different
  credentials is not served the previous principal's cached ids or bytes.  The
  identity of an `authorization_code` context is computed before the browser
  flow: created anew with the same client and signed in to by another user, the
  secret has the identity it had at its first consent (`auth_identity`).
* `gdrive_mutate.cpp:189` says that data is never destroyed before it was
  replaced; the target of a move may be a folder (`tree_move_onto_folder`).

Others met while modelling, which have no run:

* `gdrive_uri.hpp` says that an address round-trips.  `gdrive:///id:x` is parsed
  as a path of one segment `id:x`, whose text is the address of the file id `x`,
  and the parent of `gdrive:///id:x/f` is that file (`gdrive_uri.cpp:46`).
  `UrisExact` leaves these out.  For the same reason a file at the root whose
  name is `id:...` or `.` is returned by a glob under an address that does not
  open it, and the folder of `{id:F,x}/*` gives addresses that the parser
  rejects; `GlobAssumption` (a name is one segment: no slash, not `.` or `..`, not
  beginning with `id:`) and the chosen globs leave them out.
* `gdrive_adc.cpp:218` says that what an exchange needs is asked for when the
  document is read; an `external_account` without an impersonation URL is
  accepted there and fails at each mint.

## Proofs

`GDriveBlockCacheProofs` proves, for any finite sets of threads and keys, any
sizes, capacities and bounds, under the assumption `BlockCacheAssumption` of
the module:

* `BlockCacheTypeCorrect`: `Spec => []TypeOK`;
* `BlockCacheAccountingExact`: `Spec => []AccountingExact`, so `cached_bytes`
  never wraps;
* `BlockCacheSingleFlight`: `Spec => []SingleFlight`;
* `OvershootBounded`: `Spec => []OverCapacityBounded`.

None of the four is inductive.  For the first three, `IInv` adds what the code's comments only
suggest: generations are handed out once and in order, so an entry whose
generation is a thread's own is that thread's; an entry in flight has no bytes
yet; a thread that is fetching has a generation not above the last, no two
threads have the same one, and, unless the cache was wiped, its entry is still
in the map, in flight.  `StepPreserves` has one step per action; the two that
matter are the end of a fetch (the bytes go to the entry with the generation or
nowhere) and eviction, whose loop `EvictLocked` is proved about through what it
returns: a set of ready entries whose bytes were subtracted, one by one
(`EvictKeepsAccount`).  The `Size...` lemmas say how the sum over a set of keys
changes when one entry is added, changed or removed.

For the overshoot, `BInv` adds to it that every entry in flight is that of a
thread which has yet to settle it (`InFlightOwned`).  An eviction stops when the
bytes fit or no ready entry is left: were one left, the least recently used of
them would have been the next victim (`EvictLeavesInFlight`; that there is a
least recently used one is `LeastNatural`).  So if the cache is still over its
capacity, all its bytes are in entries in flight (the caller's own among them,
`Entry::ready` is set later), and there are at most as many of those as threads
(`InFlightFew`).  Between evictions no entry gains bytes but the one whose fetch
ends, and that evicts (`BoundKept`).

`GDriveUploadProofs` proves, for any sizes of chunks and writes, any number of
attempts and of late requests:

* `BrokenStreams`: `Spec => []BrokenStreamNeverPublished`;
* `OneFile`: `Spec => []PublishedOnce`;
* `SessionsReleased`: `Spec => []SessionReleased`.

No arithmetic on offsets is needed: what decides is which requests are on their
way.  `IInv` says so in nine parts.  A stream is *streaming* while it is written
to, and for ever if it broke; until then no request that names the total size
exists, and such a request alone can publish (`StreamingIsSilent`).  That a
broken stream stays silent rests on `BrokenIsOver` and `ThreadInWrite`: no chunk
is sent for it, and `Close` takes the branch that publishes nothing.  The session
and the single request exclude each other (`SingleHasNoSession`); the session
publishes as it ends, and takes no bytes once it has ended (`OnceInSession`); a
single request is repeated only with a reserved id, which makes its second
application a conflict, so without one there is at most one such request on its
way (`OnceWithoutId`).  `SessionAccounted` follows the session's URI through
every exit.  `ArrivalKeeps` is the heart: whatever Drive does with a request, now
or after the client gave up, keeps the invariant.  That a handle opens no more
sessions than one initiation has attempts takes counting, in `SInv`: the
initiation runs only while no session was learnt of, each of its requests orphans
one at most, and the one that succeeds, the last, orphans none.

Its second part goes on, under the same assumptions and one more that the
header has as a definition, that the largest chunk is a multiple of 256 KiB
(`gdrive_upload_plan.hpp:31`):

* `AllOrNothing`: `Spec => ImplementsAtomicPublish`;
* `WholeChunks`: `Spec => []ChunksAreValid`;
* `UploadTypes`: `Spec => []TypeOK`.

Here offsets matter, and `DInv` follows them.  What the caller wrote is what was
accepted, what is buffered and what is still to be taken (`BytesKept`); a request
carries the bytes its range names and one that names the total size ends where
the stream ends (`WholeRequests`), hence what Drive holds and shows is whole
(`Untorn`); every chunk but the last is full when it is sent and resumes on the
boundary (`Aligned`); the session has all that was dropped and nothing that was
not buffered (`Window`).  That Close says nothing false rests on `RepliesKnown`:
if no reply to the final chunk was lost or a 5xx, nothing is published and nothing
that could publish is on its way.  `StepMeaning` is the part of `NextUploadStep`
this needs, `ArrivalKeepsBytes` what Drive does with a request, and
`StepImplements` names for each action the step of `AtomicPublish` it is: a
request that arrives is `Publish`, an answer to the caller `Succeed`, `GiveUp` or
`Wonder`, and most are none.  The theorem is about the safety part: that calls
return is checked only.

`GDriveOpenFileProofs` proves, for any finite sets of threads, names and ids, any
bounds and cap, immutable or not, and with calls between statements and without a
context (`Unscoped`, empty in the run), under the two assumptions of the module:

* `OpensBelongToTheirQuery`: `Spec => []OpenedWithinQuery`;
* `NothingIsGuessed`: `Spec => []NeverGuesses`;
* `NobodyWaitsInVain`: `Spec => []SharedFetchServesAll`;
* `OpenTypes`: `Spec => []TypeOK`.

The difficulty is that the metadata entries carry no query.  They are dropped when
a call of another query begins, but a fetch that goes on answers whoever joined
it, and a call of an older query may use what a newer one fetched.  `EntrySound`
says why that is right: an entry holds what was there since *every* scope began
that it may still serve (`Live`: the query of the last `BeginQuery` and those of
the calls under way), because it was fetched after the last drop and each such
call either began before the drop or belongs to that query.  `Joined` says the
same of an answer that a waiting thread will get although the entry is gone, and
that the thread it waits for has yet to answer; `Owned`, that a fetch without its
entry means an unanswered one was dropped.  `Listed` gives each path entry the
query that listed it, `Current` gives the history of whatever is watched the
folder of this moment, and `Sound` says what a call at each place may rely on.
Generations shared by several scopes are where the guards of `TryGet` and
`OpenedWithinQuery` come in: neither 0 nor the sentinel is in `Queries`, so no
entry listed under them is ever fresh, and under 0 no metadata entry exists.
`StepFrame`, `OwnStep` and `QuietStep` say what a step leaves alone, `Stored`,
`Recalled` and `Forgotten` what becomes of the path entries.

`GDriveReadProofs` proves, for any threads, blocks, files and changes, under
`ReadAssumption`, everything the run `read` checks:

* `CachedBlocksNeverOlder`: `Spec => []BlocksNeverOlder`;
* `ReadsKeepToTheirFile`: `Spec => []ReadsHandleFile`;
* `LoneReadsRecover`: `Spec => []LoneReadRecovers`;
* `ReadTypes`: `Spec => []TypeOK`.

The argument is that nothing is newer than Drive (`NotNewer`): every id and
revision in the handle, the path entry, a key or an answer is one Drive has made,
and Drive makes them in order, so what a download brings is at least what its key
says, although Drive sends the content of the moment and the key is built before
the request.  A torn key names no block and a torn id no file: the read then
fetches for itself or is told not found.  `Follows` relates a read to the handle
it shares: neither the metadata nor a whole key is behind the file the read began
with, since the key lags behind the metadata only while some thread has yet to
assign it (`Assigned`).  `Owned` and `Joined` tie a fetch to its entry, so that
whoever waits gets an answer for its own key.  `Recovers` follows a read left
alone through its one retry: what it saw of Drive is still so, so not found means
that the ids differ or the file is gone, and what resolves differs from the dead
id; only the bytes may then fail to reach, which `fault` records (`CopyKeeps`).
`MoveKeeps` is the step of a read that changes neither Drive nor the handle,
`WorldKeeps` what others do, `SettleKeeps` the answer to all who wait.

`GDriveRequestProofs` proves, for any threads, methods, attempts, lifetimes and
delays, under `RequestAssumption`:

* `ReportsAreTrue`: `Spec => []AppliedAsReported`;
* `TwoTokensRefused`: `Spec => []UnauthenticatedMeansIt`;
* `NothingMintedForNothing`: `Spec => MintsJustified`;
* `LifetimesHonest`: `Spec => CacheHonest`;
* `LoopBounded`: `Spec => []RequestsBounded`, the sentence above
  `ExecuteWithRetry` that a call makes at most `kMaxAttempts + 1` requests;
* `RequestTypes`: `ExpiriesFit => (Spec => []TypeOK)`.

Its `IInv` says of each call what was counted of it at the place where it is
(`Counted`), which tokens Drive turned down before and after the refresh
(`Remembered`), that a refused token stays refused (`Refused`: revocation and
expiry are for good, and a number once issued is never issued again), and of a
mint that goes on that its thread holds the lock, that the token it was given is
newer than any in use, and that what it believes of the token's life began with
the clock it read before it asked (`Underway`).  The step for one thread
(`StepBecomes`) is separate from what all threads see (`Forward`, `CacheMoves`,
`LockMoves`), so that the other threads' parts follow without looking at the
action again.

For the last two, `RInv` adds the count: the requests of a call are the attempts
it counted and the one that the re-send gave back, whoever waits to send has an
attempt left, and what may be repeated was not applied (`Metered`).  `ExpiriesFit`
says that the clock plus the longest lifetime the endpoint states fits 64 bits.
The code adds the two without a check (`gdrive_auth.cpp:552`), so without it the type of `expires_at` is not preserved; it holds of every lifetime
of less than 290 billion years, and in the run.

Two theorems are about `DriveErrors` alone.  No body makes the client repeat a
request refused for another reason than load (`OnlyLoadIsRetried`), and for every
`Retry-After` that fits an `int` the wait is never shorter
(`RetryAfterHonoured`); a longer one is truncated by the code.

`GDriveAuthContextProofs` proves, for any threads, databases, users, providers and
bounds, under `AuthAssumption` and `NoneAssumption` (that the value which stands
for a missing one is no user, refresh token or key), everything the run
`auth_context` checks:

* `UsersStayApart`: `Spec => []UsersApart`;
* `ConsentsAreFound`: `Spec => []ConsentIsFound`;
* `AuthContextTypes`: `Spec => []TypeOK`.

`Right(k, u)` says that u is the user key k names: that of its refresh token, or
of the version of the file it is stamped with.  `IInv` says that a cached token is
of the user its key names unless the key is foreign by now (`EntrySound`), and
that a context is of that user unless the file was replaced under it
(`HandleSound`).  Two things make it inductive.  For a service account the key is
stamped before the file is read, so as long as a stamp is the latest one its
entry is of the user on disk, even if the resolution that stored it was torn
(`Latest`); this is what an open after the replacement relies on.  And a key of a
config secret is never foreign (`ConfigKeysNotForeign`).  `ConsentStored` follows
a consent from the secret it was written to into the cache.  `CallSound` says what
a resolution knows at each place, `Becomes` and `CallKeeps` what the steps of a
thread have in common, `OthersKeep` the steps of time and of users; a replacement
of the file has its own (`ReplaceFileKeeps`), since it alone changes what is the
latest.  `ConsentedIdentityNamesUser`, which the code breaks, has no counterpart
here.

`GDriveTreeProofs` proves, for any paths of one or two segments, ids, trees to
begin with, calls and changes by other clients, under `TreeAssumption` and
`TreesAssumption` (a first tree has its entries in folders that are not in the
trash), everything the run `tree` checks:

* `TheCacheFollows`: `Spec => []CacheFollows`;
* `MovesLoseNothing`: `Spec => []LoneMoveKeepsBoth`;
* `CallsKeepToTheirPaths`: `Spec => []LoneCallsKeepToTheirPaths`;
* `CallsMakeNoDuplicates`: `Spec => []NoDuplicatesMade`;
* `RemoveFileIsTruthful`: `Spec => []RemoveFileTellsTruth`;
* `TreeTypes`: `Spec => []TypeOK`.

The invariant has three layers.  `TInv` says what a call has at each of its places
(`CallShape`), that the ids it and the cache hold were handed out, and that
entries are in folders (`Sound`).  `CInv` says what the cache knows (`Heeds`):
each cached id is at its path (`At`), as long as only calls by path changed the
tree or nobody interferes, except below the source and target of a move between
its last request and its invalidation; and that the folder a call has reached, and
the source and the target it found, are at their paths.  `AInv` is an account of
what a lone call has made of the tree it began in: a write leaves all that was
there and adds no name a folder has (`LoneWrite`); a move takes the source to its
target and changes nothing else but what was below the target it replaces
(`LoneMove`); a removal trashes what its address names, for `remove_file` a file
(`LoneRemoval`).  The step that decides most is the deletion of the replaced entry,
after the source was moved: that the source is not deleted with it rests on where it was moved to, beside the
target and not below it (`MovedBeside`), and on the two being different entries;
`TrashedDistinct` says that the folder has one entry of the name again.  Subtrees are
least closed sets, so `SubtreeDown`, `SubtreeUp` and `SubtreeLeast` are all that is
needed of them and no induction is.  `DestroysOnlyTheReplaced`, which the code
breaks, has no counterpart here.

`GDriveGlobProofs` proves, for any characters, codes they are compared by, texts,
patterns, names, trees and limits of the expansion, under `SegmentAssumption`
(patterns and names are sequences of those characters), `PatternsAssumption` (the
limits are natural numbers) and `GlobAssumption` (there are finitely many entries,
with ids of their own, none of them the root's; a name is one segment: it has no
slash, is not `.` or `..` and does not begin with `id:`):

* `MatcherExact`: `MatchSpec => []SegmentsExact`, and for `Glob` around it
  `SegmentsStayExact`: `Spec => []SegmentsExact`;
* `AddressesExact`: `Spec => []UrisExact`;
* `CacheNamesOne`: `Spec => []CachedNamesOne`;
* `TypeCorrect`: `Spec => []TypeOK`.

*The matcher.*  `MatchSpec` is the loop by itself; in the run its rounds are `Glob`'s
`RoundOfSegment`.  What has to be shown is that nothing is lost by returning to
the *last* star only.  A pattern means a name if each character has a place that
takes it (`Means`), and `MeansFrom(p, s, i, j)` is the same of the rest of both;
`MeansPlace` and `MeansStars` take the first place, or the stars, off it.
`Underway` is the invariant: the pattern means the name if and only if the rest
of both matches, or the place after the last star matches further on
(`StillMeans`); and since there is no star in between, whatever matches from there
also matches from here, as many characters on as the loop has read since
(`SinceStar`).  Hence at the next star the one before need take no more
(`MeetsStar`): the later star may.  For the rounds, `Spent` counts the times the
star took one more.  That no induction over the pattern is needed for a class is
the work of `ClassFound`: its loop, a recursive function, exists and unrolls
(`ClassLoopExists`, from least numbers), and the places where its members begin
are a least closed set.  `AgainstIs` says that what the code does with `[` is
what the place means, closed or not.

*Loops.*  A recursive function is a `CHOOSE`, so nothing is known of it until one is
shown to exist.  The lemma `...IsLoop` of each does that once and unrolls it; what
a loop computes then follows by taking the least round at which it would be wrong
(`LeastNatural`).

*Addresses* (`TextsExact`, for every text, `PrefixesExact`, for every prefix and
path).  Splitting a text and joining its segments undo each other: `SplitJoin` for
segments that are names, `JoinSplit` for texts, which lose the slashes `Squeezed`
says they lose.  From these follow the round trip, the parent and the name; and a
text is the probe of a missing id only if its first slash is followed by `**/`,
which gives it its three segments.

*Glob and its cache* (`GlobInvariant`: `Spec => []IInv`).  `CachedNamesOne` is not
inductive.  An open or an expansion resolves a path from what is cached of the
path above it, so of that path one has to know more than that it names its entry:
`Alone(D, S, e)` says that the segments S lead to e, to nothing else unless e is a
folder with files beside it, and through one folder at each level.  `CacheKnown`
says this of each cached path, or that the path begins with an id and has a
segment below it, which an id never has.  `Resolution` is the walk: where it has found
one entry, that entry is alone at its path, cached or not, so what is found next
is all there is.  `ListedAlone` is the listing: level k holds exactly what paths
k + 1 segments below the folder lead to (`Listed`, `Lists`), hence two entries of a
path are both in it, and `Unambiguous`, which looks at the listing alone, sees
every collision there is.  The rest of `IInv` is that what is found are entries
with texts (`Paired`), that expansions are texts, and the matcher's invariant.

Only model-checked: liveness under fairness (`CallsReturn` and its like), which is
out of the prover's reach, and `GlobExact`.  What it compares the result with, the
language of a pattern and the path of an entry, are recursive functions over data,
as the expansion is, and that two of these agree for every input takes induction
over it.

## What is abstracted

* Bytes are positions in a stream, content is a revision number, names and ids
  are model values; JSON, HTTP headers, messages and logging are left out.
* Drive answers in classes: applied or not, replied or not, and the kinds of
  errors `ClassifyDriveError` tells apart.
* `GDriveUpload`: one handle; that two writers of one path make two files is
  documented in the repository (README, "concurrent writers").  A request of the
  initiation that arrives late counts at once.  `SessionReleased` is about the
  session whose URI the handle learnt: one orphaned by an answer that was lost or
  names no usable `Location` stays open until it expires, as
  `gdrive_client.cpp:761` says, and the property only bounds how many there are.
* `GDriveOpenFile`: one folder.
* `GDriveAuthContext`: a mint is one step; all secrets have the same name, scope
  and client, the case in which only the credential tells them apart, and one
  database whose secret is replaced stands for two with a secret each, since
  copies of the old secret stay in use.  `UsersApart` leaves out the keys a
  replacement of the file tore (`ForeignKeys`) and the identities of
  `credential_chain`: that branch reads the ADC file before it stamps it, so a
  replacement in between files the old user's token under the new file's key
  and the next opens act as the old user; `service_account` stamps first, and
  `UsersApart` says that it is not affected.  Also left out are consents that
  come without a refresh token after a refused one.
* `GDriveRead`: assignments of two recoveries to `h.meta` do not overlap.
  Threads that share a handle recover unevenly: the one that fetched a block
  retries, the ones that waited for it fail, hence the Lone in
  `LoneReadRecovers`.  Content has no length: what is not the file the handle was
  opened on may or may not reach the bytes asked for.  A replacement that does not
  is read short, as `gdrive_filesystem.cpp:724` says, and is outside
  `LoneReadRecovers`.  The second resolution of `OpenFile`
  (`gdrive_filesystem.cpp:663`), which another open's late `Put` can mislead, is
  not modelled; where such a `Put` misleads a recovery and the handle goes back to
  a dead file, `ReadsHandleFile` says nothing of the reads under way.
* `GDriveTree`: one call of this process at a time; paths of at most two
  segments; no eviction from the path cache.  A trashed entry is in no folder, and
  a folder takes what is below it into the trash.
* `GDriveGlob`: Drive does not change during a glob; names have no slash.  With
  a slash in a name, `Glob` caches it under another file's path: a hazard.
  `x/**` does not return a file `x`, although `MatchPath` matches it, because
  only what is below the literal prefix is listed; `GlobExact` says so.
* `GDriveRequest`: `Retry` takes no time of its own; how long `SleepBackoff`
  waits is in `DriveErrors`, and the clock may tick between any two steps.
* `GDriveUri`: `id:` is one symbol because no function looks into it.
* Not modelled: the providers' parsing and signing, redaction, statistics,
  trace, registration (no state that anything depends on); `file_size` and the
  loop over the rows of a SQL function.

## Plan

`GDriveTree`: two calls of this process at once.
