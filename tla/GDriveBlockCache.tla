-------------------------- MODULE GDriveBlockCache --------------------------
(***************************************************************************)
(* The shared cache of file content (gdrive_blockcache.cpp): threads ask   *)
(* for blocks, the first to miss fetches outside the lock while the others *)
(* wait on its future, and least-recently-used blocks are evicted.  Each   *)
(* critical section of the code is one action.                             *)
(*                                                                         *)
(* A key stands for identity, file id, revision, block size and index; how *)
(* many bytes a fetch returns is the fetch's choice.                       *)
(***************************************************************************)
EXTENDS Integers, FiniteSets

CONSTANTS
    Threads,      \* threads that call GetBlock
    Keys,         \* block keys
    NoKey,        \* a thread outside GetBlock asks for none
    Sizes,        \* how many bytes a fetched block may have
    Capacities,   \* values of the setting gdrive_block_cache_bytes
    MaxFetches,   \* bound: misses
    MaxClock      \* bound: calls of GetBlock

ASSUME BlockCacheAssumption ==
    /\ IsFiniteSet(Threads) /\ Threads # {}
    /\ IsFiniteSet(Keys) /\ NoKey \notin Keys
    /\ Sizes \subseteq Nat /\ IsFiniteSet(Sizes)
    /\ Capacities \subseteq Nat
    /\ MaxFetches \in Nat /\ MaxClock \in Nat

VARIABLES
    blocks,           \* Keys -> Entry, generation 0 where there is none
    capacity_bytes, cached_bytes, clock, next_generation,
    future,           \* generation -> state of the entry's shared_future
    pc,               \* where each thread is in GetBlock
    asked,            \* the key it asked for
    my_generation,    \* the generation whose future it holds
    wiped             \* history: some in-flight entry was dropped by a clear

cacheVars  == <<blocks, capacity_bytes, cached_bytes, clock, next_generation>>
threadVars == <<pc, asked, my_generation>>
vars == <<cacheVars, threadVars, future, wiped>>

Generations == 1..MaxFetches
Entry == [generation : 0..MaxFetches, bytes : Nat, used_at : 0..MaxClock]
NoEntry == [generation |-> 0, bytes |-> 0, used_at |-> 0]

Init ==
    /\ blocks = [k \in Keys |-> NoEntry]
    /\ capacity_bytes = 0 /\ cached_bytes = 0 /\ clock = 0
    /\ next_generation = 0
    /\ future = [g \in Generations |-> "pending"]
    /\ pc = [t \in Threads |-> "idle"]
    /\ asked = [t \in Threads |-> NoKey]
    /\ my_generation = [t \in Threads |-> 0]
    /\ wiped = FALSE

-----------------------------------------------------------------------------
Present(b) == {k \in Keys : b[k].generation # 0}

\* Entries whose future is ready: only these may be evicted.
Ready(b) == {k \in Present(b) : future[b[k].generation] # "pending"}

InFlight(b) == Present(b) \ Ready(b)

\* The bytes held for the keys of S, one element each.
BytesOf(b, S) == UNION {{k} \X (1..b[k].bytes) : k \in S}

Size(b, S) == Cardinality(BytesOf(b, S))

\* Mutated form: an entry in flight may be dropped too.
VictimsOfAnyKind(b, cached) ==
    {k \in Present(b) :
        cached - Size(b, {j \in Present(b) : b[j].used_at < b[k].used_at})
            > capacity_bytes'}

\* Mutated form: the search for a victim stops at an entry in flight.
VictimsBeforeInFlight(b, cached) ==
    {k \in Ready(b) :
        /\ \A j \in InFlight(b) : b[k].used_at < b[j].used_at
        /\ cached - Size(b, {j \in Ready(b) : b[j].used_at < b[k].used_at})
               > capacity_bytes'}

\* The loop of EvictLocked drops ready entries, least recently used first,
\* while too many bytes are cached.
Victims(b, cached) ==
    {k \in Ready(b) :
        cached - Size(b, {j \in Ready(b) : b[j].used_at < b[k].used_at})
            > capacity_bytes'}

Without(b, S) == [k \in Keys |-> IF k \in S THEN NoEntry ELSE b[k]]

ClearBlocks(b) ==
    /\ blocks' = Without(b, Keys) /\ cached_bytes' = 0
    /\ wiped' = (wiped \/ InFlight(b) # {})

\* EvictLocked on the entries b holding `cached` bytes, under the lock.
EvictLocked(b, cached) ==
    IF capacity_bytes' = 0
    THEN ClearBlocks(b)
    ELSE /\ blocks' = Without(b, Victims(b, cached))
         /\ cached_bytes' = cached - Size(b, Victims(b, cached))
         /\ UNCHANGED wiped

SetCapacity(bytes) ==
    /\ capacity_bytes' = bytes
    /\ EvictLocked(blocks, cached_bytes)
    /\ UNCHANGED <<clock, next_generation, threadVars, future>>

Clear ==
    /\ ClearBlocks(blocks)
    /\ UNCHANGED <<capacity_bytes, clock, next_generation, threadVars, future>>

-----------------------------------------------------------------------------
(***************************************************************************)
(* GetBlock.                                                               *)
(***************************************************************************)
Goto(t, place) == pc' = [pc EXCEPT ![t] = place]

Enter(t, k, generation, place) ==
    /\ asked' = [asked EXCEPT ![t] = k]
    /\ my_generation' = [my_generation EXCEPT ![t] = generation]
    /\ Goto(t, place)

Return(t) == Enter(t, NoKey, 0, "idle")

Hit(t, k) ==
    /\ pc[t] = "idle" /\ k \in Present(blocks) /\ clock < MaxClock
    /\ clock' = clock + 1
    /\ blocks' = [blocks EXCEPT ![k].used_at = clock + 1]
    /\ Enter(t, k, blocks[k].generation, "waiting")
    /\ UNCHANGED <<capacity_bytes, cached_bytes, next_generation, future, wiped>>

\* The future is in the map before the lock is released.
Miss(t, k) ==
    /\ pc[t] = "idle" /\ k \notin Present(blocks)
    /\ clock < MaxClock /\ next_generation < MaxFetches
    /\ clock' = clock + 1 /\ next_generation' = next_generation + 1
    /\ blocks' = [blocks EXCEPT ![k] =
                    [generation |-> next_generation + 1, bytes |-> 0,
                     used_at |-> clock + 1]]
    /\ Enter(t, k, next_generation + 1, "fetching")
    /\ UNCHANGED <<capacity_bytes, cached_bytes, future, wiped>>

\* Mutated form: whatever entry is under the key is taken for its own.
OwnEntryByKey(t) == blocks[asked[t]].generation # 0

\* The entry under the key is still the one this thread inserted.
OwnEntry(t) == blocks[asked[t]].generation = my_generation[t]

\* The fetch returned: account for it, then evict.
FetchSucceeds(t) ==
    /\ pc[t] = "fetching"
    /\ UNCHANGED capacity_bytes
    /\ \E size \in Sizes :
          IF OwnEntry(t)
          THEN EvictLocked([blocks EXCEPT ![asked[t]].bytes = size],
                           cached_bytes + size)
          ELSE EvictLocked(blocks, cached_bytes)
    /\ Goto(t, "publishing")
    /\ UNCHANGED <<clock, next_generation, future, asked, my_generation>>

\* promise.set_value, after the lock.
SetValue(t) ==
    /\ pc[t] = "publishing"
    /\ future' = [future EXCEPT ![my_generation[t]] = "value"]
    /\ Return(t)
    /\ UNCHANGED <<cacheVars, wiped>>

\* Mutated form: bytes are given back that were never accounted.
FetchFailsGivingBack(t) ==
    /\ pc[t] = "fetching"
    /\ \E read \in Sizes : cached_bytes' = cached_bytes - read
    /\ blocks' = IF OwnEntry(t) THEN [blocks EXCEPT ![asked[t]] = NoEntry] ELSE blocks
    /\ Goto(t, "raising")
    /\ UNCHANGED <<capacity_bytes, clock, next_generation, future, asked,
                   my_generation, wiped>>

\* The fetch threw: nothing stays cached.
FetchFails(t) ==
    /\ pc[t] = "fetching"
    /\ IF OwnEntry(t)
       THEN /\ cached_bytes' = cached_bytes - blocks[asked[t]].bytes
            /\ blocks' = [blocks EXCEPT ![asked[t]] = NoEntry]
       ELSE UNCHANGED <<blocks, cached_bytes>>
    /\ Goto(t, "raising")
    /\ UNCHANGED <<capacity_bytes, clock, next_generation, future, asked,
                   my_generation, wiped>>

\* Mutated form: the fetching thread rethrows and tells nobody.
SetExceptionForItself(t) ==
    /\ pc[t] = "raising"
    /\ Return(t)
    /\ UNCHANGED <<cacheVars, future, wiped>>

SetException(t) ==
    /\ pc[t] = "raising"
    /\ future' = [future EXCEPT ![my_generation[t]] = "error"]
    /\ Return(t)
    /\ UNCHANGED <<cacheVars, wiped>>

\* future.get() of a thread that found the entry.
FutureGet(t) ==
    /\ pc[t] = "waiting" /\ future[my_generation[t]] # "pending"
    /\ Return(t)
    /\ UNCHANGED <<cacheVars, future, wiped>>

Ask(t) == \E k \in Keys : Hit(t, k) \/ Miss(t, k)

Proceed(t) ==
    \/ FetchSucceeds(t) \/ SetValue(t)
    \/ FetchFails(t) \/ SetException(t)
    \/ FutureGet(t)

Next ==
    \/ \E t \in Threads : Ask(t) \/ Proceed(t)
    \/ \E bytes \in Capacities : SetCapacity(bytes)
    \/ Clear

Spec == Init /\ [][Next]_vars

\* The client's timeouts end every fetch, and threads run.
FairSpec == Spec /\ \A t \in Threads : WF_vars(Proceed(t))

-----------------------------------------------------------------------------
(***************************************************************************)
(* Properties.                                                             *)
(***************************************************************************)
TypeOK ==
    /\ blocks \in [Keys -> Entry]
    /\ capacity_bytes \in Nat /\ cached_bytes \in Nat
    /\ clock \in 0..MaxClock /\ next_generation \in 0..MaxFetches
    /\ future \in [Generations -> {"pending", "value", "error"}]
    /\ pc \in [Threads -> {"idle", "fetching", "publishing", "raising", "waiting"}]
    /\ asked \in [Threads -> Keys \cup {NoKey}]
    /\ my_generation \in [Threads -> 0..MaxFetches]
    /\ wiped \in BOOLEAN

\* cached_bytes is exactly the bytes of the entries in the map, however
\* fetches, failures, evictions and clears interleave (Entry::generation): a
\* fetch that outlives its entry accounts to no other, and the unsigned
\* counter never wraps below zero.
AccountingExact == cached_bytes = Size(blocks, Keys)

\* A block in flight is fetched by one thread at a time, unless the cache was
\* wiped (SetCapacity(0), Clear) while a fetch was running.
SingleFlight ==
    ~wiped =>
        \A t, u \in Threads :
            pc[t] = "fetching" /\ pc[u] = "fetching" /\ asked[t] = asked[u] => t = u

\* The cache outgrows its capacity only by blocks that were not ready when
\* room was last made: one per thread at most (EvictLocked never touches an
\* entry in flight, its caller's own included).
OverCapacityBounded ==
    \/ cached_bytes <= capacity_bytes
    \/ Cardinality({k \in Keys : blocks[k].bytes > 0}) <= Cardinality(Threads)

\* Every call of GetBlock returns, also when the fetch it waits on fails or
\* its entry is cleared or evicted meanwhile: no waiter hangs.
GetBlockReturns == \A t \in Threads : pc[t] # "idle" ~> pc[t] = "idle"
=============================================================================
