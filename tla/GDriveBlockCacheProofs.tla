----------------------- MODULE GDriveBlockCacheProofs -----------------------
(***************************************************************************)
(* Proofs about GDriveBlockCache: its types, the exact accounting of       *)
(* cached_bytes, single flight, and how far the cache may outgrow its      *)
(* capacity, for any threads, keys, block sizes and capacities.            *)
(***************************************************************************)
EXTENDS GDriveBlockCache, FiniteSetTheorems, WellFoundedInduction, TLAPS

Blocks == [Keys -> Entry]

-----------------------------------------------------------------------------
(***************************************************************************)
(* Lemmas about the bytes held for a set of keys.                          *)
(***************************************************************************)

\* One key holds as many bytes as its entry says.
LEMMA SizeOfOne ==
    ASSUME NEW b \in Blocks, NEW k \in Keys
    PROVE  /\ IsFiniteSet(BytesOf(b, {k}))
           /\ Size(b, {k}) = b[k].bytes
<1> DEFINE n == b[k].bytes
<1>1. n \in Nat  BY DEF Blocks, Entry
<1>2. BytesOf(b, {k}) = {k} \X (1..n)  BY DEF BytesOf
<1> HIDE DEF n
<1>3. IsFiniteSet({k}) /\ Cardinality({k}) = 1  BY FS_Singleton
<1>4. IsFiniteSet(1..n) /\ Cardinality(1..n) = n
  <2>1. /\ IsFiniteSet(1..n)
        /\ Cardinality(1..n) = IF 1 > n THEN 0 ELSE n - 1 + 1
    BY <1>1, FS_Interval
  <2> QED  BY <1>1, <2>1
<1>5. /\ IsFiniteSet({k} \X (1..n))
      /\ Cardinality({k} \X (1..n)) = Cardinality({k}) * Cardinality(1..n)
  BY <1>3, <1>4, FS_Product
<1>6. Cardinality({k} \X (1..n)) = n  BY <1>1, <1>3, <1>4, <1>5
<1> QED  BY <1>2, <1>5, <1>6 DEF Size, n

\* The bytes of finitely many keys are finitely many.
LEMMA BytesFinite ==
    ASSUME NEW b \in Blocks, NEW S \in SUBSET Keys
    PROVE  /\ IsFiniteSet(BytesOf(b, S))
           /\ Size(b, S) \in Nat
<1> DEFINE f == [k \in S |-> {k} \X (1..b[k].bytes)]
           T == {f[k] : k \in S}
<1>1. IsFiniteSet(S)  BY BlockCacheAssumption, FS_Subset
<1>2. f \in Surjection(S, T)  BY DEF Surjection
<1>3. IsFiniteSet(T)
  <2> HIDE DEF f, T
  <2> QED  BY <1>1, <1>2, FS_Surjection
<1>4. \A X \in T : IsFiniteSet(X)
  <2> TAKE X \in T
  <2>1. PICK k \in S : X = {k} \X (1..b[k].bytes)  OBVIOUS
  <2>2. X = BytesOf(b, {k})  BY <2>1 DEF BytesOf
  <2> QED  BY <2>2, SizeOfOne
<1>5. BytesOf(b, S) = UNION T  BY DEF BytesOf
<1>6. IsFiniteSet(BytesOf(b, S))
  <2> HIDE DEF T
  <2> QED  BY <1>3, <1>4, <1>5, FS_UNION
<1> QED  BY <1>6, FS_CardinalityType DEF Size

\* The bytes of a set are those of a part and those of the rest.
LEMMA SizeSplit ==
    ASSUME NEW b \in Blocks, NEW S \in SUBSET Keys, NEW T \in SUBSET S
    PROVE  Size(b, S) = Size(b, T) + Size(b, S \ T)
<1>1. /\ IsFiniteSet(BytesOf(b, T)) /\ IsFiniteSet(BytesOf(b, S \ T))
      /\ Size(b, T) \in Nat /\ Size(b, S \ T) \in Nat
  BY BytesFinite
<1>2. BytesOf(b, S) = BytesOf(b, T) \cup BytesOf(b, S \ T)  BY DEF BytesOf
<1>3. BytesOf(b, T) \cap BytesOf(b, S \ T) = {}  BY DEF BytesOf
<1>4. Cardinality(BytesOf(b, S)) =
        Cardinality(BytesOf(b, T)) + Cardinality(BytesOf(b, S \ T))
           - Cardinality(BytesOf(b, T) \cap BytesOf(b, S \ T))
  BY <1>1, <1>2, FS_Union
<1> QED  BY <1>1, <1>3, <1>4, FS_EmptySet DEF Size

\* Only the byte counts of the keys in question matter.
LEMMA SizeSame ==
    ASSUME NEW b \in Blocks, NEW c \in Blocks, NEW S \in SUBSET Keys,
           \A k \in S : c[k].bytes = b[k].bytes
    PROVE  Size(c, S) = Size(b, S)
<1>1. \A k \in S : {k} \X (1..c[k].bytes) = {k} \X (1..b[k].bytes)  OBVIOUS
<1>2. BytesOf(c, S) = BytesOf(b, S)  BY <1>1 DEF BytesOf
<1> QED  BY <1>2 DEF Size

\* Keys whose entries hold nothing count for nothing.
LEMMA SizeZero ==
    ASSUME NEW b \in Blocks, NEW S \in SUBSET Keys, \A k \in S : b[k].bytes = 0
    PROVE  Size(b, S) = 0
<1>1. \A k \in S : {k} \X (1..b[k].bytes) = {}  OBVIOUS
<1>2. BytesOf(b, S) = {}  BY <1>1 DEF BytesOf
<1> QED  BY <1>2, FS_EmptySet DEF Size

\* Changing one entry changes the total by the difference.
LEMMA SizeUpdate ==
    ASSUME NEW b \in Blocks, NEW c \in Blocks, NEW k \in Keys,
           \A j \in Keys \ {k} : c[j].bytes = b[j].bytes
    PROVE  Size(c, Keys) = Size(b, Keys) - b[k].bytes + c[k].bytes
<1>1. Size(b, Keys) = Size(b, {k}) + Size(b, Keys \ {k})  BY SizeSplit
<1>2. Size(c, Keys) = Size(c, {k}) + Size(c, Keys \ {k})  BY SizeSplit
<1>3. Size(c, Keys \ {k}) = Size(b, Keys \ {k})  BY SizeSame
<1>4. Size(b, Keys \ {k}) \in Nat  BY BytesFinite
<1>5. b[k].bytes \in Nat /\ c[k].bytes \in Nat  BY DEF Blocks, Entry
<1> QED  BY <1>1, <1>2, <1>3, <1>4, <1>5, SizeOfOne

\* Erasing the entries of V takes their bytes away and leaves the others.
LEMMA SizeWithout ==
    ASSUME NEW b \in Blocks, NEW V \in SUBSET Keys
    PROVE  /\ Without(b, V) \in Blocks
           /\ Size(Without(b, V), Keys) = Size(b, Keys) - Size(b, V)
<1> DEFINE c == Without(b, V)
<1>1. NoEntry \in Entry /\ NoEntry.bytes = 0
  BY BlockCacheAssumption DEF NoEntry, Entry
<1>2. c \in Blocks  BY <1>1 DEF Without, Blocks
<1>3. /\ \A k \in V : c[k].bytes = 0
      /\ \A k \in Keys \ V : c[k].bytes = b[k].bytes
  BY <1>1 DEF Without
<1> HIDE DEF c
<1>4. Size(c, V) = 0  BY <1>2, <1>3, SizeZero
<1>5. Size(c, Keys \ V) = Size(b, Keys \ V)  BY <1>2, <1>3, SizeSame
<1>6. /\ Size(c, Keys) = Size(c, V) + Size(c, Keys \ V)
      /\ Size(b, Keys) = Size(b, V) + Size(b, Keys \ V)
  BY <1>2, SizeSplit
<1>7. Size(b, V) \in Nat /\ Size(b, Keys \ V) \in Nat  BY BytesFinite
<1> QED  BY <1>2, <1>4, <1>5, <1>6, <1>7 DEF c

-----------------------------------------------------------------------------
(***************************************************************************)
(* The inductive invariant.                                                *)
(***************************************************************************)

\* The threads between their miss and the end of their promise.
Owners == {t \in Threads : pc[t] \in {"fetching", "publishing", "raising"}}

\* Generations are handed out in order, and a promise is pending until the
\* one thread that owns it settles it.
GenerationsInOrder ==
    /\ \A k \in Keys : blocks[k].generation <= next_generation
    /\ \A t \in Threads : my_generation[t] <= next_generation
    /\ \A g \in Generations : g > next_generation => future[g] = "pending"

OwnersApart ==
    /\ \A t \in Owners :
          /\ asked[t] \in Keys /\ my_generation[t] \in Generations
          /\ future[my_generation[t]] = "pending"
    /\ \A t, u \in Owners : my_generation[t] = my_generation[u] => t = u

\* No bytes are accounted for an entry before its fetch returned.
NothingBeforeFetch ==
    /\ \A k \in Keys : blocks[k].generation = 0 => blocks[k].bytes = 0
    /\ \A t \in Threads : pc[t] = "fetching" /\ OwnEntry(t) =>
                             blocks[asked[t]].bytes = 0

\* While nothing was wiped, a fetching thread's entry is in the map.
EntriesKept ==
    ~wiped => \A t \in Threads : pc[t] = "fetching" => OwnEntry(t)

IInv ==
    /\ TypeOK /\ AccountingExact
    /\ GenerationsInOrder /\ OwnersApart /\ NothingBeforeFetch /\ EntriesKept

\* EvictLocked erases some entries and keeps the account exact; unless it
\* records a wipe, none of them is in flight.
LEMMA EvictKeepsAccount ==
    ASSUME NEW b \in Blocks, NEW cached, cached = Size(b, Keys),
           wiped \in BOOLEAN, EvictLocked(b, cached)
    PROVE  /\ wiped' \in BOOLEAN /\ (wiped => wiped')
           /\ \E V \in SUBSET Keys :
                 /\ blocks' = Without(b, V) /\ blocks' \in Blocks
                 /\ cached_bytes' = Size(blocks', Keys) /\ cached_bytes' \in Nat
                 /\ ~wiped' => V \cap InFlight(b) = {}
<1>1. Size(b, Keys) \in Nat  BY BytesFinite
<1>2. CASE capacity_bytes' = 0
  <2>1. ClearBlocks(b)  BY <1>2 DEF EvictLocked
  <2>2. /\ blocks' = Without(b, Keys) /\ blocks' \in Blocks
        /\ Size(blocks', Keys) = Size(b, Keys) - Size(b, Keys)
    BY <2>1, SizeWithout DEF ClearBlocks
  <2>3. cached_bytes' = 0 /\ wiped' = (wiped \/ InFlight(b) # {})
    BY <2>1 DEF ClearBlocks
  <2>4. wiped' \in BOOLEAN /\ (wiped => wiped')  BY <2>3
  <2>5. ~wiped' => Keys \cap InFlight(b) = {}  BY <2>3
  <2>6. cached_bytes' = Size(blocks', Keys) /\ cached_bytes' \in Nat
    BY <1>1, <2>2, <2>3
  <2> QED  BY <2>2, <2>4, <2>5, <2>6
<1>3. CASE capacity_bytes' # 0
  <2> DEFINE V == Victims(b, cached)
  <2>1. V \in SUBSET Keys /\ V \cap InFlight(b) = {}
    BY DEF Victims, Ready, Present, InFlight
  <2>2. /\ blocks' = Without(b, V)
        /\ cached_bytes' = cached - Size(b, V)
        /\ wiped' = wiped
    BY <1>3 DEF EvictLocked
  <2> HIDE DEF V
  <2>3. /\ blocks' \in Blocks
        /\ Size(blocks', Keys) = Size(b, Keys) - Size(b, V)
    BY <2>1, <2>2, SizeWithout
  <2>4. cached_bytes' = Size(blocks', Keys)  BY <2>2, <2>3
  <2>5. cached_bytes' \in Nat  BY <2>3, <2>4, BytesFinite
  <2> QED  BY <2>1, <2>2, <2>3, <2>4, <2>5
<1> QED  BY <1>2, <1>3

THEOREM InitEstablishes == Init => IInv
<1> SUFFICES ASSUME Init PROVE IInv  OBVIOUS
<1> USE BlockCacheAssumption DEF Init
<1>1. NoEntry \in Entry /\ NoEntry.bytes = 0 /\ NoEntry.generation = 0
  BY DEF NoEntry, Entry
<1>2. TypeOK
  <2>1. blocks \in [Keys -> Entry]  BY <1>1
  <2>2. future \in [Generations -> {"pending", "value", "error"}]  OBVIOUS
  <2>3. /\ clock \in 0..MaxClock /\ next_generation \in 0..MaxFetches
        /\ my_generation \in [Threads -> 0..MaxFetches]
    OBVIOUS
  <2> QED  BY <2>1, <2>2, <2>3 DEF TypeOK
<1>3. AccountingExact
  <2>1. blocks \in Blocks  BY <1>1 DEF Blocks
  <2>2. \A k \in Keys : blocks[k].bytes = 0  BY <1>1
  <2> QED  BY <2>1, <2>2, SizeZero DEF AccountingExact
<1>4. GenerationsInOrder  BY <1>1 DEF GenerationsInOrder
<1>5. OwnersApart  BY DEF OwnersApart, Owners
<1>6. NothingBeforeFetch  BY <1>1 DEF NothingBeforeFetch
<1>7. EntriesKept  BY DEF EntriesKept
<1> QED  BY <1>2, <1>3, <1>4, <1>5, <1>6, <1>7 DEF IInv

-----------------------------------------------------------------------------
(***************************************************************************)
(* Steps that leave the map's bytes alone.                                 *)
(***************************************************************************)

\* A thread that finds the entry waits on its future.
LEMMA HitStep ==
    ASSUME IInv, NEW t \in Threads, NEW k \in Keys, Hit(t, k)
    PROVE  IInv'
<1> USE BlockCacheAssumption DEF IInv
<1>1. /\ blocks' = [blocks EXCEPT ![k].used_at = clock + 1]
      /\ clock' = clock + 1 /\ clock < MaxClock
      /\ pc' = [pc EXCEPT ![t] = "waiting"] /\ pc[t] = "idle"
      /\ asked' = [asked EXCEPT ![t] = k]
      /\ my_generation' = [my_generation EXCEPT ![t] = blocks[k].generation]
      /\ UNCHANGED <<capacity_bytes, cached_bytes, next_generation, future, wiped>>
  BY DEF Hit, Enter, Goto
<1>2. blocks[k] \in Entry  BY DEF TypeOK
<1>3. /\ blocks' \in Blocks
      /\ \A j \in Keys : /\ blocks'[j].bytes = blocks[j].bytes
                         /\ blocks'[j].generation = blocks[j].generation
  BY <1>1, <1>2 DEF TypeOK, Entry, Blocks
<1>4. TypeOK'
  <2>1. blocks' \in [Keys -> Entry]  BY <1>3 DEF Blocks
  <2>2. clock' \in 0..MaxClock /\ my_generation' \in [Threads -> 0..MaxFetches]
    BY <1>1, <1>2 DEF TypeOK, Entry
  <2> QED  BY <1>1, <2>1, <2>2 DEF TypeOK, Generations
<1>5. AccountingExact'
  BY <1>1, <1>3, SizeSame DEF AccountingExact, TypeOK, Blocks
<1>6. GenerationsInOrder'
  BY <1>1, <1>3 DEF GenerationsInOrder, TypeOK, Generations
<1>7. OwnersApart'  BY <1>1 DEF OwnersApart, Owners, TypeOK, Generations
<1>8. NothingBeforeFetch'
  BY <1>1, <1>3 DEF NothingBeforeFetch, OwnersApart, Owners, OwnEntry, TypeOK
<1>9. EntriesKept'
  BY <1>1, <1>3 DEF EntriesKept, OwnersApart, Owners, OwnEntry, TypeOK
<1> QED  BY <1>4, <1>5, <1>6, <1>7, <1>8, <1>9

\* A thread that misses inserts an empty entry of its own.
LEMMA MissStep ==
    ASSUME IInv, NEW t \in Threads, NEW k \in Keys, Miss(t, k)
    PROVE  IInv'
<1> USE BlockCacheAssumption DEF IInv
<1> DEFINE g == next_generation + 1
           e == [generation |-> g, bytes |-> 0, used_at |-> clock + 1]
<1>1. /\ blocks' = [blocks EXCEPT ![k] = e] /\ blocks[k].generation = 0
      /\ clock' = clock + 1 /\ clock < MaxClock
      /\ next_generation' = g /\ next_generation < MaxFetches
      /\ pc' = [pc EXCEPT ![t] = "fetching"] /\ pc[t] = "idle"
      /\ asked' = [asked EXCEPT ![t] = k]
      /\ my_generation' = [my_generation EXCEPT ![t] = g]
      /\ UNCHANGED <<capacity_bytes, cached_bytes, future, wiped>>
  BY DEF Miss, Enter, Goto, Present
<1>2. /\ g \in Generations /\ e \in Entry /\ e.bytes = 0 /\ e.generation = g
      /\ next_generation' \in 0..MaxFetches /\ next_generation \in Nat
  BY <1>1 DEF TypeOK, Entry, Generations
<1> HIDE DEF e
<1>3. /\ blocks' \in Blocks /\ blocks \in Blocks
      /\ \A j \in Keys \ {k} : blocks'[j] = blocks[j]
      /\ blocks'[k] = e
  BY <1>1, <1>2 DEF TypeOK, Blocks
<1>4. TypeOK'
  <2>1. blocks' \in [Keys -> Entry]  BY <1>3 DEF Blocks
  <2>2. clock' \in 0..MaxClock /\ my_generation' \in [Threads -> 0..MaxFetches]
    BY <1>1, <1>2 DEF TypeOK, Generations
  <2> QED  BY <1>1, <1>2, <2>1, <2>2 DEF TypeOK, Generations
<1>5. AccountingExact'
  <2>1. blocks[k].bytes = 0 /\ blocks'[k].bytes = 0
    BY <1>1, <1>2, <1>3 DEF NothingBeforeFetch
  <2>2. \A j \in Keys : blocks'[j].bytes = blocks[j].bytes  BY <1>3, <2>1
  <2>3. Size(blocks', Keys) = Size(blocks, Keys)  BY <1>3, <2>2, SizeSame
  <2> QED  BY <1>1, <2>3 DEF AccountingExact
<1>6. GenerationsInOrder'
  <2>1. \A j \in Keys : blocks[j].generation \in Nat  BY <1>3 DEF Blocks, Entry
  <2>2. \A u \in Threads : my_generation[u] \in Nat  BY DEF TypeOK
  <2> QED  BY <1>1, <1>2, <1>3, <2>1, <2>2 DEF GenerationsInOrder, TypeOK, Generations
<1>7. OwnersApart'
  <2>1. future[g] = "pending"  BY <1>2 DEF GenerationsInOrder
  <2>2. \A u \in Threads : my_generation[u] # g
    BY <1>2 DEF GenerationsInOrder, TypeOK
  <2>3. Owners' = Owners \cup {t} /\ t \notin Owners  BY <1>1 DEF Owners, TypeOK
  <2> QED  BY <1>1, <1>2, <2>1, <2>2, <2>3 DEF OwnersApart, Owners, TypeOK, Generations
<1>8. NothingBeforeFetch'
  <2>1. \A u \in Threads : my_generation[u] # g
    BY <1>2 DEF GenerationsInOrder, TypeOK
  <2> QED  BY <1>1, <1>2, <1>3, <2>1 DEF NothingBeforeFetch, OwnersApart, Owners, OwnEntry, TypeOK
<1>9. EntriesKept'
  <2> SUFFICES ASSUME ~wiped', NEW u \in Threads, pc'[u] = "fetching"
               PROVE  blocks'[asked'[u]].generation = my_generation'[u]
    BY DEF EntriesKept, OwnEntry
  <2>1. CASE u = t  BY <1>1, <1>2, <1>3, <2>1 DEF TypeOK
  <2>2. CASE u # t
    <3>1. pc[u] = "fetching" /\ OwnEntry(u)  BY <1>1, <2>2 DEF EntriesKept, TypeOK
    <3>2. asked[u] \in Keys /\ my_generation[u] \in Generations
      BY <3>1 DEF OwnersApart, Owners
    <3>3. asked[u] # k  BY <1>1, <3>1, <3>2 DEF OwnEntry, Generations
    <3> QED  BY <1>1, <1>3, <2>2, <3>1, <3>2, <3>3 DEF OwnEntry, TypeOK
  <2> QED  BY <2>1, <2>2
<1> QED  BY <1>4, <1>5, <1>6, <1>7, <1>8, <1>9

-----------------------------------------------------------------------------
(***************************************************************************)
(* Steps that settle a promise or return.                                  *)
(***************************************************************************)

\* The owner settles its promise and returns; no other thread owns it.
LEMMA SettleStep ==
    ASSUME IInv, NEW t \in Threads, SetValue(t) \/ SetException(t)
    PROVE  IInv'
<1> USE BlockCacheAssumption DEF IInv
<1>1. PICK v \in {"value", "error"} : future' = [future EXCEPT ![my_generation[t]] = v]
  BY DEF SetValue, SetException
<1>2. /\ pc[t] \in {"publishing", "raising"} /\ pc' = [pc EXCEPT ![t] = "idle"]
      /\ asked' = [asked EXCEPT ![t] = NoKey]
      /\ my_generation' = [my_generation EXCEPT ![t] = 0]
      /\ UNCHANGED <<blocks, capacity_bytes, cached_bytes, clock, next_generation, wiped>>
  BY DEF SetValue, SetException, Return, Enter, Goto, cacheVars
<1>3. t \in Owners /\ Owners' = Owners \ {t}  BY <1>2 DEF Owners, TypeOK
<1>4. TypeOK'
  <2>1. future' \in [Generations -> {"pending", "value", "error"}]
    BY <1>1 DEF TypeOK
  <2> QED  BY <1>2, <2>1 DEF TypeOK, Generations
<1>5. AccountingExact'  BY <1>2 DEF AccountingExact, Size, BytesOf
<1>6. GenerationsInOrder'
  <2>1. my_generation[t] <= next_generation /\ my_generation[t] \in Nat
    BY DEF GenerationsInOrder, TypeOK
  <2>2. \A g \in Generations : g > next_generation => g # my_generation[t]
    BY <2>1 DEF Generations, TypeOK
  <2> QED  BY <1>1, <1>2, <2>2 DEF GenerationsInOrder, TypeOK, Generations
<1>7. OwnersApart'
  <2> SUFFICES ASSUME NEW u \in Owners'
               PROVE  /\ asked'[u] \in Keys /\ my_generation'[u] \in Generations
                      /\ future'[my_generation'[u]] = "pending"
                      /\ \A w \in Owners' : my_generation'[u] = my_generation'[w] => u = w
    BY DEF OwnersApart
  <2>1. u \in Owners /\ u # t  BY <1>3
  <2>2. my_generation[u] # my_generation[t]  BY <1>3, <2>1 DEF OwnersApart
  <2> QED  BY <1>1, <1>2, <1>3, <2>1, <2>2 DEF OwnersApart, Owners, TypeOK
<1>8. NothingBeforeFetch'
  BY <1>2 DEF NothingBeforeFetch, OwnEntry, TypeOK
<1>9. EntriesKept'  BY <1>2 DEF EntriesKept, OwnEntry, TypeOK
<1> QED  BY <1>4, <1>5, <1>6, <1>7, <1>8, <1>9

\* A waiter returns with what the future holds.
LEMMA FutureGetStep ==
    ASSUME IInv, NEW t \in Threads, FutureGet(t)
    PROVE  IInv'
<1> USE BlockCacheAssumption DEF IInv
<1>1. /\ pc[t] = "waiting" /\ pc' = [pc EXCEPT ![t] = "idle"]
      /\ asked' = [asked EXCEPT ![t] = NoKey]
      /\ my_generation' = [my_generation EXCEPT ![t] = 0]
      /\ UNCHANGED <<blocks, capacity_bytes, cached_bytes, clock, next_generation,
                     future, wiped>>
  BY DEF FutureGet, Return, Enter, Goto, cacheVars
<1>2. Owners' = Owners /\ t \notin Owners  BY <1>1 DEF Owners, TypeOK
<1>3. TypeOK'  BY <1>1 DEF TypeOK, Generations
<1>4. AccountingExact'  BY <1>1 DEF AccountingExact, Size, BytesOf
<1>5. GenerationsInOrder'  BY <1>1 DEF GenerationsInOrder, TypeOK, Generations
<1>6. OwnersApart'  BY <1>1, <1>2 DEF OwnersApart, TypeOK, Owners, Generations
<1>7. NothingBeforeFetch'  BY <1>1 DEF NothingBeforeFetch, OwnEntry, TypeOK
<1>8. EntriesKept'  BY <1>1 DEF EntriesKept, OwnEntry, TypeOK
<1> QED  BY <1>3, <1>4, <1>5, <1>6, <1>7, <1>8

-----------------------------------------------------------------------------
(***************************************************************************)
(* Steps that erase entries.                                               *)
(***************************************************************************)

\* Erasing the entries V of b, which differs from the map only in the bytes
\* of the thread that is done fetching.
LEMMA ErasureStep ==
    ASSUME IInv, NEW V \in SUBSET Keys, NEW b \in Blocks,
           \A k \in Keys : b[k].generation = blocks[k].generation,
           \A k \in Keys : b[k].generation = 0 => b[k].bytes = 0,
           blocks' = Without(b, V), blocks' \in Blocks,
           cached_bytes' = Size(blocks', Keys), cached_bytes' \in Nat,
           capacity_bytes' \in Nat,
           wiped' \in BOOLEAN, wiped => wiped',
           ~wiped' => \A t \in Threads : pc'[t] = "fetching" => asked[t] \notin V,
           UNCHANGED <<clock, next_generation, future, asked, my_generation>>,
           pc' \in [Threads -> {"idle", "fetching", "publishing", "raising", "waiting"}],
           Owners' \subseteq Owners,
           \A t \in Threads : pc'[t] = "fetching" =>
               /\ pc[t] = "fetching"
               /\ OwnEntry(t) => b[asked[t]].bytes = 0
    PROVE  IInv'
<1> USE BlockCacheAssumption DEF IInv
<1>1. NoEntry.generation = 0 /\ NoEntry.bytes = 0  BY DEF NoEntry
<1>2. \A k \in Keys : blocks'[k] = IF k \in V THEN NoEntry ELSE b[k]
  BY DEF Without
<1>3. TypeOK'  BY DEF TypeOK, Blocks, Generations
<1>4. AccountingExact'  BY DEF AccountingExact
<1>5. GenerationsInOrder'
  <2>1. \A k \in Keys : blocks'[k].generation \in {0, blocks[k].generation}
    BY <1>1, <1>2
  <2> QED  BY <2>1 DEF GenerationsInOrder, TypeOK, Generations
<1>6. OwnersApart'  BY DEF OwnersApart, Generations
<1>7. NothingBeforeFetch'
  <2>1. \A k \in Keys : blocks'[k].generation = 0 => blocks'[k].bytes = 0
    BY <1>1, <1>2
  <2>2. ASSUME NEW t \in Threads, pc'[t] = "fetching", OwnEntry(t)'
        PROVE  blocks'[asked[t]].bytes = 0
    <3>1. pc[t] = "fetching" /\ asked[t] \in Keys /\ my_generation[t] \in Generations
      BY <2>2 DEF OwnersApart, Owners
    <3>2. asked[t] \notin V
      BY <1>1, <1>2, <2>2, <3>1 DEF OwnEntry, Generations
    <3>3. blocks'[asked[t]] = b[asked[t]]  BY <1>2, <3>1, <3>2
    <3>4. OwnEntry(t)  BY <2>2, <3>1, <3>3 DEF OwnEntry
    <3> QED  BY <2>2, <3>3, <3>4
  <2> QED  BY <2>1, <2>2 DEF NothingBeforeFetch
<1>8. EntriesKept'
  <2> SUFFICES ASSUME ~wiped', NEW t \in Threads, pc'[t] = "fetching"
               PROVE  OwnEntry(t)'
    BY DEF EntriesKept
  <2>1. OwnEntry(t) /\ asked[t] \in Keys /\ asked[t] \notin V
    BY DEF EntriesKept, OwnersApart, Owners
  <2>2. blocks'[asked[t]].generation = blocks[asked[t]].generation  BY <1>2, <2>1
  <2> QED  BY <2>1, <2>2 DEF OwnEntry
<1> QED  BY <1>3, <1>4, <1>5, <1>6, <1>7, <1>8

\* A fetching thread that finds its own entry has it in flight.
LEMMA FetchingInFlight ==
    ASSUME IInv, NEW b \in Blocks,
           \A k \in Keys : b[k].generation = blocks[k].generation,
           NEW t \in Threads, pc[t] = "fetching", OwnEntry(t)
    PROVE  asked[t] \in InFlight(b)
<1>1. /\ asked[t] \in Keys /\ my_generation[t] \in Generations
      /\ future[my_generation[t]] = "pending"
  BY DEF IInv, OwnersApart, Owners
<1>2. b[asked[t]].generation = my_generation[t]  BY <1>1 DEF OwnEntry
<1> QED  BY <1>1, <1>2, BlockCacheAssumption DEF InFlight, Present, Ready, Generations

\* An eviction outside any fetch: SetCapacity, and Clear as the wipe it is.
LEMMA SetCapacityStep ==
    ASSUME IInv, NEW bytes \in Capacities, SetCapacity(bytes)
    PROVE  IInv'
<1>1. /\ capacity_bytes' \in Nat
      /\ EvictLocked(blocks, cached_bytes)
      /\ UNCHANGED <<clock, next_generation, future, pc, asked, my_generation>>
  BY BlockCacheAssumption DEF SetCapacity, threadVars
<1>2. /\ blocks \in Blocks /\ wiped \in BOOLEAN
      /\ cached_bytes = Size(blocks, Keys)
      /\ \A k \in Keys : blocks[k].generation = 0 => blocks[k].bytes = 0
  BY DEF IInv, TypeOK, Blocks, AccountingExact, NothingBeforeFetch
<1>3. wiped' \in BOOLEAN /\ (wiped => wiped')
  BY <1>1, <1>2, EvictKeepsAccount
<1>4. PICK V \in SUBSET Keys :
        /\ blocks' = Without(blocks, V) /\ blocks' \in Blocks
        /\ cached_bytes' = Size(blocks', Keys) /\ cached_bytes' \in Nat
        /\ ~wiped' => V \cap InFlight(blocks) = {}
  BY <1>1, <1>2, EvictKeepsAccount
<1>5. /\ pc' \in [Threads -> {"idle", "fetching", "publishing", "raising", "waiting"}]
      /\ Owners' = Owners
  BY <1>1 DEF IInv, TypeOK, Owners
<1>6. ~wiped' => \A t \in Threads : pc'[t] = "fetching" => asked[t] \notin V
  <2> SUFFICES ASSUME ~wiped', NEW t \in Threads, pc'[t] = "fetching"
               PROVE  asked[t] \notin V
    OBVIOUS
  <2>1. OwnEntry(t)  BY <1>1, <1>3 DEF IInv, EntriesKept
  <2>2. asked[t] \in InFlight(blocks)  BY <1>1, <1>2, <2>1, FetchingInFlight
  <2> QED  BY <1>4, <2>2
<1>7. \A t \in Threads : pc'[t] = "fetching" =>
        pc[t] = "fetching" /\ (OwnEntry(t) => blocks[asked[t]].bytes = 0)
  BY <1>1 DEF IInv, NothingBeforeFetch
<1> QED  BY <1>1, <1>2, <1>3, <1>4, <1>5, <1>6, <1>7, ErasureStep

LEMMA ClearStep ==
    ASSUME IInv, Clear
    PROVE  IInv'
<1>1. /\ blocks' = Without(blocks, Keys) /\ cached_bytes' = 0
      /\ wiped' = (wiped \/ InFlight(blocks) # {})
      /\ UNCHANGED <<capacity_bytes, clock, next_generation, future, pc, asked,
                     my_generation>>
  BY DEF Clear, ClearBlocks, threadVars
<1>2. /\ blocks \in Blocks /\ wiped \in BOOLEAN /\ capacity_bytes \in Nat
      /\ \A k \in Keys : blocks[k].generation = 0 => blocks[k].bytes = 0
  BY DEF IInv, TypeOK, Blocks, NothingBeforeFetch
<1>3. blocks' \in Blocks /\ Size(blocks', Keys) = 0
  <2>1. /\ blocks' \in Blocks
        /\ Size(blocks', Keys) = Size(blocks, Keys) - Size(blocks, Keys)
    BY <1>1, <1>2, SizeWithout
  <2>2. Size(blocks, Keys) \in Nat  BY <1>2, BytesFinite
  <2> QED  BY <2>1, <2>2
<1>4. /\ pc' \in [Threads -> {"idle", "fetching", "publishing", "raising", "waiting"}]
      /\ Owners' = Owners
  BY <1>1 DEF IInv, TypeOK, Owners
<1>5. ~wiped' => \A t \in Threads : pc'[t] = "fetching" => asked[t] \notin Keys
  <2> SUFFICES ASSUME ~wiped', NEW t \in Threads, pc'[t] = "fetching"
               PROVE  FALSE
    OBVIOUS
  <2>1. ~wiped /\ pc[t] = "fetching"  BY <1>1, <1>2
  <2>2. OwnEntry(t)  BY <2>1 DEF IInv, EntriesKept
  <2>3. asked[t] \in InFlight(blocks)  BY <1>2, <2>1, <2>2, FetchingInFlight
  <2> QED  BY <1>1, <2>3
<1>6. \A t \in Threads : pc'[t] = "fetching" =>
        pc[t] = "fetching" /\ (OwnEntry(t) => blocks[asked[t]].bytes = 0)
  BY <1>1 DEF IInv, NothingBeforeFetch
<1>7. cached_bytes' = Size(blocks', Keys) /\ cached_bytes' \in Nat  BY <1>1, <1>3
<1>8. wiped' \in BOOLEAN /\ (wiped => wiped') /\ capacity_bytes' \in Nat
  BY <1>1, <1>2
<1> QED  BY <1>1, <1>2, <1>3, <1>4, <1>5, <1>6, <1>7, <1>8, ErasureStep

\* A fetch that returns accounts for its own entry only, then evicts.
LEMMA FetchSucceedsStep ==
    ASSUME IInv, NEW t \in Threads, FetchSucceeds(t)
    PROVE  IInv'
<1> DEFINE at == asked[t]
           own == OwnEntry(t)
           with(size) == [blocks EXCEPT ![at].bytes = size]
<1>1. /\ pc[t] = "fetching" /\ pc' = [pc EXCEPT ![t] = "publishing"]
      /\ UNCHANGED <<capacity_bytes, clock, next_generation, future, asked,
                     my_generation>>
  BY DEF FetchSucceeds, Goto
<1>2. PICK size \in Sizes :
        IF own THEN EvictLocked(with(size), cached_bytes + size)
               ELSE EvictLocked(blocks, cached_bytes)
  BY DEF FetchSucceeds
<1>3. /\ blocks \in Blocks /\ wiped \in BOOLEAN /\ capacity_bytes \in Nat
      /\ cached_bytes = Size(blocks, Keys) /\ cached_bytes \in Nat
      /\ \A k \in Keys : blocks[k].generation = 0 => blocks[k].bytes = 0
      /\ pc \in [Threads -> {"idle", "fetching", "publishing", "raising", "waiting"}]
  BY DEF IInv, TypeOK, Blocks, AccountingExact, NothingBeforeFetch
<1>4. /\ at \in Keys /\ my_generation[t] \in Generations /\ size \in Nat
      /\ own => blocks[at].bytes = 0
  BY <1>1, BlockCacheAssumption DEF IInv, OwnersApart, Owners, NothingBeforeFetch
<1> DEFINE b == IF own THEN with(size) ELSE blocks
           cached == IF own THEN cached_bytes + size ELSE cached_bytes
<1>5. /\ b \in Blocks
      /\ \A k \in Keys : b[k].generation = blocks[k].generation
      /\ \A k \in Keys : k # at => b[k].bytes = blocks[k].bytes
      /\ own => b[at].bytes = size
      /\ ~own => b = blocks
  BY <1>3, <1>4 DEF Blocks, Entry
<1>6. EvictLocked(b, cached)  BY <1>2
<1> HIDE DEF b
<1>7. cached = Size(b, Keys)
  <2>1. CASE own
    <3>1. Size(b, Keys) = Size(blocks, Keys) - blocks[at].bytes + b[at].bytes
      BY <1>3, <1>4, <1>5, SizeUpdate
    <3> QED  BY <1>3, <1>4, <1>5, <2>1, <3>1
  <2>2. CASE ~own  BY <1>3, <1>5, <2>2
  <2> QED  BY <2>1, <2>2
<1>8. \A k \in Keys : b[k].generation = 0 => b[k].bytes = 0
  <2>1. own => b[at].generation # 0
    BY <1>4, <1>5, BlockCacheAssumption DEF OwnEntry, Generations
  <2> QED  BY <1>3, <1>5, <2>1
<1> HIDE DEF cached, own, at, with
<1>9. wiped' \in BOOLEAN /\ (wiped => wiped')
  BY <1>3, <1>5, <1>6, <1>7, EvictKeepsAccount
<1>10. PICK V \in SUBSET Keys :
        /\ blocks' = Without(b, V) /\ blocks' \in Blocks
        /\ cached_bytes' = Size(blocks', Keys) /\ cached_bytes' \in Nat
        /\ ~wiped' => V \cap InFlight(b) = {}
  BY <1>3, <1>5, <1>6, <1>7, EvictKeepsAccount
<1>11. /\ pc' \in [Threads -> {"idle", "fetching", "publishing", "raising", "waiting"}]
       /\ Owners' = Owners
       /\ \A u \in Threads : pc'[u] = "fetching" => pc[u] = "fetching" /\ u # t
  BY <1>1, <1>3 DEF Owners
<1>12. ~wiped' => \A u \in Threads : pc'[u] = "fetching" => asked[u] \notin V
  <2> SUFFICES ASSUME ~wiped', NEW u \in Threads, pc'[u] = "fetching"
               PROVE  asked[u] \notin V
    OBVIOUS
  <2>1. pc[u] = "fetching" /\ OwnEntry(u)  BY <1>9, <1>11 DEF IInv, EntriesKept
  <2>2. asked[u] \in InFlight(b)  BY <1>5, <2>1, FetchingInFlight
  <2> QED  BY <1>10, <2>2
<1>13. \A u \in Threads : pc'[u] = "fetching" =>
         pc[u] = "fetching" /\ (OwnEntry(u) => b[asked[u]].bytes = 0)
  <2> SUFFICES ASSUME NEW u \in Threads, pc'[u] = "fetching"
               PROVE  pc[u] = "fetching" /\ (OwnEntry(u) => b[asked[u]].bytes = 0)
    OBVIOUS
  <2>1. pc[u] = "fetching" /\ u # t  BY <1>11
  <2>2. asked[u] \in Keys /\ my_generation[u] # my_generation[t]
    BY <1>1, <2>1 DEF IInv, OwnersApart, Owners
  <2>3. OwnEntry(u) => blocks[asked[u]].bytes = 0
    BY <2>1 DEF IInv, NothingBeforeFetch
  <2>4. CASE own /\ asked[u] = at
    BY <2>1, <2>2, <2>4 DEF OwnEntry, own, at
  <2>5. CASE ~own \/ asked[u] # at  BY <1>5, <2>1, <2>2, <2>3, <2>5
  <2> QED  BY <2>4, <2>5
<1>14. capacity_bytes' \in Nat  BY <1>1, <1>3
<1> QED
  BY <1>1, <1>5, <1>8, <1>9, <1>10, <1>11, <1>12, <1>13, <1>14, ErasureStep

\* A fetch that throws takes away its own entry only.
LEMMA FetchFailsStep ==
    ASSUME IInv, NEW t \in Threads, FetchFails(t)
    PROVE  IInv'
<1> DEFINE V == IF OwnEntry(t) THEN {asked[t]} ELSE {}
<1>1. /\ pc[t] = "fetching" /\ pc' = [pc EXCEPT ![t] = "raising"]
      /\ UNCHANGED <<capacity_bytes, clock, next_generation, future, asked,
                     my_generation, wiped>>
  BY DEF FetchFails, Goto
<1>2. /\ blocks \in Blocks /\ wiped \in BOOLEAN /\ capacity_bytes \in Nat
      /\ cached_bytes = Size(blocks, Keys) /\ cached_bytes \in Nat
      /\ \A k \in Keys : blocks[k].generation = 0 => blocks[k].bytes = 0
      /\ pc \in [Threads -> {"idle", "fetching", "publishing", "raising", "waiting"}]
  BY DEF IInv, TypeOK, Blocks, AccountingExact, NothingBeforeFetch
<1>3. asked[t] \in Keys /\ (OwnEntry(t) => blocks[asked[t]].bytes = 0)
  BY <1>1 DEF IInv, OwnersApart, Owners, NothingBeforeFetch
<1>4. V \in SUBSET Keys /\ blocks' = Without(blocks, V)
      /\ cached_bytes' = cached_bytes
  <2>1. CASE OwnEntry(t)
    <3>1. /\ blocks' = [blocks EXCEPT ![asked[t]] = NoEntry]
          /\ cached_bytes' = cached_bytes - blocks[asked[t]].bytes
      BY <2>1 DEF FetchFails
    <3>2. Without(blocks, {asked[t]}) = [blocks EXCEPT ![asked[t]] = NoEntry]
      BY <1>2 DEF Without, Blocks
    <3>3. cached_bytes' = cached_bytes  BY <1>2, <1>3, <2>1, <3>1
    <3> QED  BY <1>3, <2>1, <3>1, <3>2, <3>3
  <2>2. CASE ~OwnEntry(t)
    <3>1. UNCHANGED <<blocks, cached_bytes>>  BY <2>2 DEF FetchFails
    <3>2. Without(blocks, {}) = blocks  BY <1>2 DEF Without, Blocks
    <3> QED  BY <2>2, <3>1, <3>2
  <2> QED  BY <2>1, <2>2
<1>5. /\ blocks' \in Blocks
      /\ cached_bytes' = Size(blocks', Keys) /\ cached_bytes' \in Nat
  <2>1. /\ blocks' \in Blocks
        /\ Size(blocks', Keys) = Size(blocks, Keys) - Size(blocks, V)
    BY <1>2, <1>4, SizeWithout
  <2>2. \A k \in V : blocks[k].bytes = 0  BY <1>3
  <2>3. Size(blocks, V) = 0  BY <1>2, <1>4, <2>2, SizeZero
  <2> QED  BY <1>2, <1>4, <2>1, <2>3
<1>6. /\ pc' \in [Threads -> {"idle", "fetching", "publishing", "raising", "waiting"}]
      /\ Owners' = Owners
      /\ \A u \in Threads : pc'[u] = "fetching" => pc[u] = "fetching" /\ u # t
  BY <1>1, <1>2 DEF Owners
<1>7. ~wiped' => \A u \in Threads : pc'[u] = "fetching" => asked[u] \notin V
  <2> SUFFICES ASSUME ~wiped', NEW u \in Threads, pc'[u] = "fetching", asked[u] \in V
               PROVE  FALSE
    OBVIOUS
  <2>1. pc[u] = "fetching" /\ u # t /\ OwnEntry(u)
    BY <1>1, <1>6 DEF IInv, EntriesKept
  <2>2. OwnEntry(t) /\ asked[u] = asked[t]  OBVIOUS
  <2>3. my_generation[u] = my_generation[t]  BY <2>1, <2>2 DEF OwnEntry
  <2> QED  BY <1>1, <2>1, <2>3 DEF IInv, OwnersApart, Owners
<1>8. \A u \in Threads : pc'[u] = "fetching" =>
        pc[u] = "fetching" /\ (OwnEntry(u) => blocks[asked[u]].bytes = 0)
  BY <1>6 DEF IInv, NothingBeforeFetch
<1> HIDE DEF V
<1> QED  BY <1>1, <1>2, <1>4, <1>5, <1>6, <1>7, <1>8, ErasureStep

-----------------------------------------------------------------------------
(***************************************************************************)
(* Theorems.                                                               *)
(***************************************************************************)

\* Every step of the cache keeps the inductive invariant.
THEOREM StepPreserves == IInv /\ [Next]_vars => IInv'
<1> SUFFICES ASSUME IInv, [Next]_vars PROVE IInv'  OBVIOUS
<1>1. CASE \E t \in Threads, k \in Keys : Hit(t, k)  BY <1>1, HitStep
<1>2. CASE \E t \in Threads, k \in Keys : Miss(t, k)  BY <1>2, MissStep
<1>3. CASE \E t \in Threads : FetchSucceeds(t)  BY <1>3, FetchSucceedsStep
<1>4. CASE \E t \in Threads : FetchFails(t)  BY <1>4, FetchFailsStep
<1>5. CASE \E t \in Threads : SetValue(t) \/ SetException(t)  BY <1>5, SettleStep
<1>6. CASE \E t \in Threads : FutureGet(t)  BY <1>6, FutureGetStep
<1>7. CASE \E bytes \in Capacities : SetCapacity(bytes)  BY <1>7, SetCapacityStep
<1>8. CASE Clear  BY <1>8, ClearStep
<1>9. CASE UNCHANGED vars
  <2> USE <1>9 DEF vars, cacheVars, threadVars
  <2>1. TypeOK' /\ AccountingExact'
    BY DEF IInv, TypeOK, AccountingExact, Size, BytesOf
  <2>2. GenerationsInOrder' /\ OwnersApart'
    BY DEF IInv, GenerationsInOrder, OwnersApart, Owners
  <2>3. NothingBeforeFetch' /\ EntriesKept'
    BY DEF IInv, NothingBeforeFetch, EntriesKept, OwnEntry
  <2> QED  BY <2>1, <2>2, <2>3 DEF IInv
<1> QED
  BY <1>1, <1>2, <1>3, <1>4, <1>5, <1>6, <1>7, <1>8, <1>9 DEF Next, Ask, Proceed

\* The cache is always as its types say (GDriveBlockCache's members).
THEOREM BlockCacheTypeCorrect == Spec => []TypeOK
<1>1. IInv => TypeOK  BY DEF IInv
<1> QED  BY <1>1, InitEstablishes, StepPreserves, PTL DEF Spec

\* cached_bytes is the bytes of the map's entries, for any interleaving of
\* fetches, failures, evictions and clears (Entry::generation).
THEOREM BlockCacheAccountingExact == Spec => []AccountingExact
<1>1. IInv => AccountingExact  BY DEF IInv
<1> QED  BY <1>1, InitEstablishes, StepPreserves, PTL DEF Spec

\* While no wipe met a running fetch, one thread at a time fetches a block
\* (EvictLocked leaves entries in flight, GetBlock publishes its future first).
THEOREM BlockCacheSingleFlight == Spec => []SingleFlight
<1>1. IInv => SingleFlight
  <2> SUFFICES ASSUME IInv, ~wiped, NEW t \in Threads, NEW u \in Threads,
                      pc[t] = "fetching", pc[u] = "fetching", asked[t] = asked[u]
               PROVE  t = u
    BY DEF SingleFlight
  <2>1. my_generation[t] = my_generation[u]  BY DEF IInv, EntriesKept, OwnEntry
  <2> QED  BY <2>1 DEF IInv, OwnersApart, Owners
<1> QED  BY <1>1, InitEstablishes, StepPreserves, PTL DEF Spec
-----------------------------------------------------------------------------
(***************************************************************************)
(* How far the cache may outgrow its capacity.                             *)
(***************************************************************************)

\* Every entry in flight is that of a thread which has yet to settle it.
InFlightOwned ==
    \A k \in InFlight(blocks) :
        \E t \in Owners : asked[t] = k /\ my_generation[t] = blocks[k].generation

BInv == IInv /\ InFlightOwned /\ OverCapacityBounded

LessOnNat == {p \in Nat \X Nat : p[1] < p[2]}

\* A set of natural numbers has a least one.
LEMMA LeastNatural ==
    ASSUME NEW S \in SUBSET Nat, S # {}
    PROVE  \E m \in S : \A n \in S : m <= n
<1>1. IsWellFoundedOn(LessOnNat, Nat)
  BY NatLessThanWellFounded DEF OpToRel, LessOnNat
<1>2. PICK m \in S : \A n \in S : <<n, m>> \notin LessOnNat  BY <1>1, WFMin
<1>3. \A n \in S : ~(n < m)
  <2> TAKE n \in S
  <2>1. n \in Nat /\ m \in Nat  OBVIOUS
  <2>2. n < m => <<n, m>> \in LessOnNat  BY <2>1 DEF LessOnNat
  <2> QED  BY <1>2, <2>2
<1>4. \A n \in S : m <= n
  <2> TAKE n \in S
  <2>1. n \in Nat /\ m \in Nat /\ ~(n < m)  BY <1>3
  <2> QED  BY <2>1
<1> QED  BY <1>2, <1>4

\* After an eviction the bytes fit, or all that holds bytes is in flight: the
\* least recently used ready entry would have been a victim.
LEMMA EvictLeavesInFlight ==
    ASSUME NEW b \in Blocks, NEW cached, cached = Size(b, Keys),
           capacity_bytes' \in Nat, EvictLocked(b, cached),
           \A k \in Keys : b[k].generation = 0 => b[k].bytes = 0,
           ~(cached_bytes' <= capacity_bytes'),
           NEW k \in Keys, blocks'[k].bytes > 0
    PROVE  k \in InFlight(b)
<1>1. capacity_bytes' # 0
  <2> SUFFICES ASSUME capacity_bytes' = 0 PROVE FALSE  OBVIOUS
  <2>1. cached_bytes' = 0  BY DEF EvictLocked, ClearBlocks
  <2> QED  BY <2>1
<1>2. PICK V : V = Victims(b, cached)  OBVIOUS
<1>3. /\ blocks' = Without(b, V) /\ cached_bytes' = cached - Size(b, V)
  BY <1>1, <1>2 DEF EvictLocked
<1>4. PICK c : c = capacity_bytes'  OBVIOUS
<1>5. /\ V = {j \in Ready(b) :
               cached - Size(b, {i \in Ready(b) : b[i].used_at < b[j].used_at}) > c}
      /\ c \in Nat
  BY <1>2, <1>4 DEF Victims
<1>6. ~(cached - Size(b, V) <= c)  BY <1>3, <1>4
<1>7. Ready(b) \in SUBSET Keys /\ V \in SUBSET Ready(b)
  BY <1>5 DEF Ready, Present
<1>8. SUFFICES ASSUME k \notin InFlight(b) PROVE FALSE  OBVIOUS
<1>9. k \notin V /\ b[k].bytes > 0
  <2>1. blocks'[k] = IF k \in V THEN NoEntry ELSE b[k]  BY <1>3 DEF Without
  <2>2. NoEntry.bytes = 0  BY DEF NoEntry
  <2> QED  BY <2>1, <2>2
<1>10. k \in Ready(b)
  <2>1. b[k].generation # 0  BY <1>9
  <2> QED  BY <1>8, <2>1 DEF InFlight, Present
<1> DEFINE U == {b[j].used_at : j \in Ready(b) \ V}
<1>11. U \in SUBSET Nat
  BY <1>7, BlockCacheAssumption DEF Blocks, Entry
<1>12. PICK m \in U : \A n \in U : m <= n
  <2>1. U # {}  BY <1>9, <1>10
  <2> HIDE DEF U
  <2> QED  BY <1>11, <2>1, LeastNatural
<1>13. PICK j \in Ready(b) \ V : b[j].used_at = m  OBVIOUS
<1>14. PICK W : W = {i \in Ready(b) : b[i].used_at < b[j].used_at}  OBVIOUS
<1>15. W \in SUBSET V
  <2> SUFFICES ASSUME NEW i \in W, i \notin V PROVE FALSE  BY <1>14
  <2>1. i \in Ready(b) \ V /\ b[i].used_at < m  BY <1>13, <1>14
  <2>2. b[i].used_at \in U  BY <2>1
  <2>3. m <= b[i].used_at /\ m \in Nat /\ b[i].used_at \in Nat
    BY <1>11, <1>12, <2>2
  <2> QED  BY <2>1, <2>3
<1>16. /\ Size(b, V) = Size(b, W) + Size(b, V \ W)
       /\ Size(b, V) \in Nat /\ Size(b, W) \in Nat /\ Size(b, V \ W) \in Nat
       /\ cached \in Nat
  <2>1. V \in SUBSET Keys /\ W \in SUBSET Keys /\ V \ W \in SUBSET Keys
    BY <1>7, <1>15
  <2>2. Size(b, V) = Size(b, W) + Size(b, V \ W)  BY <1>15, <2>1, SizeSplit
  <2>3. /\ Size(b, V) \in Nat /\ Size(b, W) \in Nat /\ Size(b, V \ W) \in Nat
        /\ Size(b, Keys) \in Nat
    BY <2>1, BytesFinite
  <2> QED  BY <2>2, <2>3
<1>17. cached - Size(b, W) > c  BY <1>5, <1>6, <1>16
<1>18. j \in V  BY <1>5, <1>13, <1>14, <1>17
<1> QED  BY <1>13, <1>18

\* Keys that different threads asked for are no more than the threads.
LEMMA FewAsked ==
    ASSUME NEW S \in SUBSET Keys, NEW who \in [S -> Threads],
           \A j, k \in S : who[j] = who[k] => j = k
    PROVE  Cardinality(S) <= Cardinality(Threads)
<1>1. who \in Injection(S, Threads)  BY DEF Injection, IsInjective
<1> QED  BY <1>1, BlockCacheAssumption, FS_Injection

\* Entries in flight are no more than the threads.
LEMMA InFlightFew ==
    ASSUME InFlightOwned, NEW S \in SUBSET InFlight(blocks)
    PROVE  Cardinality(S) <= Cardinality(Threads)
<1> DEFINE who == [k \in S |-> CHOOSE t \in Owners : asked[t] = k]
<1>1. \A k \in S : who[k] \in Owners /\ asked[who[k]] = k  BY DEF InFlightOwned
<1>2. S \in SUBSET Keys  BY DEF InFlight, Present
<1>3. who \in [S -> Threads]  BY <1>1 DEF Owners
<1>4. \A j, k \in S : who[j] = who[k] => j = k  BY <1>1
<1> HIDE DEF who
<1> QED  BY <1>2, <1>3, <1>4, FewAsked

\* An eviction restores the bound, given who owns what it left in flight.
LEMMA EvictBounds ==
    ASSUME NEW b \in Blocks, NEW cached, cached = Size(b, Keys),
           capacity_bytes' \in Nat, EvictLocked(b, cached),
           \A k \in Keys : b[k].generation = 0 => b[k].bytes = 0,
           \A k \in Keys : b[k].generation = blocks[k].generation,
           InFlightOwned
    PROVE  OverCapacityBounded'
<1>1. SUFFICES ASSUME ~(cached_bytes' <= capacity_bytes')
               PROVE  Cardinality({k \in Keys : blocks'[k].bytes > 0})
                        <= Cardinality(Threads)
  BY DEF OverCapacityBounded
<1>2. PICK S : S = {k \in Keys : blocks'[k].bytes > 0}  OBVIOUS
<1>3. S \in SUBSET InFlight(b)  BY <1>1, <1>2, EvictLeavesInFlight
<1>4. InFlight(b) = InFlight(blocks)  BY DEF InFlight, Present, Ready
<1> QED  BY <1>2, <1>3, <1>4, InFlightFew

\* Where no bytes appear and the totals stay, the bound stays.
LEMMA BoundKept ==
    ASSUME OverCapacityBounded,
           \A k \in Keys : blocks'[k].bytes > 0 => blocks[k].bytes > 0,
           cached_bytes' = cached_bytes, capacity_bytes' = capacity_bytes
    PROVE  OverCapacityBounded'
<1>1. PICK S : S = {k \in Keys : blocks[k].bytes > 0}  OBVIOUS
<1>2. PICK R : R = {k \in Keys : blocks'[k].bytes > 0}  OBVIOUS
<1>3. R \in SUBSET S /\ S \in SUBSET Keys  BY <1>1, <1>2
<1>4. IsFiniteSet(S)  BY <1>3, BlockCacheAssumption, FS_Subset
<1>5. IsFiniteSet(R) /\ Cardinality(R) <= Cardinality(S)  BY <1>3, <1>4, FS_Subset
<1>6. /\ Cardinality(R) \in Nat /\ Cardinality(S) \in Nat
      /\ Cardinality(Threads) \in Nat
  BY <1>4, <1>5, BlockCacheAssumption, FS_CardinalityType
<1>7. CASE cached_bytes <= capacity_bytes  BY <1>7 DEF OverCapacityBounded
<1>8. CASE Cardinality(S) <= Cardinality(Threads)
  <2>1. Cardinality(R) <= Cardinality(Threads)  BY <1>5, <1>6, <1>8
  <2> QED  BY <1>2, <2>1 DEF OverCapacityBounded
<1> QED  BY <1>1, <1>7, <1>8 DEF OverCapacityBounded

\* Erasing entries, or changing what they hold, leaves the owners of those
\* in flight.
LEMMA OwnedAfterErasure ==
    ASSUME InFlightOwned,
           \A k \in Keys : blocks'[k].generation \in {0, blocks[k].generation},
           UNCHANGED <<future, asked, my_generation>>, Owners \subseteq Owners'
    PROVE  InFlightOwned'
<1> SUFFICES ASSUME NEW k \in InFlight(blocks)'
             PROVE  \E t \in Owners' : /\ asked'[t] = k
                                       /\ my_generation'[t] = blocks'[k].generation
  BY DEF InFlightOwned
<1>1. /\ k \in Keys /\ blocks'[k].generation # 0
      /\ ~(future'[blocks'[k].generation] # "pending")
  BY DEF InFlight, Present, Ready
<1>2. blocks'[k].generation = blocks[k].generation  BY <1>1
<1>3. k \in InFlight(blocks)  BY <1>1, <1>2 DEF InFlight, Present, Ready
<1>4. PICK t \in Owners : asked[t] = k /\ my_generation[t] = blocks[k].generation
  BY <1>3 DEF InFlightOwned
<1> QED  BY <1>2, <1>4

\* What an eviction leaves of the map are entries it had.
LEMMA EvictGenerations ==
    ASSUME NEW b \in Blocks, NEW cached, EvictLocked(b, cached),
           \A k \in Keys : b[k].generation = blocks[k].generation
    PROVE  \A k \in Keys : blocks'[k].generation \in {0, blocks[k].generation}
<1>1. PICK V : blocks' = Without(b, V)  BY DEF EvictLocked, ClearBlocks
<1>2. NoEntry.generation = 0  BY DEF NoEntry
<1> QED  BY <1>1, <1>2 DEF Without

-----------------------------------------------------------------------------
(***************************************************************************)
(* One lemma per kind of step for the two new conjuncts.                   *)
(***************************************************************************)

\* A hit changes no entry but its time.
LEMMA HitBounded ==
    ASSUME BInv, NEW t \in Threads, NEW k \in Keys, Hit(t, k)
    PROVE  InFlightOwned' /\ OverCapacityBounded'
<1>1. /\ blocks' = [blocks EXCEPT ![k].used_at = clock + 1] /\ pc[t] = "idle"
      /\ pc' = [pc EXCEPT ![t] = "waiting"] /\ asked' = [asked EXCEPT ![t] = k]
      /\ my_generation' = [my_generation EXCEPT ![t] = blocks[k].generation]
      /\ UNCHANGED <<capacity_bytes, cached_bytes, future>>
  BY DEF Hit, Enter, Goto
<1>2. blocks \in Blocks /\ InFlightOwned /\ OverCapacityBounded
  BY DEF BInv, IInv, TypeOK, Blocks
<1>3. \A j \in Keys : /\ blocks'[j].bytes = blocks[j].bytes
                      /\ blocks'[j].generation = blocks[j].generation
  BY <1>1, <1>2 DEF Blocks, Entry
<1>4. OverCapacityBounded'  BY <1>1, <1>2, <1>3, BoundKept
<1>5. \A u \in Owners : /\ u \in Owners' /\ asked'[u] = asked[u]
                        /\ my_generation'[u] = my_generation[u]
  BY <1>1 DEF BInv, IInv, TypeOK, Owners
<1>6. InFlight(blocks)' = InFlight(blocks)
  BY <1>1, <1>3 DEF InFlight, Present, Ready
<1>7. InFlightOwned'
  <2> SUFFICES ASSUME NEW j \in InFlight(blocks)
               PROVE  \E u \in Owners' : /\ asked'[u] = j
                                         /\ my_generation'[u] = blocks'[j].generation
    BY <1>6 DEF InFlightOwned
  <2>1. j \in Keys  BY DEF InFlight, Present
  <2> QED  BY <1>2, <1>3, <1>5, <2>1 DEF InFlightOwned
<1> QED  BY <1>4, <1>7

\* A miss adds an entry of no bytes, and the thread that owns it.
LEMMA MissBounded ==
    ASSUME BInv, NEW t \in Threads, NEW k \in Keys, Miss(t, k)
    PROVE  InFlightOwned' /\ OverCapacityBounded'
<1>1. PICK g : g = next_generation + 1  OBVIOUS
<1>2. PICK e : e = [generation |-> g, bytes |-> 0, used_at |-> clock + 1]  OBVIOUS
<1>3. /\ blocks' = [blocks EXCEPT ![k] = e] /\ pc[t] = "idle"
      /\ pc' = [pc EXCEPT ![t] = "fetching"] /\ asked' = [asked EXCEPT ![t] = k]
      /\ my_generation' = [my_generation EXCEPT ![t] = g]
      /\ UNCHANGED <<capacity_bytes, cached_bytes, future>>
  BY <1>1, <1>2 DEF Miss, Enter, Goto
<1>4. blocks \in Blocks /\ InFlightOwned /\ OverCapacityBounded
  BY DEF BInv, IInv, TypeOK, Blocks
<1>5. /\ \A j \in Keys \ {k} : blocks'[j] = blocks[j]
      /\ blocks'[k].bytes = 0 /\ blocks'[k].generation = g
  BY <1>2, <1>3, <1>4 DEF Blocks
<1>6. \A j \in Keys : blocks'[j].bytes > 0 => blocks[j].bytes > 0
  BY <1>5
<1>7. OverCapacityBounded'  BY <1>3, <1>4, <1>6, BoundKept
<1>8. \A u \in Owners : /\ u \in Owners' /\ asked'[u] = asked[u]
                        /\ my_generation'[u] = my_generation[u]
  BY <1>3 DEF BInv, IInv, TypeOK, Owners
<1>9. t \in Owners' /\ asked'[t] = k /\ my_generation'[t] = g
  BY <1>3 DEF BInv, IInv, TypeOK, Owners
<1>10. InFlightOwned'
  <2> SUFFICES ASSUME NEW j \in InFlight(blocks)'
               PROVE  \E u \in Owners' : /\ asked'[u] = j
                                         /\ my_generation'[u] = blocks'[j].generation
    BY DEF InFlightOwned
  <2>1. CASE j = k  BY <1>5, <1>9, <2>1
  <2>2. CASE j # k
    <3>1. j \in Keys  BY DEF InFlight, Present
    <3>2. blocks'[j] = blocks[j]  BY <1>5, <2>2, <3>1
    <3>3. j \in InFlight(blocks)  BY <1>3, <3>1, <3>2 DEF InFlight, Present, Ready
    <3> QED  BY <1>4, <1>8, <3>2, <3>3 DEF InFlightOwned
  <2> QED  BY <2>1, <2>2
<1> QED  BY <1>7, <1>10

\* The owner that settles its promise owned no other entry in flight.
LEMMA SettleBounded ==
    ASSUME BInv, NEW t \in Threads, SetValue(t) \/ SetException(t)
    PROVE  InFlightOwned' /\ OverCapacityBounded'
<1>1. PICK v \in {"value", "error"} : future' = [future EXCEPT ![my_generation[t]] = v]
  BY DEF SetValue, SetException
<1>2. /\ pc[t] \in {"publishing", "raising"} /\ pc' = [pc EXCEPT ![t] = "idle"]
      /\ asked' = [asked EXCEPT ![t] = NoKey]
      /\ my_generation' = [my_generation EXCEPT ![t] = 0]
      /\ UNCHANGED <<blocks, capacity_bytes, cached_bytes>>
  BY DEF SetValue, SetException, Return, Enter, Goto, cacheVars
<1>3. OverCapacityBounded'
  <2>1. \A k \in Keys : blocks'[k].bytes > 0 => blocks[k].bytes > 0  BY <1>2
  <2> QED  BY <1>2, <2>1, BoundKept DEF BInv
<1>4. InFlightOwned'
  <2> SUFFICES ASSUME NEW k \in InFlight(blocks)'
               PROVE  \E u \in Owners' : /\ asked'[u] = k
                                         /\ my_generation'[u] = blocks'[k].generation
    BY DEF InFlightOwned
  <2>1. /\ k \in Keys /\ blocks[k].generation # 0
        /\ future'[blocks[k].generation] = "pending"
    BY <1>2 DEF InFlight, Present, Ready
  <2>2. t \in Owners  BY <1>2 DEF Owners
  <2>3. my_generation[t] \in Generations  BY <2>2 DEF BInv, IInv, OwnersApart
  <2>4. blocks[k].generation # my_generation[t]
    BY <1>1, <2>1, <2>3 DEF BInv, IInv, TypeOK
  <2>5. future[blocks[k].generation] = "pending"
    <3>1. blocks[k].generation \in Generations
      BY <2>1, BlockCacheAssumption DEF BInv, IInv, TypeOK, Entry, Generations
    <3> QED  BY <1>1, <2>1, <2>4, <3>1 DEF BInv, IInv, TypeOK
  <2>6. k \in InFlight(blocks)  BY <2>1, <2>5 DEF InFlight, Present, Ready
  <2>7. PICK u \in Owners : asked[u] = k /\ my_generation[u] = blocks[k].generation
    BY <2>6 DEF BInv, InFlightOwned
  <2>8. u # t  BY <2>4, <2>7
  <2>9. u \in Owners' /\ asked'[u] = asked[u] /\ my_generation'[u] = my_generation[u]
    BY <1>2, <2>7, <2>8 DEF BInv, IInv, TypeOK, Owners
  <2> QED  BY <1>2, <2>7, <2>9
<1> QED  BY <1>3, <1>4

\* A waiter owns nothing.
LEMMA FutureGetBounded ==
    ASSUME BInv, NEW t \in Threads, FutureGet(t)
    PROVE  InFlightOwned' /\ OverCapacityBounded'
<1>1. /\ pc[t] = "waiting" /\ pc' = [pc EXCEPT ![t] = "idle"]
      /\ asked' = [asked EXCEPT ![t] = NoKey]
      /\ my_generation' = [my_generation EXCEPT ![t] = 0]
      /\ UNCHANGED <<blocks, capacity_bytes, cached_bytes, future>>
  BY DEF FutureGet, Return, Enter, Goto, cacheVars
<1>2. OverCapacityBounded'
  <2>1. \A k \in Keys : blocks'[k].bytes > 0 => blocks[k].bytes > 0  BY <1>1
  <2> QED  BY <1>1, <2>1, BoundKept DEF BInv
<1>3. \A u \in Owners : /\ u \in Owners' /\ asked'[u] = asked[u]
                        /\ my_generation'[u] = my_generation[u]
  BY <1>1 DEF BInv, IInv, TypeOK, Owners
<1>4. InFlight(blocks)' = InFlight(blocks)
  BY <1>1 DEF InFlight, Present, Ready
<1>5. InFlightOwned'  BY <1>1, <1>3, <1>4 DEF BInv, InFlightOwned
<1> QED  BY <1>2, <1>5

\* SetCapacity and Clear evict, and leave every thread where it is.
LEMMA SetCapacityBounded ==
    ASSUME BInv, NEW bytes \in Capacities, SetCapacity(bytes)
    PROVE  InFlightOwned' /\ OverCapacityBounded'
<1>1. /\ capacity_bytes' \in Nat /\ EvictLocked(blocks, cached_bytes)
      /\ UNCHANGED <<future, pc, asked, my_generation>>
  BY BlockCacheAssumption DEF SetCapacity, threadVars
<1>2. /\ blocks \in Blocks /\ cached_bytes = Size(blocks, Keys)
      /\ \A k \in Keys : blocks[k].generation = 0 => blocks[k].bytes = 0
      /\ InFlightOwned
  BY DEF BInv, IInv, TypeOK, Blocks, AccountingExact, NothingBeforeFetch
<1>3. OverCapacityBounded'  BY <1>1, <1>2, EvictBounds
<1>4. \A k \in Keys : blocks'[k].generation \in {0, blocks[k].generation}
  BY <1>1, <1>2, EvictGenerations
<1>5. Owners' = Owners  BY <1>1 DEF Owners
<1>6. InFlightOwned'  BY <1>1, <1>2, <1>4, <1>5, OwnedAfterErasure
<1> QED  BY <1>3, <1>6

LEMMA ClearBounded ==
    ASSUME BInv, Clear
    PROVE  InFlightOwned' /\ OverCapacityBounded'
<1>1. /\ blocks' = Without(blocks, Keys) /\ cached_bytes' = 0
      /\ UNCHANGED <<capacity_bytes, future, pc, asked, my_generation>>
  BY DEF Clear, ClearBlocks, threadVars
<1>2. capacity_bytes \in Nat /\ InFlightOwned  BY DEF BInv, IInv, TypeOK
<1>3. OverCapacityBounded'
  <2>1. cached_bytes' <= capacity_bytes'  BY <1>1, <1>2
  <2> QED  BY <2>1 DEF OverCapacityBounded
<1>4. \A k \in Keys : blocks'[k].generation \in {0, blocks[k].generation}
  BY <1>1 DEF Without, NoEntry
<1>5. Owners' = Owners  BY <1>1 DEF Owners
<1>6. InFlightOwned'  BY <1>1, <1>2, <1>4, <1>5, OwnedAfterErasure
<1> QED  BY <1>3, <1>6

\* A fetch that returns makes room again; its own entry is still in flight.
LEMMA FetchSucceedsBounded ==
    ASSUME BInv, NEW t \in Threads, FetchSucceeds(t)
    PROVE  InFlightOwned' /\ OverCapacityBounded'
<1>1. PICK at : at = asked[t]  OBVIOUS
<1>2. /\ pc[t] = "fetching" /\ pc' = [pc EXCEPT ![t] = "publishing"]
      /\ UNCHANGED <<capacity_bytes, future, asked, my_generation>>
  BY DEF FetchSucceeds, Goto
<1>3. PICK size \in Sizes :
        IF OwnEntry(t)
        THEN EvictLocked([blocks EXCEPT ![at].bytes = size], cached_bytes + size)
        ELSE EvictLocked(blocks, cached_bytes)
  BY <1>1 DEF FetchSucceeds
<1>4. /\ blocks \in Blocks /\ capacity_bytes \in Nat
      /\ cached_bytes = Size(blocks, Keys) /\ cached_bytes \in Nat
      /\ \A k \in Keys : blocks[k].generation = 0 => blocks[k].bytes = 0
      /\ InFlightOwned
  BY DEF BInv, IInv, TypeOK, Blocks, AccountingExact, NothingBeforeFetch
<1>5. /\ at \in Keys /\ my_generation[t] \in Generations /\ size \in Nat
      /\ OwnEntry(t) => blocks[at].bytes = 0 /\ blocks[at].generation # 0
  BY <1>1, <1>2, BlockCacheAssumption
     DEF BInv, IInv, OwnersApart, Owners, NothingBeforeFetch, OwnEntry, Generations
<1>6. PICK b \in Blocks : \E cached :
        /\ EvictLocked(b, cached) /\ cached = Size(b, Keys)
        /\ \A k \in Keys : b[k].generation = blocks[k].generation
        /\ \A k \in Keys : b[k].generation = 0 => b[k].bytes = 0
  <2>1. CASE ~OwnEntry(t)  BY <1>3, <1>4, <2>1
  <2>2. CASE OwnEntry(t)
    <3>1. PICK c : c = [blocks EXCEPT ![at].bytes = size]  OBVIOUS
    <3>2. /\ c \in Blocks /\ c[at].bytes = size
          /\ \A k \in Keys : c[k].generation = blocks[k].generation
          /\ \A k \in Keys \ {at} : c[k].bytes = blocks[k].bytes
      BY <1>4, <1>5, <3>1 DEF Blocks, Entry
    <3>3. Size(c, Keys) = Size(blocks, Keys) - blocks[at].bytes + c[at].bytes
      BY <1>4, <1>5, <3>2, SizeUpdate
    <3>4. cached_bytes + size = Size(c, Keys)  BY <1>4, <1>5, <2>2, <3>2, <3>3
    <3>5. EvictLocked(c, cached_bytes + size)  BY <1>3, <2>2, <3>1
    <3>6. \A k \in Keys : c[k].generation = 0 => c[k].bytes = 0
      BY <1>4, <1>5, <2>2, <3>2
    <3> QED  BY <3>2, <3>4, <3>5, <3>6
  <2> QED  BY <2>1, <2>2
<1>7. PICK cached : EvictLocked(b, cached) /\ cached = Size(b, Keys)  BY <1>6
<1>8. OverCapacityBounded'
  <2>1. capacity_bytes' \in Nat  BY <1>2, <1>4
  <2> QED  BY <1>4, <1>6, <1>7, <2>1, EvictBounds
<1>9. \A k \in Keys : blocks'[k].generation \in {0, blocks[k].generation}
  BY <1>6, <1>7, EvictGenerations
<1>10. Owners' = Owners  BY <1>2 DEF BInv, IInv, TypeOK, Owners
<1>11. InFlightOwned'  BY <1>2, <1>4, <1>9, <1>10, OwnedAfterErasure
<1> QED  BY <1>8, <1>11

\* A fetch that throws takes away an entry without bytes.
LEMMA FetchFailsBounded ==
    ASSUME BInv, NEW t \in Threads, FetchFails(t)
    PROVE  InFlightOwned' /\ OverCapacityBounded'
<1>1. /\ pc[t] = "fetching" /\ pc' = [pc EXCEPT ![t] = "raising"]
      /\ UNCHANGED <<capacity_bytes, future, asked, my_generation>>
  BY DEF FetchFails, Goto
<1>2. PICK at : at = asked[t]  OBVIOUS
<1>3. /\ blocks \in Blocks /\ cached_bytes \in Nat /\ InFlightOwned
      /\ OverCapacityBounded /\ at \in Keys
      /\ OwnEntry(t) => blocks[at].bytes = 0
  BY <1>1, <1>2 DEF BInv, IInv, TypeOK, Blocks, OwnersApart, Owners,
                    NothingBeforeFetch
<1>4. /\ cached_bytes' = cached_bytes
      /\ \/ blocks' = blocks
         \/ blocks' = [blocks EXCEPT ![at] = NoEntry]
  <2>1. CASE OwnEntry(t)
    <3>1. /\ cached_bytes' = cached_bytes - blocks[at].bytes
          /\ blocks' = [blocks EXCEPT ![at] = NoEntry]
      BY <1>2, <2>1 DEF FetchFails
    <3> QED  BY <1>3, <2>1, <3>1
  <2>2. CASE ~OwnEntry(t)  BY <2>2 DEF FetchFails
  <2> QED  BY <2>1, <2>2
<1>5. \A k \in Keys : \/ blocks'[k] = blocks[k]
                      \/ blocks'[k].bytes = 0 /\ blocks'[k].generation = 0
  BY <1>3, <1>4 DEF Blocks, NoEntry
<1>6. \A k \in Keys : /\ blocks'[k].bytes > 0 => blocks[k].bytes > 0
                      /\ blocks'[k].generation \in {0, blocks[k].generation}
  BY <1>5
<1>7. OverCapacityBounded'  BY <1>1, <1>3, <1>4, <1>6, BoundKept
<1>8. Owners' = Owners  BY <1>1 DEF BInv, IInv, TypeOK, Owners
<1>9. InFlightOwned'  BY <1>1, <1>3, <1>6, <1>8, OwnedAfterErasure
<1> QED  BY <1>7, <1>9

THEOREM BoundInitially == Init => BInv
<1> SUFFICES ASSUME Init PROVE BInv  OBVIOUS
<1>1. IInv  BY InitEstablishes
<1>2. InFlightOwned
  <2>1. \A k \in Keys : blocks[k].generation = 0  BY DEF Init, NoEntry
  <2> QED  BY <2>1 DEF InFlightOwned, InFlight, Present
<1>3. OverCapacityBounded
  <2>1. cached_bytes <= capacity_bytes  BY DEF Init
  <2> QED  BY <2>1 DEF OverCapacityBounded
<1> QED  BY <1>1, <1>2, <1>3 DEF BInv

\* Every step of the cache keeps the bound and the owners it rests on.
THEOREM BoundPreserved == BInv /\ [Next]_vars => BInv'
<1> SUFFICES ASSUME BInv, [Next]_vars PROVE BInv'  OBVIOUS
<1>0. IInv'  BY StepPreserves DEF BInv
<1>1. CASE \E t \in Threads, k \in Keys : Hit(t, k)
  BY <1>0, <1>1, HitBounded DEF BInv
<1>2. CASE \E t \in Threads, k \in Keys : Miss(t, k)
  BY <1>0, <1>2, MissBounded DEF BInv
<1>3. CASE \E t \in Threads : FetchSucceeds(t)
  BY <1>0, <1>3, FetchSucceedsBounded DEF BInv
<1>4. CASE \E t \in Threads : FetchFails(t)
  BY <1>0, <1>4, FetchFailsBounded DEF BInv
<1>5. CASE \E t \in Threads : SetValue(t) \/ SetException(t)
  BY <1>0, <1>5, SettleBounded DEF BInv
<1>6. CASE \E t \in Threads : FutureGet(t)
  BY <1>0, <1>6, FutureGetBounded DEF BInv
<1>7. CASE \E bytes \in Capacities : SetCapacity(bytes)
  BY <1>0, <1>7, SetCapacityBounded DEF BInv
<1>8. CASE Clear  BY <1>0, <1>8, ClearBounded DEF BInv
<1>9. CASE UNCHANGED vars
  <2> USE <1>9 DEF vars, cacheVars, threadVars
  <2>1. InFlightOwned'
    BY DEF BInv, InFlightOwned, InFlight, Present, Ready, Owners
  <2>2. OverCapacityBounded'  BY DEF BInv, OverCapacityBounded
  <2> QED  BY <1>0, <2>1, <2>2 DEF BInv
<1> QED
  BY <1>1, <1>2, <1>3, <1>4, <1>5, <1>6, <1>7, <1>8, <1>9 DEF Next, Ask, Proceed

\* The cache outgrows its capacity only by what was in flight when room was
\* last made: no more entries hold bytes then than there are threads
\* (EvictLocked passes over entries in flight and stops at nothing else).
THEOREM OvershootBounded == Spec => []OverCapacityBounded
<1>1. BInv => OverCapacityBounded  BY DEF BInv
<1> QED  BY <1>1, BoundInitially, BoundPreserved, PTL DEF Spec
=============================================================================
