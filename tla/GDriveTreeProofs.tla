-------------------------- MODULE GDriveTreeProofs --------------------------
(***************************************************************************)
(* Proofs about GDriveTree: what the cache says between calls, and what a  *)
(* call nobody interferes with does to the tree, for any paths of one or   *)
(* two segments, any ids, trees, calls and changes by others.              *)
(***************************************************************************)
EXTENDS GDriveTree, FiniteSetTheorems, SequenceTheorems, TLAPS

Trees == [Ids -> Node]
Born(u, c) == u[c].kind # "unborn"

\* The path a call is resolving at its place.
GoalOf(c) == CASE c.pc = "source_parent" -> Parent(c.path)
               [] c.pc \in {"target_parent", "collide", "move", "replace"} -> Parent(c.to)
               [] OTHER -> c.path

\* The places of each call.
WritePlaces == {"dir", "not_file", "create_dir", "walk", "any_kind", "create", "probe",
                "publish", "ok", "failed"}
MovePlaces == {"source", "source_parent", "target_parent", "collide", "move", "replace",
               "forget", "ok", "failed"}
RemovePlaces == {"source", "delete", "forget", "ok", "failed"}
RemoveFilePlaces == RemovePlaces \cup {"is_file", "is_dir", "confirm", "no"}

\* What each call has at each of its places.
CallShape(c) ==
    /\ c \in Call
    /\ c.pc = "idle" <=> c.op = "none"
    /\ c.op \in {"copy", "blob"} => c.pc \in WritePlaces /\ c.path # <<>> /\ c.id = None
    /\ c.op = "move" => c.pc \in MovePlaces /\ c.to # <<>>
    /\ c.op \in {"remove", "rmdir"} => c.pc \in RemovePlaces /\ c.to = <<>>
    /\ c.op = "remove_file" => c.pc \in RemoveFilePlaces /\ c.to = <<>>
    /\ c.pc # "idle" => IF c.depth = 0 THEN c.at = Root ELSE c.at \in Ids
    /\ c.pc \in {"dir", "not_file", "create_dir", "any_kind", "create"} =>
         c.depth = 0 /\ Len(c.path) = 2
    /\ c.pc = "walk" => c.depth < Len(c.path)
    /\ c.pc \in {"probe", "publish"} => c.depth = Len(c.path) - 1
    /\ c.parent_is_new => c.depth = 1 /\ c.op \in {"copy", "blob"}
    /\ c.pc = "publish" => c.old = None \/ ~c.parent_is_new
    /\ c.pc = "probe" => ~c.parent_is_new
    /\ c.pc \in {"dir", "not_file", "create_dir", "walk", "any_kind", "create", "probe"} =>
         c.old = None
    /\ c.pc \in {"is_file", "is_dir", "confirm", "source", "source_parent", "target_parent"} =>
         c.depth <= Len(GoalOf(c))
    /\ c.pc \in {"collide", "move", "replace"} => c.depth = Len(GoalOf(c))
    /\ c.pc = "source_parent" => c.path # <<>>
    /\ c.pc = "source" /\ c.path = <<>> => c.id # None
    /\ c.pc \in {"is_file", "is_dir", "confirm", "source"} /\ c.path # <<>> => c.id = None
    /\ c.pc \in {"source_parent", "target_parent", "collide", "move", "replace", "forget",
                 "delete"} => c.id # None
    /\ c.pc = "replace" => c.old # None

\* Types: the ids a call or the cache knows were handed out.
Known(u, c) ==
    /\ c.at \in Ids => Born(u, c.at)
    /\ c.id \in Ids => Born(u, c.id)

TInv ==
    /\ TypeOK /\ Sound(tree) /\ CallShape(call) /\ Known(tree, call)
    /\ \A p \in Paths : cache[p] \in Ids => Born(tree, cache[p])

\* What a step of Drive keeps: an entry stays what it is.
Becomes(u, v) ==
    /\ v \in Trees /\ Sound(v)
    /\ \A c \in Ids : Born(u, c) => v[c].kind = u[c].kind

\* An entry c is at path p of tree u.
At(u, c, p) ==
    /\ c \in Ids
    /\ Len(p) = 1 => u[c].parent = Root /\ u[c].name = p[1]
    /\ Len(p) = 2 => /\ u[c].parent \in Ids /\ u[c].name = p[2]
                     /\ u[u[c].parent].parent = Root /\ u[u[c].parent].name = p[1]
Truthful(u, ca) == \A p \in Paths : ca[p] # None => At(u, ca[p], p)

\* The places of a call that has changed nothing an entry of the cache names.
Working == {"dir", "not_file", "create_dir", "walk", "any_kind", "create", "probe", "publish",
            "is_file", "is_dir", "confirm", "source", "source_parent", "target_parent",
            "collide", "move", "delete"}

\* What holds of tree u, cache ca and call c, as long as only path calls changed
\* the tree (k), and while a call is alone (a).
Heeds(u, ca, c, k, a) ==
    /\ (k /\ c.pc \notin {"replace", "forget"}) \/ (a /\ c.pc \in Working) => Truthful(u, ca)
    /\ k /\ c.pc \in {"replace", "forget"} /\ c.path # <<>> => \A p \in Paths :
         ca[p] # None => \/ IsPrefix(c.path, p) \/ (c.to # <<>> /\ IsPrefix(c.to, p))
                         \/ At(u, ca[p], p)
    /\ (k \/ a) /\ c.pc \in Working /\ c.depth # 0 =>
         At(u, c.at, SubSeq(GoalOf(c), 1, c.depth))
    /\ (k \/ a) /\ c.path # <<>>
         /\ c.pc \in {"source_parent", "target_parent", "collide", "move", "delete"} =>
              At(u, c.id, c.path)
    /\ (k \/ a) /\ c.pc \in {"move", "replace"} /\ c.old # None =>
         /\ c.old # c.id /\ At(u, c.old, c.to)
         /\ c.pc = "move" => u[c.old].parent = c.at

CInv ==
    /\ Becomes(begun.tree, tree) /\ Sound(begun.tree)
    /\ Heeds(tree, cache, call, kept, begun.alone)

\* No two entries of a folder, but those in S, share a name.
Distinct(u, S) == \A c, d \in Ids \ S :
    u[c].parent # None /\ u[d].parent = u[c].parent /\ u[d].name = u[c].name => c = d

\* What a call c that began alone, in tree b, has made of it: a write,
LoneWrite(b, u, ca, c) ==
    /\ Distinct(u, {})
    /\ \A i \in Ids : b[i].parent # None => u[i] = b[i]
    /\ c.pc = "not_file" =>
         IF ca[Parent(c.path)] # None THEN u[ca[Parent(c.path)]].kind # "folder"
         ELSE \A i \in Ids : At(u, i, Parent(c.path)) => u[i].kind # "folder"
    /\ c.pc \in {"create_dir", "create"} => \A i \in Ids : ~At(u, i, Parent(c.path))
    /\ c.pc = "publish" /\ c.old = None => \A i \in Ids :
         u[i].parent = c.at => u[i].name # Last(c.path)
    /\ c.pc = "walk" /\ c.parent_is_new => \A i \in Ids : u[i].parent # c.at
\* a move,
Spared(b, u, c) == \A i \in Ids \ {c.id} : b[i].parent = None \/ u[i] = b[i]
    \/ \E o \in Ids : At(b, o, c.to) /\ i \in Subtree(b, o)
Arrived(b, u, c) == c.id \in Ids /\ (b[c.id].parent # None => At(u, c.id, c.to))
LoneMove(b, u, c) ==
    /\ c.pc \in Working => u = b /\ Distinct(u, {})
    /\ c.pc \in {"move", "replace"} /\ c.old # None => At(b, c.old, c.to)
    /\ c.pc = "move" => \A i \in Ids \ {c.id, c.old} :
         u[i].parent = c.at => u[i].name # Last(c.to)
    /\ c.pc = "replace" =>
         /\ Distinct(u, {c.old}) /\ Arrived(b, u, c)
         /\ \A i \in Ids \ {c.id} : u[i] = b[i]
         /\ u[c.id].parent \in {None, c.at}
         /\ b[c.old].parent = c.at /\ (c.at # Root => b[c.at].parent = Root)
    /\ c.pc \in {"forget", "ok"} => Distinct(u, {}) /\ Arrived(b, u, c) /\ Spared(b, u, c)
    /\ c.pc = "failed" => u = b \/ (Arrived(b, u, c) /\ Spared(b, u, c))
\* a removal.
Removed(b, u, c) ==
    /\ c.id \in Ids /\ u[c.id].parent = None
    /\ \A i \in Ids \ Subtree(b, c.id) : u[i] = b[i]
    /\ c.path # <<>> => At(b, c.id, c.path)
    /\ c.op = "remove_file" => b[c.id].kind = "file"
LoneRemoval(b, u, c) ==
    /\ Distinct(u, {})
    /\ c.pc \in Working \cup {"no"} => u = b
    /\ c.pc = "delete" /\ c.op = "remove_file" => b[c.id].kind = "file"
    /\ c.pc \in {"forget", "ok"} => Removed(b, u, c)
    /\ c.pc = "failed" => u = b \/ Removed(b, u, c)
    /\ c.pc = "no" => IF c.path = <<>> THEN c.id \in Ids /\ b[c.id].parent = None
                      ELSE \A i \in Ids : ~At(b, i, c.path)

Lone(b, u, ca, c) ==
    /\ c.op \in {"copy", "blob"} => LoneWrite(b, u, ca, c)
    /\ c.op = "move" => LoneMove(b, u, c)
    /\ c.op \in {"remove", "remove_file", "rmdir"} => LoneRemoval(b, u, c)

AInv == begun.alone => Lone(begun.tree, tree, cache, call)
-----------------------------------------------------------------------------
(***************************************************************************)
(* Paths and trees.                                                        *)
(***************************************************************************)

\* Paths have one or two segments.
LEMMA PathForms ==
    ASSUME TreeAssumption, NEW p \in Paths
    PROVE  /\ Len(p) \in {1, 2} /\ p # <<>> /\ Last(p) = p[Len(p)] /\ Last(p) \in Names
           /\ SubSeq(p, 1, Len(p)) = p
           /\ Len(p) = 1 => p = <<p[1]>> /\ Parent(p) = <<>>
           /\ Len(p) = 2 => /\ p = <<p[1], p[2]>> /\ Parent(p) = <<p[1]>>
                            /\ SubSeq(p, 1, 1) = <<p[1]>> /\ <<p[1]>> \in Paths
<1>1. CASE p = <<p[1]>>
  <2>1. PICK m : m = p[1]  OBVIOUS
  <2>2. p = <<m>>  BY <1>1, <2>1
  <2>3. Len(p) = 1 /\ p # <<>> /\ p[Len(p)] = m  BY <2>2
  <2>4. Last(p) = m  BY <2>3 DEF Last
  <2>5. SubSeq(p, 1, 1) = p
    <3>1. p \in Seq({m})  BY <2>2
    <3> QED  BY <2>3, <3>1, SubSeqFull
  <2>6. Parent(p) = <<>>  BY <2>2 DEF Parent, Front
  <2> QED  BY <2>1, <2>2, <2>3, <2>4, <2>5, <2>6 DEF Names
<1>2. CASE p = <<p[1], p[2]>> /\ <<p[1]>> \in Paths
  <2>1. PICK m, n : m = p[1] /\ n = p[2]  OBVIOUS
  <2>2. p = <<m, n>>  BY <1>2, <2>1
  <2>3. Len(p) = 2 /\ p # <<>> /\ p[Len(p)] = n  BY <2>2
  <2>4. Last(p) = n  BY <2>3 DEF Last
  <2>5. SubSeq(p, 1, 1) = <<m>> /\ SubSeq(p, 1, 2) = p
    <3>1. p \in Seq({m, n}) /\ p[1] = m  BY <2>2
    <3>2. PICK q : q = SubSeq(p, 1, 1)  OBVIOUS
    <3>3. q \in Seq({m, n}) /\ Len(q) = 1 /\ q[1] = m
      BY <2>3, <3>1, <3>2, SubSeqProperties
    <3>4. q = <<m>>  BY <3>3
    <3> QED  BY <2>3, <3>1, <3>2, <3>4, SubSeqFull
  <2>6. Parent(p) = <<m>>  BY <2>2, <2>5 DEF Parent, Front
  <2> QED  BY <1>2, <2>1, <2>2, <2>3, <2>4, <2>5, <2>6 DEF Names
<1> QED  BY <1>1, <1>2 DEF TreeAssumption

\* What is in a folder of a subtree is in the subtree.
LEMMA SubtreeDown ==
    ASSUME NEW u \in Trees, NEW f \in Ids, NEW d \in Ids, u[d].parent \in Subtree(u, f)
    PROVE  d \in Subtree(u, f)
<1>1. SUFFICES ASSUME NEW S \in SUBSET Ids,
                      \A e \in Ids : u[e].parent \in S \cup {f} => e \in S
               PROVE  d \in S
  BY DEF Subtree
<1>2. u[d].parent = f \/ u[d].parent \in S  BY <1>1 DEF Subtree
<1> QED  BY <1>1, <1>2

\* The folder of an entry is above it: what is below f lies in f or below.
LEMMA SubtreeUp ==
    ASSUME NEW u \in Trees, NEW f \in Ids, NEW c \in Subtree(u, f), c # f
    PROVE  c \in Ids /\ u[c].parent \in Subtree(u, f)
<1>1. c \in Ids
      /\ \A S \in SUBSET Ids : (\A d \in Ids : u[d].parent \in S \cup {f} => d \in S) => c \in S
  BY DEF Subtree
<1>2. PICK T : T = {d \in Ids : d \in Subtree(u, f) /\ u[d].parent \in Subtree(u, f)}  OBVIOUS
<1>3. T \in SUBSET Ids  BY <1>2
<1>4. ASSUME NEW d \in Ids, u[d].parent \in T \cup {f} PROVE d \in T
  <2>1. u[d].parent \in Subtree(u, f)  BY <1>2, <1>4 DEF Subtree
  <2>2. d \in Subtree(u, f)  BY <2>1, SubtreeDown
  <2> QED  BY <1>2, <2>1, <2>2
<1> QED  BY <1>1, <1>2, <1>3, <1>4

\* Whatever is closed under going down contains the subtree.
LEMMA SubtreeLeast ==
    ASSUME NEW u \in Trees, NEW f \in Ids, NEW S \in SUBSET Ids, f \in S,
           \A d \in Ids : u[d].parent \in S => d \in S
    PROVE  Subtree(u, f) \subseteq S
<1>1. \A d \in Ids : u[d].parent \in S \cup {f} => d \in S  OBVIOUS
<1> QED  BY <1>1 DEF Subtree

\* A new entry is where it was asked for, and nothing else changes.
LEMMA CreatedIs ==
    ASSUME TreeAssumption, tree \in Trees, Sound(tree), NEW c \in Fresh,
           NEW f \in Ids \cup {Root}, IsFolder(f), NEW n \in Names,
           NEW kind \in {"file", "folder"}, NEW v, v = Created(c, f, n, kind)
    PROVE  /\ Becomes(tree, v) /\ c \in Ids /\ tree[c] = Unborn /\ ~Born(tree, c)
           /\ v[c].kind = kind /\ v[c].name = n
           /\ v[c].parent = IF Live(f) THEN f ELSE None
           /\ \A d \in Ids \ {c} : v[d] = tree[d]
           /\ \A d \in Ids : tree[d].parent # c
<1>1. c \in Ids /\ tree[c] = Unborn  BY DEF Fresh
<1>2. tree[c].kind = "unborn" /\ tree[c].parent = None  BY <1>1 DEF Unborn
<1>3. PICK x : x = NodeIn(IF Live(f) THEN f ELSE None, n, kind)  OBVIOUS
<1>4. /\ x \in Node /\ x.kind = kind /\ x.name = n
      /\ x.parent = IF Live(f) THEN f ELSE None
  BY <1>3 DEF NodeIn, Node
<1>5. v = [tree EXCEPT ![c] = x]  BY <1>3 DEF Created
<1>6. v \in Trees /\ v[c] = x /\ \A d \in Ids \ {c} : v[d] = tree[d]
  BY <1>1, <1>4, <1>5 DEF Trees
<1>7. \A d \in Ids : tree[d].parent # c  BY <1>1, <1>2 DEF Sound
<1>8. f \in Ids => /\ f # c /\ tree[f].kind = "folder"
                  /\ (Live(f) => tree[f].parent # None)
  BY <1>2 DEF IsFolder, Live, LiveIn, TreeAssumption
<1>9. None \notin Ids /\ Root \notin Ids  BY DEF TreeAssumption
<1>10. Sound(v)
  <2>1. SUFFICES ASSUME NEW d \in Ids
                 PROVE  /\ v[d].kind = "unborn" => v[d] = Unborn
                        /\ v[d].parent \in Ids => /\ v[v[d].parent].kind = "folder"
                                                 /\ v[v[d].parent].parent # None
    BY DEF Sound, LiveIn
  <2>2. CASE d = c
    <3>1. v[d].parent \in Ids => v[d].parent = f /\ Live(f)  BY <1>4, <1>6, <1>9, <2>2
    <3> QED  BY <1>4, <1>6, <1>8, <2>2, <3>1
  <2>3. CASE d # c
    <3>1. v[d] = tree[d] /\ tree[d].parent # c  BY <1>6, <1>7, <2>3
    <3>2. tree[d].parent \in Ids => v[tree[d].parent] = tree[tree[d].parent]  BY <1>6, <3>1
    <3>3. tree[d].parent # Root \/ tree[d].parent \notin Ids  BY <1>9
    <3> QED  BY <3>1, <3>2, <3>3 DEF Sound, LiveIn
  <2> QED  BY <2>2, <2>3
<1>11. \A d \in Ids : Born(tree, d) => v[d].kind = tree[d].kind
  BY <1>2, <1>6 DEF Born
<1> QED  BY <1>1, <1>2, <1>4, <1>6, <1>7, <1>10, <1>11 DEF Becomes, Born

\* What is trashed leaves its folder, and nothing else changes.
LEMMA TrashedIs ==
    ASSUME TreeAssumption, tree \in Trees, Sound(tree), NEW f \in Ids,
           NEW v, v = Trashed(f)
    PROVE  /\ Becomes(tree, v)
           /\ \A d \in Ids : v[d].kind = tree[d].kind /\ v[d].name = tree[d].name
           /\ \A d \in Subtree(tree, f) : d \in Ids => v[d].parent = None
           /\ \A d \in Ids : d \notin Subtree(tree, f) => v[d] = tree[d]
<1>1. \A d \in Ids : v[d] = IF d \in Subtree(tree, f)
                            THEN [tree[d] EXCEPT !.parent = None] ELSE tree[d]
  BY DEF Trashed
<1>2. v = [d \in Ids |-> v[d]]  BY DEF Trashed
<1>3. \A d \in Ids : tree[d] \in Node  BY DEF Trees
<1>4. \A d \in Ids : /\ v[d] \in Node /\ v[d].kind = tree[d].kind /\ v[d].name = tree[d].name
                     /\ v[d].parent = IF d \in Subtree(tree, f) THEN None ELSE tree[d].parent
  BY <1>1, <1>3 DEF Node
<1>5. v \in Trees  BY <1>2, <1>4 DEF Trees
<1>6. \A d \in Ids : v[d].kind = "unborn" => v[d] = Unborn
  <2>1. SUFFICES ASSUME NEW d \in Ids, v[d].kind = "unborn" PROVE v[d] = Unborn  OBVIOUS
  <2>2. tree[d] = Unborn  BY <1>4, <2>1 DEF Sound
  <2> QED  BY <1>1, <2>2 DEF Unborn
<1>7. \A d \in Ids : v[d].parent \in Ids =>
        v[v[d].parent].kind = "folder" /\ LiveIn(v, v[d].parent)
  <2>1. SUFFICES ASSUME NEW d \in Ids, v[d].parent \in Ids
                 PROVE  v[v[d].parent].kind = "folder" /\ LiveIn(v, v[d].parent)
    OBVIOUS
  <2>2. d \notin Subtree(tree, f) => v[d].parent = tree[d].parent  BY <1>4
  <2>3. d \in Subtree(tree, f) => v[d].parent = None  BY <1>4
  <2>4. CASE d \notin Subtree(tree, f)
    <3>1. tree[d].parent \in Ids /\ v[d].parent = tree[d].parent  BY <2>1, <2>2, <2>4
    <3>2. tree[d].parent \notin Subtree(tree, f)  BY <2>4, SubtreeDown
    <3>3. v[tree[d].parent] = tree[tree[d].parent]  BY <1>1, <3>1, <3>2
    <3> QED  BY <3>1, <3>3 DEF Sound, LiveIn
  <2>5. CASE d \in Subtree(tree, f)
    BY <2>1, <2>3, <2>5 DEF TreeAssumption
  <2> QED  BY <2>4, <2>5
<1> QED  BY <1>1, <1>4, <1>5, <1>6, <1>7 DEF Becomes, Sound

\* A moved entry is where it was asked for, or in the trash with all below it.
LEMMA MovedIs ==
    ASSUME TreeAssumption, tree \in Trees, Sound(tree), NEW c \in Ids, Born(tree, c),
           NEW f \in Ids \cup {Root}, CanMove(c, f), NEW n \in Names,
           NEW v, v = Moved(c, f, n)
    PROVE  /\ Becomes(tree, v)
           /\ v[c].kind = tree[c].kind /\ v[c].name = n
           /\ Live(f) => /\ v[c].parent = IF Live(c) THEN f ELSE None
                         /\ \A d \in Ids \ {c} : v[d] = tree[d]
           /\ \A d \in Ids : v[d].kind = tree[d].kind
<1>1. tree[c] \in Node /\ \A d \in Ids : tree[d] \in Node  BY DEF Trees
<1>2. f \in Ids => tree[f].kind = "folder" /\ f # c
  BY DEF CanMove, IsFolder, TreeAssumption, Subtree
<1>3. CASE Live(c) /\ Live(f)
  <2>1. PICK x : x = [tree[c] EXCEPT !.name = n, !.parent = f]  OBVIOUS
  <2>2. x \in Node /\ x.kind = tree[c].kind /\ x.name = n /\ x.parent = f
    BY <1>1, <2>1 DEF Node
  <2>3. v = [tree EXCEPT ![c] = x]
    <3>1. v = [tree EXCEPT ![c].name = n, ![c].parent = f]  BY <1>3 DEF Moved
    <3> QED  BY <2>1, <3>1 DEF Trees
  <2>4. v \in Trees /\ v[c] = x /\ \A d \in Ids \ {c} : v[d] = tree[d]
    BY <2>2, <2>3 DEF Trees
  <2>5. \A d \in Ids : v[d].kind = tree[d].kind  BY <2>2, <2>4
  <2>6. \A d \in Ids : v[d].kind = "unborn" => v[d] = Unborn
    BY <2>2, <2>4 DEF Sound, Born
  <2>7. \A d \in Ids : v[d].parent \in Ids =>
          v[v[d].parent].kind = "folder" /\ LiveIn(v, v[d].parent)
    <3>1. \A d \in Ids : LiveIn(tree, d) => LiveIn(v, d)
      BY <1>3, <2>2, <2>4 DEF LiveIn, TreeAssumption
    <3> QED  BY <1>2, <1>3, <2>2, <2>4, <2>5, <3>1 DEF Sound, Live
  <2> QED  BY <1>3, <2>2, <2>4, <2>5, <2>6, <2>7 DEF Becomes, Sound
<1>4. CASE ~(Live(c) /\ Live(f))
  <2>1. PICK w : w = Trashed(c)  OBVIOUS
  <2>2. /\ w \in Trees /\ Sound(w)
        /\ \A d \in Ids : w[d].kind = tree[d].kind
    BY <2>1, TrashedIs DEF Becomes
  <2>3. v = [w EXCEPT ![c].name = n]  BY <1>4, <2>1 DEF Moved
  <2>4. PICK x : x = [w[c] EXCEPT !.name = n]  OBVIOUS
  <2>5. w[c] \in Node  BY <2>2 DEF Trees
  <2>6. x \in Node /\ x.kind = tree[c].kind /\ x.name = n /\ x.parent = w[c].parent
    BY <2>2, <2>4, <2>5 DEF Node
  <2>7. v \in Trees /\ v[c] = x /\ \A d \in Ids \ {c} : v[d] = w[d]
    BY <2>2, <2>3, <2>4, <2>6 DEF Trees
  <2>8. \A d \in Ids : v[d].kind = tree[d].kind /\ v[d].parent = w[d].parent
    BY <2>2, <2>6, <2>7
  <2>9. \A d \in Ids : v[d].kind = "unborn" => v[d] = Unborn
    BY <2>2, <2>6, <2>7 DEF Sound, Born
  <2>10. \A d \in Ids : v[d].parent \in Ids =>
           v[v[d].parent].kind = "folder" /\ LiveIn(v, v[d].parent)
    BY <2>2, <2>8 DEF Sound, LiveIn
  <2>11. Live(f) => v[c].parent = None /\ \A d \in Ids \ {c} : v[d] = tree[d]
    <3>1. SUFFICES ASSUME Live(f)
                   PROVE  v[c].parent = None /\ \A d \in Ids \ {c} : v[d] = tree[d]
      OBVIOUS
    <3>2. tree[c].parent = None  BY <1>4, <3>1 DEF Live, LiveIn
    <3>3. \A d \in Ids : tree[d].parent # c  BY <3>2 DEF Sound, LiveIn, TreeAssumption
    <3>4. Subtree(tree, c) \subseteq {c}
      <4>1. PICK S : S = {c}  OBVIOUS
      <4>2. S \in SUBSET Ids /\ c \in S /\ \A d \in Ids : tree[d].parent \in S => d \in S
        BY <3>3, <4>1
      <4> QED  BY <4>1, <4>2, SubtreeLeast
    <3>5. c \in Subtree(tree, c)  BY DEF Subtree
    <3> QED  BY <2>1, <2>7, <2>8, <3>4, <3>5, TrashedIs
  <2> QED  BY <1>4, <2>6, <2>7, <2>8, <2>9, <2>10, <2>11 DEF Becomes, Sound
<1> QED  BY <1>3, <1>4
-----------------------------------------------------------------------------
(***************************************************************************)
(* Types: what a call has at each of its places.                           *)
(***************************************************************************)

\* A step of the running call, to c, that makes the tree v.
LEMMA TypeStep ==
    ASSUME TInv, NEW c, call' = c, CallShape(c),
           NEW v, tree' = v, Becomes(tree, v), Known(v, c),
           cache' \in [Paths -> Ids \cup {None}],
           \A p \in Paths : cache'[p] \in Ids => cache'[p] = cache[p] \/ Born(v, cache'[p]),
           kept' \in BOOLEAN, Running
    PROVE  TInv'
<1>1. UNCHANGED <<calls, others, begun>>  BY DEF Running
<1>2. \A p \in Paths : cache'[p] \in Ids => Born(v, cache'[p])
  BY DEF TInv, Becomes, Born
<1>3. TypeOK'
  BY <1>1 DEF TInv, TypeOK, Becomes, Trees, CallShape
<1> QED  BY <1>2, <1>3 DEF TInv, Becomes

\* One that only looks.
LEMMA TypeLook ==
    ASSUME TInv, NEW c, call' = c, CallShape(c), tree' = tree, Known(tree, c),
           cache' = cache, kept' \in BOOLEAN, Running
    PROVE  TInv'
<1>1. Becomes(tree, tree)  BY DEF TInv, TypeOK, Becomes, Trees
<1>2. cache' \in [Paths -> Ids \cup {None}]  BY DEF TInv, TypeOK
<1> QED  BY <1>1, <1>2, TypeStep

\* One that caches what it found.
LEMMA TypePut ==
    ASSUME TInv, NEW c, call' = c, CallShape(c), tree' = tree, Known(tree, c),
           NEW p \in Paths, NEW i \in Ids, Born(tree, i), CachePut(p, i), kept' = kept, Running
    PROVE  TInv'
<1>1. Becomes(tree, tree)  BY DEF TInv, TypeOK, Becomes, Trees
<1>2. cache \in [Paths -> Ids \cup {None}] /\ kept \in BOOLEAN  BY DEF TInv, TypeOK
<1>3. cache' = [cache EXCEPT ![p] = i]  BY DEF CachePut
<1>4. /\ cache' \in [Paths -> Ids \cup {None}]
      /\ \A q \in Paths : cache'[q] = cache[q] \/ cache'[q] = i
  BY <1>2, <1>3
<1> QED  BY <1>1, <1>2, <1>4, TypeStep

\* What a folder lists, and what a path resolves to, was handed out by Drive.
LEMMA ListedIds ==
    ASSUME TInv, TreeAssumption, NEW f \in Ids \cup {Root}, NEW n, NEW c \in Listed(f, n)
    PROVE  c \in Ids /\ Born(tree, c) /\ Live(c) /\ tree[c].parent = f /\ tree[c].name = n
<1>1. c \in Ids /\ tree[c].parent = f /\ tree[c].name = n
  BY DEF Listed, Named, Children
<1>2. f # None  BY DEF TreeAssumption
<1>3. Born(tree, c)  BY <1>1, <1>2 DEF TInv, Sound, Born, Unborn
<1> QED  BY <1>1, <1>2, <1>3 DEF Live, LiveIn

LEMMA FoundIds ==
    ASSUME TInv, TreeAssumption, NEW p \in Paths, NEW f \in Ids \cup {Root},
           NEW folder \in BOOLEAN, NEW c \in Found(p, f, folder)
    PROVE  c \in Ids /\ Born(tree, c)
<1>1. CASE cache[p] # None
  BY <1>1 DEF Found, TInv, TypeOK
<1>2. CASE cache[p] = None
  <2>1. c \in Listed(f, Last(p))  BY <1>2 DEF Found
  <2> QED  BY <2>1, ListedIds
<1> QED  BY <1>1, <1>2

\* The call as it is.
LEMMA CallIs ==
    ASSUME TInv, TreeAssumption
    PROVE  /\ call \in Call /\ CallShape(call) /\ Known(tree, call)
           /\ kept \in BOOLEAN /\ Root \notin Ids /\ None \notin Ids /\ None # Root
           /\ call.path # <<>> => call.path \in Paths
           /\ call.to # <<>> => call.to \in Paths
BY DEF TInv, TypeOK, Call, TreeAssumption

\* A call that goes on elsewhere, from the folder it is in.
LEMMA GotoShape ==
    ASSUME TInv, TreeAssumption, NEW pc, NEW c, c = [call EXCEPT !.pc = pc],
           pc \in {"ok", "failed"}, call.pc \notin {"idle"},
           pc = "failed" \/ call.pc \in {"publish", "forget"}
    PROVE  CallShape(c) /\ Known(tree, c)
<1>1. PICK d : d = call  OBVIOUS
<1>2. d \in Call /\ CallShape(d) /\ Known(tree, d)  BY <1>1, CallIs
<1>3. /\ c \in Call /\ c.pc = pc /\ c.op = d.op /\ c.path = d.path /\ c.id = d.id
      /\ c.to = d.to /\ c.depth = d.depth /\ c.at = d.at /\ c.old = d.old
      /\ c.parent_is_new = d.parent_is_new
  BY <1>1, <1>2 DEF Call
<1>4. d.op \in {"copy", "blob", "move", "remove", "remove_file", "rmdir"}
  BY <1>1, <1>2 DEF CallShape, Call
<1>5. c.pc \in WritePlaces /\ c.pc \in MovePlaces /\ c.pc \in RemovePlaces
      /\ c.pc \in RemoveFilePlaces
  BY <1>3 DEF WritePlaces, MovePlaces, RemovePlaces, RemoveFilePlaces
<1>6. CallShape(c)
  BY <1>1, <1>2, <1>3, <1>4, <1>5 DEF CallShape
<1> QED  BY <1>2, <1>3, <1>6 DEF Known

LEMMA ThrowTypes ==
    ASSUME TInv, TreeAssumption, Throw \/ ThrowLate, call.pc # "idle", tree' = tree, Running
    PROVE  TInv'
<1>1. PICK c : c = [call EXCEPT !.pc = "failed"]  OBVIOUS
<1>2. call' = c /\ cache' = cache /\ kept' \in BOOLEAN
  BY <1>1, CallIs DEF Throw, ThrowLate, Goto
<1>3. CallShape(c) /\ Known(tree, c)  BY <1>1, GotoShape
<1> QED  BY <1>2, <1>3, TypeLook

LEMMA BeginTypes ==
    ASSUME TInv, TreeAssumption, NEW op, NEW pc, NEW p \in Paths \cup {<<>>},
           NEW id \in Ids \cup {None}, id \in Ids => Born(tree, id),
           NEW q \in Paths \cup {<<>>}, Begin(op, pc, p, id, q),
           \/ /\ op \in {"copy", "blob"} /\ p # <<>> /\ id = None
              /\ pc = "walk" \/ (pc = "dir" /\ Len(p) > 1)
           \/ /\ op \in {"remove", "rmdir"} /\ pc = "source" /\ q = <<>>
              /\ p = <<>> <=> id # None
           \/ op = "move" /\ pc = "source" /\ q # <<>> /\ (p = <<>> <=> id # None)
           \/ op = "remove_file" /\ pc = "is_file" /\ q = <<>> /\ (p # <<>> => id = None)
    PROVE  TInv'
<1>1. PICK c : c = [Idle EXCEPT !.op = op, !.pc = pc, !.path = p, !.id = id, !.to = q,
                                !.at = Root]
  OBVIOUS
<1>2. /\ call' = c /\ calls < MaxCalls /\ calls' = calls + 1
      /\ begun' = [tree |-> tree, alone |-> CacheTruthful /\ NoDuplicates]
      /\ UNCHANGED <<tree, cache, others, kept>>
  BY <1>1 DEF Begin
<1>3. /\ c.op = op /\ c.pc = pc /\ c.path = p /\ c.id = id /\ c.to = q /\ c.at = Root
      /\ c.depth = 0 /\ c.old = None /\ c.parent_is_new = FALSE
  BY <1>1 DEF Idle
<1>4. c \in Call
  <2>1. op \in {"copy", "blob", "move", "remove", "remove_file", "rmdir"}
        /\ pc \in {"dir", "walk", "source", "is_file"}
    OBVIOUS
  <2>2. c = [op |-> op, pc |-> pc, path |-> p, id |-> id, to |-> q, depth |-> 0, at |-> Root,
             old |-> None, parent_is_new |-> FALSE]
    BY <1>1 DEF Idle
  <2> QED  BY <2>1, <2>2 DEF Call
<1>5. p # <<>> => Len(p) \in {1, 2}  BY PathForms
<1>6. Len(<<>>) = 0 /\ (p = <<>> => Len(p) = 0)  OBVIOUS
<1>7. pc \in {"is_file", "source"} => GoalOf(c) = p  BY <1>3 DEF GoalOf
<1>8. CallShape(c)
  BY <1>3, <1>4, <1>5, <1>6, <1>7
     DEF CallShape, WritePlaces, MovePlaces, RemovePlaces, RemoveFilePlaces
<1>9. Known(tree, c)  BY <1>3 DEF Known, TreeAssumption
<1>10. (CacheTruthful /\ NoDuplicates) \in BOOLEAN  BY DEF CacheTruthful, NoDuplicates
<1>11. TypeOK'
  BY <1>2, <1>4, <1>10 DEF TInv, TypeOK, TreeAssumption
<1> QED  BY <1>2, <1>8, <1>9, <1>11 DEF TInv

LEMMA StartTypes ==
    ASSUME TInv, TreeAssumption, Start
    PROVE  TInv'
<1>1. \A c \in Ids \ Fresh : Born(tree, c)
  BY DEF TInv, Sound, Fresh, Born
<1>2. \A p \in Paths : p # <<>>  BY PathForms
<1>3. CASE StartWrite
  <2>1. PICK p \in Paths, op \in {"copy", "blob"} :
          Begin(op, IF op = "blob" /\ Len(p) > 1 THEN "dir" ELSE "walk", p, None, <<>>)
    BY <1>3 DEF StartWrite
  <2>2. PICK pc : pc = IF op = "blob" /\ Len(p) > 1 THEN "dir" ELSE "walk"  OBVIOUS
  <2> QED  BY <1>2, <2>1, <2>2, BeginTypes DEF TreeAssumption
<1>4. CASE StartRemove
  <2>1. PICK p \in Paths, op \in {"remove", "rmdir"} : Begin(op, "source", p, None, <<>>)
    BY <1>4 DEF StartRemove
  <2> QED  BY <1>2, <2>1, BeginTypes DEF TreeAssumption
<1>5. CASE StartMove
  <2>1. PICK p \in Paths, q \in Paths : Begin("move", "source", p, None, q)
    BY <1>5 DEF StartMove
  <2> QED  BY <1>2, <2>1, BeginTypes DEF TreeAssumption
<1>6. CASE StartRemoveFile
  <2>1. CASE \E p \in Paths : Begin("remove_file", "is_file", p, None, <<>>)
    BY <1>2, <2>1, BeginTypes DEF TreeAssumption
  <2>2. CASE \E c \in (Ids \ Fresh) \cup {None} : Begin("remove_file", "is_file", <<>>, c, <<>>)
    <3>1. PICK c \in (Ids \ Fresh) \cup {None} : Begin("remove_file", "is_file", <<>>, c, <<>>)
      BY <2>2
    <3>2. c \in Ids \cup {None} /\ (c \in Ids => Born(tree, c))
      BY <1>1 DEF TreeAssumption
    <3> QED  BY <3>1, <3>2, BeginTypes
  <2> QED  BY <1>6, <2>1, <2>2 DEF StartRemoveFile
<1>7. CASE StartById
  <2>1. PICK c \in Ids \ Fresh :
          \/ Begin("remove", "source", <<>>, c, <<>>) \/ Begin("rmdir", "source", <<>>, c, <<>>)
          \/ \E q \in Paths : Begin("move", "source", <<>>, c, q)
    BY <1>7 DEF StartById
  <2>2. c \in Ids /\ Born(tree, c) /\ c # None  BY <1>1 DEF TreeAssumption
  <2>3. CASE Begin("remove", "source", <<>>, c, <<>>) \/ Begin("rmdir", "source", <<>>, c, <<>>)
    BY <2>2, <2>3, BeginTypes
  <2>4. CASE \E q \in Paths : Begin("move", "source", <<>>, c, q)
    BY <1>2, <2>2, <2>4, BeginTypes
  <2> QED  BY <2>1, <2>3, <2>4
<1> QED  BY <1>3, <1>4, <1>5, <1>6, <1>7 DEF Start

LEMMA FinishTypes ==
    ASSUME TInv, TreeAssumption, Finish
    PROVE  TInv'
<1>1. call' = Idle /\ UNCHANGED <<tree, cache, calls, others, begun, kept>>  BY DEF Finish
<1>2. Idle \in Call /\ CallShape(Idle) /\ Known(tree, Idle)
  BY DEF Idle, Call, CallShape, Known, TreeAssumption
<1> QED  BY <1>1, <1>2 DEF TInv, TypeOK

\* EnsureParentDirectories.
LEMMA ExistsTypes ==
    ASSUME TInv, TreeAssumption, DirectoryExists \/ FileExists
    PROVE  TInv'
<1>1. PICK pc, folder, file, missing :
        /\ Exists(pc, folder, file, missing)
        /\ pc \in {"dir", "not_file"}
        /\ {folder, file, missing} \subseteq {"walk", "not_file", "create_dir", "failed"}
  BY DEF DirectoryExists, FileExists
<1>2. PICK d : d = call  OBVIOUS
<1>3. /\ d \in Call /\ CallShape(d) /\ Known(tree, d) /\ d.pc \in {"dir", "not_file"}
      /\ Running /\ tree' = tree /\ kept' = kept /\ kept \in BOOLEAN
  BY <1>1, <1>2, CallIs DEF Exists
<1>4. d.op \in {"copy", "blob"} /\ d.depth = 0 /\ Len(d.path) = 2
  BY <1>3 DEF CallShape, MovePlaces, RemovePlaces, RemoveFilePlaces, Call
<1>5. d.path \in Paths  BY <1>2, <1>3, <1>4, CallIs DEF CallShape
<1>6. PICK p : p = Parent(d.path)  OBVIOUS
<1>7. p \in Paths  BY <1>4, <1>5, <1>6, PathForms
<1>8. \A place \in {"walk", "not_file", "create_dir", "failed"} :
        \A c : c = [d EXCEPT !.pc = place] => CallShape(c) /\ Known(tree, c)
  <2>1. SUFFICES ASSUME NEW place \in {"walk", "not_file", "create_dir", "failed"},
                        NEW c, c = [d EXCEPT !.pc = place]
                 PROVE  CallShape(c) /\ Known(tree, c)
    OBVIOUS
  <2>2. /\ c \in Call /\ c.pc = place /\ c.op = d.op /\ c.path = d.path /\ c.id = d.id
        /\ c.to = d.to /\ c.depth = d.depth /\ c.at = d.at /\ c.old = d.old
        /\ c.parent_is_new = d.parent_is_new
    BY <1>3, <2>1 DEF Call
  <2> QED  BY <1>3, <1>4, <2>2 DEF CallShape, Known, WritePlaces
<1>9. PICK place \in {"walk", "not_file", "create_dir", "failed"} : Goto(place) /\
        \/ \E i \in Found(p, Root, FALSE) : CachePut(p, i)
        \/ cache' = cache
  BY <1>1, <1>2, <1>6 DEF Exists
<1>10. PICK c : c = [d EXCEPT !.pc = place]  OBVIOUS
<1>11. call' = c /\ CallShape(c) /\ Known(tree, c)  BY <1>2, <1>8, <1>9, <1>10 DEF Goto
<1>12. CASE \E i \in Found(p, Root, FALSE) : CachePut(p, i)
  <2>1. PICK i \in Found(p, Root, FALSE) : CachePut(p, i)  BY <1>12
  <2>2. i \in Ids /\ Born(tree, i)  BY <1>7, FoundIds
  <2> QED  BY <1>3, <1>7, <1>11, <2>1, <2>2, TypePut
<1>13. CASE cache' = cache  BY <1>3, <1>11, <1>13, TypeLook
<1> QED  BY <1>9, <1>12, <1>13

LEMMA CreateDirectoryTypes ==
    ASSUME TInv, TreeAssumption, CreateDirectory
    PROVE  TInv'
<1>1. PICK d : d = call  OBVIOUS
<1>2. /\ d \in Call /\ CallShape(d) /\ Known(tree, d) /\ d.pc = "create_dir"
      /\ Running /\ cache' = cache /\ kept' = kept /\ kept \in BOOLEAN
  BY <1>1, CallIs DEF CreateDirectory
<1>3. d.op \in {"copy", "blob"} /\ d.depth = 0 /\ Len(d.path) = 2
  BY <1>2 DEF CallShape, MovePlaces, RemovePlaces, RemoveFilePlaces, Call
<1>4. d.path \in Paths  BY <1>1, <1>2, <1>3, CallIs DEF CallShape
<1>5. Parent(d.path) \in Paths  BY <1>3, <1>4, PathForms
<1>6. PICK n : n = Last(Parent(d.path))  OBVIOUS
<1>7. n \in Names  BY <1>5, <1>6, PathForms
<1>8. PICK effect \in BOOLEAN, ok \in BOOLEAN, i \in Fresh :
        /\ tree' = IF effect THEN Created(i, Root, n, "folder") ELSE tree
        /\ Goto(IF ok THEN "walk" ELSE "failed")
  BY <1>1, <1>6 DEF CreateDirectory
<1>9. PICK v : v = tree'  OBVIOUS
<1>10. Becomes(tree, v)
  <2>1. tree \in Trees /\ Sound(tree) /\ IsFolder(Root) /\ Becomes(tree, tree)
    BY DEF TInv, TypeOK, Trees, IsFolder, Becomes
  <2>2. PICK w : w = Created(i, Root, n, "folder")  OBVIOUS
  <2>3. Becomes(tree, w)  BY <1>7, <2>1, <2>2, CreatedIs
  <2> QED  BY <1>8, <1>9, <2>1, <2>2, <2>3
<1>11. PICK c : c = [d EXCEPT !.pc = IF ok THEN "walk" ELSE "failed"]  OBVIOUS
<1>12. call' = c  BY <1>1, <1>8, <1>11 DEF Goto
<1>13. /\ c \in Call /\ c.pc \in {"walk", "failed"} /\ c.op = d.op /\ c.path = d.path
       /\ c.id = d.id /\ c.to = d.to /\ c.depth = d.depth /\ c.at = d.at /\ c.old = d.old
       /\ c.parent_is_new = d.parent_is_new
  BY <1>2, <1>11 DEF Call
<1>14. CallShape(c)  BY <1>2, <1>3, <1>13 DEF CallShape, WritePlaces
<1>15. Known(v, c)  BY <1>2, <1>3, <1>10, <1>13 DEF Known, Becomes, CallShape, Born
<1>16. cache' \in [Paths -> Ids \cup {None}]  BY <1>2 DEF TInv, TypeOK
<1> QED  BY <1>2, <1>9, <1>10, <1>12, <1>14, <1>15, <1>16, TypeStep

\* A step of OpenFile, to a call that differs from call as c does from it: the
\* places, and what it found.
LEMMA OpenShape ==
    ASSUME TInv, TreeAssumption, call.op \in {"copy", "blob"}, NEW v, Becomes(tree, v),
           NEW c \in Call, c.op = call.op, c.path = call.path, c.id = call.id,
           c.pc \in {"walk", "any_kind", "create", "probe", "publish", "ok", "failed"},
           c.at \in Ids \cup {Root}, c.at \in Ids => Born(v, c.at),
           c.depth = 0 => c.at = Root, c.depth # 0 => c.at \in Ids,
           c.parent_is_new => c.depth = 1,
           c.pc \in {"any_kind", "create"} => c.depth = 0 /\ Len(c.path) = 2,
           c.pc = "walk" => c.depth < Len(c.path),
           c.pc \in {"probe", "publish"} => c.depth = Len(c.path) - 1,
           c.pc = "publish" => c.old = None \/ ~c.parent_is_new,
           c.pc = "probe" => ~c.parent_is_new,
           c.pc \in {"walk", "any_kind", "create", "probe"} => c.old = None
    PROVE  CallShape(c) /\ Known(v, c)
<1>1. PICK d : d = call  OBVIOUS
<1>2. d \in Call /\ CallShape(d) /\ Known(tree, d)  BY <1>1, CallIs
<1>3. c.op = d.op /\ c.path = d.path /\ c.id = d.id  BY <1>1
<1>4. d.op \in {"copy", "blob"} /\ d.path # <<>> /\ d.id = None
  BY <1>1, <1>2 DEF CallShape
<1>5. c.pc \in WritePlaces  BY DEF WritePlaces
<1> QED  BY <1>3, <1>4, <1>5 DEF CallShape, Known, TreeAssumption

\* Where OpenFile is.
LEMMA OpenIs ==
    ASSUME TInv, TreeAssumption,
           call.pc \in {"walk", "any_kind", "create", "probe", "publish"}
    PROVE  /\ call.op \in {"copy", "blob"} /\ call.path \in Paths /\ Len(call.path) \in {1, 2}
           /\ call.at \in Ids \cup {Root} /\ (call.at \in Ids => Born(tree, call.at))
           /\ call.depth \in 0..2 /\ (call.depth = 0 => call.at = Root)
           /\ call.depth # 0 => call.at \in Ids
           /\ call.old \in Ids \cup {None} /\ call.parent_is_new \in BOOLEAN
           /\ call.parent_is_new => call.depth = 1
           /\ call.depth < Len(call.path)
           /\ call.pc # "publish" => call.old = None
<1>1. PICK d : d = call  OBVIOUS
<1>2. d \in Call /\ CallShape(d) /\ Known(tree, d)  BY <1>1, CallIs
<1>3. d.op \in {"copy", "blob"}
  BY <1>1, <1>2 DEF CallShape, MovePlaces, RemovePlaces, RemoveFilePlaces, Call
<1>4. d.path # <<>> /\ d.path \in Paths  BY <1>2, <1>3 DEF CallShape, Call
<1>5. Len(d.path) \in {1, 2}  BY <1>4, PathForms
<1>6. d.depth < Len(d.path)
  <2>1. PICK x, y : x = d.depth /\ y = Len(d.path)  OBVIOUS
  <2>2. x \in 0..2 /\ y \in {1, 2}  BY <1>2, <1>5, <2>1 DEF Call
  <2>3. \/ x < y
        \/ x = 0 /\ y = 2
        \/ x = y - 1
    BY <1>1, <1>2, <2>1 DEF CallShape
  <2>4. x < y  BY <2>2, <2>3
  <2> QED  BY <2>1, <2>4
<1>7. d.depth \in 0..2 /\ d.old \in Ids \cup {None} /\ d.parent_is_new \in BOOLEAN
  BY <1>2 DEF Call
<1>8. d.at \in Ids \cup {Root} /\ (d.depth = 0 => d.at = Root) /\ (d.depth # 0 => d.at \in Ids)
  BY <1>1, <1>2 DEF CallShape
<1> QED  BY <1>1, <1>2, <1>3, <1>4, <1>5, <1>6, <1>7, <1>8 DEF CallShape, Known

\* The path walked so far and one segment more, while there is a folder to go.
LEMMA WalkedIs ==
    ASSUME TInv, TreeAssumption, call.pc \in {"walk", "any_kind", "create"},
           call.depth + 1 # Len(call.path)
    PROVE  /\ call.depth = 0 /\ call.at = Root /\ Len(call.path) = 2
           /\ Walked = Parent(call.path) /\ Walked \in Paths /\ Len(Walked) = 1
           /\ Walked = <<call.path[1]>> /\ Last(Walked) \in Names
<1>1. /\ call.path \in Paths /\ Len(call.path) \in {1, 2} /\ call.depth \in 0..2
      /\ call.depth < Len(call.path) /\ (call.depth = 0 => call.at = Root)
  BY OpenIs
<1>2. call.depth = 0 /\ Len(call.path) = 2
  <2>1. PICK x, y : x = call.depth /\ y = Len(call.path)  OBVIOUS
  <2>2. x \in 0..2 /\ y \in {1, 2} /\ x < y /\ x + 1 # y  BY <1>1, <2>1
  <2>3. x = 0 /\ y = 2  BY <2>2
  <2> QED  BY <2>1, <2>3
<1>3. PICK p : p = call.path  OBVIOUS
<1>4. Walked = SubSeq(p, 1, 1)  BY <1>2, <1>3 DEF Walked
<1>5. SubSeq(p, 1, 1) = <<p[1]>> /\ Parent(p) = <<p[1]>> /\ <<p[1]>> \in Paths
  BY <1>1, <1>2, <1>3, PathForms
<1>6. Len(<<p[1]>>) = 1  OBVIOUS
<1>7. Last(<<p[1]>>) \in Names  BY <1>5, PathForms
<1> QED  BY <1>1, <1>2, <1>3, <1>4, <1>5, <1>6, <1>7

\* Entering the folder just resolved.
LEMMA EnterShape ==
    ASSUME TInv, TreeAssumption, call.pc \in {"walk", "any_kind", "create"},
           call.depth + 1 # Len(call.path), NEW v, Becomes(tree, v),
           NEW i \in Ids, Born(v, i), NEW new \in BOOLEAN, Enter(i, new)
    PROVE  CallShape(call') /\ Known(v, call')
<1>1. PICK d : d = call  OBVIOUS
<1>2. d \in Call /\ d.op \in {"copy", "blob"} /\ d.depth = 0 /\ Len(d.path) = 2 /\ d.old = None
  BY <1>1, CallIs, OpenIs, WalkedIs
<1>3. PICK c : c = call'  OBVIOUS
<1>4. /\ c \in Call /\ c.op = d.op /\ c.path = d.path /\ c.id = d.id /\ c.pc = "walk"
      /\ c.at = i /\ c.depth = 1 /\ c.old = None
  <2>1. PICK n : n = (d.parent_is_new \/ new)  OBVIOUS
  <2>2. n \in BOOLEAN /\ d.depth + 1 = 1 /\ 1 \in 0..2  BY <1>2, <2>1 DEF Call
  <2>3. c = [d EXCEPT !.pc = "walk", !.at = i, !.depth = 1, !.parent_is_new = n]
    BY <1>1, <1>2, <1>3, <2>1, <2>2 DEF Enter
  <2>4. c = [op |-> d.op, pc |-> "walk", path |-> d.path, id |-> d.id, to |-> d.to,
             depth |-> 1, at |-> i, old |-> d.old, parent_is_new |-> n]
    BY <1>2, <2>3, Zenon DEF Call
  <2> QED  BY <1>2, <2>2, <2>4 DEF Call
<1>5. c.op = call.op /\ c.path = call.path /\ c.id = call.id /\ call.op \in {"copy", "blob"}
  BY <1>1, <1>2, <1>4
<1>6. c.at \in Ids \cup {Root} /\ Born(v, c.at)
  BY <1>4
<1>7. 1 < Len(c.path)
  <2>1. Len(c.path) = 2  BY <1>2, <1>4
  <2> QED  BY <2>1
<1>8. c.depth # 0
  <2>1. c.depth = 1 /\ 1 # 0  BY <1>4
  <2> QED  BY <2>1
<1>9. CallShape(c) /\ Known(v, c)  BY <1>4, <1>5, <1>6, <1>7, <1>8, OpenShape
<1> QED  BY <1>3, <1>9

\* Going on in the folder reached.
LEMMA StayShape ==
    ASSUME TInv, TreeAssumption, call.pc \in {"walk", "any_kind", "create", "probe", "publish"},
           NEW v, Becomes(tree, v), NEW pc,
           pc \in {"any_kind", "create", "probe", "publish", "ok", "failed"}, Goto(pc),
           pc \in {"any_kind", "create"} => call.depth + 1 # Len(call.path),
           pc \in {"probe", "publish"} => call.depth = Len(call.path) - 1,
           pc = "publish" => call.old = None \/ ~call.parent_is_new,
           pc = "probe" => call.pc = "walk" /\ ~call.parent_is_new
    PROVE  CallShape(call') /\ Known(v, call')
<1>1. PICK d : d = call  OBVIOUS
<1>2. /\ d \in Call /\ d.op \in {"copy", "blob"} /\ Len(d.path) \in {1, 2}
      /\ d.at \in Ids \cup {Root} /\ (d.at \in Ids => Born(tree, d.at))
      /\ (d.depth = 0 => d.at = Root) /\ (d.depth # 0 => d.at \in Ids) /\ d.depth \in 0..2
      /\ d.parent_is_new => d.depth = 1
      /\ d.depth < Len(d.path) /\ (d.pc # "publish" => d.old = None)
  BY <1>1, CallIs, OpenIs
<1>3. PICK c : c = call'  OBVIOUS
<1>4. /\ c \in Call /\ c.op = d.op /\ c.path = d.path /\ c.id = d.id /\ c.pc = pc
      /\ c.at = d.at /\ c.depth = d.depth /\ c.old = d.old
      /\ c.parent_is_new = d.parent_is_new
  BY <1>1, <1>2, <1>3 DEF Goto, Call
<1>5. d.at \in Ids => Born(v, d.at)
  BY <1>2 DEF Becomes, Born
<1>6. pc \in {"any_kind", "create"} => d.depth = 0 /\ Len(d.path) = 2
  <2>1. PICK x, y : x = d.depth /\ y = Len(d.path)  OBVIOUS
  <2>2. x \in 0..2 /\ y \in {1, 2} /\ x < y  BY <1>2, <2>1
  <2>3. x + 1 # y => x = 0 /\ y = 2  BY <2>2
  <2> QED  BY <1>1, <2>1, <2>3
<1>7. pc \in {"any_kind", "create", "probe"} => d.old = None
  <2>1. pc \in {"any_kind", "create"} /\ d.pc = "publish" => FALSE
    BY <1>1, <1>6, CallIs DEF CallShape
  <2> QED  BY <1>1, <1>2, <2>1
<1> QED  BY <1>1, <1>2, <1>3, <1>4, <1>5, <1>6, <1>7, OpenShape

\* The tree as it is, for a step that leaves it alone.
LEMMA Unchanging ==
    ASSUME TInv
    PROVE  /\ tree \in Trees /\ Sound(tree) /\ Becomes(tree, tree)
           /\ cache \in [Paths -> Ids \cup {None}] /\ kept \in BOOLEAN
BY DEF TInv, TypeOK, Becomes, Trees

LEMMA OpenWalkTypes ==
    ASSUME TInv, TreeAssumption, OpenWalk
    PROVE  TInv'
<1>1. call.pc = "walk" /\ Running /\ tree' = tree /\ kept' = kept /\ Becomes(tree, tree)
      /\ kept \in BOOLEAN
  BY Unchanging DEF OpenWalk
<1>2. PICK c : c = call'  OBVIOUS
<1>3. CASE call.depth + 1 = Len(call.path)
  <2>1. /\ Goto(IF call.parent_is_new THEN "publish" ELSE "probe") /\ cache' = cache
    BY <1>3 DEF OpenWalk
  <2>2. call.depth \in 0..2 /\ Len(call.path) \in {1, 2}  BY <1>1, OpenIs
  <2>3. PICK pc : pc = IF call.parent_is_new THEN "publish" ELSE "probe"  OBVIOUS
  <2>4. CallShape(c) /\ Known(tree, c)
    <3>1. call.old = None  BY <1>1, OpenIs
    <3> QED  BY <1>1, <1>2, <1>3, <2>1, <2>2, <2>3, <3>1, StayShape
  <2> QED  BY <1>1, <1>2, <2>1, <2>4, TypeLook
<1>4. CASE call.depth + 1 # Len(call.path)
  <2>1. Walked \in Paths /\ call.at = Root  BY <1>1, <1>4, WalkedIs
  <2>2. CASE \E i \in FoldersToAdopt : CachePut(Walked, i) /\ Enter(i, FALSE)
    <3>1. PICK i \in FoldersToAdopt : CachePut(Walked, i) /\ Enter(i, FALSE)  BY <2>2
    <3>2. i \in Ids /\ Born(tree, i)  BY <2>1, <3>1, FoundIds DEF FoldersToAdopt
    <3>3. CallShape(c) /\ Known(tree, c)  BY <1>1, <1>2, <1>4, <3>1, <3>2, EnterShape
    <3> QED  BY <1>1, <1>2, <2>1, <3>1, <3>2, <3>3, TypePut
  <2>3. CASE cache' = InvalidatePrefix({Walked}) /\ UNCHANGED call
    <3>1. CallShape(c) /\ Known(tree, c)  BY <1>2, <2>3, CallIs
    <3>2. \A q \in Paths : cache'[q] = None \/ cache'[q] = cache[q]
      BY <2>3 DEF InvalidatePrefix
    <3>3. cache' \in [Paths -> Ids \cup {None}]
      <4>1. cache' = [q \in Paths |-> cache'[q]]  BY <2>3 DEF InvalidatePrefix
      <4> QED  BY <3>2, <4>1, Unchanging
    <3> QED  BY <1>1, <1>2, <3>1, <3>2, <3>3, TypeStep DEF TreeAssumption
  <2>4. CASE Goto("any_kind") /\ cache' = cache
    <3>1. CallShape(c) /\ Known(tree, c)  BY <1>1, <1>2, <1>4, <2>4, StayShape
    <3> QED  BY <1>1, <1>2, <2>4, <3>1, TypeLook
  <2>5. CASE Goto("failed") /\ cache' = cache
    <3>1. CallShape(c) /\ Known(tree, c)  BY <1>1, <1>2, <2>5, StayShape
    <3> QED  BY <1>1, <1>2, <2>5, <3>1, TypeLook
  <2> QED  BY <1>4, <2>2, <2>3, <2>4, <2>5 DEF OpenWalk
<1> QED  BY <1>3, <1>4

LEMMA ListAnyKindTypes ==
    ASSUME TInv, TreeAssumption, ListAnyKind
    PROVE  TInv'
<1>1. call.pc = "any_kind" /\ Running /\ tree' = tree /\ kept' = kept /\ Becomes(tree, tree)
      /\ kept \in BOOLEAN
  BY Unchanging DEF ListAnyKind
<1>2. PICK c : c = call'  OBVIOUS
<1>3. call.depth = 0 /\ Len(call.path) = 2  BY <1>1, CallIs DEF CallShape
<1>4. Walked \in Paths /\ call.at = Root /\ call.depth + 1 # Len(call.path)
  BY <1>1, <1>3, WalkedIs
<1>5. CASE Goto("create") /\ cache' = cache
  <2>1. CallShape(c) /\ Known(tree, c)  BY <1>1, <1>2, <1>4, <1>5, StayShape
  <2> QED  BY <1>1, <1>2, <1>5, <2>1, TypeLook
<1>6. CASE \E i \in AnyKind : CachePut(Walked, i) /\ Enter(i, FALSE)
  <2>1. PICK i \in AnyKind : CachePut(Walked, i) /\ Enter(i, FALSE)  BY <1>6
  <2>2. i \in Ids /\ Born(tree, i)  BY <1>4, <2>1, ListedIds DEF AnyKind
  <2>3. CallShape(c) /\ Known(tree, c)  BY <1>1, <1>2, <1>4, <2>1, <2>2, EnterShape
  <2> QED  BY <1>1, <1>2, <1>4, <2>1, <2>2, <2>3, TypePut
<1>7. CASE Throw
  BY <1>1, <1>7, ThrowTypes
<1> QED  BY <1>5, <1>6, <1>7 DEF ListAnyKind

LEMMA CreateFolderTypes ==
    ASSUME TInv, TreeAssumption, CreateFolder
    PROVE  TInv'
<1>1. call.pc = "create" /\ Running /\ kept' = kept /\ kept \in BOOLEAN
      /\ tree \in Trees /\ Sound(tree) /\ cache \in [Paths -> Ids \cup {None}]
  BY Unchanging DEF CreateFolder
<1>2. PICK c : c = call'  OBVIOUS
<1>3. call.depth = 0 /\ Len(call.path) = 2  BY <1>1, CallIs DEF CallShape
<1>4. Walked \in Paths /\ call.at = Root /\ call.depth + 1 # Len(call.path)
      /\ Last(Walked) \in Names
  BY <1>1, <1>3, WalkedIs
<1>5. CASE RequestFails  BY <1>1, <1>5, ThrowTypes DEF RequestFails
<1>6. ASSUME NEW i \in Fresh, tree' = Created(i, call.at, Last(Walked), "folder"),
             IsFolder(call.at),
             \/ CachePut(Walked, i) /\ Enter(i, TRUE)
             \/ Goto("failed") /\ UNCHANGED cache
      PROVE  TInv'
  <2>1. PICK v : v = tree'  OBVIOUS
  <2>2. PICK n : n = Last(Walked)  OBVIOUS
  <2>3. Becomes(tree, v) /\ i \in Ids /\ v[i].kind = "folder"
    BY <1>1, <1>4, <1>6, <2>1, <2>2, CreatedIs
  <2>4. Born(v, i)  BY <2>3 DEF Born
  <2>5. CASE CachePut(Walked, i) /\ Enter(i, TRUE)
    <3>1. CallShape(c) /\ Known(v, c)  BY <1>1, <1>2, <1>4, <2>3, <2>4, <2>5, EnterShape
    <3>2. cache' = [cache EXCEPT ![Walked] = i]  BY <2>5 DEF CachePut
    <3>3. /\ cache' \in [Paths -> Ids \cup {None}]
          /\ \A q \in Paths : cache'[q] = cache[q] \/ cache'[q] = i
      BY <1>1, <2>3, <3>2
    <3> QED  BY <1>1, <1>2, <2>1, <2>3, <2>4, <3>1, <3>3, TypeStep
  <2>6. CASE Goto("failed") /\ cache' = cache
    <3>1. CallShape(c) /\ Known(v, c)  BY <1>1, <1>2, <2>3, <2>6, StayShape
    <3> QED  BY <1>1, <1>2, <2>1, <2>3, <2>6, <3>1, TypeStep
  <2> QED  BY <1>6, <2>5, <2>6
<1> QED  BY <1>5, <1>6 DEF CreateFolder

LEMMA ProbeExistingTypes ==
    ASSUME TInv, TreeAssumption, ProbeExisting
    PROVE  TInv'
<1>1. call.pc = "probe" /\ Running /\ tree' = tree /\ kept' = kept /\ Becomes(tree, tree)
      /\ kept \in BOOLEAN
  BY Unchanging DEF ProbeExisting
<1>2. CASE Throw  BY <1>1, <1>2, ThrowTypes
<1>3. CASE /\ cache' = cache
           /\ call' = [call EXCEPT !.pc = "publish",
                        !.old = IF Probe = {} THEN None ELSE CHOOSE i \in Probe : TRUE]
  <2>1. PICK old : old = IF Probe = {} THEN None ELSE CHOOSE i \in Probe : TRUE  OBVIOUS
  <2>2. PICK d : d = call  OBVIOUS
  <2>3. /\ d \in Call /\ d.op \in {"copy", "blob"}
        /\ d.at \in Ids \cup {Root} /\ (d.at \in Ids => Born(tree, d.at))
        /\ (d.depth = 0 => d.at = Root) /\ (d.depth # 0 => d.at \in Ids)
        /\ d.depth = Len(d.path) - 1 /\ ~d.parent_is_new
    BY <1>1, <2>2, CallIs, OpenIs DEF CallShape
  <2>4. old \in Ids \cup {None}
    <3>1. \A i \in Probe : i \in Ids  BY DEF Probe, Listed, Named, Children
    <3> QED  BY <2>1, <3>1
  <2>5. PICK c : c = call'  OBVIOUS
  <2>6. /\ c \in Call /\ c.op = d.op /\ c.path = d.path /\ c.id = d.id /\ c.pc = "publish"
        /\ c.at = d.at /\ c.depth = d.depth /\ c.parent_is_new = d.parent_is_new
    <3>1. c = [d EXCEPT !.pc = "publish", !.old = old]  BY <1>3, <2>1, <2>2, <2>5
    <3> QED  BY <2>3, <2>4, <3>1 DEF Call
  <2>7. CallShape(c) /\ Known(tree, c)  BY <1>1, <2>2, <2>3, <2>6, OpenShape
  <2> QED  BY <1>1, <1>3, <2>5, <2>7, TypeLook
<1> QED  BY <1>2, <1>3 DEF ProbeExisting

LEMMA PublishOnCloseTypes ==
    ASSUME TInv, TreeAssumption, PublishOnClose
    PROVE  TInv'
<1>1. call.pc = "publish" /\ Running /\ cache' = cache /\ kept' = kept
      /\ tree \in Trees /\ Sound(tree) /\ Becomes(tree, tree)
      /\ kept \in BOOLEAN /\ cache \in [Paths -> Ids \cup {None}]
  BY Unchanging DEF PublishOnClose
<1>2. PICK pc \in {"ok", "failed"} : Goto(pc)  BY DEF PublishOnClose
<1>3. PICK c : c = call'  OBVIOUS
<1>4. CASE tree' = tree
  <2>1. CallShape(c) /\ Known(tree, c)  BY <1>1, <1>2, <1>3, StayShape
  <2> QED  BY <1>1, <1>3, <1>4, <2>1, TypeLook
<1>5. CASE IsFolder(call.at) /\ \E i \in Fresh : tree' = Created(i, call.at, Last(call.path), "file")
  <2>1. PICK i \in Fresh : tree' = Created(i, call.at, Last(call.path), "file")  BY <1>5
  <2>2. PICK v : v = tree'  OBVIOUS
  <2>3. Last(call.path) \in Names /\ call.at \in Ids \cup {Root}  BY <1>1, OpenIs, PathForms
  <2>4. PICK n : n = Last(call.path)  OBVIOUS
  <2>5. Becomes(tree, v)  BY <1>1, <1>5, <2>1, <2>2, <2>3, <2>4, CreatedIs
  <2>6. CallShape(c) /\ Known(v, c)  BY <1>1, <1>2, <1>3, <2>5, StayShape
  <2> QED  BY <1>1, <1>3, <2>2, <2>5, <2>6, TypeStep
<1> QED  BY <1>4, <1>5 DEF PublishOnClose

\* The path a call resolves, and how far it is.
LEMMA GoalIs ==
    ASSUME TInv, TreeAssumption,
           Resolving \/ call.pc \in {"collide", "move", "replace"}
    PROVE  /\ GoalOf(call) \in Paths \cup {<<>>} /\ (Resolving => Goal = GoalOf(call))
           /\ Len(GoalOf(call)) \in 0..2 /\ call.depth \in 0..2
           /\ call.depth <= Len(GoalOf(call))
           /\ call.at \in Ids \cup {Root} /\ (call.at \in Ids => Born(tree, call.at))
           /\ (call.depth = 0 => call.at = Root) /\ (call.depth # 0 => call.at \in Ids)
           /\ call.op \in {"move", "remove", "remove_file", "rmdir"}
<1>1. PICK d : d = call  OBVIOUS
<1>2. /\ d \in Call /\ CallShape(d) /\ Known(tree, d)
      /\ d.path # <<>> => d.path \in Paths
      /\ d.to # <<>> => d.to \in Paths
  BY <1>1, CallIs
<1>3. d.pc \in {"is_file", "is_dir", "confirm", "source", "source_parent", "target_parent",
                "collide", "move", "replace"}
  BY <1>1 DEF Resolving, Asking
<1>4. \A p \in Paths : Parent(p) \in Paths \cup {<<>>}
  <2>1. SUFFICES ASSUME NEW p \in Paths PROVE Parent(p) \in Paths \cup {<<>>}  OBVIOUS
  <2>2. Len(p) \in {1, 2}  BY PathForms
  <2> QED  BY <2>2, PathForms
<1>5. d.pc \in {"target_parent", "collide", "move", "replace"} => d.to \in Paths
  BY <1>2, <1>3 DEF CallShape, WritePlaces, RemovePlaces, RemoveFilePlaces, Call
<1>6. d.pc = "source_parent" => d.path \in Paths
  BY <1>2 DEF CallShape
<1>7. GoalOf(d) \in Paths \cup {<<>>}
  BY <1>2, <1>3, <1>4, <1>5, <1>6 DEF GoalOf
<1>8. Resolving => Goal = GoalOf(d)
  BY <1>1, <1>3 DEF Goal, GoalOf, Resolving, Asking
<1>9. Len(GoalOf(d)) \in 0..2
  <2>1. CASE GoalOf(d) = <<>>  BY <2>1
  <2>2. CASE GoalOf(d) \in Paths
    <3>1. Len(GoalOf(d)) \in {1, 2}  BY <2>2, PathForms
    <3> QED  BY <3>1
  <2> QED  BY <1>7, <2>1, <2>2
<1>10. d.depth \in 0..2  BY <1>2 DEF Call
<1>11. d.depth <= Len(GoalOf(d))
  <2>1. d.pc \in {"collide", "move", "replace"} => d.depth = Len(GoalOf(d))
    BY <1>2 DEF CallShape
  <2>2. d.pc \notin {"collide", "move", "replace"} => d.depth <= Len(GoalOf(d))
    BY <1>2, <1>3 DEF CallShape
  <2> QED  BY <1>10, <2>1, <2>2
<1>12. d.pc # "idle" /\ (IF d.depth = 0 THEN d.at = Root ELSE d.at \in Ids)
  BY <1>2, <1>3 DEF CallShape
<1>13. d.at \in Ids => Born(tree, d.at)  BY <1>2 DEF Known
<1>14. d.op \in {"move", "remove", "remove_file", "rmdir"}
  BY <1>2, <1>3 DEF CallShape, WritePlaces, Call
<1> QED  BY <1>1, <1>7, <1>8, <1>9, <1>10, <1>11, <1>12, <1>13, <1>14

\* The path resolved next.
LEMMA PrefixOf ==
    ASSUME TreeAssumption, NEW p \in Paths, NEW k \in 1..2, k <= Len(p)
    PROVE  /\ SubSeq(p, 1, k) \in Paths /\ Len(SubSeq(p, 1, k)) = k
           /\ k = Len(p) => SubSeq(p, 1, k) = p
           /\ k = 1 => SubSeq(p, 1, k) = <<p[1]>>
<1>1. Len(p) \in {1, 2}  BY PathForms
<1>2. CASE k = Len(p)
  <2>1. SubSeq(p, 1, k) = p  BY <1>2, PathForms
  <2>2. k = 1 => p = <<p[1]>>  BY <1>2, PathForms
  <2> QED  BY <1>2, <2>1, <2>2
<1>3. CASE k # Len(p)
  <2>1. k = 1 /\ Len(p) = 2
    <3>1. PICK y : y = Len(p)  OBVIOUS
    <3>2. y \in {1, 2} /\ k <= y /\ k # y  BY <1>1, <1>3, <3>1
    <3>3. k = 1 /\ y = 2  BY <3>2
    <3> QED  BY <3>1, <3>3
  <2>2. SubSeq(p, 1, 1) = <<p[1]>> /\ <<p[1]>> \in Paths  BY <2>1, PathForms
  <2>3. Len(<<p[1]>>) = 1  OBVIOUS
  <2> QED  BY <1>3, <2>1, <2>2, <2>3
<1> QED  BY <1>2, <1>3

LEMMA NextSegment ==
    ASSUME TInv, TreeAssumption, Resolving, call.depth < Len(Goal)
    PROVE  /\ Goal \in Paths /\ call.depth + 1 \in 1..2 /\ call.depth + 1 <= Len(Goal)
           /\ SubSeq(Goal, 1, call.depth + 1) \in Paths
           /\ Len(SubSeq(Goal, 1, call.depth + 1)) = call.depth + 1
<1>1. PICK g, x : g = Goal /\ x = call.depth  OBVIOUS
<1>2. g \in Paths \cup {<<>>} /\ Len(g) \in 0..2 /\ x \in 0..2 /\ x < Len(g)
  BY <1>1, GoalIs
<1>3. g \in Paths
  <2>1. Len(<<>>) = 0  OBVIOUS
  <2> QED  BY <1>2, <2>1
<1>4. x + 1 \in 1..2 /\ x + 1 <= Len(g)
  <2>1. PICK y : y = Len(g)  OBVIOUS
  <2>2. x \in 0..2 /\ y \in 0..2 /\ x < y  BY <1>2, <2>1
  <2>3. x + 1 \in 1..2 /\ x + 1 <= y  BY <2>2
  <2> QED  BY <2>1, <2>3
<1>5. SubSeq(g, 1, x + 1) \in Paths /\ Len(SubSeq(g, 1, x + 1)) = x + 1
  BY <1>3, <1>4, PrefixOf
<1> QED  BY <1>1, <1>3, <1>4, <1>5

\* A step of a call that resolves paths or changes what it resolved.
LEMMA ResolveShape ==
    ASSUME TInv, TreeAssumption, call.op \in {"move", "remove", "remove_file", "rmdir"},
           NEW v, Becomes(tree, v), NEW c \in Call,
           c.op = call.op, c.path = call.path, c.to = call.to,
           c.op = "move" => c.pc \in MovePlaces,
           c.op \in {"remove", "rmdir"} => c.pc \in RemovePlaces,
           c.op = "remove_file" => c.pc \in RemoveFilePlaces,
           c.parent_is_new = FALSE,
           IF c.depth = 0 THEN c.at = Root ELSE c.at \in Ids,
           c.at \in Ids => Born(v, c.at),
           c.id \in Ids => Born(v, c.id),
           c.pc \in {"is_file", "is_dir", "confirm", "source", "source_parent",
                     "target_parent"} => c.depth <= Len(GoalOf(c)),
           c.pc \in {"collide", "move", "replace"} => c.depth = Len(GoalOf(c)),
           c.pc = "source_parent" => c.path # <<>>,
           c.pc = "source" /\ c.path = <<>> => c.id # None,
           c.pc \in {"is_file", "is_dir", "confirm", "source"} /\ c.path # <<>> => c.id = None,
           c.pc \in {"source_parent", "target_parent", "collide", "move", "replace", "forget",
                     "delete"} => c.id # None,
           c.pc = "replace" => c.old # None
    PROVE  CallShape(c) /\ Known(v, c)
<1>1. PICK d : d = call  OBVIOUS
<1>2. d \in Call /\ CallShape(d) /\ Known(tree, d)  BY <1>1, CallIs
<1>3. c.op = d.op /\ c.path = d.path /\ c.to = d.to  BY <1>1
<1>4. /\ c.op = "move" => c.to # <<>>
      /\ c.op # "move" => c.to = <<>>
  BY <1>1, <1>2, <1>3 DEF CallShape
<1>5. c.pc \in MovePlaces \cup RemoveFilePlaces
  BY DEF RemoveFilePlaces
<1>6. c.pc \notin {"idle", "dir", "not_file", "create_dir", "walk", "any_kind", "create", "probe",
                   "publish"}
  BY <1>5 DEF MovePlaces, RemoveFilePlaces, RemovePlaces
<1> QED  BY <1>4, <1>6 DEF CallShape, Known

\* RemoveOne's questions.
LEMMA AskTypes ==
    ASSUME TInv, TreeAssumption, Asking, Running, tree' = tree, cache' = cache, kept' = kept,
           NEW pc \in {"is_dir", "confirm", "no", "failed", "source"}, ToFolder(pc, Root),
           pc = "source" => call.path # <<>> \/ call.id # None
    PROVE  TInv'
<1>1. PICK d : d = call  OBVIOUS
<1>2. /\ d \in Call /\ CallShape(d) /\ Known(tree, d)
      /\ kept \in BOOLEAN /\ Becomes(tree, tree)
  BY <1>1, CallIs, Unchanging
<1>3. d.pc \in {"is_file", "is_dir", "confirm"}  BY <1>1 DEF Asking
<1>4. d.op = "remove_file"
  BY <1>2, <1>3 DEF CallShape, WritePlaces, MovePlaces, RemovePlaces, Call
<1>5. d.parent_is_new = FALSE /\ (d.path # <<>> => d.id = None)
  BY <1>2, <1>3, <1>4 DEF CallShape, Call
<1>6. PICK c : c = call'  OBVIOUS
<1>7. /\ c \in Call /\ c.pc = pc /\ c.op = d.op /\ c.path = d.path /\ c.id = d.id
      /\ c.to = d.to /\ c.old = d.old /\ c.parent_is_new = FALSE
      /\ c.at = Root /\ c.depth = 0
  <2>1. c = [d EXCEPT !.pc = pc, !.at = Root, !.depth = 0]  BY <1>1, <1>6 DEF ToFolder
  <2>2. 0 \in 0..2  OBVIOUS
  <2> QED  BY <1>2, <1>5, <2>1, <2>2 DEF Call
<1>8. pc \in RemoveFilePlaces  BY DEF RemoveFilePlaces, RemovePlaces
<1>9. pc \in {"is_dir", "confirm", "source"} => GoalOf(c) = d.path  BY <1>7 DEF GoalOf
<1>10. 0 <= Len(d.path)
  <2>1. d.path = <<>> \/ Len(d.path) \in {1, 2}  BY <1>2, PathForms DEF Call
  <2>2. Len(<<>>) = 0  OBVIOUS
  <2> QED  BY <2>1, <2>2
<1>11. d.id \in Ids => Born(tree, d.id)  BY <1>2 DEF Known
<1>12. CallShape(c) /\ Known(tree, c)
  BY <1>1, <1>2, <1>4, <1>5, <1>7, <1>8, <1>9, <1>10, <1>11, ResolveShape
     DEF TreeAssumption
<1> QED  BY <1>2, <1>6, <1>12, TypeLook

LEMMA ResolveSegmentTypes ==
    ASSUME TInv, TreeAssumption, ResolveSegment
    PROVE  TInv'
<1>1. PICK d : d = call  OBVIOUS
<1>2. /\ d \in Call /\ CallShape(d) /\ Known(tree, d)
      /\ Running /\ tree' = tree /\ kept' = kept /\ kept \in BOOLEAN /\ Becomes(tree, tree)
  BY <1>1, CallIs, Unchanging DEF ResolveSegment
<1>3. Resolving /\ call.depth < Len(Goal)  BY DEF ResolveSegment
<1>4. PICK p : p = SubSeq(Goal, 1, call.depth + 1)  OBVIOUS
<1>5. p \in Paths /\ Goal = GoalOf(d)  BY <1>1, <1>3, <1>4, NextSegment, GoalIs
<1>6. d.op \in {"move", "remove", "remove_file", "rmdir"} /\ d.at \in Ids \cup {Root}
      /\ d.depth \in 0..2 /\ d.depth + 1 \in 0..2 /\ d.depth + 1 <= Len(GoalOf(d))
  BY <1>1, <1>3, GoalIs, NextSegment
<1>7. d.pc \in {"is_file", "is_dir", "confirm", "source", "source_parent", "target_parent"}
  BY <1>1, <1>3 DEF Resolving, Asking
<1>8. PICK c : c = call'  OBVIOUS
<1>9. ASSUME NEW i \in Found(p, call.at, Len(p) < Len(Goal)), CachePut(p, i),
             call' = [call EXCEPT !.at = i, !.depth = @ + 1]
      PROVE  TInv'
  <2>1. (Len(p) < Len(Goal)) \in BOOLEAN  OBVIOUS
  <2>2. i \in Ids /\ Born(tree, i)  BY <1>1, <1>5, <1>6, <1>9, <2>1, FoundIds
  <2>3. /\ c \in Call /\ c.pc = d.pc /\ c.op = d.op /\ c.path = d.path /\ c.id = d.id
        /\ c.to = d.to /\ c.old = d.old /\ c.parent_is_new = d.parent_is_new
        /\ c.at = i /\ c.depth = d.depth + 1
    <3>1. c = [d EXCEPT !.at = i, !.depth = d.depth + 1]  BY <1>1, <1>2, <1>8, <1>9 DEF Call
    <3> QED  BY <1>2, <1>6, <2>2, <3>1 DEF Call
  <2>4. GoalOf(c) = GoalOf(d)  BY <2>3 DEF GoalOf
  <2>5. CallShape(c) /\ Known(tree, c)
    BY <1>2, <1>6, <1>7, <2>2, <2>3, <2>4
       DEF CallShape, Known, WritePlaces
  <2> QED  BY <1>2, <1>5, <1>8, <1>9, <2>2, <2>5, TypePut
<1>10. CASE Asking /\ ToFolder(IfAbsent, Root) /\ cache' = cache
  <2>1. PICK pc : pc = IfAbsent  OBVIOUS
  <2>2. pc \in {"is_dir", "confirm", "no"}  BY <1>10, <2>1 DEF IfAbsent, Asking
  <2> QED  BY <1>2, <1>10, <2>1, <2>2, AskTypes
<1>11. CASE Goto("failed") /\ cache' = cache
  <2>1. call.pc # "idle" /\ Throw  BY <1>1, <1>2, <1>7, <1>11 DEF Throw
  <2> QED  BY <1>2, <2>1, ThrowTypes
<1> QED  BY <1>4, <1>9, <1>10, <1>11 DEF ResolveSegment

\* The entry a path or an id names, once found.
LEMMA SourceIs ==
    ASSUME TInv, TreeAssumption, Asking \/ call.pc = "source", call.depth = Len(call.path)
    PROVE  /\ SourceId \in Ids \cup {None} /\ (SourceId \in Ids => Born(tree, SourceId))
           /\ call.path # <<>> => SourceId = call.at /\ call.at \in Ids
           /\ call.path = <<>> => SourceId = call.id
           /\ call.pc = "source" => SourceId \in Ids
<1>1. PICK d : d = call  OBVIOUS
<1>2. /\ d \in Call /\ CallShape(d) /\ Known(tree, d)
  BY <1>1, CallIs
<1>3. Resolving  BY DEF Resolving
<1>4. /\ d.at \in Ids \cup {Root} /\ (d.at \in Ids => Born(tree, d.at))
      /\ d.depth # 0 => d.at \in Ids
  BY <1>1, <1>3, GoalIs
<1>5. d.path # <<>> => d.depth # 0
  <2>1. SUFFICES ASSUME d.path # <<>> PROVE d.depth # 0  OBVIOUS
  <2>2. d.path \in Paths  BY <1>2, <2>1 DEF Call
  <2>3. Len(d.path) \in {1, 2}  BY <2>2, PathForms
  <2>4. PICK y : y = Len(d.path)  OBVIOUS
  <2>5. y \in {1, 2} /\ d.depth = y  BY <1>1, <2>3, <2>4
  <2> QED  BY <2>5
<1>6. d.id \in Ids \cup {None} /\ (d.id \in Ids => Born(tree, d.id))
      /\ (d.pc = "source" /\ d.path = <<>> => d.id # None)
  BY <1>2 DEF CallShape, Known, Call
<1> QED  BY <1>1, <1>4, <1>5, <1>6 DEF SourceId

LEMMA AnsweredTypes ==
    ASSUME TInv, TreeAssumption, Answered
    PROVE  TInv'
<1>1. Asking /\ call.depth = Len(call.path) /\ Running
      /\ tree' = tree /\ cache' = cache /\ kept' = kept
  BY DEF Answered
<1>2. call.pc \in {"is_file", "is_dir", "confirm"}  BY <1>1 DEF Asking
<1>3. CASE SourceId # None /\ ToFolder(IfPresent(SourceId), Root)
  <2>1. PICK pc : pc = IfPresent(SourceId)  OBVIOUS
  <2>2. pc \in {"is_dir", "confirm", "source", "failed"}  BY <1>2, <2>1 DEF IfPresent
  <2>3. call.path # <<>> \/ call.id # None  BY <1>1, <1>3, SourceIs
  <2> QED  BY <1>1, <1>3, <2>1, <2>2, <2>3, AskTypes
<1>4. CASE ToFolder(IF call.id = None /\ call.pc = "confirm" THEN "failed" ELSE IfAbsent, Root)
  <2>1. PICK pc : pc = IF call.id = None /\ call.pc = "confirm" THEN "failed" ELSE IfAbsent
    OBVIOUS
  <2>2. pc \in {"is_dir", "confirm", "no", "failed"}  BY <1>2, <2>1 DEF IfAbsent
  <2> QED  BY <1>1, <1>4, <2>1, <2>2, AskTypes
<1>5. CASE Goto("failed")
  <2>1. call.pc # "idle" /\ Throw  BY <1>1, <1>2, <1>5 DEF Throw
  <2> QED  BY <1>1, <2>1, ThrowTypes
<1> QED  BY <1>3, <1>4, <1>5 DEF Answered

LEMMA ResolvedSourceTypes ==
    ASSUME TInv, TreeAssumption, ResolvedSource
    PROVE  TInv'
<1>1. /\ call.pc = "source" /\ call.depth = Len(call.path) /\ Running
      /\ tree' = tree /\ cache' = cache /\ kept' = kept
  BY DEF ResolvedSource
<1>2. PICK d : d = call  OBVIOUS
<1>3. /\ d \in Call /\ CallShape(d) /\ Known(tree, d)
      /\ kept \in BOOLEAN /\ Becomes(tree, tree)
  BY <1>2, CallIs, Unchanging
<1>4. d.op \in {"move", "remove", "remove_file", "rmdir"}
  BY <1>1, <1>2, GoalIs DEF Resolving
<1>5. CASE Goto("failed")
  <2>1. call.pc # "idle" /\ Throw  BY <1>1, <1>5 DEF Throw
  <2> QED  BY <1>1, <2>1, ThrowTypes
<1>6. CASE call' = [call EXCEPT !.id = SourceId, !.at = Root, !.depth = 0,
                !.pc = IF call.op # "move" THEN "delete"
                       ELSE IF call.path = <<>> THEN "target_parent" ELSE "source_parent"]
  <2>1. PICK pc : pc = IF call.op # "move" THEN "delete"
                       ELSE IF call.path = <<>> THEN "target_parent" ELSE "source_parent"
    OBVIOUS
  <2>2. PICK i : i = SourceId  OBVIOUS
  <2>3. i \in Ids /\ Born(tree, i)  BY <1>1, <2>2, SourceIs
  <2>4. PICK c : c = call'  OBVIOUS
  <2>5. d.parent_is_new = FALSE  BY <1>3, <1>4 DEF CallShape, Call
  <2>6. pc \in {"delete", "target_parent", "source_parent"}  BY <2>1
  <2>7. /\ c \in Call /\ c.pc = pc /\ c.op = d.op /\ c.path = d.path /\ c.id = i
        /\ c.to = d.to /\ c.old = d.old /\ c.parent_is_new = FALSE
        /\ c.at = Root /\ c.depth = 0
    <3>1. c = [d EXCEPT !.id = i, !.at = Root, !.depth = 0, !.pc = pc]
      BY <1>2, <1>6, <2>1, <2>2, <2>4
    <3>2. 0 \in 0..2  OBVIOUS
    <3> QED  BY <1>3, <2>3, <2>5, <2>6, <3>1, <3>2 DEF Call
  <2>8. /\ d.op = "move" => pc \in MovePlaces
        /\ d.op # "move" => pc \in RemovePlaces /\ pc \in RemoveFilePlaces
        /\ pc = "source_parent" => d.path # <<>>
    BY <1>2, <2>1 DEF MovePlaces, RemovePlaces, RemoveFilePlaces
  <2>9. 0 <= Len(GoalOf(c))
    <3>1. GoalOf(c) \in Paths \cup {<<>>}
      <4>1. \A p \in Paths : Parent(p) \in Paths \cup {<<>>}
        <5>1. SUFFICES ASSUME NEW p \in Paths PROVE Parent(p) \in Paths \cup {<<>>}  OBVIOUS
        <5>2. Len(p) \in {1, 2}  BY PathForms
        <5> QED  BY <5>2, PathForms
      <4>2. d.path \in Paths \cup {<<>>} /\ d.to \in Paths \cup {<<>>}  BY <1>3 DEF Call
      <4>3. d.op = "move" => d.to # <<>>  BY <1>3 DEF CallShape
      <4>4. pc = "target_parent" => d.op = "move"  BY <1>2, <2>1
      <4> QED  BY <2>6, <2>7, <2>8, <4>1, <4>2, <4>3, <4>4 DEF GoalOf
    <3>2. GoalOf(c) = <<>> \/ Len(GoalOf(c)) \in {1, 2}  BY <3>1, PathForms
    <3>3. Len(<<>>) = 0  OBVIOUS
    <3> QED  BY <3>2, <3>3
  <2>10. CallShape(c) /\ Known(tree, c)
    BY <1>2, <1>3, <1>4, <2>3, <2>6, <2>7, <2>8, <2>9, ResolveShape DEF TreeAssumption
  <2> QED  BY <1>1, <1>3, <2>4, <2>10, TypeLook
<1> QED  BY <1>5, <1>6 DEF ResolvedSource

\* A move after its source was resolved.
LEMMA MoveIs ==
    ASSUME TInv, TreeAssumption,
           call.pc \in {"source_parent", "target_parent", "collide", "move", "replace"}
    PROVE  /\ call.op = "move" /\ call.to \in Paths /\ call.id \in Ids /\ Born(tree, call.id)
           /\ call.parent_is_new = FALSE /\ call.old \in Ids \cup {None}
           /\ Last(call.to) \in Names
<1>1. PICK d : d = call  OBVIOUS
<1>2. /\ d \in Call /\ CallShape(d) /\ Known(tree, d)
  BY <1>1, CallIs
<1>3. d.op = "move"
  BY <1>1, <1>2 DEF CallShape, WritePlaces, RemovePlaces, RemoveFilePlaces, Call
<1>4. d.to \in Paths  BY <1>2, <1>3 DEF CallShape, Call
<1>5. d.id \in Ids /\ d.old \in Ids \cup {None}  BY <1>1, <1>2 DEF CallShape, Call
<1>6. d.parent_is_new = FALSE  BY <1>2, <1>3 DEF CallShape, Call
<1>7. Last(d.to) \in Names  BY <1>4, PathForms
<1> QED  BY <1>1, <1>2, <1>3, <1>4, <1>5, <1>6, <1>7 DEF Known

LEMMA ResolvedParentTypes ==
    ASSUME TInv, TreeAssumption, ResolvedParent
    PROVE  TInv'
<1>1. /\ call.pc \in {"source_parent", "target_parent"} /\ call.depth = Len(Goal) /\ Running
      /\ tree' = tree /\ cache' = cache /\ kept' = kept
  BY DEF ResolvedParent
<1>2. PICK d : d = call  OBVIOUS
<1>3. /\ d \in Call /\ CallShape(d) /\ Known(tree, d)
      /\ kept \in BOOLEAN /\ Becomes(tree, tree)
  BY <1>2, CallIs, Unchanging
<1>4. /\ d.op = "move" /\ d.to \in Paths /\ d.id \in Ids /\ Born(tree, d.id)
      /\ d.parent_is_new = FALSE
  BY <1>1, <1>2, MoveIs
<1>5. /\ GoalOf(d) \in Paths \cup {<<>>} /\ Goal = GoalOf(d) /\ d.depth \in 0..2
      /\ d.at \in Ids \cup {Root} /\ (d.at \in Ids => Born(tree, d.at))
      /\ (d.depth = 0 => d.at = Root) /\ (d.depth # 0 => d.at \in Ids)
  BY <1>1, <1>2, GoalIs DEF Resolving
<1>6. PICK c : c = call'  OBVIOUS
<1>7. CASE Goto("failed")
  <2>1. call.pc # "idle" /\ Throw  BY <1>1, <1>7 DEF Throw
  <2> QED  BY <1>1, <2>1, ThrowTypes
<1>8. CASE call.pc = "source_parent" /\ ToFolder("target_parent", Root)
  <2>1. /\ c \in Call /\ c.pc = "target_parent" /\ c.op = d.op /\ c.path = d.path /\ c.id = d.id
        /\ c.to = d.to /\ c.old = d.old /\ c.parent_is_new = FALSE
        /\ c.at = Root /\ c.depth = 0
    <3>1. c = [d EXCEPT !.pc = "target_parent", !.at = Root, !.depth = 0]
      BY <1>2, <1>6, <1>8 DEF ToFolder
    <3>2. 0 \in 0..2  OBVIOUS
    <3> QED  BY <1>3, <1>4, <3>1, <3>2 DEF Call
  <2>2. 0 <= Len(GoalOf(c))
    <3>1. GoalOf(c) = Parent(d.to)  BY <2>1 DEF GoalOf
    <3>2. Len(d.to) \in {1, 2}  BY <1>4, PathForms
    <3>3. Len(Parent(d.to)) \in {0, 1}
      <4>1. Len(d.to) = 1 => Parent(d.to) = <<>>  BY <1>4, PathForms
      <4>2. Len(d.to) = 2 => Parent(d.to) = <<d.to[1]>>  BY <1>4, PathForms
      <4>3. Len(<<>>) = 0 /\ Len(<<d.to[1]>>) = 1  OBVIOUS
      <4> QED  BY <3>2, <4>1, <4>2, <4>3
    <3> QED  BY <3>1, <3>3
  <2>3. c.pc \in MovePlaces  BY <2>1 DEF MovePlaces
  <2>4. CallShape(c) /\ Known(tree, c)
    BY <1>2, <1>3, <1>4, <2>1, <2>2, <2>3, ResolveShape DEF TreeAssumption
  <2> QED  BY <1>1, <1>3, <1>6, <2>4, TypeLook
<1>9. CASE call.pc = "target_parent" /\ Goto("collide")
  <2>1. /\ c \in Call /\ c.pc = "collide" /\ c.op = d.op /\ c.path = d.path /\ c.id = d.id
        /\ c.to = d.to /\ c.old = d.old /\ c.parent_is_new = FALSE
        /\ c.at = d.at /\ c.depth = d.depth
    <3>1. c = [d EXCEPT !.pc = "collide"]  BY <1>2, <1>6, <1>9 DEF Goto
    <3> QED  BY <1>3, <1>4, <3>1 DEF Call
  <2>2. GoalOf(c) = GoalOf(d) /\ c.depth = Len(GoalOf(c))
    BY <1>1, <1>2, <1>5, <1>9, <2>1 DEF GoalOf
  <2>3. c.pc \in MovePlaces  BY <2>1 DEF MovePlaces
  <2>4. CallShape(c) /\ Known(tree, c)
    BY <1>2, <1>3, <1>4, <1>5, <2>1, <2>2, <2>3, ResolveShape DEF TreeAssumption
  <2> QED  BY <1>1, <1>3, <1>6, <2>4, TypeLook
<1> QED  BY <1>7, <1>8, <1>9 DEF ResolvedParent

LEMMA ReconcileTypes ==
    ASSUME TInv, TreeAssumption, ReconcileDestination
    PROVE  TInv'
<1>1. /\ call.pc = "collide" /\ Running /\ tree' = tree /\ cache' = cache /\ kept' = kept
  BY DEF ReconcileDestination
<1>2. PICK d : d = call  OBVIOUS
<1>3. /\ d \in Call /\ CallShape(d) /\ Known(tree, d)
      /\ kept \in BOOLEAN /\ Becomes(tree, tree)
  BY <1>2, CallIs, Unchanging
<1>4. CASE Goto("failed")
  <2>1. call.pc # "idle" /\ Throw  BY <1>1, <1>4 DEF Throw
  <2> QED  BY <1>1, <2>1, ThrowTypes
<1>5. CASE call' = [call EXCEPT !.pc = "move",
                !.old = IF AtDestination = {} THEN None
                        ELSE CHOOSE c \in AtDestination : TRUE]
  <2>1. PICK old : old = IF AtDestination = {} THEN None
                         ELSE CHOOSE c \in AtDestination : TRUE
    OBVIOUS
  <2>2. old \in Ids \cup {None}
    <3>1. \A i \in AtDestination : i \in Ids  BY DEF AtDestination, Listed, Named, Children
    <3> QED  BY <2>1, <3>1
  <2>3. /\ d.op = "move" /\ d.to \in Paths /\ d.id \in Ids /\ Born(tree, d.id)
        /\ d.parent_is_new = FALSE
    BY <1>1, <1>2, MoveIs
  <2>4. PICK c : c = call'  OBVIOUS
  <2>5. /\ c \in Call /\ c.pc = "move" /\ c.op = d.op /\ c.path = d.path /\ c.id = d.id
        /\ c.to = d.to /\ c.old = old /\ c.parent_is_new = FALSE
        /\ c.at = d.at /\ c.depth = d.depth
    <3>1. c = [d EXCEPT !.pc = "move", !.old = old]  BY <1>2, <1>5, <2>1, <2>4
    <3> QED  BY <1>3, <2>2, <2>3, <3>1 DEF Call
  <2>6. GoalOf(c) = GoalOf(d) /\ c.depth = Len(GoalOf(c))
        /\ (IF c.depth = 0 THEN c.at = Root ELSE c.at \in Ids)
        /\ (c.at \in Ids => Born(tree, c.at))
    BY <1>1, <1>2, <1>3, <2>5 DEF GoalOf, CallShape, Known
  <2>7. c.pc \in MovePlaces  BY <2>5 DEF MovePlaces
  <2>8. CallShape(c) /\ Known(tree, c)
    BY <1>2, <1>3, <2>3, <2>5, <2>6, <2>7, ResolveShape DEF TreeAssumption
  <2> QED  BY <1>1, <1>3, <2>4, <2>8, TypeLook
<1> QED  BY <1>4, <1>5 DEF ReconcileDestination

\* A step that changes the tree, and where its call goes on.
LEMMA ChangeTypes ==
    ASSUME TInv, TreeAssumption, call.pc \in {"move", "replace", "delete"},
           cache' = cache, kept' \in BOOLEAN, Running,
           NEW v, tree' = v, Becomes(tree, v),
           NEW pc \in {"replace", "forget", "failed"}, Goto(pc),
           pc = "replace" => call.pc = "move" /\ call.old # None
    PROVE  TInv'
<1>1. PICK d : d = call  OBVIOUS
<1>2. /\ d \in Call /\ CallShape(d) /\ Known(tree, d)
  BY <1>1, CallIs
<1>3. d.op \in {"move", "remove", "remove_file", "rmdir"} /\ d.id \in Ids
      /\ (d.pc = "move" => d.op = "move")
  BY <1>1, <1>2 DEF CallShape, WritePlaces, RemovePlaces, RemoveFilePlaces, Call
<1>4. d.parent_is_new = FALSE  BY <1>2, <1>3 DEF CallShape, Call
<1>5. PICK c : c = call'  OBVIOUS
<1>6. /\ c \in Call /\ c.pc = pc /\ c.op = d.op /\ c.path = d.path /\ c.id = d.id
      /\ c.to = d.to /\ c.old = d.old /\ c.parent_is_new = FALSE
      /\ c.at = d.at /\ c.depth = d.depth
  <2>1. c = [d EXCEPT !.pc = pc]  BY <1>1, <1>5 DEF Goto
  <2> QED  BY <1>2, <1>4, <2>1 DEF Call
<1>7. /\ pc = "replace" => GoalOf(c) = GoalOf(d) /\ c.depth = Len(GoalOf(c))
      /\ (IF c.depth = 0 THEN c.at = Root ELSE c.at \in Ids)
      /\ (c.at \in Ids => Born(v, c.at)) /\ (c.id \in Ids => Born(v, c.id))
  BY <1>1, <1>2, <1>6 DEF GoalOf, CallShape, Known, Becomes, Born
<1>8. /\ pc \in MovePlaces
      /\ pc # "replace" => pc \in RemovePlaces /\ pc \in RemoveFilePlaces
  BY DEF MovePlaces, RemovePlaces, RemoveFilePlaces
<1>9. CallShape(c) /\ Known(v, c)
  BY <1>1, <1>2, <1>3, <1>6, <1>7, <1>8, ResolveShape DEF TreeAssumption
<1> QED  BY <1>5, <1>9, TypeStep, Unchanging

LEMMA MoveEntryTypes ==
    ASSUME TInv, TreeAssumption, MoveEntry
    PROVE  TInv'
<1>1. /\ call.pc = "move" /\ Running /\ cache' = cache /\ kept \in BOOLEAN
      /\ tree \in Trees /\ Sound(tree)
  BY Unchanging DEF MoveEntry
<1>2. /\ call.to \in Paths /\ call.id \in Ids /\ Born(tree, call.id)
      /\ call.at \in Ids \cup {Root} /\ Last(call.to) \in Names
  BY <1>1, MoveIs, GoalIs
<1>3. CASE Throw /\ UNCHANGED tree  BY <1>1, <1>3, ThrowTypes
<1>4. CASE /\ CanMove(call.id, call.at)
           /\ tree' = Moved(call.id, call.at, Last(call.to))
           /\ \/ Goto(IF call.old = None THEN "forget" ELSE "replace") /\ UNCHANGED kept
              \/ ThrowLate
  <2>1. PICK v : v = tree'  OBVIOUS
  <2>2. PICK i, f, n : i = call.id /\ f = call.at /\ n = Last(call.to)  OBVIOUS
  <2>3. Becomes(tree, v)  BY <1>1, <1>2, <1>4, <2>1, <2>2, MovedIs
  <2>4. PICK pc \in {"replace", "forget", "failed"} :
          Goto(pc) /\ (pc = "replace" => call.old # None) /\ kept' \in BOOLEAN
    BY <1>1, <1>4 DEF ThrowLate
  <2> QED  BY <1>1, <2>1, <2>3, <2>4, ChangeTypes
<1> QED  BY <1>3, <1>4 DEF MoveEntry

LEMMA ReplaceTypes ==
    ASSUME TInv, TreeAssumption, Replace
    PROVE  TInv'
<1>1. /\ call.pc = "replace" /\ Running /\ cache' = cache /\ kept \in BOOLEAN
      /\ tree \in Trees /\ Sound(tree) /\ Becomes(tree, tree)
  BY Unchanging DEF Replace
<1>2. PICK f : f = ToReplace  OBVIOUS
<1>3. f \in Ids
  BY <1>1, <1>2, MoveIs, CallIs DEF ToReplace, CallShape
<1>4. PICK v : v = tree'  OBVIOUS
<1>5. v \in {tree, Trashed(f)}  BY <1>2, <1>4 DEF Replace
<1>6. Becomes(tree, v)
  <2>1. PICK w : w = Trashed(f)  OBVIOUS
  <2>2. Becomes(tree, w)  BY <1>1, <1>3, <2>1, TrashedIs
  <2> QED  BY <1>1, <1>5, <2>1, <2>2
<1>7. PICK pc \in {"forget", "failed"} : Goto(pc) /\ kept' \in BOOLEAN
  BY <1>1 DEF Replace, ThrowLate
<1> QED  BY <1>1, <1>4, <1>6, <1>7, ChangeTypes

LEMMA DeleteTypes ==
    ASSUME TInv, TreeAssumption, Delete
    PROVE  TInv'
<1>1. /\ call.pc = "delete" /\ Running /\ cache' = cache /\ kept \in BOOLEAN
      /\ tree \in Trees /\ Sound(tree) /\ Becomes(tree, tree)
  BY Unchanging DEF Delete
<1>2. PICK f : f = call.id  OBVIOUS
<1>3. f \in Ids
  BY <1>1, <1>2, CallIs DEF CallShape, Call
<1>4. PICK v : v = tree'  OBVIOUS
<1>5. v \in {tree, Trashed(f)}  BY <1>2, <1>4 DEF Delete
<1>6. Becomes(tree, v)
  <2>1. PICK w : w = Trashed(f)  OBVIOUS
  <2>2. Becomes(tree, w)  BY <1>1, <1>3, <2>1, TrashedIs
  <2> QED  BY <1>1, <1>5, <2>1, <2>2
<1>7. PICK pc \in {"forget", "failed"} : Goto(pc) /\ kept' \in BOOLEAN
  BY <1>1 DEF Delete, Throw, ThrowLate
<1> QED  BY <1>1, <1>4, <1>6, <1>7, ChangeTypes

LEMMA InvalidateTypes ==
    ASSUME TInv, TreeAssumption, Invalidate
    PROVE  TInv'
<1>1. /\ call.pc = "forget" /\ Running /\ tree' = tree /\ Goto("ok") /\ kept \in BOOLEAN
      /\ cache \in [Paths -> Ids \cup {None}] /\ Becomes(tree, tree)
      /\ kept' = (kept /\ call.path # <<>>)
  BY Unchanging DEF Invalidate
<1>2. PICK c : c = [call EXCEPT !.pc = "ok"]  OBVIOUS
<1>3. call' = c /\ CallShape(c) /\ Known(tree, c)  BY <1>1, <1>2, GotoShape DEF Goto
<1>4. PICK S : S = {call.path, call.to} \ {<<>>}  OBVIOUS
<1>5. cache' = InvalidatePrefix(S)  BY <1>4 DEF Invalidate
<1>6. \A q \in Paths : cache'[q] = None \/ cache'[q] = cache[q]
  BY <1>5 DEF InvalidatePrefix
<1>7. cache' \in [Paths -> Ids \cup {None}]
  <2>1. cache' = [q \in Paths |-> cache'[q]]  BY <1>5 DEF InvalidatePrefix
  <2> QED  BY <1>1, <1>6, <2>1
<1>8. \A q \in Paths : cache'[q] \in Ids => cache'[q] = cache[q]
  BY <1>6 DEF TreeAssumption
<1>9. kept' \in BOOLEAN  BY <1>1
<1> QED  BY <1>1, <1>3, <1>7, <1>8, <1>9, TypeStep

\* What another client makes of the tree.
LEMMA OtherClientIs ==
    ASSUME TInv, TreeAssumption, OtherClient
    PROVE  Becomes(tree, tree')
<1>1. tree \in Trees /\ Sound(tree)  BY Unchanging
<1>2. PICK v : v = tree'  OBVIOUS
<1>3. CASE \E c \in Ids : Live(c) /\ tree' = Trashed(c)
  BY <1>1, <1>2, <1>3, TrashedIs
<1>4. CASE \E c \in Ids, p \in Paths, f \in Ids \cup {Root} :
             Live(c) /\ Live(f) /\ CanMove(c, f) /\ tree' = Moved(c, f, Last(p))
  <2>1. PICK c \in Ids, p \in Paths, f \in Ids \cup {Root} :
             Live(c) /\ Live(f) /\ CanMove(c, f) /\ tree' = Moved(c, f, Last(p))
    BY <1>4
  <2>2. PICK n : n = Last(p)  OBVIOUS
  <2>3. n \in Names  BY <2>2, PathForms
  <2>4. Born(tree, c)
    BY <1>1, <2>1 DEF Live, LiveIn, Born, Sound, Unborn, TreeAssumption
  <2> QED  BY <1>1, <1>2, <2>1, <2>2, <2>3, <2>4, MovedIs
<1>5. CASE \E c \in Fresh, p \in Paths, kind \in {"file", "folder"}, f \in Ids \cup {Root} :
             Live(f) /\ IsFolder(f) /\ tree' = Created(c, f, Last(p), kind)
  <2>1. PICK c \in Fresh, p \in Paths, kind \in {"file", "folder"}, f \in Ids \cup {Root} :
             Live(f) /\ IsFolder(f) /\ tree' = Created(c, f, Last(p), kind)
    BY <1>5
  <2>2. PICK n : n = Last(p)  OBVIOUS
  <2>3. n \in Names  BY <2>2, PathForms
  <2> QED  BY <1>1, <1>2, <2>1, <2>2, <2>3, CreatedIs
<1> QED  BY <1>3, <1>4, <1>5 DEF OtherClient

LEMMA OtherClientTypes ==
    ASSUME TInv, TreeAssumption, OtherClient
    PROVE  TInv'
<1>1. /\ others < MaxOthers /\ others' = others + 1 /\ kept' = FALSE
      /\ begun' = [begun EXCEPT !.alone = FALSE] /\ UNCHANGED <<cache, call, calls>>
  BY DEF OtherClient
<1>2. PICK v : v = tree'  OBVIOUS
<1>3. Becomes(tree, v)  BY <1>2, OtherClientIs
<1>4. others' \in 0..MaxOthers  BY <1>1 DEF TInv, TypeOK, TreeAssumption
<1>5. begun' \in [tree : [Ids -> Node], alone : BOOLEAN]
  BY <1>1 DEF TInv, TypeOK
<1>6. Known(v, call)  BY <1>3, CallIs DEF Known, Becomes, Born
<1>7. \A p \in Paths : cache[p] \in Ids => Born(v, cache[p])
  BY <1>3 DEF TInv, Becomes, Born
<1>8. TypeOK'
  BY <1>1, <1>2, <1>3, <1>4, <1>5 DEF TInv, TypeOK, Becomes, Trees
<1>9. Sound(v) /\ CallShape(call)  BY <1>3, CallIs DEF Becomes
<1> QED  BY <1>1, <1>2, <1>6, <1>7, <1>8, <1>9 DEF TInv

LEMMA StepTypes ==
    ASSUME TInv, TreeAssumption, Step
    PROVE  TInv'
BY ExistsTypes, CreateDirectoryTypes, OpenWalkTypes, ListAnyKindTypes, CreateFolderTypes,
   ProbeExistingTypes, PublishOnCloseTypes, ResolveSegmentTypes, AnsweredTypes,
   ResolvedSourceTypes, ResolvedParentTypes, ReconcileTypes, MoveEntryTypes, ReplaceTypes,
   DeleteTypes, InvalidateTypes DEF Step

LEMMA TypesInductive ==
    ASSUME TreeAssumption
    PROVE  TInv /\ [Next]_vars => TInv'
<1> SUFFICES ASSUME TInv, [Next]_vars PROVE TInv'  OBVIOUS
<1>1. CASE Start  BY <1>1, StartTypes
<1>2. CASE Step  BY <1>2, StepTypes
<1>3. CASE Finish  BY <1>3, FinishTypes
<1>4. CASE OtherClient  BY <1>4, OtherClientTypes
<1>5. CASE UNCHANGED vars
  BY <1>5 DEF vars, TInv, TypeOK, Born
<1> QED  BY <1>1, <1>2, <1>3, <1>4, <1>5 DEF Next

LEMMA TypesInit ==
    ASSUME TreeAssumption, TreesAssumption, Init
    PROVE  TInv
<1>1. tree \in Trees /\ Sound(tree)  BY DEF Init, TreesAssumption, Trees
<1>2. /\ cache = [p \in Paths |-> None] /\ call = Idle /\ calls = 0 /\ others = 0
      /\ begun = [tree |-> tree, alone |-> FALSE] /\ kept = TRUE
  BY DEF Init
<1>3. Idle \in Call /\ CallShape(Idle) /\ Known(tree, Idle)
  BY DEF Idle, Call, CallShape, Known, TreeAssumption
<1>4. TypeOK  BY <1>1, <1>2, <1>3 DEF TypeOK, Trees, TreeAssumption
<1> QED  BY <1>1, <1>2, <1>3, <1>4 DEF TInv, TreeAssumption

\* The types hold, at every place of every call, whatever others do: in any
\* trees whose entries are in folders.
THEOREM TreeTypes == Spec => []TypeOK
<1>1. Spec => []TInv
  BY TypesInit, TypesInductive, TreeAssumption, TreesAssumption, PTL DEF Spec
<1>2. TInv => TypeOK  BY DEF TInv
<1> QED  BY <1>1, <1>2, PTL
-----------------------------------------------------------------------------
(***************************************************************************)
(* Where entries are.                                                      *)
(***************************************************************************)

\* A path, and the parent of one, is a prefix of it.
LEMMA IsPrefixSelf ==
    ASSUME TreeAssumption, NEW p \in Paths
    PROVE  IsPrefix(p, p)
<1>1. Len(p) \in {1, 2}  BY PathForms
<1>2. SubSeq(p, 1, Len(p)) = p  BY PathForms
<1> QED  BY <1>1, <1>2 DEF IsPrefix

LEMMA ParentIs ==
    ASSUME TreeAssumption, NEW p \in Paths, Len(p) = 2
    PROVE  Parent(p) \in Paths /\ Len(Parent(p)) = 1
<1>1. Parent(p) = <<p[1]>> /\ <<p[1]>> \in Paths  BY PathForms
<1>2. PICK q : q = Parent(p)  OBVIOUS
<1>3. Len(q) = 1  BY <1>1, <1>2
<1> QED  BY <1>1, <1>2, <1>3

LEMMA IsPrefixParent ==
    ASSUME TreeAssumption, NEW p \in Paths, Len(p) = 2
    PROVE  IsPrefix(Parent(p), p)
<1>1. Parent(p) = <<p[1]>> /\ SubSeq(p, 1, 1) = <<p[1]>>  BY PathForms
<1>2. PICK q : q = Parent(p)  OBVIOUS
<1>3. Len(q) = 1  BY <1>1, <1>2
<1> QED  BY <1>1, <1>2, <1>3 DEF IsPrefix

\* The entries a path names are at it, whatever tree says what a folder is.
LEMMA NamedAt ==
    ASSUME TreeAssumption, NEW u \in Trees, Sound(u), NEW t,
           \A g \in Ids : Born(u, g) => t[g].kind = u[g].kind,
           NEW p \in Paths, NEW c,
           NEW G, G = {g \in Named(u, Root, p[1]) : g = Root \/ (g \in Ids /\ t[g].kind = "folder")}
    PROVE  c \in (IF Len(p) = 1 THEN Named(u, Root, p[1]) ELSE UNION {Named(u, f, p[2]) : f \in G})
             <=> At(u, c, p)
<1>1. Len(p) \in {1, 2}  BY PathForms
<1>2. \A f, n : Named(u, f, n) = {i \in Ids : u[i].parent = f /\ u[i].name = n}
  BY DEF Named, Children
<1>3. CASE Len(p) = 1
  <2>1. Len(p) # 2  BY <1>3
  <2> QED  BY <1>2, <1>3, <2>1 DEF At
<1>4. CASE Len(p) = 2
  <2>1. Len(p) # 1  BY <1>4
  <2>2. ASSUME c \in UNION {Named(u, f, p[2]) : f \in G} PROVE At(u, c, p)
    <3>1. PICK f \in G : c \in Named(u, f, p[2])  BY <2>2
    <3>2. f \in Ids /\ u[f].parent = Root /\ u[f].name = p[1]  BY <1>2, <3>1
    <3>3. c \in Ids /\ u[c].parent = f /\ u[c].name = p[2]  BY <1>2, <3>1
    <3> QED  BY <1>4, <2>1, <3>2, <3>3 DEF At
  <2>3. ASSUME At(u, c, p) PROVE c \in UNION {Named(u, f, p[2]) : f \in G}
    <3>1. PICK f : f = u[c].parent  OBVIOUS
    <3>2. /\ c \in Ids /\ f \in Ids /\ u[c].name = p[2]
          /\ u[f].parent = Root /\ u[f].name = p[1]
      BY <1>4, <2>3, <3>1 DEF At
    <3>3. u[f].kind = "folder"  BY <3>1, <3>2 DEF Sound
    <3>4. t[f].kind = "folder"  BY <3>2, <3>3 DEF Born
    <3>5. f \in G  BY <1>2, <3>2, <3>4
    <3>6. c \in Named(u, f, p[2])  BY <1>2, <3>1, <3>2
    <3> QED  BY <3>5, <3>6
  <2> QED  BY <1>4, <2>1, <2>2, <2>3
<1> QED  BY <1>1, <1>3, <1>4

LEMMA DenotesAt ==
    ASSUME TreeAssumption, NEW u \in Trees, Sound(u), Becomes(u, tree), NEW p \in Paths, NEW c
    PROVE  c \in Denotes(u, p) <=> At(u, c, p)
<1>1. PICK t : t = tree  OBVIOUS
<1>2. PICK G : G = {g \in Named(u, Root, p[1]) : g = Root \/ (g \in Ids /\ t[g].kind = "folder")}
  OBVIOUS
<1>3. Denotes(u, p) =
        IF Len(p) = 1 THEN Named(u, Root, p[1]) ELSE UNION {Named(u, f, p[2]) : f \in G}
  BY <1>1, <1>2 DEF Denotes, IsFolder
<1>4. \A g \in Ids : Born(u, g) => t[g].kind = u[g].kind  BY <1>1 DEF Becomes
<1> QED  BY <1>2, <1>3, <1>4, NamedAt

LEMMA DenotesAtNext ==
    ASSUME TreeAssumption, NEW u \in Trees, Sound(u), Becomes(u, tree'), NEW p \in Paths, NEW c
    PROVE  c \in Denotes(u, p)' <=> At(u, c, p)
<1>1. PICK t : t = tree'  OBVIOUS
<1>2. PICK G : G = {g \in Named(u, Root, p[1]) : g = Root \/ (g \in Ids /\ t[g].kind = "folder")}
  OBVIOUS
<1>3. Denotes(u, p)' =
        IF Len(p) = 1 THEN Named(u, Root, p[1]) ELSE UNION {Named(u, f, p[2]) : f \in G}
  BY <1>1, <1>2 DEF Denotes, IsFolder
<1>4. \A g \in Ids : Born(u, g) => t[g].kind = u[g].kind  BY <1>1 DEF Becomes
<1> QED  BY <1>2, <1>3, <1>4, NamedAt

\* The invariant's words and the model's.
LEMMA TruthfulIs ==
    ASSUME TInv, TreeAssumption
    PROVE  CacheTruthful <=> Truthful(tree, cache)
<1>1. tree \in Trees /\ Sound(tree) /\ Becomes(tree, tree)  BY Unchanging
<1>2. PICK u : u = tree  OBVIOUS
<1>3. \A p \in Paths : \A c : c \in Denotes(tree, p) <=> At(tree, c, p)
  BY <1>1, <1>2, DenotesAt
<1> QED  BY <1>3 DEF CacheTruthful, Truthful

LEMMA DistinctIs ==
    ASSUME TInv, TreeAssumption
    PROVE  NoDuplicates <=> Distinct(tree, {})
<1>1. \A e \in Ids : Live(e) <=> tree[e].parent # None
  BY DEF Live, LiveIn, TreeAssumption
<1> QED  BY <1>1 DEF NoDuplicates, Distinct

\* An entry is at one path.
LEMMA OnePath ==
    ASSUME TreeAssumption, NEW u, NEW c, NEW p \in Paths, NEW q \in Paths,
           At(u, c, p), At(u, c, q)
    PROVE  p = q
<1>1. Len(p) \in {1, 2} /\ Len(q) \in {1, 2}  BY PathForms
<1>2. Root \notin Ids  BY DEF TreeAssumption
<1>3. CASE Len(p) = 1
  <2>1. u[c].parent = Root /\ u[c].name = p[1]  BY <1>3 DEF At
  <2>2. Len(q) # 2  BY <1>2, <2>1 DEF At
  <2>3. Len(q) = 1  BY <1>1, <2>2
  <2>4. u[c].name = q[1]  BY <2>3 DEF At
  <2>5. p = <<p[1]>> /\ q = <<q[1]>>  BY <1>3, <2>3, PathForms
  <2>6. p[1] = q[1]  BY <2>1, <2>4
  <2> QED  BY <2>5, <2>6
<1>4. CASE Len(p) = 2
  <2>1. u[c].parent \in Ids /\ u[c].name = p[2] /\ u[u[c].parent].name = p[1]
    BY <1>4 DEF At
  <2>2. Len(q) # 1  BY <1>2, <2>1 DEF At
  <2>3. Len(q) = 2  BY <1>1, <2>2
  <2>4. u[c].name = q[2] /\ u[u[c].parent].name = q[1]  BY <2>3 DEF At
  <2>5. p = <<p[1], p[2]>> /\ q = <<q[1], q[2]>>  BY <1>4, <2>3, PathForms
  <2>6. p[1] = q[1] /\ p[2] = q[2]  BY <2>1, <2>4
  <2> QED  BY <2>5, <2>6
<1> QED  BY <1>1, <1>3, <1>4

\* An entry of a folder, or of a folder that is at a path, is at a path.
LEMMA AtRoot ==
    ASSUME TreeAssumption, NEW u, NEW c \in Ids, NEW p \in Paths, Len(p) = 1
    PROVE  At(u, c, p) <=> u[c].parent = Root /\ u[c].name = Last(p)
<1>1. Last(p) = p[1]  BY PathForms
<1>2. Len(p) # 2  OBVIOUS
<1> QED  BY <1>1, <1>2 DEF At

LEMMA AtFolder ==
    ASSUME TreeAssumption, NEW u, NEW c \in Ids, NEW p \in Paths, Len(p) = 2
    PROVE  /\ At(u, c, p) <=> /\ u[c].parent \in Ids /\ u[c].name = Last(p)
                              /\ At(u, u[c].parent, Parent(p))
           /\ Parent(p) \in Paths /\ Len(Parent(p)) = 1
<1>1. Last(p) = p[2] /\ Parent(p) = <<p[1]>> /\ <<p[1]>> \in Paths  BY PathForms
<1>2. PICK q : q = <<p[1]>>  OBVIOUS
<1>3. Len(q) = 1 /\ q[1] = p[1]  BY <1>2
<1>4. Len(q) # 2 /\ Len(p) # 1  BY <1>3
<1> QED  BY <1>1, <1>2, <1>3, <1>4 DEF At

\* Where an entry is, is seen from it and from its folder.
LEMMA AtAlike ==
    ASSUME TreeAssumption, NEW u, NEW v, NEW c, NEW p \in Paths, At(u, c, p), v[c] = u[c],
           u[c].parent \in Ids => v[u[c].parent] = u[u[c].parent]
    PROVE  At(v, c, p)
BY DEF At

\* A new entry takes no other's place.
LEMMA CreatedKeeps ==
    ASSUME TreeAssumption, tree \in Trees, Sound(tree), NEW c \in Fresh,
           NEW f \in Ids \cup {Root}, IsFolder(f), NEW n \in Names,
           NEW kind \in {"file", "folder"}, NEW v, v = Created(c, f, n, kind)
    PROVE  /\ \A p \in Paths : \A i : At(tree, i, p) => At(v, i, p)
           /\ \A i \in Ids : tree[i].parent # None => v[i] = tree[i]
           /\ Distinct(tree, {})
              /\ (Live(f) => \A i \in Ids : tree[i].parent = f => tree[i].name # n)
                => Distinct(v, {})
<1>1. /\ c \in Ids /\ tree[c].parent = None
      /\ v[c].name = n
      /\ v[c].parent = IF Live(f) THEN f ELSE None
      /\ \A d \in Ids \ {c} : v[d] = tree[d]
      /\ \A d \in Ids : tree[d].parent # c
  BY CreatedIs DEF Unborn
<1>2. ASSUME NEW p \in Paths, NEW i, At(tree, i, p) PROVE At(v, i, p)
  <2>1. i \in Ids /\ tree[i].parent # None
    <3>1. Len(p) \in {1, 2}  BY PathForms
    <3> QED  BY <1>2, <3>1 DEF At, TreeAssumption
  <2>2. i # c /\ v[i] = tree[i]  BY <1>1, <2>1
  <2>3. tree[i].parent \in Ids => v[tree[i].parent] = tree[tree[i].parent]
    BY <1>1, <2>1
  <2> QED  BY <1>2, <2>2, <2>3, AtAlike
<1>3. \A i \in Ids : tree[i].parent # None => v[i] = tree[i]  BY <1>1
<1>4. ASSUME Distinct(tree, {}),
             Live(f) => \A i \in Ids : tree[i].parent = f => tree[i].name # n
      PROVE  Distinct(v, {})
  <2>1. SUFFICES ASSUME NEW i \in Ids, NEW j \in Ids, v[i].parent # None,
                        v[j].parent = v[i].parent, v[j].name = v[i].name
                 PROVE  i = j
    BY DEF Distinct
  <2>2. CASE i = c /\ j # c
    <3>1. Live(f) /\ v[i].parent = f /\ v[i].name = n  BY <1>1, <2>1, <2>2
    <3>2. tree[j].parent = f /\ tree[j].name = n  BY <1>1, <2>1, <2>2, <3>1
    <3> QED  BY <1>4, <3>1, <3>2
  <2>3. CASE j = c /\ i # c
    <3>1. Live(f) /\ v[j].parent = f /\ v[j].name = n  BY <1>1, <2>1, <2>3
    <3>2. tree[i].parent = f /\ tree[i].name = n  BY <1>1, <2>1, <2>3, <3>1
    <3> QED  BY <1>4, <3>1, <3>2
  <2>4. CASE i # c /\ j # c
    BY <1>1, <1>4, <2>1, <2>4 DEF Distinct
  <2> QED  BY <2>2, <2>3, <2>4
<1> QED  BY <1>2, <1>3, <1>4

\* What is trashed was below what is at the path, or was it.
LEMMA TrashedKeeps ==
    ASSUME TreeAssumption, tree \in Trees, Sound(tree), NEW f, NEW q \in Paths, At(tree, f, q),
           NEW v, v = Trashed(f), NEW p \in Paths, NEW c, At(tree, c, p), ~IsPrefix(q, p)
    PROVE  At(v, c, p)
<1>1. f \in Ids /\ Root \notin Ids /\ c \in Ids  BY DEF At, TreeAssumption
<1>2. \A d \in Ids : d \notin Subtree(tree, f) => v[d] = tree[d]  BY <1>1, TrashedIs
<1>3. Root \notin Subtree(tree, f)  BY <1>1 DEF Subtree
<1>4. Len(p) \in {1, 2} /\ Len(q) \in {1, 2}  BY PathForms
<1>5. p # q
  BY IsPrefixSelf
<1>6. c # f  BY <1>5, OnePath
<1>7. CASE Len(p) = 1
  <2>1. tree[c].parent = Root  BY <1>7 DEF At
  <2>2. c \notin Subtree(tree, f)  BY <1>1, <1>3, <1>6, <2>1, SubtreeUp
  <2>3. v[c] = tree[c]  BY <1>1, <1>2, <2>2
  <2> QED  BY <1>1, <2>1, <2>3, AtAlike
<1>8. CASE Len(p) = 2
  <2>1. PICK g : g = tree[c].parent  OBVIOUS
  <2>2. g \in Ids /\ tree[g].parent = Root /\ At(tree, g, Parent(p)) /\ Parent(p) \in Paths
        /\ Len(Parent(p)) = 1
    BY <1>1, <1>8, <2>1, AtFolder DEF At
  <2>3. g # f
    <3>1. SUFFICES ASSUME g = f PROVE FALSE  OBVIOUS
    <3>2. q = Parent(p)  BY <2>2, <3>1, OnePath
    <3> QED  BY <1>8, <3>2, IsPrefixParent
  <2>4. g \notin Subtree(tree, f)  BY <1>1, <1>3, <2>2, <2>3, SubtreeUp
  <2>5. c \notin Subtree(tree, f)  BY <1>1, <1>6, <2>1, <2>4, SubtreeUp
  <2>6. v[c] = tree[c] /\ v[g] = tree[g]  BY <1>1, <1>2, <2>2, <2>4, <2>5
  <2> QED  BY <2>1, <2>6, AtAlike
<1> QED  BY <1>4, <1>7, <1>8

\* Trashing an entry leaves another of the same path where it is.
LEMMA TrashedBeside ==
    ASSUME TreeAssumption, tree \in Trees, Sound(tree), NEW f, NEW p \in Paths, At(tree, f, p),
           NEW v, v = Trashed(f), NEW c, At(tree, c, p), c # f
    PROVE  c \notin Subtree(tree, f) /\ At(v, c, p)
<1>1. f \in Ids /\ Root \notin Ids /\ c \in Ids  BY DEF At, TreeAssumption
<1>2. \A d \in Ids : d \notin Subtree(tree, f) => v[d] = tree[d]  BY <1>1, TrashedIs
<1>3. Root \notin Subtree(tree, f)  BY <1>1 DEF Subtree
<1>4. Len(p) \in {1, 2}  BY PathForms
<1>5. CASE Len(p) = 1
  <2>1. tree[c].parent = Root  BY <1>5 DEF At
  <2>2. c \notin Subtree(tree, f)  BY <1>1, <1>3, <2>1, SubtreeUp
  <2>3. v[c] = tree[c]  BY <1>1, <1>2, <2>2
  <2> QED  BY <1>1, <2>1, <2>2, <2>3, AtAlike
<1>6. CASE Len(p) = 2
  <2>1. PICK g : g = tree[c].parent  OBVIOUS
  <2>2. g \in Ids /\ tree[g].parent = Root  BY <1>6, <2>1 DEF At
  <2>3. tree[f].parent \in Ids  BY <1>6 DEF At
  <2>4. g # f  BY <1>1, <2>2, <2>3
  <2>5. g \notin Subtree(tree, f)  BY <1>1, <1>3, <2>2, <2>4, SubtreeUp
  <2>6. c \notin Subtree(tree, f)  BY <1>1, <2>1, <2>5, SubtreeUp
  <2>7. v[c] = tree[c] /\ v[g] = tree[g]  BY <1>1, <1>2, <2>2, <2>5, <2>6
  <2> QED  BY <2>1, <2>6, <2>7, AtAlike
<1> QED  BY <1>4, <1>5, <1>6

\* A moved entry takes with it what was below its path.
LEMMA MovedKeeps ==
    ASSUME TreeAssumption, NEW u, NEW v, NEW i, NEW q \in Paths, At(u, i, q),
           \A d \in Ids \ {i} : v[d] = u[d],
           NEW p \in Paths, NEW c, At(u, c, p), ~IsPrefix(q, p)
    PROVE  At(v, c, p)
<1>1. i \in Ids /\ c \in Ids  BY DEF At
<1>2. p # q  BY IsPrefixSelf
<1>3. c # i  BY <1>2, OnePath
<1>4. v[c] = u[c]  BY <1>1, <1>3
<1>5. ASSUME u[c].parent \in Ids PROVE v[u[c].parent] = u[u[c].parent]
  <2>1. Len(p) \in {1, 2}  BY PathForms
  <2>2. Len(p) = 2
    <3>1. Len(p) = 1 => u[c].parent = Root  BY DEF At
    <3> QED  BY <1>5, <2>1, <3>1 DEF TreeAssumption
  <2>3. PICK g : g = u[c].parent  OBVIOUS
  <2>4. At(u, g, Parent(p)) /\ Parent(p) \in Paths  BY <1>1, <2>2, <2>3, AtFolder
  <2>5. g # i
    <3>1. SUFFICES ASSUME g = i PROVE FALSE  OBVIOUS
    <3>2. q = Parent(p)  BY <2>4, <3>1, OnePath
    <3> QED  BY <2>2, <3>2, IsPrefixParent
  <2> QED  BY <1>5, <2>3, <2>5
<1> QED  BY <1>4, <1>5, AtAlike
-----------------------------------------------------------------------------
(***************************************************************************)
(* What the cache says, and where a call is.                               *)
(***************************************************************************)

LEMMA Becoming ==
    ASSUME NEW b, NEW u, NEW v, Becomes(b, u), Becomes(u, v)
    PROVE  Becomes(b, v)
BY DEF Becomes, Born

\* What a call can rely on while it works.
LEMMA Relied ==
    ASSUME TInv, CInv, TreeAssumption, kept \/ begun.alone, call.pc \in Working
    PROVE  /\ Truthful(tree, cache)
           /\ call.depth # 0 => At(tree, call.at, SubSeq(GoalOf(call), 1, call.depth))
           /\ call.path # <<>>
              /\ call.pc \in {"source_parent", "target_parent", "collide", "move", "delete"} =>
                   At(tree, call.id, call.path)
           /\ call.pc = "move" /\ call.old # None =>
                /\ call.old # call.id /\ At(tree, call.old, call.to)
                /\ tree[call.old].parent = call.at
<1>1. call.pc \notin {"replace", "forget"}  BY DEF Working
<1> QED  BY <1>1 DEF CInv, Heeds

\* A step of a call that changes the tree by adding to it, if at all.
LEMMA HeedStep ==
    ASSUME TInv, CInv, TreeAssumption, NEW c, call' = c, call.pc \in Working,
           c.pc \in Working \cup {"ok", "failed", "no"},
           NEW v, tree' = v, Becomes(tree, v), kept' = kept, Running,
           \A p \in Paths : \A i : At(tree, i, p) => At(v, i, p),
           \A p \in Paths : cache'[p] # None =>
             cache'[p] = cache[p] \/ (kept \/ begun.alone => At(v, cache'[p], p)),
           (kept \/ begun.alone) /\ c.pc \in Working /\ c.depth # 0 =>
             At(v, c.at, SubSeq(GoalOf(c), 1, c.depth)),
           (kept \/ begun.alone) /\ c.path # <<>>
           /\ c.pc \in {"source_parent", "target_parent", "collide", "move", "delete"} =>
             At(v, c.id, c.path),
           (kept \/ begun.alone) /\ c.pc = "move" /\ c.old # None =>
             c.old # c.id /\ At(v, c.old, c.to) /\ v[c.old].parent = c.at
    PROVE  CInv'
<1>1. PICK k, a, b, ca, cb : /\ k = kept /\ a = begun.alone /\ b = begun.tree
                             /\ ca = cache /\ cb = cache'
  OBVIOUS
<1>2. begun' = begun  BY DEF Running
<1>3. Becomes(b, v) /\ Sound(b)  BY <1>1, Becoming DEF CInv
<1>4. c.pc \notin {"replace", "forget"}  BY DEF Working
<1>5. k \/ a => Truthful(v, cb)
  <2>1. SUFFICES ASSUME k \/ a PROVE Truthful(v, cb)  OBVIOUS
  <2>2. Truthful(tree, ca)  BY <1>1, <2>1, Relied
  <2>3. \A p \in Paths : cb[p] # None => cb[p] = ca[p] \/ At(v, cb[p], p)  BY <1>1, <2>1
  <2> QED  BY <2>2, <2>3 DEF Truthful
<1>6. Heeds(v, cb, c, k, a)
  BY <1>1, <1>4, <1>5 DEF Heeds
<1> QED  BY <1>1, <1>2, <1>3, <1>6 DEF CInv

\* A step that fails: the cache stays as it was, and so does what it says.
LEMMA ThrowHeeds ==
    ASSUME TInv, CInv, TreeAssumption, call.pc \in Working, Throw, Running,
           NEW v, tree' = v, Becomes(tree, v),
           \A p \in Paths : \A i : At(tree, i, p) => At(v, i, p)
    PROVE  CInv'
<1>1. PICK c : c = [call EXCEPT !.pc = "failed"]  OBVIOUS
<1>2. call' = c /\ cache' = cache /\ kept' = kept  BY <1>1 DEF Throw, Goto
<1>3. c.pc = "failed"  BY <1>1, CallIs DEF Call
<1>4. c.pc \notin Working  BY <1>3 DEF Working
<1> QED  BY <1>2, <1>3, <1>4, HeedStep

\* One that fails after a change: nothing is promised any more.
LEMMA ThrowLateHeeds ==
    ASSUME TInv, CInv, TreeAssumption, ThrowLate, Running, Becomes(tree, tree')
    PROVE  CInv'
<1>1. PICK c, v : c = [call EXCEPT !.pc = "failed"] /\ v = tree'  OBVIOUS
<1>2. call' = c /\ cache' = cache /\ kept' = FALSE /\ begun' = begun
  BY <1>1 DEF ThrowLate, Goto, Running
<1>3. c.pc = "failed" /\ c.pc \notin Working /\ c.pc \notin {"move", "replace"}
      /\ c.pc \notin {"source_parent", "target_parent", "collide", "move", "delete"}
  BY <1>1, CallIs DEF Call, Working
<1>4. PICK b, a, ca : b = begun.tree /\ a = begun.alone /\ ca = cache  OBVIOUS
<1>5. Heeds(v, ca, c, FALSE, a)  BY <1>3 DEF Heeds
<1>6. Becomes(b, v) /\ Sound(b)  BY <1>1, <1>4, Becoming DEF CInv
<1> QED  BY <1>1, <1>2, <1>4, <1>5, <1>6 DEF CInv

\* What resolving a path finds is at it.
LEMMA FoundAt ==
    ASSUME TInv, TreeAssumption, Truthful(tree, cache), NEW p \in Paths, NEW f,
           NEW folder, NEW c \in Found(p, f, folder),
           Len(p) = 1 => f = Root, Len(p) = 2 => f \in Ids /\ At(tree, f, Parent(p))
    PROVE  At(tree, c, p)
<1>1. CASE cache[p] # None
  BY <1>1 DEF Found, Truthful
<1>2. CASE cache[p] = None
  <2>1. c \in Ids /\ tree[c].parent = f /\ tree[c].name = Last(p)
    BY <1>2 DEF Found, Listed, Named, Children
  <2>2. Len(p) \in {1, 2}  BY PathForms
  <2>3. CASE Len(p) = 1  BY <2>1, <2>3, AtRoot
  <2>4. CASE Len(p) = 2  BY <2>1, <2>4, AtFolder
  <2> QED  BY <2>2, <2>3, <2>4
<1> QED  BY <1>1, <1>2

\* The cache after a Put.
LEMMA PutIs ==
    ASSUME TInv, NEW p \in Paths, NEW c, CachePut(p, c)
    PROVE  \A q \in Paths : cache'[q] = IF q = p THEN c ELSE cache[q]
<1>1. cache \in [Paths -> Ids \cup {None}]  BY Unchanging
<1> QED  BY <1>1 DEF CachePut

LEMMA ExistsHeeds ==
    ASSUME TInv, CInv, TreeAssumption, DirectoryExists \/ FileExists
    PROVE  CInv'
<1>1. PICK pc, folder, file, missing :
        /\ Exists(pc, folder, file, missing)
        /\ pc \in {"dir", "not_file"}
        /\ {folder, file, missing} \subseteq {"walk", "not_file", "create_dir", "failed"}
  BY DEF DirectoryExists, FileExists
<1>2. PICK d : d = call  OBVIOUS
<1>3. /\ d \in Call /\ CallShape(d) /\ d.pc \in {"dir", "not_file"} /\ d.pc \in Working
      /\ Running /\ tree' = tree /\ kept' = kept /\ Becomes(tree, tree)
  BY <1>1, <1>2, CallIs, Unchanging DEF Exists, Working
<1>4. d.depth = 0 /\ Len(d.path) = 2 /\ d.path \in Paths
  <2>1. d.depth = 0 /\ Len(d.path) = 2  BY <1>3 DEF CallShape
  <2>2. Len(<<>>) # 2  OBVIOUS
  <2> QED  BY <1>3, <2>1, <2>2 DEF Call
<1>5. PICK p : p = Parent(d.path)  OBVIOUS
<1>6. p \in Paths /\ Len(p) = 1  BY <1>4, <1>5, ParentIs
<1>7. PICK place \in {"walk", "not_file", "create_dir", "failed"} : Goto(place) /\
        \/ \E i \in Found(p, Root, FALSE) : CachePut(p, i)
        \/ cache' = cache
  BY <1>1, <1>2, <1>5 DEF Exists
<1>8. PICK c : c = [d EXCEPT !.pc = place]  OBVIOUS
<1>9. call' = c /\ c.pc = place /\ c.depth = 0
  BY <1>2, <1>3, <1>4, <1>7, <1>8 DEF Goto, Call
<1>10. c.pc \in Working \cup {"ok", "failed", "no"}
       /\ c.pc \notin {"source_parent", "target_parent", "collide", "move", "delete"}
  BY <1>9 DEF Working
<1>11. \A q \in Paths : cache'[q] # None =>
         cache'[q] = cache[q] \/ (kept \/ begun.alone => At(tree, cache'[q], q))
  <2>1. CASE cache' = cache  BY <2>1
  <2>2. CASE \E i \in Found(p, Root, FALSE) : CachePut(p, i)
    <3>1. PICK i \in Found(p, Root, FALSE) : CachePut(p, i)  BY <2>2
    <3>2. kept \/ begun.alone => At(tree, i, p)
      <4>1. SUFFICES ASSUME kept \/ begun.alone PROVE At(tree, i, p)  OBVIOUS
      <4>2. Truthful(tree, cache)  BY <1>2, <1>3, <4>1, Relied
      <4>3. Len(p) # 2  BY <1>6
      <4> QED  BY <1>6, <3>1, <4>2, <4>3, FoundAt
    <3> QED  BY <1>6, <3>1, <3>2, PutIs
  <2> QED  BY <1>7, <2>1, <2>2
<1> QED  BY <1>2, <1>3, <1>9, <1>10, <1>11, HeedStep

LEMMA CreateDirectoryHeeds ==
    ASSUME TInv, CInv, TreeAssumption, CreateDirectory
    PROVE  CInv'
<1>1. PICK d : d = call  OBVIOUS
<1>2. /\ d \in Call /\ CallShape(d) /\ d.pc = "create_dir" /\ d.pc \in Working
      /\ Running /\ cache' = cache /\ kept' = kept /\ Becomes(tree, tree)
      /\ tree \in Trees /\ Sound(tree)
  BY <1>1, CallIs, Unchanging DEF CreateDirectory, Working
<1>3. d.depth = 0 /\ Len(d.path) = 2 /\ d.path \in Paths
  <2>1. d.depth = 0 /\ Len(d.path) = 2  BY <1>2 DEF CallShape
  <2>2. Len(<<>>) # 2  OBVIOUS
  <2> QED  BY <1>2, <2>1, <2>2 DEF Call
<1>4. Parent(d.path) \in Paths  BY <1>3, ParentIs
<1>5. PICK n : n = Last(Parent(d.path))  OBVIOUS
<1>6. n \in Names  BY <1>4, <1>5, PathForms
<1>7. PICK effect \in BOOLEAN, ok \in BOOLEAN, i \in Fresh :
        /\ tree' = IF effect THEN Created(i, Root, n, "folder") ELSE tree
        /\ Goto(IF ok THEN "walk" ELSE "failed")
  BY <1>1, <1>5 DEF CreateDirectory
<1>8. PICK v : v = tree'  OBVIOUS
<1>9. Becomes(tree, v) /\ \A p \in Paths : \A j : At(tree, j, p) => At(v, j, p)
  <2>1. PICK w : w = Created(i, Root, n, "folder")  OBVIOUS
  <2>2. IsFolder(Root)  BY DEF IsFolder
  <2>3. Becomes(tree, w) /\ \A p \in Paths : \A j : At(tree, j, p) => At(w, j, p)
    BY <1>2, <1>6, <2>1, <2>2, CreatedIs, CreatedKeeps
  <2> QED  BY <1>2, <1>7, <1>8, <2>1, <2>3
<1>10. PICK c : c = [d EXCEPT !.pc = IF ok THEN "walk" ELSE "failed"]  OBVIOUS
<1>11. call' = c /\ c.pc \in {"walk", "failed"} /\ c.depth = 0
  BY <1>1, <1>2, <1>3, <1>7, <1>10 DEF Goto, Call
<1>12. c.pc \in Working \cup {"ok", "failed", "no"}
       /\ c.pc \notin {"source_parent", "target_parent", "collide", "move", "delete"}
  BY <1>11 DEF Working
<1> QED  BY <1>1, <1>2, <1>8, <1>9, <1>11, <1>12, HeedStep

\* A step of OpenFile that stays in the folder, and one that enters one.
LEMMA StayHeeds ==
    ASSUME TInv, CInv, TreeAssumption,
           call.pc \in {"walk", "any_kind", "create", "probe", "publish"},
           NEW v, tree' = v, Becomes(tree, v), kept' = kept, cache' = cache, Running,
           \A p \in Paths : \A i : At(tree, i, p) => At(v, i, p),
           NEW c, call' = c, c.at = call.at, c.depth = call.depth, c.path = call.path,
           c.pc \in {"any_kind", "create", "probe", "publish", "ok", "failed"}
    PROVE  CInv'
<1>1. PICK d : d = call  OBVIOUS
<1>2. call.pc \in Working /\ c.pc \in Working \cup {"ok", "failed", "no"}
      /\ c.pc \notin {"source_parent", "target_parent", "collide", "move", "delete"}
  BY DEF Working
<1>3. GoalOf(d) = d.path /\ GoalOf(c) = d.path  BY <1>1 DEF GoalOf
<1>4. d.path \in Paths /\ d.depth \in 0..2 /\ d.depth < Len(d.path) /\ Len(d.path) \in {1, 2}
  BY <1>1, OpenIs
<1>5. (kept \/ begun.alone) /\ c.depth # 0 => At(v, c.at, SubSeq(GoalOf(c), 1, c.depth))
  <2>1. SUFFICES ASSUME kept \/ begun.alone, c.depth # 0
                 PROVE  At(v, c.at, SubSeq(GoalOf(c), 1, c.depth))
    OBVIOUS
  <2>2. At(tree, d.at, SubSeq(d.path, 1, d.depth))  BY <1>1, <1>2, <1>3, <2>1, Relied
  <2>3. PICK x, y : x = d.depth /\ y = Len(d.path)  OBVIOUS
  <2>4. x \in 0..2 /\ x # 0 /\ x < y /\ y \in {1, 2}  BY <1>1, <1>4, <2>1, <2>3
  <2>5. x \in 1..2 /\ x <= y  BY <2>4
  <2>6. SubSeq(d.path, 1, x) \in Paths  BY <1>4, <2>3, <2>5, PrefixOf
  <2> QED  BY <1>1, <1>3, <2>2, <2>3, <2>6
<1> QED  BY <1>2, <1>5, HeedStep

LEMMA EnterHeeds ==
    ASSUME TInv, CInv, TreeAssumption, call.pc \in {"walk", "any_kind", "create"},
           call.depth + 1 # Len(call.path),
           NEW v, tree' = v, Becomes(tree, v), kept' = kept, Running,
           \A p \in Paths : \A i : At(tree, i, p) => At(v, i, p),
           NEW i, NEW new, CachePut(Walked, i), Enter(i, new),
           kept \/ begun.alone => At(v, i, Walked)
    PROVE  CInv'
<1>1. PICK d, c, p : d = call /\ c = call' /\ p = Walked  OBVIOUS
<1>2. d \in Call /\ d.depth = 0 /\ Len(d.path) = 2 /\ d.path \in Paths /\ p \in Paths
      /\ p = Parent(d.path)
  BY <1>1, CallIs, OpenIs, WalkedIs
<1>3. c = [d EXCEPT !.pc = "walk", !.at = i, !.depth = @ + 1, !.parent_is_new = @ \/ new]
  BY <1>1 DEF Enter
<1>4. c.pc = "walk" /\ c.at = i /\ c.depth = 1 /\ c.path = d.path
  BY <1>2, <1>3 DEF Call
<1>5. /\ call.pc \in Working /\ c.pc \in Working \cup {"ok", "failed", "no"}
      /\ c.pc \notin {"source_parent", "target_parent", "collide", "move", "delete"}
  BY <1>4 DEF Working
<1>6. SubSeq(GoalOf(c), 1, c.depth) = p
  <2>1. GoalOf(c) = d.path  BY <1>4 DEF GoalOf
  <2>2. SubSeq(d.path, 1, 1) = Parent(d.path)  BY <1>2, PathForms
  <2> QED  BY <1>2, <1>4, <2>1, <2>2
<1>7. \A q \in Paths : cache'[q] # None =>
        cache'[q] = cache[q] \/ (kept \/ begun.alone => At(v, cache'[q], q))
  BY <1>1, <1>2, PutIs
<1> QED  BY <1>1, <1>4, <1>5, <1>6, <1>7, HeedStep

LEMMA OpenWalkHeeds ==
    ASSUME TInv, CInv, TreeAssumption, OpenWalk
    PROVE  CInv'
<1>1. call.pc = "walk" /\ Running /\ tree' = tree /\ kept' = kept /\ Becomes(tree, tree)
      /\ call \in Call
  BY Unchanging, CallIs DEF OpenWalk
<1>2. PICK c : c = call'  OBVIOUS
<1>3. ASSUME NEW pc \in {"any_kind", "probe", "publish", "failed"}, Goto(pc), cache' = cache
      PROVE  CInv'
  <2>1. c.pc = pc /\ c.at = call.at /\ c.depth = call.depth /\ c.path = call.path
    BY <1>1, <1>2, <1>3 DEF Goto, Call
  <2> QED  BY <1>1, <1>2, <1>3, <2>1, StayHeeds
<1>4. CASE call.depth + 1 = Len(call.path)
  BY <1>3, <1>4 DEF OpenWalk
<1>5. CASE call.depth + 1 # Len(call.path)
  <2>1. Walked \in Paths /\ call.at = Root /\ Len(Walked) = 1 /\ call.depth = 0
    BY <1>1, <1>5, WalkedIs
  <2>2. CASE \E i \in FoldersToAdopt : CachePut(Walked, i) /\ Enter(i, FALSE)
    <3>1. PICK i \in FoldersToAdopt : CachePut(Walked, i) /\ Enter(i, FALSE)  BY <2>2
    <3>2. kept \/ begun.alone => At(tree, i, Walked)
      <4>1. SUFFICES ASSUME kept \/ begun.alone PROVE At(tree, i, Walked)  OBVIOUS
      <4>2. call.pc \in Working  BY <1>1 DEF Working
      <4>3. Truthful(tree, cache)  BY <4>1, <4>2, Relied
      <4>4. Len(Walked) # 2  BY <2>1
      <4>5. i \in Found(Walked, Root, TRUE)  BY <2>1, <3>1 DEF FoldersToAdopt
      <4> QED  BY <2>1, <4>3, <4>4, <4>5, FoundAt
    <3> QED  BY <1>1, <1>5, <3>1, <3>2, EnterHeeds
  <2>3. CASE cache' = InvalidatePrefix({Walked}) /\ UNCHANGED call
    <3>1. \A q \in Paths : cache'[q] = None \/ cache'[q] = cache[q]
      BY <2>3 DEF InvalidatePrefix
    <3>2. call.pc \in Working /\ call.pc \notin
            {"source_parent", "target_parent", "collide", "move", "delete"}
      BY <1>1 DEF Working
    <3> QED  BY <1>1, <2>1, <2>3, <3>1, <3>2, HeedStep
  <2>4. CASE cache' = cache /\ (Goto("any_kind") \/ Goto("failed"))  BY <1>3, <2>4
  <2> QED  BY <1>5, <2>2, <2>3, <2>4 DEF OpenWalk
<1> QED  BY <1>4, <1>5

LEMMA ListAnyKindHeeds ==
    ASSUME TInv, CInv, TreeAssumption, ListAnyKind
    PROVE  CInv'
<1>1. call.pc = "any_kind" /\ Running /\ tree' = tree /\ kept' = kept /\ Becomes(tree, tree)
      /\ call \in Call /\ CallShape(call)
  BY Unchanging, CallIs DEF ListAnyKind
<1>2. PICK c : c = call'  OBVIOUS
<1>3. call.depth = 0 /\ Len(call.path) = 2  BY <1>1 DEF CallShape
<1>4. Walked \in Paths /\ call.at = Root /\ call.depth + 1 # Len(call.path) /\ Len(Walked) = 1
  BY <1>1, <1>3, WalkedIs
<1>5. CASE Goto("create") /\ cache' = cache
  <2>1. c.pc = "create" /\ c.at = call.at /\ c.depth = call.depth /\ c.path = call.path
    BY <1>1, <1>2, <1>5 DEF Goto, Call
  <2> QED  BY <1>1, <1>2, <1>5, <2>1, StayHeeds
<1>6. CASE \E i \in AnyKind : CachePut(Walked, i) /\ Enter(i, FALSE)
  <2>1. PICK i \in AnyKind : CachePut(Walked, i) /\ Enter(i, FALSE)  BY <1>6
  <2>2. i \in Ids /\ tree[i].parent = Root /\ tree[i].name = Last(Walked)
    BY <1>4, <2>1 DEF AnyKind, Listed, Named, Children
  <2>3. At(tree, i, Walked)  BY <1>4, <2>2, AtRoot
  <2> QED  BY <1>1, <1>4, <2>1, <2>3, EnterHeeds
<1>7. CASE Throw
  <2>1. call.pc \in Working  BY <1>1 DEF Working
  <2> QED  BY <1>1, <1>7, <2>1, ThrowHeeds
<1> QED  BY <1>5, <1>6, <1>7 DEF ListAnyKind

LEMMA CreateFolderHeeds ==
    ASSUME TInv, CInv, TreeAssumption, CreateFolder
    PROVE  CInv'
<1>1. call.pc = "create" /\ Running /\ kept' = kept /\ tree \in Trees /\ Sound(tree)
      /\ Becomes(tree, tree) /\ call \in Call /\ CallShape(call)
  BY Unchanging, CallIs DEF CreateFolder
<1>2. PICK c : c = call'  OBVIOUS
<1>3. call.depth = 0 /\ Len(call.path) = 2  BY <1>1 DEF CallShape
<1>4. Walked \in Paths /\ call.at = Root /\ call.depth + 1 # Len(call.path) /\ Len(Walked) = 1
      /\ Last(Walked) \in Names
  BY <1>1, <1>3, WalkedIs
<1>5. CASE RequestFails
  <2>1. call.pc \in Working  BY <1>1 DEF Working
  <2> QED  BY <1>1, <1>5, <2>1, ThrowHeeds DEF RequestFails
<1>6. ASSUME NEW i \in Fresh, tree' = Created(i, call.at, Last(Walked), "folder"),
             \/ CachePut(Walked, i) /\ Enter(i, TRUE)
             \/ Goto("failed") /\ UNCHANGED cache
      PROVE  CInv'
  <2>1. PICK v, n, p : v = tree' /\ n = Last(Walked) /\ p = Walked  OBVIOUS
  <2>2. v = Created(i, Root, n, "folder") /\ IsFolder(Root) /\ Live(Root) /\ n \in Names
    BY <1>4, <1>6, <2>1 DEF IsFolder, Live, LiveIn
  <2>3. Becomes(tree, v) /\ i \in Ids /\ v[i].parent = Root /\ v[i].name = n
    BY <1>1, <2>2, CreatedIs
  <2>4. \A q \in Paths : \A j : At(tree, j, q) => At(v, j, q)
    BY <1>1, <2>2, CreatedKeeps
  <2>5. CASE CachePut(Walked, i) /\ Enter(i, TRUE)
    <3>1. At(v, i, p)  BY <1>4, <2>1, <2>3, AtRoot
    <3> QED  BY <1>1, <1>4, <2>1, <2>3, <2>4, <2>5, <3>1, EnterHeeds
  <2>6. CASE Goto("failed") /\ cache' = cache
    <3>1. c.pc = "failed" /\ c.at = call.at /\ c.depth = call.depth /\ c.path = call.path
      BY <1>1, <1>2, <2>6 DEF Goto, Call
    <3> QED  BY <1>1, <1>2, <2>1, <2>3, <2>4, <2>6, <3>1, StayHeeds
  <2> QED  BY <1>6, <2>5, <2>6
<1> QED  BY <1>5, <1>6 DEF CreateFolder

LEMMA ProbeExistingHeeds ==
    ASSUME TInv, CInv, TreeAssumption, ProbeExisting
    PROVE  CInv'
<1>1. call.pc = "probe" /\ Running /\ tree' = tree /\ kept' = kept /\ Becomes(tree, tree)
      /\ call \in Call
  BY Unchanging, CallIs DEF ProbeExisting
<1>2. CASE Throw
  <2>1. call.pc \in Working  BY <1>1 DEF Working
  <2> QED  BY <1>1, <1>2, <2>1, ThrowHeeds
<1>3. CASE /\ cache' = cache
           /\ call' = [call EXCEPT !.pc = "publish",
                        !.old = IF Probe = {} THEN None ELSE CHOOSE i \in Probe : TRUE]
  <2>1. PICK c : c = call'  OBVIOUS
  <2>2. c.pc = "publish" /\ c.at = call.at /\ c.depth = call.depth /\ c.path = call.path
    BY <1>1, <1>3, <2>1 DEF Call
  <2> QED  BY <1>1, <1>3, <2>1, <2>2, StayHeeds
<1> QED  BY <1>2, <1>3 DEF ProbeExisting

LEMMA PublishOnCloseHeeds ==
    ASSUME TInv, CInv, TreeAssumption, PublishOnClose
    PROVE  CInv'
<1>1. call.pc = "publish" /\ Running /\ cache' = cache /\ kept' = kept
      /\ tree \in Trees /\ Sound(tree) /\ Becomes(tree, tree) /\ call \in Call
  BY Unchanging, CallIs DEF PublishOnClose
<1>2. PICK pc \in {"ok", "failed"} : Goto(pc)  BY DEF PublishOnClose
<1>3. PICK c, v : c = call' /\ v = tree'  OBVIOUS
<1>4. c.pc = pc /\ c.at = call.at /\ c.depth = call.depth /\ c.path = call.path
  BY <1>1, <1>2, <1>3 DEF Goto, Call
<1>5. CASE tree' = tree  BY <1>1, <1>3, <1>4, <1>5, StayHeeds
<1>6. CASE IsFolder(call.at) /\ \E i \in Fresh : tree' = Created(i, call.at, Last(call.path), "file")
  <2>1. PICK i \in Fresh : tree' = Created(i, call.at, Last(call.path), "file")  BY <1>6
  <2>2. PICK f, n : f = call.at /\ n = Last(call.path)  OBVIOUS
  <2>3. n \in Names /\ f \in Ids \cup {Root}  BY <1>1, <2>2, OpenIs, PathForms
  <2>4. Becomes(tree, v) /\ \A q \in Paths : \A j : At(tree, j, q) => At(v, j, q)
    BY <1>1, <1>3, <1>6, <2>1, <2>2, <2>3, CreatedIs, CreatedKeeps
  <2> QED  BY <1>1, <1>3, <1>4, <2>4, StayHeeds
<1> QED  BY <1>5, <1>6 DEF PublishOnClose

LEMMA AskHeeds ==
    ASSUME TInv, CInv, TreeAssumption, Asking, Running, tree' = tree, cache' = cache,
           kept' = kept,
           NEW pc \in {"is_dir", "confirm", "no", "failed", "source"}, ToFolder(pc, Root)
    PROVE  CInv'
<1>1. PICK c : c = call'  OBVIOUS
<1>2. c.pc = pc /\ c.depth = 0  BY <1>1, CallIs DEF ToFolder, Call
<1>3. call.pc \in Working  BY DEF Asking, Working
<1>4. /\ c.pc \in Working \cup {"ok", "failed", "no"} /\ c.pc # "move"
      /\ c.pc \notin {"source_parent", "target_parent", "collide", "move", "delete"}
  BY <1>2 DEF Working
<1>5. Becomes(tree, tree)  BY Unchanging
<1> QED  BY <1>1, <1>2, <1>3, <1>4, <1>5, HeedStep

LEMMA ResolveSegmentHeeds ==
    ASSUME TInv, CInv, TreeAssumption, ResolveSegment
    PROVE  CInv'
<1>1. PICK d : d = call  OBVIOUS
<1>2. /\ d \in Call /\ CallShape(d) /\ Running /\ tree' = tree /\ kept' = kept
      /\ Becomes(tree, tree)
  BY <1>1, CallIs, Unchanging DEF ResolveSegment
<1>3. Resolving /\ call.depth < Len(Goal)  BY DEF ResolveSegment
<1>4. PICK p, g, x : p = SubSeq(Goal, 1, call.depth + 1) /\ g = Goal /\ x = call.depth  OBVIOUS
<1>5. /\ p \in Paths /\ g \in Paths /\ Len(p) = x + 1 /\ x + 1 \in 1..2 /\ x + 1 <= Len(g)
      /\ x \in 0..2 /\ g = GoalOf(d) /\ (x = 0 => d.at = Root) /\ (x # 0 => d.at \in Ids)
      /\ d.at \in Ids \cup {Root}
  BY <1>1, <1>3, <1>4, NextSegment, GoalIs
<1>6. d.pc \in {"is_file", "is_dir", "confirm", "source", "source_parent", "target_parent"}
  BY <1>1, <1>3 DEF Resolving, Asking
<1>7. d.pc \in Working  BY <1>6 DEF Working
<1>8. PICK c : c = call'  OBVIOUS
<1>9. ASSUME NEW i \in Found(p, call.at, Len(p) < Len(Goal)), CachePut(p, i),
             call' = [call EXCEPT !.at = i, !.depth = @ + 1]
      PROVE  CInv'
  <2>1. /\ c.pc = d.pc /\ c.at = i /\ c.depth = x + 1 /\ c.path = d.path /\ c.id = d.id
        /\ c.to = d.to
    BY <1>1, <1>2, <1>4, <1>8, <1>9 DEF Call
  <2>2. GoalOf(c) = g  BY <1>5, <2>1 DEF GoalOf
  <2>3. kept \/ begun.alone => At(tree, i, p)
    <3>1. SUFFICES ASSUME kept \/ begun.alone PROVE At(tree, i, p)  OBVIOUS
    <3>2. Truthful(tree, cache)  BY <1>1, <1>7, <3>1, Relied
    <3>3. Len(p) = 1 => d.at = Root
      <4>1. SUFFICES ASSUME Len(p) = 1 PROVE d.at = Root  OBVIOUS
      <4>2. x = 0
        <5>1. x + 1 = 1 /\ x \in 0..2  BY <1>5, <4>1
        <5> QED  BY <5>1
      <4> QED  BY <1>5, <4>2
    <3>4. Len(p) = 2 => d.at \in Ids /\ At(tree, d.at, Parent(p))
      <4>1. SUFFICES ASSUME Len(p) = 2 PROVE d.at \in Ids /\ At(tree, d.at, Parent(p))  OBVIOUS
      <4>2. x = 1
        <5>1. x + 1 = 2 /\ x \in 0..2  BY <1>5, <4>1
        <5> QED  BY <5>1
      <4>3. At(tree, d.at, SubSeq(g, 1, 1))
        <5>1. At(tree, call.at, SubSeq(GoalOf(call), 1, call.depth))
          BY <1>1, <1>4, <1>7, <3>1, <4>2, Relied
        <5> QED  BY <1>1, <1>4, <1>5, <4>2, <5>1
      <4>4. Len(g) = 2
        <5>1. Len(g) \in {1, 2}  BY <1>5, PathForms
        <5>2. PICK y : y = Len(g)  OBVIOUS
        <5>3. y \in {1, 2} /\ 1 + 1 <= y  BY <1>5, <4>2, <5>1, <5>2
        <5>4. y = 2  BY <5>3
        <5> QED  BY <5>2, <5>4
      <4>5. p = g
        <5>1. x + 1 = 2  BY <4>2
        <5>2. p = SubSeq(g, 1, 2)  BY <1>4, <5>1
        <5>3. SubSeq(g, 1, Len(g)) = g  BY <1>5, PathForms
        <5> QED  BY <4>4, <5>2, <5>3
      <4>6. SubSeq(g, 1, 1) = Parent(g)
        <5>1. g \in Paths  BY <1>5
        <5>2. SubSeq(g, 1, 1) = <<g[1]>> /\ Parent(g) = <<g[1]>>  BY <4>4, <5>1, PathForms
        <5> QED  BY <5>2
      <4>7. d.at \in Ids
        <5>1. x # 0  BY <4>2
        <5> QED  BY <1>5, <5>1
      <4> QED  BY <4>3, <4>5, <4>6, <4>7
    <3> QED  BY <1>1, <1>5, <1>9, <3>2, <3>3, <3>4, FoundAt
  <2>4. \A q \in Paths : cache'[q] # None =>
          cache'[q] = cache[q] \/ (kept \/ begun.alone => At(tree, cache'[q], q))
    BY <1>5, <1>9, <2>3, PutIs
  <2>5. (kept \/ begun.alone) /\ c.path # <<>>
        /\ c.pc \in {"source_parent", "target_parent", "collide", "move", "delete"} =>
          At(tree, c.id, c.path)
    BY <1>1, <1>7, <2>1, Relied
  <2>6. c.pc # "move" /\ c.pc \in Working  BY <1>6, <1>7, <2>1
  <2> QED  BY <1>1, <1>2, <1>4, <1>7, <1>8, <2>1, <2>2, <2>3, <2>4, <2>5, <2>6, HeedStep
<1>10. CASE Asking /\ ToFolder(IfAbsent, Root) /\ cache' = cache
  <2>1. PICK pc : pc = IfAbsent  OBVIOUS
  <2>2. pc \in {"is_dir", "confirm", "no"}  BY <1>10, <2>1 DEF IfAbsent, Asking
  <2> QED  BY <1>2, <1>10, <2>1, <2>2, AskHeeds
<1>11. CASE Goto("failed") /\ cache' = cache
  <2>1. Throw  BY <1>2, <1>11 DEF Throw
  <2> QED  BY <1>1, <1>2, <1>7, <2>1, ThrowHeeds
<1> QED  BY <1>4, <1>9, <1>10, <1>11 DEF ResolveSegment

LEMMA AnsweredHeeds ==
    ASSUME TInv, CInv, TreeAssumption, Answered
    PROVE  CInv'
<1>1. Asking /\ Running /\ tree' = tree /\ cache' = cache /\ kept' = kept
  BY DEF Answered
<1>2. call.pc \in {"is_file", "is_dir", "confirm"}  BY <1>1 DEF Asking
<1>3. CASE ToFolder(IfPresent(SourceId), Root)
  <2>1. PICK pc : pc = IfPresent(SourceId)  OBVIOUS
  <2>2. pc \in {"is_dir", "confirm", "source", "failed"}  BY <1>2, <2>1 DEF IfPresent
  <2> QED  BY <1>1, <1>3, <2>1, <2>2, AskHeeds
<1>4. CASE ToFolder(IF call.id = None /\ call.pc = "confirm" THEN "failed" ELSE IfAbsent, Root)
  <2>1. PICK pc : pc = IF call.id = None /\ call.pc = "confirm" THEN "failed" ELSE IfAbsent
    OBVIOUS
  <2>2. pc \in {"is_dir", "confirm", "no", "failed"}  BY <1>2, <2>1 DEF IfAbsent
  <2> QED  BY <1>1, <1>4, <2>1, <2>2, AskHeeds
<1>5. CASE Goto("failed")
  <2>1. call.pc \in Working /\ Throw /\ Becomes(tree, tree)
    BY <1>1, <1>2, <1>5, Unchanging DEF Throw, Working
  <2> QED  BY <1>1, <2>1, ThrowHeeds
<1> QED  BY <1>3, <1>4, <1>5 DEF Answered

LEMMA ResolvedSourceHeeds ==
    ASSUME TInv, CInv, TreeAssumption, ResolvedSource
    PROVE  CInv'
<1>1. /\ call.pc = "source" /\ call.depth = Len(call.path) /\ Running
      /\ tree' = tree /\ cache' = cache /\ kept' = kept /\ Becomes(tree, tree)
      /\ call \in Call /\ call.pc \in Working
  BY CallIs, Unchanging DEF ResolvedSource, Working
<1>2. CASE Goto("failed")
  <2>1. Throw  BY <1>1, <1>2 DEF Throw
  <2> QED  BY <1>1, <2>1, ThrowHeeds
<1>3. CASE call' = [call EXCEPT !.id = SourceId, !.at = Root, !.depth = 0,
                !.pc = IF call.op # "move" THEN "delete"
                       ELSE IF call.path = <<>> THEN "target_parent" ELSE "source_parent"]
  <2>1. PICK c, d : c = call' /\ d = call  OBVIOUS
  <2>2. /\ c.pc \in {"delete", "target_parent", "source_parent"} /\ c.depth = 0
        /\ c.id = SourceId /\ c.path = d.path
    BY <1>1, <1>3, <2>1 DEF Call
  <2>3. c.pc \in Working /\ c.pc # "move"  BY <2>2 DEF Working
  <2>4. (kept \/ begun.alone) /\ d.path # <<>> => At(tree, c.id, d.path)
    <3>1. SUFFICES ASSUME kept \/ begun.alone, d.path # <<>> PROVE At(tree, c.id, d.path)
      OBVIOUS
    <3>2. c.id = d.at /\ d.path \in Paths  BY <1>1, <2>1, <2>2, <3>1, SourceIs DEF Call
    <3>3. Len(d.path) \in {1, 2} /\ SubSeq(d.path, 1, Len(d.path)) = d.path
      BY <3>2, PathForms
    <3>4. d.depth # 0
      <4>1. PICK y : y = Len(d.path)  OBVIOUS
      <4>2. y \in {1, 2} /\ d.depth = y  BY <1>1, <2>1, <3>3, <4>1
      <4> QED  BY <4>2
    <3>5. GoalOf(d) = d.path  BY <1>1, <2>1 DEF GoalOf
    <3>6. At(tree, d.at, SubSeq(d.path, 1, Len(d.path)))
      BY <1>1, <2>1, <3>1, <3>4, <3>5, Relied
    <3> QED  BY <3>2, <3>3, <3>6
  <2> QED  BY <1>1, <2>1, <2>2, <2>3, <2>4, HeedStep
<1> QED  BY <1>2, <1>3 DEF ResolvedSource

LEMMA ResolvedParentHeeds ==
    ASSUME TInv, CInv, TreeAssumption, ResolvedParent
    PROVE  CInv'
<1>1. /\ call.pc \in {"source_parent", "target_parent"} /\ Running
      /\ tree' = tree /\ cache' = cache /\ kept' = kept /\ Becomes(tree, tree)
      /\ call \in Call
  BY CallIs, Unchanging DEF ResolvedParent
<1>2. PICK c, d : c = call' /\ d = call  OBVIOUS
<1>3. call.pc \in Working  BY <1>1 DEF Working
<1>4. (kept \/ begun.alone) /\ d.path # <<>> => At(tree, d.id, d.path)
  BY <1>1, <1>2, <1>3, Relied
<1>5. CASE Goto("failed")
  <2>1. Throw  BY <1>1, <1>5 DEF Throw
  <2> QED  BY <1>1, <1>3, <2>1, ThrowHeeds
<1>6. CASE call.pc = "source_parent" /\ ToFolder("target_parent", Root)
  <2>1. c.pc = "target_parent" /\ c.depth = 0 /\ c.path = d.path /\ c.id = d.id
    BY <1>1, <1>2, <1>6 DEF ToFolder, Call
  <2>2. c.pc \in Working /\ c.pc # "move"  BY <2>1 DEF Working
  <2> QED  BY <1>1, <1>2, <1>3, <1>4, <2>1, <2>2, HeedStep
<1>7. CASE call.pc = "target_parent" /\ Goto("collide")
  <2>1. /\ c.pc = "collide" /\ c.depth = d.depth /\ c.path = d.path /\ c.id = d.id
        /\ c.at = d.at /\ c.to = d.to
    BY <1>1, <1>2, <1>7 DEF Goto, Call
  <2>2. c.pc \in Working /\ c.pc # "move"  BY <2>1 DEF Working
  <2>3. GoalOf(c) = GoalOf(d)  BY <1>2, <1>7, <2>1 DEF GoalOf
  <2>4. (kept \/ begun.alone) /\ d.depth # 0 => At(tree, d.at, SubSeq(GoalOf(d), 1, d.depth))
    BY <1>2, <1>3, Relied
  <2> QED  BY <1>1, <1>2, <1>3, <1>4, <2>1, <2>2, <2>3, <2>4, HeedStep
<1> QED  BY <1>5, <1>6, <1>7 DEF ResolvedParent

\* The folder a move goes to.
LEMMA TargetIs ==
    ASSUME TInv, CInv, TreeAssumption, kept \/ begun.alone,
           call.pc \in {"collide", "move"}
    PROVE  /\ call.at \in Ids \cup {Root} /\ Live(call.at)
           /\ \A i \in Ids : \A u :
                u[i].parent = call.at /\ u[i].name = Last(call.to)
                /\ (call.at \in Ids => u[call.at] = tree[call.at]) => At(u, i, call.to)
           /\ call.at # Root => tree[call.at].parent = Root
           /\ \A i \in Ids : \A u : At(u, i, call.to)
                /\ Distinct(tree, {}) /\ (u[i].parent \in Ids => u[u[i].parent] = tree[u[i].parent])
                  => u[i].parent = call.at /\ u[i].name = Last(call.to)
<1>1. PICK d : d = call  OBVIOUS
<1>2. /\ d.to \in Paths /\ d \in Call /\ CallShape(d) /\ d.pc \in Working
      /\ d.at \in Ids \cup {Root} /\ (d.depth = 0 => d.at = Root) /\ (d.depth # 0 => d.at \in Ids)
  BY <1>1, MoveIs, CallIs, GoalIs DEF Working
<1>3. GoalOf(d) = Parent(d.to) /\ d.depth = Len(Parent(d.to))
  BY <1>1, <1>2 DEF GoalOf, CallShape
<1>4. Len(d.to) \in {1, 2} /\ Root \notin Ids  BY <1>2, PathForms DEF TreeAssumption
<1>5. CASE Len(d.to) = 1
  <2>1. Parent(d.to) = <<>>  BY <1>2, <1>5, PathForms
  <2>2. Len(<<>>) = 0  OBVIOUS
  <2>3. d.at = Root  BY <1>2, <1>3, <2>1, <2>2
  <2>4. Live(d.at)  BY <2>3 DEF Live, LiveIn
  <2>5. \A i \in Ids : \A u : At(u, i, d.to) <=> u[i].parent = Root /\ u[i].name = Last(d.to)
    BY <1>2, <1>5, AtRoot
  <2> QED  BY <1>1, <1>2, <2>3, <2>4, <2>5
<1>6. CASE Len(d.to) = 2
  <2>1. PICK q : q = Parent(d.to)  OBVIOUS
  <2>2. q \in Paths /\ Len(q) = 1  BY <1>2, <1>6, <2>1, ParentIs
  <2>3. d.depth = 1 /\ SubSeq(q, 1, 1) = q
    <3>1. SubSeq(q, 1, Len(q)) = q  BY <2>2, PathForms
    <3> QED  BY <1>3, <2>1, <2>2, <3>1
  <2>4. d.depth # 0  BY <2>3
  <2>5. At(tree, d.at, q)
    <3>1. At(tree, d.at, SubSeq(GoalOf(d), 1, d.depth))  BY <1>1, <1>2, <2>4, Relied
    <3> QED  BY <1>3, <2>1, <2>3, <3>1
  <2>6. d.at \in Ids /\ tree[d.at].parent = Root /\ tree[d.at].name = Last(q)
    BY <1>2, <2>2, <2>4, <2>5, AtRoot
  <2>7. Live(d.at)  BY <2>6 DEF Live, LiveIn, TreeAssumption
  <2>8. \A i \in Ids : \A u : At(u, i, d.to) <=>
          u[i].parent \in Ids /\ u[i].name = Last(d.to) /\ At(u, u[i].parent, q)
    BY <1>2, <1>6, <2>1, AtFolder
  <2>9. \A g \in Ids : \A u : At(u, g, q) <=> u[g].parent = Root /\ u[g].name = Last(q)
    BY <2>2, AtRoot
  <2>10. ASSUME NEW i \in Ids, NEW u, At(u, i, d.to), Distinct(tree, {}),
                u[i].parent \in Ids => u[u[i].parent] = tree[u[i].parent]
         PROVE  u[i].parent = d.at /\ u[i].name = Last(d.to)
    <3>1. PICK g : g = u[i].parent  OBVIOUS
    <3>2. g \in Ids /\ u[i].name = Last(d.to) /\ tree[g].parent = Root /\ tree[g].name = Last(q)
      BY <2>8, <2>9, <2>10, <3>1
    <3>3. g = d.at  BY <2>6, <2>10, <3>2 DEF Distinct, TreeAssumption
    <3> QED  BY <3>1, <3>2, <3>3
  <2>11. ASSUME NEW i \in Ids, NEW u, u[i].parent = d.at, u[i].name = Last(d.to),
                d.at \in Ids => u[d.at] = tree[d.at]
         PROVE  At(u, i, d.to)
    BY <2>6, <2>8, <2>9, <2>11
  <2> QED  BY <1>1, <2>6, <2>7, <2>10, <2>11
<1> QED  BY <1>4, <1>5, <1>6

LEMMA ReconcileHeeds ==
    ASSUME TInv, CInv, TreeAssumption, ReconcileDestination
    PROVE  CInv'
<1>1. /\ call.pc = "collide" /\ Running /\ tree' = tree /\ cache' = cache /\ kept' = kept
      /\ Becomes(tree, tree) /\ call \in Call /\ call.pc \in Working
  BY CallIs, Unchanging DEF ReconcileDestination, Working
<1>2. CASE Goto("failed")
  <2>1. Throw  BY <1>1, <1>2 DEF Throw
  <2> QED  BY <1>1, <2>1, ThrowHeeds
<1>3. CASE call' = [call EXCEPT !.pc = "move",
                !.old = IF AtDestination = {} THEN None
                        ELSE CHOOSE c \in AtDestination : TRUE]
  <2>1. PICK c, d, old : c = call' /\ d = call /\
          old = IF AtDestination = {} THEN None ELSE CHOOSE i \in AtDestination : TRUE
    OBVIOUS
  <2>2. /\ c.pc = "move" /\ c.depth = d.depth /\ c.path = d.path /\ c.id = d.id
        /\ c.at = d.at /\ c.to = d.to /\ c.old = old
    BY <1>1, <1>3, <2>1 DEF Call
  <2>3. GoalOf(c) = GoalOf(d)  BY <1>1, <2>1, <2>2 DEF GoalOf
  <2>4. /\ (kept \/ begun.alone) /\ d.depth # 0 => At(tree, d.at, SubSeq(GoalOf(d), 1, d.depth))
        /\ (kept \/ begun.alone) /\ d.path # <<>> => At(tree, d.id, d.path)
    BY <1>1, <2>1, Relied
  <2>5. (kept \/ begun.alone) /\ old # None =>
          old # d.id /\ At(tree, old, d.to) /\ tree[old].parent = d.at
    <3>1. SUFFICES ASSUME kept \/ begun.alone, old # None
                   PROVE  old # d.id /\ At(tree, old, d.to) /\ tree[old].parent = d.at
      OBVIOUS
    <3>2. old \in AtDestination  BY <2>1, <3>1
    <3>3. old \in Ids /\ tree[old].parent = d.at /\ tree[old].name = Last(d.to) /\ old # d.id
      BY <2>1, <3>2 DEF AtDestination, Listed, Named, Children
    <3> QED  BY <1>1, <2>1, <3>1, <3>3, TargetIs
  <2>6. c.pc \in Working  BY <2>2 DEF Working
  <2> QED  BY <1>1, <2>1, <2>2, <2>3, <2>4, <2>5, <2>6, HeedStep
<1> QED  BY <1>2, <1>3 DEF ReconcileDestination

\* The source of a move, or what a removal removes.
LEMMA MoveEntryHeeds ==
    ASSUME TInv, CInv, TreeAssumption, MoveEntry
    PROVE  CInv'
<1>1. /\ call.pc = "move" /\ Running /\ cache' = cache /\ tree \in Trees /\ Sound(tree)
      /\ Becomes(tree, tree) /\ call \in Call /\ call.pc \in Working
  BY Unchanging, CallIs DEF MoveEntry, Working
<1>2. PICK d, f, n, i : d = call /\ f = call.at /\ n = Last(call.to) /\ i = call.id  OBVIOUS
<1>3. /\ d.to \in Paths /\ i \in Ids /\ Born(tree, i) /\ f \in Ids \cup {Root} /\ n \in Names
  BY <1>1, <1>2, MoveIs, GoalIs
<1>4. CASE Throw /\ UNCHANGED tree
  BY <1>1, <1>4, ThrowHeeds
<1>5. CASE CanMove(call.id, call.at) /\ tree' = Moved(call.id, call.at, Last(call.to)) /\ ThrowLate
  BY <1>1, <1>2, <1>3, <1>5, MovedIs, ThrowLateHeeds
<1>6. CASE /\ CanMove(call.id, call.at) /\ tree' = Moved(call.id, call.at, Last(call.to))
           /\ Goto(IF call.old = None THEN "forget" ELSE "replace") /\ UNCHANGED kept
  <2>1. PICK v, c, k, a, b, ca : /\ v = tree' /\ c = call' /\ k = kept /\ a = begun.alone
                                 /\ b = begun.tree /\ ca = cache
    OBVIOUS
  <2>2. v = Moved(i, f, n) /\ CanMove(i, f)  BY <1>2, <1>6, <2>1
  <2>3. Becomes(tree, v) /\ (Live(f) => \A j \in Ids \ {i} : v[j] = tree[j])
    BY <1>1, <1>3, <2>2, MovedIs
  <2>4. f # i
    <3>1. i \in Subtree(tree, i)  BY <1>3 DEF Subtree
    <3> QED  BY <2>2, <3>1 DEF CanMove
  <2>5. /\ c.pc = (IF d.old = None THEN "forget" ELSE "replace") /\ c.path = d.path
        /\ c.id = i /\ c.at = f /\ c.to = d.to /\ c.old = d.old /\ d.path \in Paths \cup {<<>>}
    BY <1>1, <1>2, <1>6, <2>1 DEF Goto, Call
  <2>6. ASSUME k, d.path # <<>>, NEW p \in Paths, ca[p] # None, ~IsPrefix(d.path, p)
        PROVE  At(v, ca[p], p)
    <3>1. Truthful(tree, ca) /\ At(tree, i, d.path)  BY <1>1, <1>2, <2>1, <2>6, Relied
    <3>2. Live(f)  BY <1>1, <1>2, <2>1, <2>6, TargetIs
    <3>3. At(tree, ca[p], p)  BY <2>6, <3>1 DEF Truthful
    <3>4. d.path \in Paths  BY <2>5, <2>6
    <3> QED  BY <2>3, <2>6, <3>1, <3>2, <3>3, <3>4, MovedKeeps
  <2>7. ASSUME k \/ a, c.pc = "replace"
        PROVE  c.old # c.id /\ At(v, c.old, c.to)
    <3>1. d.old # None  BY <2>5, <2>7
    <3>2. d.old # i /\ At(tree, d.old, d.to) /\ tree[d.old].parent = f
      BY <1>1, <1>2, <2>1, <2>7, <3>1, Relied
    <3>3. Live(f)  BY <1>1, <1>2, <2>1, <2>7, TargetIs
    <3>4. d.old \in Ids /\ v[d.old] = tree[d.old]  BY <2>3, <3>2, <3>3 DEF At
    <3>5. tree[d.old].parent # i  BY <2>4, <3>2
    <3>6. tree[d.old].parent \in Ids => v[tree[d.old].parent] = tree[tree[d.old].parent]
      BY <2>3, <3>3, <3>5
    <3>7. At(v, d.old, d.to)  BY <1>3, <3>2, <3>4, <3>6, AtAlike
    <3> QED  BY <2>5, <3>2, <3>7
  <2>8. c.pc \notin Working /\ c.pc \in {"replace", "forget"}  BY <2>5 DEF Working
  <2>9. Heeds(v, ca, c, k, a)
    BY <2>5, <2>6, <2>7, <2>8 DEF Heeds
  <2>10. Becomes(b, v) /\ Sound(b)  BY <2>1, <2>3, Becoming DEF CInv
  <2>11. cache' = ca /\ kept' = k /\ begun' = begun  BY <1>1, <1>6, <2>1 DEF Running
  <2> QED  BY <2>1, <2>9, <2>10, <2>11 DEF CInv
<1> QED  BY <1>4, <1>5, <1>6 DEF MoveEntry

LEMMA ReplaceHeeds ==
    ASSUME TInv, CInv, TreeAssumption, Replace
    PROVE  CInv'
<1>1. /\ call.pc = "replace" /\ Running /\ cache' = cache /\ tree \in Trees /\ Sound(tree)
      /\ Becomes(tree, tree) /\ call \in Call /\ CallShape(call)
  BY Unchanging, CallIs DEF Replace
<1>2. PICK d, f, v : d = call /\ f = ToReplace /\ v = tree'  OBVIOUS
<1>3. f = d.old /\ f \in Ids /\ d.to \in Paths /\ d.to # <<>>
  BY <1>1, <1>2, MoveIs, PathForms DEF ToReplace, CallShape
<1>4. PICK w : w = Trashed(f)  OBVIOUS
<1>5. Becomes(tree, w)  BY <1>1, <1>3, <1>4, TrashedIs
<1>6. CASE ThrowLate
  BY <1>1, <1>2, <1>4, <1>5, <1>6, ThrowLateHeeds DEF Replace
<1>7. CASE tree' = Trashed(ToReplace) /\ Goto("forget") /\ UNCHANGED kept
  <2>1. PICK c, k, a, b, ca : /\ c = call' /\ k = kept /\ a = begun.alone
                              /\ b = begun.tree /\ ca = cache
    OBVIOUS
  <2>2. v = w  BY <1>2, <1>4, <1>7
  <2>3. /\ c.pc = "forget" /\ c.path = d.path /\ c.to = d.to /\ d.path \in Paths \cup {<<>>}
    BY <1>1, <1>2, <1>7, <2>1 DEF Goto, Call
  <2>4. ASSUME k, d.path # <<>>, NEW p \in Paths, ca[p] # None, ~IsPrefix(d.path, p),
               ~IsPrefix(d.to, p)
        PROVE  At(w, ca[p], p)
    <3>1. At(tree, ca[p], p) /\ At(tree, f, d.to)
      BY <1>1, <1>2, <1>3, <2>1, <2>4 DEF CInv, Heeds, CallShape
    <3> QED  BY <1>1, <1>3, <1>4, <2>4, <3>1, TrashedKeeps
  <2>5. c.pc \notin Working  BY <2>3 DEF Working
  <2>6. Heeds(w, ca, c, k, a)
    BY <1>3, <2>3, <2>4, <2>5 DEF Heeds
  <2>7. Becomes(b, w) /\ Sound(b)  BY <1>5, <2>1, Becoming DEF CInv
  <2>8. cache' = ca /\ kept' = k /\ begun' = begun  BY <1>1, <1>7, <2>1 DEF Running
  <2> QED  BY <1>2, <2>1, <2>2, <2>6, <2>7, <2>8 DEF CInv
<1> QED  BY <1>6, <1>7 DEF Replace

LEMMA DeleteHeeds ==
    ASSUME TInv, CInv, TreeAssumption, Delete
    PROVE  CInv'
<1>1. /\ call.pc = "delete" /\ Running /\ cache' = cache /\ tree \in Trees /\ Sound(tree)
      /\ Becomes(tree, tree) /\ call \in Call /\ CallShape(call) /\ call.pc \in Working
  BY Unchanging, CallIs DEF Delete, Working
<1>2. PICK d, f, v : d = call /\ f = call.id /\ v = tree'  OBVIOUS
<1>3. f \in Ids /\ d.path \in Paths \cup {<<>>}
  BY <1>1, <1>2 DEF CallShape, Call
<1>4. PICK w : w = Trashed(f)  OBVIOUS
<1>5. Becomes(tree, w)  BY <1>1, <1>3, <1>4, TrashedIs
<1>6. CASE UNCHANGED tree /\ Throw  BY <1>1, <1>6, ThrowHeeds
<1>7. CASE tree' = Trashed(call.id) /\ ThrowLate
  BY <1>1, <1>2, <1>4, <1>5, <1>7, ThrowLateHeeds
<1>8. CASE tree' = Trashed(call.id) /\ Goto("forget") /\ UNCHANGED kept
  <2>1. PICK c, k, a, b, ca : /\ c = call' /\ k = kept /\ a = begun.alone
                              /\ b = begun.tree /\ ca = cache
    OBVIOUS
  <2>2. v = w  BY <1>2, <1>4, <1>8
  <2>3. /\ c.pc = "forget" /\ c.path = d.path
    BY <1>1, <1>2, <1>8, <2>1 DEF Goto, Call
  <2>4. ASSUME k, d.path # <<>>, NEW p \in Paths, ca[p] # None, ~IsPrefix(d.path, p)
        PROVE  At(w, ca[p], p)
    <3>1. Truthful(tree, ca) /\ At(tree, f, d.path)  BY <1>1, <1>2, <2>1, <2>4, Relied
    <3>2. At(tree, ca[p], p)  BY <2>4, <3>1 DEF Truthful
    <3> QED  BY <1>1, <1>3, <1>4, <2>4, <3>1, <3>2, TrashedKeeps
  <2>5. c.pc \notin Working  BY <2>3 DEF Working
  <2>6. Heeds(w, ca, c, k, a)
    BY <2>3, <2>4, <2>5 DEF Heeds
  <2>7. Becomes(b, w) /\ Sound(b)  BY <1>5, <2>1, Becoming DEF CInv
  <2>8. cache' = ca /\ kept' = k /\ begun' = begun  BY <1>1, <1>8, <2>1 DEF Running
  <2> QED  BY <1>2, <2>1, <2>2, <2>6, <2>7, <2>8 DEF CInv
<1> QED  BY <1>6, <1>7, <1>8 DEF Delete

\* Everything the call made false is forgotten.
LEMMA InvalidateHeeds ==
    ASSUME TInv, CInv, TreeAssumption, Invalidate
    PROVE  CInv'
<1>1. /\ call.pc = "forget" /\ Running /\ tree' = tree /\ Goto("ok")
      /\ kept' = (kept /\ call.path # <<>>)
      /\ cache' = InvalidatePrefix({call.path, call.to} \ {<<>>}) /\ call \in Call
  BY CallIs DEF Invalidate
<1>2. PICK c, k, a, b, ca, cb, u :
        /\ c = call' /\ k = kept' /\ a = begun.alone /\ b = begun.tree
        /\ ca = cache /\ cb = cache' /\ u = tree
  OBVIOUS
<1>3. PICK d : d = call  OBVIOUS
<1>4. c.pc = "ok"  BY <1>1, <1>2 DEF Goto, Call
<1>5. PICK S : S = {d.path, d.to} \ {<<>>}  OBVIOUS
<1>6. \A q \in Paths : cb[q] = IF \E p \in S : IsPrefix(p, q) THEN None ELSE ca[q]
  BY <1>1, <1>2, <1>3, <1>5 DEF InvalidatePrefix
<1>7. k => Truthful(u, cb)
  <2>1. SUFFICES ASSUME k, NEW p \in Paths, cb[p] # None PROVE At(u, cb[p], p)
    BY DEF Truthful
  <2>2. kept /\ d.path # <<>>  BY <1>1, <1>2, <1>3, <2>1
  <2>3. cb[p] = ca[p] /\ ~\E q \in S : IsPrefix(q, p)  BY <1>6, <2>1
  <2>4. ~IsPrefix(d.path, p) /\ ~(d.to # <<>> /\ IsPrefix(d.to, p))
    BY <1>5, <2>2, <2>3
  <2>5. Heeds(u, ca, d, TRUE, a)
    <3>1. kept = TRUE  BY <2>2, CallIs
    <3> QED  BY <1>2, <1>3, <3>1 DEF CInv
  <2> QED  BY <1>1, <1>3, <2>1, <2>2, <2>3, <2>4, <2>5 DEF Heeds
<1>8. c.pc \notin Working  BY <1>4 DEF Working
<1>9. Heeds(u, cb, c, k, a)  BY <1>4, <1>7, <1>8 DEF Heeds
<1>10. Becomes(b, u) /\ Sound(b)  BY <1>2 DEF CInv
<1>11. begun' = begun  BY <1>1 DEF Running
<1> QED  BY <1>1, <1>2, <1>9, <1>10, <1>11 DEF CInv

LEMMA StepHeeds ==
    ASSUME TInv, CInv, TreeAssumption, Step
    PROVE  CInv'
BY ExistsHeeds, CreateDirectoryHeeds, OpenWalkHeeds, ListAnyKindHeeds, CreateFolderHeeds,
   ProbeExistingHeeds, PublishOnCloseHeeds, ResolveSegmentHeeds, AnsweredHeeds,
   ResolvedSourceHeeds, ResolvedParentHeeds, ReconcileHeeds, MoveEntryHeeds, ReplaceHeeds,
   DeleteHeeds, InvalidateHeeds DEF Step

\* How a call begins.
LEMMA StartIs ==
    ASSUME TreeAssumption, Start
    PROVE  \E op, pc, p, id, q :
             /\ Begin(op, pc, p, id, q)
             /\ \/ op \in {"copy", "blob"} /\ pc \in {"walk", "dir"}
                \/ op \in {"remove", "rmdir", "move"} /\ pc = "source"
                \/ op = "remove_file" /\ pc = "is_file"
<1>1. CASE StartWrite  BY <1>1, Zenon DEF StartWrite
<1>2. CASE StartRemove  BY <1>2, Zenon DEF StartRemove
<1>3. CASE StartMove  BY <1>3, Zenon DEF StartMove
<1>4. CASE StartRemoveFile  BY <1>4, Zenon DEF StartRemoveFile
<1>5. CASE StartById  BY <1>5, Zenon DEF StartById
<1> QED  BY <1>1, <1>2, <1>3, <1>4, <1>5 DEF Start

LEMMA StartHeeds ==
    ASSUME TInv, CInv, TreeAssumption, Start
    PROVE  CInv'
<1>1. PICK op, pc, p, id, q :
        Begin(op, pc, p, id, q) /\ pc \in {"walk", "dir", "source", "is_file"}
  BY StartIs
<1>2. /\ call.pc = "idle" /\ begun' = [tree |-> tree, alone |-> CacheTruthful /\ NoDuplicates]
      /\ tree' = tree /\ cache' = cache /\ kept' = kept
  BY <1>1 DEF Begin
<1>3. PICK c, k, a, ca, u : c = call' /\ k = kept /\ a = (CacheTruthful /\ NoDuplicates)
                            /\ ca = cache /\ u = tree
  OBVIOUS
<1>4. c = [Idle EXCEPT !.op = op, !.pc = pc, !.path = p, !.id = id, !.to = q, !.at = Root]
  BY <1>1, <1>3 DEF Begin
<1>5. c.pc = pc /\ c.depth = 0  BY <1>4 DEF Idle
<1>6. c.pc \notin {"replace", "forget", "source_parent", "target_parent", "collide", "move",
                   "delete"}
  BY <1>1, <1>5
<1>7. k \/ a => Truthful(u, ca)
  <2>1. k => Truthful(u, ca)  BY <1>2, <1>3 DEF CInv, Heeds
  <2>2. a => Truthful(u, ca)  BY <1>3, TruthfulIs
  <2> QED  BY <2>1, <2>2
<1>8. Heeds(u, ca, c, k, a)  BY <1>5, <1>6, <1>7 DEF Heeds
<1>9. Becomes(u, u) /\ Sound(u)  BY <1>3, Unchanging
<1>10. begun'.tree = u /\ begun'.alone = a  BY <1>2, <1>3
<1> QED  BY <1>2, <1>3, <1>8, <1>9, <1>10 DEF CInv

LEMMA FinishHeeds ==
    ASSUME TInv, CInv, TreeAssumption, Finish
    PROVE  CInv'
<1>1. /\ call.pc \in {"ok", "no", "failed"} /\ call' = Idle
      /\ UNCHANGED <<tree, cache, calls, others, begun, kept>>
  BY DEF Finish
<1>2. Idle.pc = "idle" /\ Idle.pc \notin Working  BY DEF Idle, Working
<1> QED  BY <1>1, <1>2 DEF CInv, Heeds

LEMMA OtherClientHeeds ==
    ASSUME TInv, CInv, TreeAssumption, OtherClient
    PROVE  CInv'
<1>1. kept' = FALSE /\ begun' = [begun EXCEPT !.alone = FALSE] /\ UNCHANGED <<cache, call>>
  BY DEF OtherClient
<1>2. PICK v, b : v = tree' /\ b = begun.tree  OBVIOUS
<1>3. Becomes(b, v) /\ Sound(b)  BY <1>2, OtherClientIs, Becoming DEF CInv
<1>4. begun'.tree = b  BY <1>1, <1>2
<1>5. begun'.alone = FALSE
  BY <1>1 DEF TInv, TypeOK
<1>6. Heeds(v, cache, call, FALSE, FALSE)  BY DEF Heeds
<1> QED  BY <1>1, <1>2, <1>3, <1>4, <1>5, <1>6 DEF CInv

LEMMA HeedsInductive ==
    ASSUME TreeAssumption
    PROVE  TInv /\ CInv /\ [Next]_vars => CInv'
<1> SUFFICES ASSUME TInv, CInv, [Next]_vars PROVE CInv'  OBVIOUS
<1>1. CASE Start  BY <1>1, StartHeeds
<1>2. CASE Step  BY <1>2, StepHeeds
<1>3. CASE Finish  BY <1>3, FinishHeeds
<1>4. CASE OtherClient  BY <1>4, OtherClientHeeds
<1>5. CASE UNCHANGED vars  BY <1>5 DEF vars, CInv
<1> QED  BY <1>1, <1>2, <1>3, <1>4, <1>5 DEF Next

LEMMA HeedsInit ==
    ASSUME TreeAssumption, TreesAssumption, Init
    PROVE  CInv
<1>1. TInv  BY TypesInit
<1>2. Becomes(tree, tree) /\ Sound(tree)  BY <1>1, Unchanging
<1>3. /\ cache = [p \in Paths |-> None] /\ call = Idle /\ kept = TRUE
      /\ begun = [tree |-> tree, alone |-> FALSE]
  BY DEF Init
<1>4. call.pc = "idle" /\ call.pc \notin Working  BY <1>3 DEF Idle, Working
<1>5. Truthful(tree, cache)  BY <1>3 DEF Truthful
<1>6. begun.tree = tree /\ begun.alone = FALSE  BY <1>3
<1>7. Heeds(tree, cache, call, kept, begun.alone)  BY <1>4, <1>5, <1>6 DEF Heeds
<1> QED  BY <1>2, <1>6, <1>7 DEF CInv

\* Between calls the cache tells the truth, as long as only calls by path, none
\* of them failing half way, change the tree: every move, overwrite and removal
\* drops every entry it made false.
THEOREM TheCacheFollows == Spec => []CacheFollows
<1>1. Spec => [](TInv /\ CInv)
  BY TypesInit, TypesInductive, HeedsInit, HeedsInductive, TreeAssumption, TreesAssumption, PTL
     DEF Spec
<1>2. TreeAssumption /\ TInv /\ CInv => CacheFollows
  <2>1. SUFFICES ASSUME TreeAssumption, TInv, CInv, kept, call.pc = "idle"
                 PROVE  CacheTruthful
    BY DEF CacheFollows
  <2>2. Truthful(tree, cache)  BY <2>1 DEF CInv, Heeds
  <2> QED  BY <2>1, <2>2, TruthfulIs
<1> QED  BY <1>1, <1>2, TreeAssumption, PTL
-----------------------------------------------------------------------------
(***************************************************************************)
(* What a call that runs alone makes of the tree.                          *)
(***************************************************************************)

\* A write: what it found, and what it adds.
LEMMA WriteAlone ==
    ASSUME TInv, AInv, call.op \in {"copy", "blob"}, Running,
           NEW c, call' = c, c.op = call.op,
           NEW v, tree' = v, NEW cb, cache' = cb,
           begun.alone => LoneWrite(begun.tree, v, cb, c)
    PROVE  AInv'
<1>1. begun' = begun  BY DEF Running
<1> QED  BY <1>1 DEF AInv, Lone

\* A write's step that changes no entry.
LEMMA WriteLooks ==
    ASSUME TInv, AInv, call.op \in {"copy", "blob"}, Running,
           NEW c, call' = c, c.op = call.op, tree' = tree,
           c.pc \in {"walk", "not_file", "create_dir", "any_kind", "create", "probe", "publish",
                     "ok", "failed"},
           c.pc = "not_file" /\ begun.alone =>
             IF cache'[Parent(c.path)] # None THEN tree[cache'[Parent(c.path)]].kind # "folder"
             ELSE \A i \in Ids : (At(tree, i, Parent(c.path)) => tree[i].kind # "folder"),
           c.pc \in {"create_dir", "create"} /\ begun.alone =>
             \A i \in Ids : ~At(tree, i, Parent(c.path)),
           c.pc = "publish" /\ c.old = None /\ begun.alone =>
             \A i \in Ids : (tree[i].parent = c.at => tree[i].name # Last(c.path)),
           c.pc = "walk" => ~c.parent_is_new
    PROVE  AInv'
<1>1. begun.alone => LoneWrite(begun.tree, tree, cache, call)  BY DEF AInv, Lone
<1>2. PICK u, b, ca, cb, d : u = tree /\ b = begun.tree /\ ca = cache /\ cb = cache' /\ d = call
  OBVIOUS
<1>3. begun.alone => LoneWrite(b, u, cb, c)
  BY <1>1, <1>2 DEF LoneWrite
<1> QED  BY <1>2, <1>3, WriteAlone

\* One that adds an entry where none has its name.
LEMMA WriteAdds ==
    ASSUME TInv, AInv, TreeAssumption, call.op \in {"copy", "blob"}, Running,
           NEW c, call' = c, c.op = call.op,
           NEW i \in Fresh, NEW f \in Ids \cup {Root}, IsFolder(f), NEW n \in Names,
           NEW kind \in {"file", "folder"}, NEW v, v = Created(i, f, n, kind), tree' = v,
           begun.alone => \A j \in Ids : (tree[j].parent = f => tree[j].name # n),
           c.pc \in {"walk", "ok", "failed"},
           c.pc = "walk" /\ c.parent_is_new => \A j \in Ids : v[j].parent # c.at
    PROVE  AInv'
<1>1. begun.alone => LoneWrite(begun.tree, tree, cache, call)  BY DEF AInv, Lone
<1>2. PICK u, b, ca, cb, d : u = tree /\ b = begun.tree /\ ca = cache /\ cb = cache' /\ d = call
  OBVIOUS
<1>3. u \in Trees /\ Sound(u)  BY <1>2, Unchanging
<1>4. /\ \A j \in Ids : u[j].parent # None => v[j] = u[j]
      /\ begun.alone /\ Distinct(u, {}) => Distinct(v, {})
  BY <1>2, <1>3, CreatedKeeps
<1>5. begun.alone => LoneWrite(b, v, cb, c)
  <2>1. SUFFICES ASSUME begun.alone PROVE LoneWrite(b, v, cb, c)  OBVIOUS
  <2>2. Distinct(u, {}) /\ \A j \in Ids : b[j].parent # None => u[j] = b[j]
    BY <1>1, <1>2, <2>1 DEF LoneWrite
  <2>3. \A j \in Ids : b[j].parent # None => v[j] = b[j]
    <3>1. SUFFICES ASSUME NEW j \in Ids, b[j].parent # None PROVE v[j] = b[j]  OBVIOUS
    <3>2. u[j] = b[j]  BY <2>2, <3>1
    <3>3. u[j].parent # None  BY <3>1, <3>2
    <3>4. v[j] = u[j]  BY <1>4, <3>3
    <3> QED  BY <3>2, <3>4
  <2>4. Distinct(v, {})  BY <1>4, <2>1, <2>2
  <2> QED  BY <2>3, <2>4 DEF LoneWrite
<1> QED  BY <1>2, <1>5, WriteAlone

LEMMA ExistsAlone ==
    ASSUME TInv, CInv, AInv, TreeAssumption, DirectoryExists \/ FileExists
    PROVE  AInv'
<1>1. PICK d, c : d = call /\ c = call'  OBVIOUS
<1>2. /\ d \in Call /\ CallShape(d) /\ d.pc \in {"dir", "not_file"} /\ Running /\ tree' = tree
  BY <1>1, CallIs DEF DirectoryExists, FileExists, Exists
<1>3. d.op \in {"copy", "blob"} /\ d.depth = 0 /\ Len(d.path) = 2 /\ d.path \in Paths
      /\ ~d.parent_is_new
  <2>1. d.op \in {"copy", "blob"} /\ d.depth = 0 /\ Len(d.path) = 2
    BY <1>2 DEF CallShape, MovePlaces, RemovePlaces, RemoveFilePlaces, Call
  <2>2. Len(<<>>) # 2  OBVIOUS
  <2>3. ~d.parent_is_new
    <3>1. 0 # 1  OBVIOUS
    <3> QED  BY <1>2, <2>1, <3>1 DEF CallShape
  <2> QED  BY <1>2, <2>1, <2>2, <2>3 DEF Call
<1>4. PICK p : p = Parent(d.path)  OBVIOUS
<1>5. p \in Paths /\ Len(p) = 1  BY <1>3, <1>4, ParentIs
<1>6. PICK m : m = Found(p, Root, FALSE)  OBVIOUS
<1>7. \A place : Goto(place) =>
        c.pc = place /\ c.op = d.op /\ c.path = d.path /\ ~c.parent_is_new
  BY <1>1, <1>2, <1>3 DEF Goto, Call
<1>8. ASSUME cache[p] = None PROVE \A i \in Ids : At(tree, i, p) <=> i \in m
  <2>1. m = Listed(Root, Last(p))  BY <1>6, <1>8 DEF Found
  <2> QED  BY <1>5, <2>1, AtRoot DEF Listed, Named, Children
<1>9. ASSUME cache[p] # None PROVE m = {cache[p]}  BY <1>6, <1>9 DEF Found
<1>10. \A i \in m : i \in Ids /\ (IsFolder(i) <=> tree[i].kind = "folder")
  <2>1. \A i \in m : i \in Ids  BY <1>5, <1>6, FoundIds
  <2> QED  BY <2>1 DEF IsFolder, TreeAssumption
<1>11. CASE DirectoryExists
  <2>1. CASE \E i \in m : m = {i} /\ CachePut(p, i) /\ Goto(IF IsFolder(i) THEN "walk" ELSE "not_file")
    <3>1. PICK i \in m : CachePut(p, i) /\ Goto(IF IsFolder(i) THEN "walk" ELSE "not_file")
      BY <2>1
    <3>2. cache'[p] = i /\ i # None  BY <1>5, <1>10, <3>1, PutIs DEF TreeAssumption
    <3>3. CASE IsFolder(i)
      <4>1. c.pc = "walk"  BY <1>7, <3>1, <3>3
      <4> QED  BY <1>1, <1>2, <1>3, <1>7, <3>1, <3>3, <4>1, WriteLooks
    <3>4. CASE ~IsFolder(i)
      <4>1. c.pc = "not_file"  BY <1>7, <3>1, <3>4
      <4>2. tree[cache'[p]].kind # "folder"  BY <1>10, <3>1, <3>2, <3>4
      <4>3. Parent(c.path) = p /\ c.op = d.op  BY <1>4, <1>7, <3>1
      <4> QED  BY <1>1, <1>2, <1>3, <3>2, <4>1, <4>2, <4>3, WriteLooks
    <3> QED  BY <3>3, <3>4
  <2>2. CASE m = {} /\ Goto("not_file") /\ cache' = cache
    <3>1. cache[p] = None  BY <1>9, <2>2
    <3>2. \A i \in Ids : ~At(tree, i, p)  BY <1>8, <2>2, <3>1
    <3>3. c.pc = "not_file" /\ Parent(c.path) = p /\ c.op = d.op  BY <1>4, <1>7, <2>2
    <3> QED  BY <1>1, <1>2, <1>3, <2>2, <3>1, <3>2, <3>3, WriteLooks
  <2>3. CASE Goto("failed")
    <3>1. c.pc = "failed" /\ c.op = d.op  BY <1>7, <2>3
    <3> QED  BY <1>1, <1>2, <1>3, <3>1, WriteLooks
  <2> QED  BY <1>1, <1>4, <1>6, <1>11, <2>1, <2>2, <2>3, Zenon DEF DirectoryExists, Exists
<1>12. CASE FileExists
  <2>1. begun.alone => IF cache[p] # None THEN tree[cache[p]].kind # "folder"
                       ELSE \A i \in Ids : (At(tree, i, p) => tree[i].kind # "folder")
    <3>1. d.pc = "not_file"  BY <1>1, <1>12 DEF FileExists, Exists
    <3> QED  BY <1>1, <1>3, <1>4, <3>1 DEF AInv, Lone, LoneWrite
  <2>2. CASE \E i \in m : IsFolder(i) /\ Goto("create_dir")
    <3>1. PICK i \in m : IsFolder(i) /\ Goto("create_dir")  BY <2>2
    <3>2. i \in Ids /\ tree[i].kind = "folder"  BY <1>10, <3>1
    <3>3. ~begun.alone
      <4>1. cache[p] # None => i = cache[p]  BY <1>9, <3>1
      <4>2. cache[p] = None => At(tree, i, p)  BY <1>8, <3>1, <3>2
      <4> QED  BY <2>1, <3>2, <4>1, <4>2
    <3>4. c.pc = "create_dir" /\ c.op = d.op  BY <1>7, <3>1
    <3> QED  BY <1>1, <1>2, <1>3, <3>3, <3>4, WriteLooks
  <2>3. CASE m = {} /\ Goto("create_dir")
    <3>1. cache[p] = None  BY <1>9, <2>3
    <3>2. \A i \in Ids : ~At(tree, i, p)  BY <1>8, <2>3, <3>1
    <3>3. c.pc = "create_dir" /\ Parent(c.path) = p /\ c.op = d.op  BY <1>4, <1>7, <2>3
    <3> QED  BY <1>1, <1>2, <1>3, <3>2, <3>3, WriteLooks
  <2>4. CASE Goto("failed")
    <3>1. c.pc = "failed" /\ c.op = d.op  BY <1>7, <2>4
    <3> QED  BY <1>1, <1>2, <1>3, <3>1, WriteLooks
  <2>5. \/ \E i \in m : Goto(IF IsFolder(i) THEN "create_dir" ELSE "failed")
        \/ m = {} /\ Goto("create_dir")
        \/ Goto("failed")
    BY <1>1, <1>4, <1>6, <1>12, Zenon DEF FileExists, Exists
  <2> QED  BY <2>2, <2>3, <2>4, <2>5
<1> QED  BY <1>11, <1>12

LEMMA CreateDirectoryAlone ==
    ASSUME TInv, CInv, AInv, TreeAssumption, CreateDirectory
    PROVE  AInv'
<1>1. PICK d : d = call  OBVIOUS
<1>2. /\ d \in Call /\ CallShape(d) /\ d.pc = "create_dir" /\ Running
  BY <1>1, CallIs DEF CreateDirectory
<1>3. d.op \in {"copy", "blob"} /\ d.depth = 0 /\ Len(d.path) = 2 /\ d.path \in Paths
      /\ ~d.parent_is_new
  <2>1. d.op \in {"copy", "blob"} /\ d.depth = 0 /\ Len(d.path) = 2
    BY <1>2 DEF CallShape, MovePlaces, RemovePlaces, RemoveFilePlaces, Call
  <2>2. Len(<<>>) # 2  OBVIOUS
  <2>3. ~d.parent_is_new
    <3>1. 0 # 1  OBVIOUS
    <3> QED  BY <1>2, <2>1, <3>1 DEF CallShape
  <2> QED  BY <1>2, <2>1, <2>2, <2>3 DEF Call
<1>4. PICK p : p = Parent(d.path)  OBVIOUS
<1>5. p \in Paths /\ Len(p) = 1  BY <1>3, <1>4, ParentIs
<1>6. PICK n : n = Last(p)  OBVIOUS
<1>7. n \in Names  BY <1>5, <1>6, PathForms
<1>8. PICK effect \in BOOLEAN, ok \in BOOLEAN, i \in Fresh :
        /\ tree' = IF effect THEN Created(i, Root, n, "folder") ELSE tree
        /\ Goto(IF ok THEN "walk" ELSE "failed")
  BY <1>1, <1>4, <1>6 DEF CreateDirectory
<1>9. PICK c : c = call'  OBVIOUS
<1>10. c.pc \in {"walk", "failed"} /\ c.op = d.op /\ ~c.parent_is_new
  BY <1>1, <1>2, <1>3, <1>8, <1>9 DEF Goto, Call
<1>11. CASE effect
  <2>1. PICK v : v = Created(i, Root, n, "folder")  OBVIOUS
  <2>2. tree' = v /\ IsFolder(Root)  BY <1>8, <1>11, <2>1 DEF IsFolder
  <2>3. begun.alone => \A j \in Ids : (tree[j].parent = Root => tree[j].name # n)
    <3>1. begun.alone => \A j \in Ids : ~At(tree, j, p)
      BY <1>1, <1>2, <1>3, <1>4 DEF AInv, Lone, LoneWrite
    <3> QED  BY <1>5, <1>6, <3>1, AtRoot
  <2> QED  BY <1>1, <1>2, <1>3, <1>7, <1>9, <1>10, <2>1, <2>2, <2>3, WriteAdds
<1>12. CASE ~effect
  <2>1. tree' = tree  BY <1>8, <1>12
  <2> QED  BY <1>1, <1>2, <1>3, <1>9, <1>10, <2>1, WriteLooks
<1> QED  BY <1>11, <1>12

LEMMA OpenWalkAlone ==
    ASSUME TInv, CInv, AInv, TreeAssumption, OpenWalk
    PROVE  AInv'
<1>1. call.pc = "walk" /\ Running /\ tree' = tree  BY DEF OpenWalk
<1>2. PICK c, d : c = call' /\ d = call  OBVIOUS
<1>3. d \in Call /\ CallShape(d) /\ d.op \in {"copy", "blob"} /\ d.depth \in 0..2
  BY <1>1, <1>2, CallIs, OpenIs
<1>4. \A pc : Goto(pc) => /\ c.pc = pc /\ c.op = d.op /\ c.path = d.path /\ c.at = d.at
                          /\ c.parent_is_new = d.parent_is_new
  BY <1>2, <1>3 DEF Goto, Call
<1>5. CASE call.depth + 1 = Len(call.path)
  <2>1. Goto(IF d.parent_is_new THEN "publish" ELSE "probe")
    BY <1>2, <1>5 DEF OpenWalk
  <2>2. CASE d.parent_is_new
    <3>1. c.pc = "publish" /\ c.op = d.op /\ c.at = d.at  BY <1>4, <2>1, <2>2
    <3>2. begun.alone => \A i \in Ids : tree[i].parent # d.at
      BY <1>1, <1>2, <1>3, <2>2 DEF AInv, Lone, LoneWrite
    <3> QED  BY <1>1, <1>2, <1>3, <3>1, <3>2, WriteLooks
  <2>3. CASE ~d.parent_is_new
    <3>1. c.pc = "probe" /\ c.op = d.op  BY <1>4, <2>1, <2>3
    <3> QED  BY <1>1, <1>2, <1>3, <3>1, WriteLooks
  <2> QED  BY <2>2, <2>3
<1>6. CASE call.depth + 1 # Len(call.path)
  <2>1. call.depth = 0  BY <1>1, <1>6, WalkedIs
  <2>2. ~d.parent_is_new
    <3>1. 0 # 1  OBVIOUS
    <3> QED  BY <1>2, <1>3, <2>1, <3>1 DEF CallShape
  <2>3. CASE \E i \in FoldersToAdopt : Enter(i, FALSE)
    <3>1. c.pc = "walk" /\ c.op = d.op /\ ~c.parent_is_new
      BY <1>2, <1>3, <2>2, <2>3 DEF Enter, Call
    <3> QED  BY <1>1, <1>2, <1>3, <3>1, WriteLooks
  <2>4. CASE UNCHANGED call
    BY <1>1, <1>2, <1>3, <2>2, <2>4, WriteLooks
  <2>5. CASE Goto("any_kind") \/ Goto("failed")
    <3>1. c.pc \in {"any_kind", "failed"} /\ c.op = d.op  BY <1>4, <2>5
    <3> QED  BY <1>1, <1>2, <1>3, <3>1, WriteLooks
  <2> QED  BY <1>6, <2>3, <2>4, <2>5 DEF OpenWalk
<1> QED  BY <1>5, <1>6

LEMMA ListAnyKindAlone ==
    ASSUME TInv, CInv, AInv, TreeAssumption, ListAnyKind
    PROVE  AInv'
<1>1. call.pc = "any_kind" /\ Running /\ tree' = tree  BY DEF ListAnyKind
<1>2. PICK c, d : c = call' /\ d = call  OBVIOUS
<1>3. d \in Call /\ CallShape(d) /\ d.op \in {"copy", "blob"} /\ d.depth = 0 /\ Len(d.path) = 2
      /\ d.path \in Paths
  BY <1>1, <1>2, CallIs, OpenIs DEF CallShape
<1>4. ~d.parent_is_new
  <2>1. 0 # 1  OBVIOUS
  <2> QED  BY <1>3, <2>1 DEF CallShape
<1>5. call.depth + 1 # Len(call.path)  BY <1>2, <1>3
<1>6. Walked = Parent(d.path) /\ call.at = Root /\ Len(Walked) = 1 /\ Walked \in Paths
  BY <1>1, <1>2, <1>5, WalkedIs
<1>7. CASE AnyKind = {} /\ Goto("create")
  <2>1. c.pc = "create" /\ c.op = d.op /\ c.path = d.path
    BY <1>2, <1>3, <1>7 DEF Goto, Call
  <2>2. \A i \in Ids : ~At(tree, i, Walked)
    BY <1>6, <1>7, AtRoot DEF AnyKind, Listed, Named, Children
  <2> QED  BY <1>1, <1>2, <1>3, <1>6, <2>1, <2>2, WriteLooks
<1>8. CASE \E i \in AnyKind : Enter(i, FALSE)
  <2>1. c.pc = "walk" /\ c.op = d.op /\ ~c.parent_is_new
    BY <1>2, <1>3, <1>4, <1>8 DEF Enter, Call
  <2> QED  BY <1>1, <1>2, <1>3, <2>1, WriteLooks
<1>9. CASE Throw
  <2>1. c.pc = "failed" /\ c.op = d.op  BY <1>2, <1>3, <1>9 DEF Throw, Goto, Call
  <2> QED  BY <1>1, <1>2, <1>3, <2>1, WriteLooks
<1> QED  BY <1>7, <1>8, <1>9 DEF ListAnyKind

LEMMA CreateFolderAlone ==
    ASSUME TInv, CInv, AInv, TreeAssumption, CreateFolder
    PROVE  AInv'
<1>1. call.pc = "create" /\ Running  BY DEF CreateFolder
<1>2. PICK c, d : c = call' /\ d = call  OBVIOUS
<1>3. d \in Call /\ CallShape(d) /\ d.op \in {"copy", "blob"} /\ d.depth = 0 /\ Len(d.path) = 2
      /\ d.path \in Paths
  BY <1>1, <1>2, CallIs, OpenIs DEF CallShape
<1>4. call.depth + 1 # Len(call.path)  BY <1>2, <1>3
<1>5. /\ Walked = Parent(d.path) /\ call.at = Root /\ Len(Walked) = 1 /\ Walked \in Paths
      /\ Last(Walked) \in Names
  BY <1>1, <1>2, <1>4, WalkedIs
<1>6. CASE RequestFails
  <2>1. c.pc = "failed" /\ c.op = d.op /\ tree' = tree
    BY <1>2, <1>3, <1>6 DEF RequestFails, Throw, Goto, Call
  <2> QED  BY <1>1, <1>2, <1>3, <2>1, WriteLooks
<1>7. ASSUME NEW i \in Fresh, tree' = Created(i, call.at, Last(Walked), "folder"),
             Enter(i, TRUE) \/ Goto("failed")
      PROVE  AInv'
  <2>1. PICK v, n : v = tree' /\ n = Last(Walked)  OBVIOUS
  <2>2. v = Created(i, Root, n, "folder") /\ IsFolder(Root) /\ n \in Names
    BY <1>5, <1>7, <2>1 DEF IsFolder
  <2>3. begun.alone => \A j \in Ids : (tree[j].parent = Root => tree[j].name # n)
    <3>1. begun.alone => \A j \in Ids : ~At(tree, j, Walked)
      BY <1>1, <1>2, <1>3, <1>5 DEF AInv, Lone, LoneWrite
    <3> QED  BY <1>5, <2>1, <3>1, AtRoot
  <2>4. /\ c.op = d.op /\ c.pc \in {"walk", "failed"}
        /\ c.pc = "walk" => c.at = i
    BY <1>2, <1>3, <1>7 DEF Enter, Goto, Call
  <2>5. \A j \in Ids : v[j].parent # i
    <3>1. tree \in Trees /\ Sound(tree) /\ Live(Root)  BY Unchanging DEF Live, LiveIn
    <3>2. /\ i \in Ids /\ v[i].parent = Root /\ \A j \in Ids \ {i} : v[j] = tree[j]
          /\ \A j \in Ids : tree[j].parent # i
      BY <2>2, <3>1, CreatedIs
    <3> QED  BY <3>2 DEF TreeAssumption
  <2> QED  BY <1>1, <1>2, <1>3, <2>1, <2>2, <2>3, <2>4, <2>5, WriteAdds
<1> QED  BY <1>6, <1>7 DEF CreateFolder

LEMMA ProbeExistingAlone ==
    ASSUME TInv, CInv, AInv, TreeAssumption, ProbeExisting
    PROVE  AInv'
<1>1. call.pc = "probe" /\ Running /\ tree' = tree  BY DEF ProbeExisting
<1>2. PICK c, d : c = call' /\ d = call  OBVIOUS
<1>3. d \in Call /\ d.op \in {"copy", "blob"}
  BY <1>1, <1>2, CallIs, OpenIs
<1>4. CASE Throw
  <2>1. c.pc = "failed" /\ c.op = d.op  BY <1>2, <1>3, <1>4 DEF Throw, Goto, Call
  <2> QED  BY <1>1, <1>2, <1>3, <2>1, WriteLooks
<1>5. CASE call' = [call EXCEPT !.pc = "publish",
                        !.old = IF Probe = {} THEN None ELSE CHOOSE i \in Probe : TRUE]
  <2>1. /\ c.pc = "publish" /\ c.op = d.op /\ c.at = d.at /\ c.path = d.path
        /\ c.old = IF Probe = {} THEN None ELSE CHOOSE i \in Probe : TRUE
    BY <1>2, <1>3, <1>5 DEF Call
  <2>2. c.old = None => \A i \in Ids : tree[i].parent = c.at => tree[i].name # Last(c.path)
    <3>1. Probe = {i \in Ids : tree[i].parent = d.at /\ tree[i].name = Last(d.path)}
      BY <1>2 DEF Probe, Listed, Named, Children
    <3>2. c.old = None => Probe = {}  BY <2>1, <3>1 DEF TreeAssumption
    <3> QED  BY <2>1, <3>1, <3>2
  <2> QED  BY <1>1, <1>2, <1>3, <2>1, <2>2, WriteLooks
<1> QED  BY <1>4, <1>5 DEF ProbeExisting

LEMMA PublishOnCloseAlone ==
    ASSUME TInv, CInv, AInv, TreeAssumption, PublishOnClose
    PROVE  AInv'
<1>1. call.pc = "publish" /\ Running  BY DEF PublishOnClose
<1>2. PICK c, d : c = call' /\ d = call  OBVIOUS
<1>3. /\ d \in Call /\ d.op \in {"copy", "blob"} /\ d.path \in Paths
      /\ d.at \in Ids \cup {Root}
  BY <1>1, <1>2, CallIs, OpenIs
<1>4. c.pc \in {"ok", "failed"} /\ c.op = d.op
  BY <1>2, <1>3 DEF PublishOnClose, Goto, Call
<1>5. CASE tree' = tree  BY <1>1, <1>2, <1>3, <1>4, <1>5, WriteLooks
<1>6. CASE /\ call.old = None /\ IsFolder(call.at)
           /\ \E i \in Fresh : tree' = Created(i, call.at, Last(call.path), "file")
  <2>1. PICK i \in Fresh : tree' = Created(i, call.at, Last(call.path), "file")  BY <1>6
  <2>2. PICK v, f, n : v = tree' /\ f = d.at /\ n = Last(d.path)  OBVIOUS
  <2>3. f \in Ids \cup {Root} /\ IsFolder(f) /\ n \in Names /\ v = Created(i, f, n, "file")
    BY <1>2, <1>3, <1>6, <2>1, <2>2, PathForms
  <2>4. begun.alone => \A j \in Ids : (tree[j].parent = f => tree[j].name # n)
    BY <1>1, <1>2, <1>3, <1>6, <2>2 DEF AInv, Lone, LoneWrite
  <2> QED  BY <1>1, <1>2, <1>3, <1>4, <2>2, <2>3, <2>4, WriteAdds
<1> QED  BY <1>5, <1>6 DEF PublishOnClose

\* A step of a move or a removal that changes no entry.
LEMMA LoneLook ==
    ASSUME TInv, AInv, call.op \in {"move", "remove", "remove_file", "rmdir"}, Running,
           call.pc \in Working, tree' = tree, NEW c, call' = c, c.op = call.op,
           c.pc \in (Working \ {"move"}) \cup {"failed"},
           c.pc = "delete" /\ c.op = "remove_file" /\ begun.alone => tree[c.id].kind = "file"
    PROVE  AInv'
<1>1. begun.alone => Lone(begun.tree, tree, cache, call)  BY DEF AInv
<1>2. PICK u, b, ca, cb, d : u = tree /\ b = begun.tree /\ ca = cache /\ cb = cache' /\ d = call
  OBVIOUS
<1>3. begun.alone => u = b /\ Distinct(u, {})
  BY <1>1, <1>2 DEF Lone, LoneMove, LoneRemoval
<1>4. c.pc \notin {"replace", "forget", "ok", "no", "move"}  BY DEF Working
<1>5. begun.alone => Lone(b, u, cb, c)
  BY <1>2, <1>3, <1>4 DEF Lone, LoneMove, LoneRemoval
<1> QED  BY <1>2, <1>5 DEF AInv, Running

\* remove_file finds nothing.
LEMMA FoundNothing ==
    ASSUME TInv, AInv, call.op = "remove_file", Running, call.pc \in Working, tree' = tree,
           NEW c, call' = c, c.op = call.op, c.pc = "no",
           begun.alone => IF c.path = <<>> THEN c.id \in Ids /\ tree[c.id].parent = None
                          ELSE \A i \in Ids : ~At(tree, i, c.path)
    PROVE  AInv'
<1>1. begun.alone => Lone(begun.tree, tree, cache, call)  BY DEF AInv
<1>2. PICK u, b, ca, cb, d : u = tree /\ b = begun.tree /\ ca = cache /\ cb = cache' /\ d = call
  OBVIOUS
<1>3. begun.alone => u = b /\ Distinct(u, {})
  BY <1>1, <1>2 DEF Lone, LoneRemoval
<1>4. begun.alone => Lone(b, u, cb, c)
  BY <1>2, <1>3 DEF Lone, LoneRemoval
<1> QED  BY <1>2, <1>4 DEF AInv, Running

\* The calls that resolve.
LEMMA ResolvingIs ==
    ASSUME TInv, AInv, TreeAssumption, Resolving \/ call.pc \in {"collide", "move", "replace"}
    PROVE  /\ call \in Call /\ call.op \in {"move", "remove", "remove_file", "rmdir"}
           /\ call.pc \in Working \cup {"replace"}
           /\ Asking => call.op = "remove_file"
           /\ begun.alone /\ call.pc \in Working => Distinct(tree, {})
<1>1. PICK d : d = call  OBVIOUS
<1>2. d \in Call /\ CallShape(d) /\ d.op \in {"move", "remove", "remove_file", "rmdir"}
  BY <1>1, CallIs, GoalIs
<1>3. d.pc \in Working \cup {"replace"}  BY <1>1 DEF Resolving, Asking, Working
<1>4. Asking => d.op = "remove_file"
  BY <1>1, <1>2 DEF Asking, CallShape, MovePlaces, RemovePlaces
<1>5. begun.alone /\ d.pc \in Working => Distinct(tree, {})
  BY <1>1, <1>2 DEF AInv, Lone, LoneMove, LoneRemoval
<1> QED  BY <1>1, <1>2, <1>3, <1>4, <1>5

LEMMA ResolveSegmentAlone ==
    ASSUME TInv, CInv, AInv, TreeAssumption, ResolveSegment
    PROVE  AInv'
<1>1. PICK c, d : c = call' /\ d = call  OBVIOUS
<1>2. Resolving /\ call.depth < Len(Goal) /\ Running /\ tree' = tree  BY DEF ResolveSegment
<1>3. /\ d \in Call /\ d.op \in {"move", "remove", "remove_file", "rmdir"}
      /\ d.pc \in {"is_file", "is_dir", "confirm", "source", "source_parent", "target_parent"}
      /\ Asking => d.op = "remove_file"
  BY <1>1, <1>2, ResolvingIs DEF Resolving, Asking
<1>4. PICK p, g, x : p = SubSeq(Goal, 1, call.depth + 1) /\ g = Goal /\ x = call.depth  OBVIOUS
<1>5. /\ p \in Paths /\ g \in Paths /\ Len(p) = x + 1 /\ x + 1 \in 1..2 /\ x + 1 <= Len(g)
      /\ x \in 0..2 /\ g = GoalOf(d) /\ (x = 0 => d.at = Root) /\ (x # 0 => d.at \in Ids)
  BY <1>1, <1>2, <1>4, NextSegment, GoalIs
<1>6. d.pc \in Working /\ "failed" \notin Working /\ "no" \notin Working
      /\ {"is_file", "is_dir", "confirm", "source", "source_parent", "target_parent"}
           \subseteq Working \ {"move"}
  BY <1>3 DEF Working
<1>7. CASE \E i \in Found(p, call.at, Len(p) < Len(Goal)) :
             call' = [call EXCEPT !.at = i, !.depth = @ + 1]
  <2>1. c.pc = d.pc /\ c.op = d.op  BY <1>1, <1>3, <1>7 DEF Call
  <2> QED  BY <1>1, <1>2, <1>3, <1>6, <2>1, LoneLook
<1>8. CASE Goto("failed")
  <2>1. c.pc = "failed" /\ c.op = d.op  BY <1>1, <1>3, <1>8 DEF Goto, Call
  <2> QED  BY <1>1, <1>2, <1>3, <1>6, <2>1, LoneLook
<1>9. CASE Found(p, call.at, Len(p) < Len(Goal)) = {} /\ Asking /\ ToFolder(IfAbsent, Root)
  <2>1. PICK pc : pc = IfAbsent  OBVIOUS
  <2>2. /\ pc \in {"is_dir", "confirm", "no"} /\ c.pc = pc /\ c.op = d.op /\ c.path = d.path
        /\ pc = "no" => d.pc = "confirm"
    BY <1>1, <1>3, <1>9, <2>1 DEF IfAbsent, Asking, ToFolder, Call
  <2>3. CASE pc # "no"
    BY <1>1, <1>2, <1>3, <1>6, <2>2, <2>3, LoneLook
  <2>4. CASE pc = "no"
    <3>1. g = d.path  BY <1>5, <2>2, <2>4 DEF GoalOf
    <3>2. ASSUME begun.alone, NEW i \in Ids, At(tree, i, g) PROVE FALSE
      <4>1. Distinct(tree, {})  BY <1>1, <1>2, <1>6, <3>2, ResolvingIs
      <4>2. x # 0 => At(tree, d.at, SubSeq(g, 1, x))
        BY <1>1, <1>4, <1>5, <1>6, <3>2, Relied
      <4>3. cache[p] = None  BY <1>9 DEF Found
      <4>4. ~ \E j \in Ids : /\ tree[j].parent = d.at /\ tree[j].name = Last(p)
                             /\ Len(p) < Len(g) => IsFolder(j)
        BY <1>1, <1>4, <1>9, <4>3 DEF Found, Listed, Named, Children
      <4>5. PICK y : y = Len(g)  OBVIOUS
      <4>6. y \in {1, 2} /\ x + 1 <= y  BY <1>5, <4>5, PathForms
      <4>7. CASE y = 1
        <5>1. x = 0 /\ x + 1 = 1  BY <1>5, <4>6, <4>7
        <5>2. p = g
          <6>1. SubSeq(g, 1, Len(g)) = g  BY <1>5, PathForms
          <6> QED  BY <1>4, <4>5, <4>7, <5>1, <6>1
        <5>3. tree[i].parent = Root /\ tree[i].name = Last(g)
          BY <1>5, <3>2, <4>5, <4>7, AtRoot
        <5>4. ~(Len(p) < Len(g))
          <6>1. Len(p) = Len(g)  BY <5>2, Zenon
          <6>2. PICK z : z = Len(p)  OBVIOUS
          <6>3. z = y  BY <4>5, <6>1, <6>2, Zenon
          <6>4. ~(z < y)  BY <4>7, <6>3
          <6> QED  BY <4>5, <6>2, <6>4
        <5> QED  BY <1>5, <4>4, <5>1, <5>2, <5>3, <5>4
      <4>8. CASE y = 2
        <5>1. PICK k, q : k = tree[i].parent /\ q = Parent(g)  OBVIOUS
        <5>2. /\ k \in Ids /\ tree[i].name = Last(g) /\ At(tree, k, q) /\ q \in Paths
              /\ Len(q) = 1
          BY <1>5, <3>2, <4>5, <4>8, <5>1, AtFolder
        <5>3. tree[k].parent = Root /\ tree[k].name = Last(q)  BY <5>2, AtRoot
        <5>4. SubSeq(g, 1, 1) = q /\ SubSeq(g, 1, 2) = g
          <6>1. SubSeq(g, 1, 1) = <<g[1]>> /\ Parent(g) = <<g[1]>> /\ SubSeq(g, 1, Len(g)) = g
            BY <1>5, <4>5, <4>8, PathForms
          <6> QED  BY <4>5, <4>8, <5>1, <6>1
        <5>5. CASE x = 0
          <6>1. x + 1 = 1  BY <5>5
          <6>2. p = q  BY <1>4, <5>4, <6>1
          <6>3. IsFolder(k)
            <7>1. Sound(tree)  BY Unchanging
            <7> QED  BY <3>2, <5>1, <5>2, <7>1 DEF Sound, IsFolder
          <6> QED  BY <1>5, <4>4, <5>2, <5>3, <5>5, <6>2, <6>3
        <5>6. CASE x = 1
          <6>1. x + 1 = 2  BY <5>6
          <6>2. p = g  BY <1>4, <5>4, <6>1
          <6>3. ~(Len(p) < Len(g))
            <7>1. Len(p) = Len(g)  BY <6>2, Zenon
            <7>2. PICK z : z = Len(p)  OBVIOUS
            <7>3. z = y  BY <4>5, <7>1, <7>2, Zenon
            <7>4. ~(z < y)  BY <4>8, <7>3
            <7> QED  BY <4>5, <7>2, <7>4
          <6>4. d.at \in Ids /\ At(tree, d.at, q)
            <7>1. x # 0  BY <5>6
            <7> QED  BY <1>5, <4>2, <5>4, <5>6, <7>1
          <6>5. tree[d.at].parent = Root /\ tree[d.at].name = Last(q)
            BY <5>2, <6>4, AtRoot
          <6>6. k = d.at  BY <4>1, <5>2, <5>3, <6>4, <6>5 DEF Distinct, TreeAssumption
          <6> QED  BY <4>4, <5>1, <5>2, <6>2, <6>3, <6>6
        <5>7. x \in {0, 1}  BY <1>5, <4>6, <4>8
        <5> QED  BY <5>5, <5>6, <5>7
      <4> QED  BY <4>6, <4>7, <4>8
    <3>3. c.path # <<>>  BY <1>5, <2>2, <3>1, PathForms
    <3> QED  BY <1>1, <1>2, <1>3, <1>6, <1>9, <2>2, <2>4, <3>1, <3>2, <3>3, FoundNothing
  <2> QED  BY <2>3, <2>4
<1> QED  BY <1>4, <1>7, <1>8, <1>9 DEF ResolveSegment

LEMMA AnsweredAlone ==
    ASSUME TInv, CInv, AInv, TreeAssumption, Answered
    PROVE  AInv'
<1>1. Asking /\ Running /\ tree' = tree  BY DEF Answered
<1>2. PICK c, d : c = call' /\ d = call  OBVIOUS
<1>3. d \in Call /\ d.op = "remove_file" /\ d.pc \in {"is_file", "is_dir", "confirm"}
  BY <1>1, <1>2, ResolvingIs DEF Resolving, Asking
<1>4. d.pc \in Working /\ {"is_dir", "confirm", "source"} \subseteq Working \ {"move"}
  BY <1>3 DEF Working
<1>5. ASSUME NEW pc, ToFolder(pc, Root) \/ Goto(pc)
      PROVE  c.pc = pc /\ c.op = d.op /\ c.path = d.path /\ c.id = d.id
  BY <1>2, <1>3, <1>5 DEF ToFolder, Goto, Call
<1>6. CASE ToFolder(IfPresent(SourceId), Root)
  <2>1. PICK pc : pc = IfPresent(SourceId)  OBVIOUS
  <2>2. pc \in {"is_dir", "confirm", "source", "failed"}
    BY <1>2, <1>3, <2>1 DEF IfPresent
  <2>3. c.pc = pc /\ c.op = d.op  BY <1>5, <1>6, <2>1
  <2> QED  BY <1>1, <1>2, <1>3, <1>4, <2>2, <2>3, LoneLook
<1>7. CASE /\ call.path = <<>> /\ (call.id # None => ~Live(call.id))
           /\ ToFolder(IF call.id = None /\ call.pc = "confirm" THEN "failed" ELSE IfAbsent, Root)
  <2>1. PICK pc : pc = IF call.id = None /\ call.pc = "confirm" THEN "failed" ELSE IfAbsent
    OBVIOUS
  <2>2. pc \in {"is_dir", "confirm", "failed"} \/ (pc = "no" /\ d.id # None)
    BY <1>2, <1>3, <2>1 DEF IfAbsent
  <2>3. c.pc = pc /\ c.op = d.op /\ c.path = <<>> /\ c.id = d.id  BY <1>2, <1>5, <1>7, <2>1
  <2>4. CASE pc \in {"is_dir", "confirm", "failed"}
    BY <1>1, <1>2, <1>3, <1>4, <2>3, <2>4, LoneLook
  <2>5. CASE pc = "no" /\ d.id # None
    <3>1. d.id \in Ids /\ tree[d.id].parent = None
      BY <1>2, <1>3, <1>7, <2>5 DEF Live, LiveIn, Call
    <3> QED  BY <1>1, <1>2, <1>3, <1>4, <2>3, <2>5, <3>1, FoundNothing
  <2> QED  BY <2>2, <2>4, <2>5
<1>8. CASE Goto("failed")
  <2>1. c.pc = "failed" /\ c.op = d.op  BY <1>5, <1>8
  <2> QED  BY <1>1, <1>2, <1>3, <1>4, <2>1, LoneLook
<1> QED  BY <1>6, <1>7, <1>8 DEF Answered

LEMMA ResolvedSourceAlone ==
    ASSUME TInv, CInv, AInv, TreeAssumption, ResolvedSource
    PROVE  AInv'
<1>1. call.pc = "source" /\ call.depth = Len(call.path) /\ Running /\ tree' = tree
  BY DEF ResolvedSource
<1>2. PICK c, d : c = call' /\ d = call  OBVIOUS
<1>3. d \in Call /\ d.op \in {"move", "remove", "remove_file", "rmdir"}
  BY <1>1, <1>2, ResolvingIs DEF Resolving
<1>4. d.pc \in Working /\ {"delete", "target_parent", "source_parent"} \subseteq Working \ {"move"}
  BY <1>1, <1>2 DEF Working
<1>5. CASE Goto("failed")
  <2>1. c.pc = "failed" /\ c.op = d.op  BY <1>2, <1>3, <1>5 DEF Goto, Call
  <2> QED  BY <1>1, <1>2, <1>3, <1>4, <2>1, LoneLook
<1>6. CASE KindFits(SourceId) /\
        call' = [call EXCEPT !.id = SourceId, !.at = Root, !.depth = 0,
                !.pc = IF call.op # "move" THEN "delete"
                       ELSE IF call.path = <<>> THEN "target_parent" ELSE "source_parent"]
  <2>1. /\ c.pc \in {"delete", "target_parent", "source_parent"}
        /\ c.id = SourceId /\ c.op = d.op
    BY <1>2, <1>3, <1>6 DEF Call
  <2>2. c.op = "remove_file" => tree[c.id].kind = "file"
    <3>1. SUFFICES ASSUME c.op = "remove_file" PROVE tree[c.id].kind = "file"  OBVIOUS
    <3>2. PICK i, t : i = SourceId /\ t = tree  OBVIOUS
    <3>3. i \in Ids /\ Born(t, i) /\ t \in Trees  BY <1>1, <3>2, SourceIs, Unchanging
    <3>4. ~IsFolder(i)  BY <1>2, <1>6, <2>1, <3>1, <3>2 DEF KindFits
    <3>5. t[i].kind # "folder"  BY <3>2, <3>3, <3>4 DEF IsFolder
    <3>6. t[i].kind \in {"unborn", "file", "folder"}  BY <3>3 DEF Trees, Node
    <3> QED  BY <2>1, <3>2, <3>3, <3>5, <3>6 DEF Born
  <2> QED  BY <1>1, <1>2, <1>3, <1>4, <2>1, <2>2, LoneLook
<1> QED  BY <1>5, <1>6 DEF ResolvedSource

LEMMA ResolvedParentAlone ==
    ASSUME TInv, CInv, AInv, TreeAssumption, ResolvedParent
    PROVE  AInv'
<1>1. call.pc \in {"source_parent", "target_parent"} /\ Running /\ tree' = tree
  BY DEF ResolvedParent
<1>2. PICK c, d : c = call' /\ d = call  OBVIOUS
<1>3. d \in Call /\ d.op \in {"move", "remove", "remove_file", "rmdir"}
  BY <1>1, <1>2, ResolvingIs DEF Resolving
<1>4. d.pc \in Working /\ {"target_parent", "collide"} \subseteq Working \ {"move"}
  BY <1>1, <1>2 DEF Working
<1>5. c.op = d.op /\ c.pc \in {"target_parent", "collide", "failed"}
  BY <1>2, <1>3 DEF ResolvedParent, ToFolder, Goto, Call
<1> QED  BY <1>1, <1>2, <1>3, <1>4, <1>5, LoneLook

\* What a lone move may replace has no namesake but the source.
LEMMA ReconcileAlone ==
    ASSUME TInv, CInv, AInv, TreeAssumption, ReconcileDestination
    PROVE  AInv'
<1>1. call.pc = "collide" /\ Running /\ tree' = tree
  BY DEF ReconcileDestination
<1>2. PICK c, d, u, b, cb : c = call' /\ d = call /\ u = tree /\ b = begun.tree /\ cb = cache'
  OBVIOUS
<1>3. /\ d \in Call /\ d.op = "move" /\ d.pc \in Working
      /\ d.at \in Ids \cup {Root}
      /\ begun.alone => Distinct(u, {})
  BY <1>1, <1>2, ResolvingIs, MoveIs, GoalIs DEF Working
<1>4. CASE Goto("failed")
  <2>1. c.pc = "failed" /\ c.op = d.op  BY <1>2, <1>3, <1>4 DEF Goto, Call
  <2> QED  BY <1>1, <1>2, <1>3, <2>1, LoneLook
<1>5. CASE call' = [call EXCEPT !.pc = "move",
                !.old = IF AtDestination = {} THEN None
                        ELSE CHOOSE i \in AtDestination : TRUE]
  <2>1. PICK S : S = AtDestination  OBVIOUS
  <2>2. /\ c.pc = "move" /\ c.op = "move" /\ c.id = d.id /\ c.at = d.at /\ c.to = d.to
        /\ c.old = IF S = {} THEN None ELSE CHOOSE i \in S : TRUE
    BY <1>2, <1>3, <1>5, <2>1 DEF Call
  <2>3. S = {i \in Ids \ {d.id} : u[i].parent = d.at /\ u[i].name = Last(d.to)}
    BY <1>2, <2>1 DEF AtDestination, Listed, Named, Children
  <2>4. ASSUME begun.alone PROVE LoneMove(b, u, c)
    <3>1. u = b /\ Distinct(u, {})
      BY <1>2, <1>3, <2>4 DEF AInv, Lone, LoneMove
    <3>2. c.old # None => At(b, c.old, c.to)
      <4>1. SUFFICES ASSUME c.old # None PROVE At(b, c.old, c.to)  OBVIOUS
      <4>2. c.old \in S  BY <2>2, <4>1
      <4>3. c.old \in Ids /\ u[c.old].parent = d.at /\ u[c.old].name = Last(d.to)
        BY <2>3, <4>2
      <4>4. At(u, c.old, d.to)  BY <1>1, <1>2, <2>4, <4>3, TargetIs
      <4> QED  BY <2>2, <3>1, <4>4
    <3>3. ASSUME NEW i \in Ids \ {c.id, c.old}, u[i].parent = c.at, u[i].name = Last(c.to)
          PROVE  FALSE
      <4>1. i \in S  BY <2>2, <2>3, <3>3
      <4>2. c.old \in S  BY <2>2, <4>1
      <4>3. c.old \in Ids /\ u[c.old].parent = c.at /\ u[c.old].name = Last(c.to)
        BY <2>2, <2>3, <4>2
      <4>4. u[i].parent # None  BY <1>3, <2>2, <3>3 DEF TreeAssumption
      <4>5. i = c.old  BY <3>1, <3>3, <4>3, <4>4 DEF Distinct
      <4> QED  BY <3>3, <4>5
    <3>4. c.pc \notin {"replace", "forget", "ok", "failed"}  BY <2>2
    <3> QED  BY <2>2, <3>1, <3>2, <3>3, <3>4 DEF LoneMove
  <2>5. begun.alone => Lone(b, u, cb, c)  BY <2>2, <2>4 DEF Lone
  <2> QED  BY <1>1, <1>2, <2>5 DEF AInv, Running
<1> QED  BY <1>4, <1>5 DEF ReconcileDestination

LEMMA MoveEntryAlone ==
    ASSUME TInv, CInv, AInv, TreeAssumption, MoveEntry
    PROVE  AInv'
<1>1. call.pc = "move" /\ Running /\ tree \in Trees /\ Sound(tree)
  BY Unchanging DEF MoveEntry
<1>2. PICK d, f, n, i, c, u, b, v, cb :
        /\ d = call /\ f = call.at /\ n = Last(call.to) /\ i = call.id /\ c = call'
        /\ u = tree /\ b = begun.tree /\ v = tree' /\ cb = cache'
  OBVIOUS
<1>3. /\ d \in Call /\ d.op = "move" /\ d.pc \in Working /\ d.to \in Paths
      /\ i \in Ids /\ Born(u, i) /\ f \in Ids \cup {Root} /\ n \in Names
      /\ d.old \in Ids \cup {None}
  BY <1>1, <1>2, CallIs, MoveIs, GoalIs DEF Working
<1>4. CASE Throw /\ UNCHANGED tree
  <2>1. c.pc = "failed" /\ c.op = d.op  BY <1>2, <1>3, <1>4 DEF Throw, Goto, Call
  <2> QED  BY <1>1, <1>2, <1>3, <1>4, <2>1, LoneLook
<1>5. CASE /\ CanMove(call.id, call.at) /\ tree' = Moved(call.id, call.at, Last(call.to))
           /\ ThrowLate \/ Goto(IF call.old = None THEN "forget" ELSE "replace")
  <2>1. /\ c.pc = "failed" \/ c.pc = IF d.old = None THEN "forget" ELSE "replace"
        /\ c.op = "move" /\ c.id = i /\ c.at = f /\ c.to = d.to /\ c.old = d.old
    BY <1>2, <1>3, <1>5 DEF ThrowLate, Goto, Call
  <2>2. v = Moved(i, f, n) /\ CanMove(i, f)  BY <1>2, <1>5
  <2>3. f # i
    <3>1. i \in Subtree(tree, i)  BY <1>3 DEF Subtree
    <3> QED  BY <2>2, <3>1 DEF CanMove
  <2>4. ASSUME begun.alone PROVE LoneMove(b, v, c)
    <3>1. /\ u = b /\ Distinct(u, {})
          /\ d.old # None => At(b, d.old, d.to)
          /\ \A j \in Ids \ {i, d.old} : u[j].parent = f => u[j].name # n
      BY <1>1, <1>2, <1>3, <2>4 DEF AInv, Lone, LoneMove
    <3>2. /\ Live(f) /\ (f # Root => u[f].parent = Root)
          /\ v[i].parent = f /\ v[i].name = n /\ (f \in Ids => v[f] = u[f]) => At(v, i, d.to)
      BY <1>1, <1>2, <1>3, <2>4, TargetIs
    <3>3. /\ v[i].name = n /\ v[i].parent = IF Live(i) THEN f ELSE None
          /\ \A j \in Ids \ {i} : v[j] = u[j]
      BY <1>1, <1>2, <1>3, <2>2, <3>2, MovedIs
    <3>4. Arrived(b, v, c)
      <4>1. b[i].parent # None => At(v, i, d.to)
        BY <1>3, <2>3, <3>1, <3>2, <3>3, <1>2 DEF Live, LiveIn
      <4> QED  BY <1>3, <2>1, <4>1 DEF Arrived
    <3>5. Spared(b, v, c)  BY <2>1, <3>1, <3>3 DEF Spared
    <3>6. Distinct(v, {d.old})
      <4>1. SUFFICES ASSUME NEW j \in Ids \ {d.old}, NEW k \in Ids \ {d.old}, v[j].parent # None,
                            v[k].parent = v[j].parent, v[k].name = v[j].name
                     PROVE  j = k
        BY DEF Distinct
      <4>2. CASE j # i /\ k # i
        BY <3>1, <3>3, <4>1, <4>2 DEF Distinct
      <4>3. CASE j = i /\ k # i
        <5>1. v[i].parent = f  BY <3>3, <4>1, <4>3
        <5>2. u[k].parent = f /\ u[k].name = n  BY <3>3, <4>1, <4>3, <5>1
        <5> QED  BY <3>1, <4>1, <4>3, <5>2
      <4>4. CASE k = i /\ j # i
        <5>1. v[i].parent = f  BY <3>3, <4>1, <4>4
        <5>2. u[j].parent = f /\ u[j].name = n  BY <3>3, <4>1, <4>4, <5>1
        <5> QED  BY <3>1, <4>1, <4>4, <5>2
      <4> QED  BY <4>2, <4>3, <4>4
    <3>7. d.old = None => Distinct(v, {})
      BY <3>6 DEF Distinct, TreeAssumption
    <3>8. c.pc = "replace" =>
            /\ At(b, c.old, c.to)
            /\ Distinct(v, {c.old}) /\ Arrived(b, v, c)
            /\ \A j \in Ids \ {c.id} : v[j] = b[j]
            /\ v[c.id].parent \in {None, c.at}
            /\ b[c.old].parent = c.at /\ (c.at # Root => b[c.at].parent = Root)
      <4>1. SUFFICES ASSUME c.pc = "replace"
                     PROVE  d.old # None /\ b[d.old].parent = f
        BY <2>1, <3>1, <3>2, <3>3, <3>4, <3>6
      <4>2. d.old # None  BY <2>1, <4>1
      <4>3. u[d.old].parent = f  BY <1>2, <1>3, <1>1, <2>4, <4>2, Relied
      <4> QED  BY <3>1, <4>2, <4>3
    <3>9. c.pc = "forget" => d.old = None  BY <2>1
    <3>10. c.pc \in {"replace", "forget", "failed"} /\ c.pc \notin Working
      BY <2>1 DEF Working
    <3> QED  BY <3>4, <3>5, <3>7, <3>8, <3>9, <3>10 DEF LoneMove
  <2>5. begun.alone => Lone(b, v, cb, c)  BY <2>1, <2>4 DEF Lone
  <2> QED  BY <1>1, <1>2, <2>5 DEF AInv, Running
<1> QED  BY <1>4, <1>5 DEF MoveEntry

\* Trashing what alone shares a name leaves none shared.
LEMMA TrashedDistinct ==
    ASSUME TreeAssumption, tree \in Trees, Sound(tree), NEW f \in Ids, NEW v, v = Trashed(f),
           Distinct(tree, {f}) \/ Distinct(tree, {})
    PROVE  Distinct(v, {})
<1>1. PICK u : u = tree  OBVIOUS
<1>2. /\ \A d \in Subtree(u, f) : d \in Ids => v[d].parent = None
      /\ \A d \in Ids : d \notin Subtree(u, f) => v[d] = u[d]
  BY <1>1, TrashedIs
<1>3. f \in Subtree(u, f)  BY DEF Subtree
<1>4. Distinct(u, {f})  BY <1>1 DEF Distinct
<1>5. ASSUME NEW j \in Ids, NEW k \in Ids, v[j].parent # None,
             v[k].parent = v[j].parent, v[k].name = v[j].name
      PROVE  j = k
  <2>1. j \notin Subtree(u, f) /\ k \notin Subtree(u, f)  BY <1>2, <1>5
  <2>2. j # f /\ k # f /\ v[j] = u[j] /\ v[k] = u[k]  BY <1>2, <1>3, <2>1
  <2> QED  BY <1>4, <1>5, <2>2 DEF Distinct
<1> QED  BY <1>5 DEF Distinct

\* A source moved beside what it replaces is not below it.
LEMMA MovedBeside ==
    ASSUME TreeAssumption, NEW u \in Trees, NEW b \in Trees, NEW f \in Ids, NEW i \in Ids, NEW at,
           \A j \in Ids \ {i} : u[j] = b[j], u[i].parent \in {None, at},
           b[f].parent = at, at # Root => b[at].parent = Root
    PROVE  Subtree(u, f) \subseteq Subtree(b, f)
<1>1. PICK S : S = Subtree(b, f)  OBVIOUS
<1>2. S \in SUBSET Ids /\ f \in S  BY <1>1 DEF Subtree
<1>3. at \notin S
  <2>1. SUFFICES ASSUME at \in S PROVE FALSE  OBVIOUS
  <2>2. at \in Ids /\ at # Root  BY <1>2, <2>1 DEF TreeAssumption
  <2>3. at # f  BY <2>2
  <2>4. b[at].parent \in S  BY <1>1, <2>1, <2>3, SubtreeUp
  <2> QED  BY <1>2, <2>2, <2>4 DEF TreeAssumption
<1>4. ASSUME NEW d \in Ids, u[d].parent \in S PROVE d \in S
  <2>1. CASE d = i  BY <1>2, <1>3, <1>4, <2>1 DEF TreeAssumption
  <2>2. CASE d # i
    <3>1. b[d].parent \in Subtree(b, f)  BY <1>1, <1>4, <2>2
    <3> QED  BY <1>1, <3>1, SubtreeDown
  <2> QED  BY <2>1, <2>2
<1> QED  BY <1>1, <1>2, <1>4, SubtreeLeast

LEMMA ReplaceAlone ==
    ASSUME TInv, CInv, AInv, TreeAssumption, Replace
    PROVE  AInv'
<1>1. /\ call.pc = "replace" /\ Running /\ tree \in Trees /\ Sound(tree)
      /\ call \in Call /\ CallShape(call)
  BY Unchanging, CallIs DEF Replace
<1>2. PICK d, f, i, c, u, b, v, cb :
        /\ d = call /\ f = call.old /\ i = call.id /\ c = call'
        /\ u = tree /\ b = begun.tree /\ v = tree' /\ cb = cache'
  OBVIOUS
<1>3. /\ d.op = "move" /\ d.to \in Paths /\ i \in Ids /\ f \in Ids /\ b \in Trees
  BY <1>1, <1>2, MoveIs DEF CallShape, TInv, TypeOK, Trees
<1>4. PICK w : w = Trashed(f)  OBVIOUS
<1>5. /\ (v = w /\ c.pc \in {"forget", "failed"}) \/ (v = u /\ c.pc = "failed")
      /\ c.op = "move" /\ c.id = i /\ c.at = d.at /\ c.to = d.to /\ c.old = f
  BY <1>1, <1>2, <1>3, <1>4 DEF Replace, ToReplace, ThrowLate, Goto, Call
<1>6. ASSUME begun.alone PROVE LoneMove(b, v, c)
  <2>1. /\ At(b, f, d.to) /\ Distinct(u, {f}) /\ Arrived(b, u, d)
        /\ \A j \in Ids \ {i} : u[j] = b[j]
        /\ u[i].parent \in {None, d.at}
        /\ b[f].parent = d.at /\ (d.at # Root => b[d.at].parent = Root)
    BY <1>1, <1>2, <1>3, <1>6 DEF AInv, Lone, LoneMove, TreeAssumption
  <2>2. f # i /\ At(u, f, d.to)
    BY <1>1, <1>2, <1>3, <1>6 DEF CInv, Heeds, TreeAssumption
  <2>3. Distinct(w, {})  BY <1>1, <1>2, <1>3, <1>4, <2>1, TrashedDistinct
  <2>4. Arrived(b, w, c)
    <3>1. b[i].parent # None => At(u, i, d.to)  BY <1>2, <2>1 DEF Arrived
    <3>2. b[i].parent # None => At(w, i, d.to)
      BY <1>1, <1>2, <1>3, <1>4, <2>2, <3>1, TrashedBeside
    <3> QED  BY <1>3, <1>5, <3>2 DEF Arrived
  <2>5. Spared(b, w, c)
    <3>1. Subtree(u, f) \subseteq Subtree(b, f)
      BY <1>1, <1>2, <1>3, <2>1, MovedBeside
    <3>2. \A j \in Ids : j \notin Subtree(u, f) => w[j] = u[j]
      BY <1>1, <1>2, <1>3, <1>4, TrashedIs
    <3>3. ASSUME NEW j \in Ids \ {i}
          PROVE  w[j] = b[j] \/ \E o \in Ids : At(b, o, d.to) /\ j \in Subtree(b, o)
      BY <1>3, <2>1, <3>1, <3>2
    <3> QED  BY <1>5, <3>3 DEF Spared
  <2>6. Arrived(b, u, c) /\ Spared(b, u, c)
    BY <1>2, <1>5, <2>1 DEF Arrived, Spared
  <2>7. c.pc \notin Working /\ c.pc \notin {"move", "replace", "ok"}
    BY <1>5 DEF Working
  <2> QED  BY <1>5, <2>3, <2>4, <2>5, <2>6, <2>7 DEF LoneMove
<1>7. begun.alone => Lone(b, v, cb, c)  BY <1>5, <1>6 DEF Lone
<1> QED  BY <1>1, <1>2, <1>7 DEF AInv, Running

LEMMA DeleteAlone ==
    ASSUME TInv, CInv, AInv, TreeAssumption, Delete
    PROVE  AInv'
<1>1. /\ call.pc = "delete" /\ Running /\ tree \in Trees /\ Sound(tree)
      /\ call \in Call /\ CallShape(call) /\ call.pc \in Working
  BY Unchanging, CallIs DEF Delete, Working
<1>2. PICK d, f, c, u, b, v, cb :
        /\ d = call /\ f = call.id /\ c = call'
        /\ u = tree /\ b = begun.tree /\ v = tree' /\ cb = cache'
  OBVIOUS
<1>3. /\ d.op \in {"remove", "remove_file", "rmdir"} /\ f \in Ids
      /\ d.path \in Paths \cup {<<>>}
  BY <1>1, <1>2 DEF CallShape, Call, WritePlaces, MovePlaces
<1>4. CASE UNCHANGED tree /\ Throw
  <2>1. c.pc = "failed" /\ c.op = d.op  BY <1>1, <1>2, <1>4 DEF Throw, Goto, Call
  <2> QED  BY <1>1, <1>2, <1>3, <1>4, <2>1, LoneLook
<1>5. CASE tree' = Trashed(call.id) /\ (Goto("forget") \/ ThrowLate)
  <2>1. PICK w : w = Trashed(f)  OBVIOUS
  <2>2. /\ v = w /\ c.pc \in {"forget", "failed"} /\ c.op = d.op /\ c.id = f /\ c.path = d.path
    BY <1>1, <1>2, <1>5, <2>1 DEF ThrowLate, Goto, Call
  <2>3. ASSUME begun.alone PROVE LoneRemoval(b, w, c)
    <3>1. u = b /\ Distinct(u, {}) /\ (d.op = "remove_file" => b[f].kind = "file")
      BY <1>1, <1>2, <1>3, <2>3 DEF AInv, Lone, LoneRemoval
    <3>2. d.path # <<>> => At(u, f, d.path)  BY <1>1, <1>2, <2>3, Relied
    <3>3. /\ \A j \in Subtree(u, f) : j \in Ids => w[j].parent = None
          /\ \A j \in Ids : j \notin Subtree(u, f) => w[j] = u[j]
      BY <1>1, <1>2, <1>3, <2>1, TrashedIs
    <3>4. f \in Subtree(u, f)  BY DEF Subtree
    <3>5. Removed(b, w, c)
      BY <1>3, <2>2, <3>1, <3>2, <3>3, <3>4 DEF Removed
    <3>6. Distinct(w, {})  BY <1>1, <1>2, <1>3, <2>1, <3>1, TrashedDistinct
    <3>7. c.pc \notin Working \cup {"no"}  BY <2>2 DEF Working
    <3> QED  BY <2>2, <3>5, <3>6, <3>7 DEF LoneRemoval, Working
  <2>4. begun.alone => Lone(b, v, cb, c)  BY <1>3, <2>2, <2>3 DEF Lone
  <2> QED  BY <1>1, <1>2, <2>4 DEF AInv, Running
<1> QED  BY <1>4, <1>5 DEF Delete

LEMMA InvalidateAlone ==
    ASSUME TInv, CInv, AInv, TreeAssumption, Invalidate
    PROVE  AInv'
<1>1. call.pc = "forget" /\ Running /\ tree' = tree /\ Goto("ok") /\ call \in Call
      /\ CallShape(call)
  BY CallIs DEF Invalidate
<1>2. PICK d, c, u, b, cb :
        d = call /\ c = call' /\ u = tree /\ b = begun.tree /\ cb = cache'
  OBVIOUS
<1>3. d.op \in {"move", "remove", "remove_file", "rmdir"}
  BY <1>1, <1>2 DEF CallShape, Call, WritePlaces
<1>4. /\ c.pc = "ok" /\ c.op = d.op /\ c.id = d.id /\ c.path = d.path /\ c.to = d.to
  BY <1>1, <1>2 DEF Goto, Call
<1>5. "ok" \notin Working  BY DEF Working
<1>6. begun.alone => Lone(b, u, cb, c)
  <2>1. SUFFICES ASSUME begun.alone PROVE Lone(b, u, cb, c)  OBVIOUS
  <2>2. d.op = "move" => Distinct(u, {}) /\ Arrived(b, u, c) /\ Spared(b, u, c)
    BY <1>1, <1>2, <1>4, <2>1 DEF AInv, Lone, LoneMove, Arrived, Spared
  <2>3. d.op # "move" => Distinct(u, {}) /\ Removed(b, u, c)
    BY <1>1, <1>2, <1>3, <1>4, <2>1 DEF AInv, Lone, LoneRemoval, Removed
  <2>4. d.op = "move" => LoneMove(b, u, c)
    BY <1>4, <1>5, <2>2 DEF LoneMove
  <2>5. d.op # "move" => LoneRemoval(b, u, c)
    BY <1>4, <1>5, <2>3 DEF LoneRemoval
  <2> QED  BY <1>3, <1>4, <2>4, <2>5 DEF Lone
<1> QED  BY <1>1, <1>2, <1>6 DEF AInv, Running

LEMMA StepAlone ==
    ASSUME TInv, CInv, AInv, TreeAssumption, Step
    PROVE  AInv'
BY ExistsAlone, CreateDirectoryAlone, OpenWalkAlone, ListAnyKindAlone, CreateFolderAlone,
   ProbeExistingAlone, PublishOnCloseAlone, ResolveSegmentAlone, AnsweredAlone,
   ResolvedSourceAlone, ResolvedParentAlone, ReconcileAlone, MoveEntryAlone, ReplaceAlone,
   DeleteAlone, InvalidateAlone DEF Step

LEMMA StartAlone ==
    ASSUME TInv, TreeAssumption, Start
    PROVE  AInv'
<1>1. PICK op, pc, p, id, q :
        /\ Begin(op, pc, p, id, q)
        /\ \/ op \in {"copy", "blob"} /\ pc \in {"walk", "dir"}
           \/ op \in {"remove", "rmdir", "move"} /\ pc = "source"
           \/ op = "remove_file" /\ pc = "is_file"
  BY StartIs
<1>2. PICK c, cb, u : c = call' /\ cb = cache' /\ u = tree  OBVIOUS
<1>3. /\ c.op = op /\ c.pc = pc /\ c.parent_is_new = FALSE
      /\ tree' = u /\ begun'.tree = u /\ begun'.alone = (CacheTruthful /\ NoDuplicates)
  <2>1. /\ c = [Idle EXCEPT !.op = op, !.pc = pc, !.path = p, !.id = id, !.to = q, !.at = Root]
        /\ tree' = tree /\ begun' = [tree |-> tree, alone |-> CacheTruthful /\ NoDuplicates]
    BY <1>1, <1>2 DEF Begin
  <2>2. c.op = op /\ c.pc = pc /\ c.parent_is_new = FALSE  BY <2>1 DEF Idle
  <2> QED  BY <1>2, <2>1, <2>2
<1>4. ASSUME begun'.alone = TRUE PROVE Lone(u, u, cb, c)
  <2>1. NoDuplicates  BY <1>3, <1>4
  <2>2. Distinct(u, {})  BY <1>2, <2>1, DistinctIs
  <2>3. op \in {"copy", "blob"} => LoneWrite(u, u, cb, c)
    BY <1>1, <1>3, <2>2 DEF LoneWrite
  <2>4. op = "move" => LoneMove(u, u, c)
    BY <1>1, <1>3, <2>2 DEF LoneMove
  <2>5. op \in {"remove", "remove_file", "rmdir"} => LoneRemoval(u, u, c)
    BY <1>1, <1>3, <2>2 DEF LoneRemoval
  <2> QED  BY <1>3, <2>3, <2>4, <2>5 DEF Lone
<1>5. begun'.alone \in BOOLEAN  BY StartTypes DEF TInv, TypeOK
<1> QED  BY <1>2, <1>3, <1>4, <1>5 DEF AInv

LEMMA FinishAlone ==
    ASSUME Finish
    PROVE  AInv'
<1>1. PICK c : c = Idle  OBVIOUS
<1>2. call' = c /\ c.op = "none"  BY <1>1 DEF Finish, Idle
<1> QED  BY <1>2 DEF AInv, Lone

LEMMA OtherClientAlone ==
    ASSUME TInv, OtherClient
    PROVE  AInv'
<1>1. begun'.alone = FALSE  BY DEF OtherClient, TInv, TypeOK
<1> QED  BY <1>1 DEF AInv

LEMMA AloneInductive ==
    ASSUME TreeAssumption
    PROVE  TInv /\ CInv /\ AInv /\ [Next]_vars => AInv'
<1> SUFFICES ASSUME TInv, CInv, AInv, [Next]_vars PROVE AInv'  OBVIOUS
<1>1. CASE Start  BY <1>1, StartAlone
<1>2. CASE Step  BY <1>2, StepAlone
<1>3. CASE Finish  BY <1>3, FinishAlone
<1>4. CASE OtherClient  BY <1>4, OtherClientAlone
<1>5. CASE UNCHANGED vars  BY <1>5 DEF vars, AInv
<1> QED  BY <1>1, <1>2, <1>3, <1>4, <1>5 DEF Next

\* The inductive invariant.
LEMMA TreeInvariant ==
    Spec => [](TreeAssumption /\ TInv /\ CInv /\ AInv)
<1>1. TreesAssumption /\ TreeAssumption /\ Init => TInv /\ CInv /\ AInv
  BY TypesInit, HeedsInit DEF Init, AInv
<1>2. TreeAssumption /\ TInv /\ CInv /\ AInv /\ [Next]_vars => (TInv /\ CInv /\ AInv)'
  BY TypesInductive, HeedsInductive, AloneInductive
<1> QED  BY <1>1, <1>2, TreeAssumption, TreesAssumption, PTL DEF Spec

\* What is known of a call that ran alone so far.
LEMMA AloneIs ==
    ASSUME TInv, CInv, AInv, TreeAssumption, begun.alone
    PROVE  /\ begun.tree \in Trees /\ Sound(begun.tree) /\ Becomes(begun.tree, tree)
           /\ tree \in Trees /\ Sound(tree) /\ Becomes(tree, tree)
           /\ Lone(begun.tree, tree, cache, call)
           /\ call \in Call /\ CallShape(call)
           /\ call.op = "move" =>
                call.pc \in Working \cup {"replace", "forget", "ok", "failed"} /\ call.to \in Paths
           /\ call.op \in {"remove", "remove_file", "rmdir"} =>
                /\ call.pc \in Working \cup {"no", "forget", "ok", "failed"}
                /\ call.path # <<>> => call.path \in Paths
<1>1. PICK d : d = call  OBVIOUS
<1>2. d \in Call /\ CallShape(d)  BY <1>1, CallIs
<1>3. d.op = "move" =>
        d.pc \in Working \cup {"replace", "forget", "ok", "failed"} /\ d.to \in Paths
  BY <1>2 DEF CallShape, MovePlaces, Working, Call
<1>4. d.op \in {"remove", "remove_file", "rmdir"} =>
        /\ d.pc \in Working \cup {"no", "forget", "ok", "failed"}
        /\ d.path # <<>> => d.path \in Paths
  BY <1>2 DEF CallShape, RemovePlaces, RemoveFilePlaces, Working, Call
<1>5. begun.tree \in Trees  BY DEF TInv, TypeOK, Trees
<1>6. Sound(begun.tree) /\ Becomes(begun.tree, tree)  BY DEF CInv
<1>7. Lone(begun.tree, tree, cache, call)  BY DEF AInv
<1>8. tree \in Trees /\ Sound(tree) /\ Becomes(tree, tree)  BY Unchanging
<1> QED  BY <1>1, <1>2, <1>3, <1>4, <1>5, <1>6, <1>7, <1>8

\* What is at a path is alive.
LEMMA AtLive ==
    ASSUME TreeAssumption, NEW u, NEW p \in Paths, NEW c, At(u, c, p)
    PROVE  c \in Ids /\ u[c].parent # None
<1>1. Len(p) \in {1, 2}  BY PathForms
<1> QED  BY <1>1 DEF At, TreeAssumption

\* A move nobody interferes with loses nothing, whatever fails: something is at
\* a target that was not empty, and the moved entry is alive (MoveFile moves
\* before it deletes, and deletes only what it moved over).
THEOREM MovesLoseNothing == Spec => []LoneMoveKeepsBoth
<1>1. TreeAssumption /\ TInv /\ CInv /\ AInv => LoneMoveKeepsBoth
  <2>1. SUFFICES ASSUME TreeAssumption, TInv, CInv, AInv, call.op = "move", begun.alone,
                        call.id # None => LiveIn(begun.tree, call.id)
                 PROVE  /\ Denotes(begun.tree, call.to) # {} => Denotes(tree, call.to) # {}
                        /\ call.id # None => Live(call.id)
    BY DEF LoneMoveKeepsBoth
  <2>2. PICK d, b, u : d = call /\ b = begun.tree /\ u = tree  OBVIOUS
  <2>3. /\ b \in Trees /\ Sound(b) /\ Becomes(b, tree) /\ LoneMove(b, u, d) /\ CallShape(d)
        /\ u \in Trees /\ Sound(u) /\ Becomes(u, tree)
        /\ d.pc \in Working \cup {"replace", "forget", "ok", "failed"} /\ d.to \in Paths
    BY <2>1, <2>2, AloneIs DEF Lone
  <2>4. \A i : i \in Denotes(tree, d.to) <=> At(u, i, d.to)
    <3>1. \A p \in Paths : \A i : i \in Denotes(tree, p) <=> At(tree, i, p)
      BY <2>1, <2>2, Unchanging, DenotesAt
    <3> QED  BY <2>2, <2>3, <3>1
  <2>5. CASE u = b  BY <2>1, <2>2, <2>5 DEF Live, LiveIn
  <2>6. ASSUME Arrived(b, u, d)
        PROVE  Denotes(tree, d.to) # {} /\ Live(d.id)
    <3>1. d.id \in Ids /\ d.id # None  BY <2>1, <2>6 DEF Arrived, TreeAssumption
    <3>2. b[d.id].parent # None  BY <2>1, <2>2, <3>1 DEF LiveIn, TreeAssumption
    <3>3. At(u, d.id, d.to)  BY <2>6, <3>2 DEF Arrived
    <3>4. u[d.id].parent # None  BY <2>1, <2>3, <3>3, AtLive
    <3> QED  BY <2>2, <2>4, <3>1, <3>3, <3>4 DEF Live, LiveIn
  <2>7. u = b \/ Arrived(b, u, d)  BY <2>3 DEF LoneMove
  <2> QED  BY <2>2, <2>5, <2>6, <2>7
<1> QED  BY <1>1, TreeInvariant, PTL

\* The entries a call's paths name, and those below them.
Below(p) == UNION {Subtree(begun.tree, c) : c \in Denotes(begun.tree, p)}
Scope == CASE call.op = "move" -> {call.id} \cup Below(call.to)
           [] call.op \in {"remove", "remove_file", "rmdir"} ->
                IF call.path = <<>> THEN Subtree(begun.tree, call.id) ELSE Below(call.path)
           [] OTHER -> {}

\* A call nobody interferes with, by a cache that was right, changes no entry
\* but what its paths name.
THEOREM CallsKeepToTheirPaths == Spec => []LoneCallsKeepToTheirPaths
<1>1. ASSUME TreeAssumption, TInv, CInv, AInv, begun.alone, call.op # "none",
             NEW i \in Ids \ Scope, LiveIn(begun.tree, i)
      PROVE  tree[i] = begun.tree[i]
  <2>1. PICK d, b, u, ca : d = call /\ b = begun.tree /\ u = tree /\ ca = cache  OBVIOUS
  <2>2. /\ b \in Trees /\ Sound(b) /\ Becomes(b, tree) /\ Lone(b, u, ca, d)
        /\ d \in Call
        /\ d.op = "move" =>
             d.pc \in Working \cup {"replace", "forget", "ok", "failed"} /\ d.to \in Paths
        /\ d.op \in {"remove", "remove_file", "rmdir"} =>
             /\ d.pc \in Working \cup {"no", "forget", "ok", "failed"}
             /\ d.path # <<>> => d.path \in Paths
    BY <1>1, <2>1, AloneIs
  <2>3. b[i].parent # None  BY <1>1, <2>1 DEF LiveIn, TreeAssumption
  <2>4. \A p \in Paths : \A o : At(b, o, p) => Subtree(b, o) \subseteq Below(p)
    <3>1. \A p \in Paths : \A o : At(b, o, p) => o \in Denotes(begun.tree, p)
      BY <1>1, <2>1, <2>2, DenotesAt
    <3> QED  BY <2>1, <3>1 DEF Below
  <2>5. CASE d.op = "move"
    <3>1. i # d.id /\ i \notin Below(d.to)  BY <1>1, <2>1, <2>5 DEF Scope
    <3>2. ~ \E o \in Ids : At(b, o, d.to) /\ i \in Subtree(b, o)
      BY <2>2, <2>4, <2>5, <3>1
    <3>3. u = b \/ Spared(b, u, d) \/ \A j \in Ids \ {d.id} : u[j] = b[j]
      BY <2>2, <2>5 DEF Lone, LoneMove
    <3> QED  BY <1>1, <2>1, <2>3, <3>1, <3>2, <3>3 DEF Spared
  <2>6. CASE d.op \in {"remove", "remove_file", "rmdir"}
    <3>1. u = b \/ Removed(b, u, d)
      BY <2>2, <2>6 DEF Lone, LoneRemoval
    <3>2. IF d.path = <<>> THEN i \notin Subtree(b, d.id) ELSE i \notin Below(d.path)
      BY <1>1, <2>1, <2>6 DEF Scope
    <3>3. ASSUME Removed(b, u, d) PROVE i \notin Subtree(b, d.id)
      BY <2>2, <2>4, <2>6, <3>2, <3>3 DEF Removed
    <3> QED  BY <1>1, <2>1, <3>1, <3>3 DEF Removed
  <2>7. CASE d.op \in {"copy", "blob"}
    BY <1>1, <2>1, <2>2, <2>3, <2>7 DEF Lone, LoneWrite
  <2> QED  BY <1>1, <2>1, <2>2, <2>5, <2>6, <2>7 DEF Call
<1>2. TreeAssumption /\ TInv /\ CInv /\ AInv => LoneCallsKeepToTheirPaths
  BY <1>1, Zenon DEF LoneCallsKeepToTheirPaths, Scope, Below
<1> QED  BY <1>2, TreeInvariant, PTL

\* A call nobody interferes with leaves no two entries with one name in one
\* folder, where there were none: a write not even when it fails, a move when
\* it succeeds.
THEOREM CallsMakeNoDuplicates == Spec => []NoDuplicatesMade
<1>1. TreeAssumption /\ TInv /\ CInv /\ AInv => NoDuplicatesMade
  <2>1. SUFFICES ASSUME TreeAssumption, TInv, CInv, AInv, begun.alone,
                        call.pc \in {"ok", "failed"}, call.op = "move" => call.pc = "ok"
                 PROVE  NoDuplicates
    BY DEF NoDuplicatesMade
  <2>2. PICK d, b, u, ca : d = call /\ b = begun.tree /\ u = tree /\ ca = cache  OBVIOUS
  <2>3. Lone(b, u, ca, d) /\ d \in Call /\ CallShape(d)  BY <2>1, <2>2, AloneIs
  <2>4. d.op # "none"  BY <2>1, <2>2, <2>3 DEF CallShape
  <2>5. Distinct(u, {})
    BY <2>1, <2>2, <2>3, <2>4 DEF Lone, LoneWrite, LoneMove, LoneRemoval, Call
  <2> QED  BY <2>1, <2>2, <2>5, DistinctIs
<1> QED  BY <1>1, TreeInvariant, PTL

\* What the address of a remove_file named when the call began.
Addressed == IF call.path = <<>> THEN {call.id} ELSE Denotes(begun.tree, call.path)

\* remove_file nobody interferes with tells the truth: true if the address named
\* a file, which is gone, false if it named nothing.
THEOREM RemoveFileIsTruthful == Spec => []RemoveFileTellsTruth
<1>1. ASSUME TreeAssumption, TInv, CInv, AInv, begun.alone, call.op = "remove_file"
      PROVE  /\ call.pc = "ok" => \E i \in Addressed : begun.tree[i].kind = "file" /\ ~Live(i)
             /\ call.pc = "no" =>
                  None \notin Addressed /\ \A i \in Addressed : ~LiveIn(begun.tree, i)
  <2>1. PICK d, b, u, named :
          d = call /\ b = begun.tree /\ u = tree /\ named = Addressed
    OBVIOUS
  <2>2. /\ b \in Trees /\ Sound(b) /\ Becomes(b, tree) /\ LoneRemoval(b, u, d)
        /\ d.path # <<>> => d.path \in Paths
    BY <1>1, <2>1, AloneIs DEF Lone
  <2>3. d.path # <<>> => \A i : i \in named <=> At(b, i, d.path)
    BY <1>1, <2>1, <2>2, DenotesAt DEF Addressed
  <2>4. ASSUME d.pc = "ok" PROVE \E i \in named : b[i].kind = "file" /\ ~Live(i)
    <3>1. Removed(b, u, d)  BY <2>2, <2>4 DEF LoneRemoval
    <3>2. d.id \in Ids /\ u[d.id].parent = None /\ b[d.id].kind = "file"
      BY <1>1, <2>1, <3>1 DEF Removed
    <3>3. d.id \in named  BY <1>1, <2>1, <2>3, <3>1 DEF Removed, Addressed
    <3> QED  BY <1>1, <2>1, <3>2, <3>3 DEF Live, LiveIn, TreeAssumption
  <2>5. ASSUME d.pc = "no" PROVE None \notin named /\ \A i \in named : ~LiveIn(b, i)
    <3>1. IF d.path = <<>> THEN d.id \in Ids /\ b[d.id].parent = None
          ELSE \A i \in Ids : ~At(b, i, d.path)
      BY <2>2, <2>5 DEF LoneRemoval
    <3>2. CASE d.path = <<>>
      BY <1>1, <2>1, <3>1, <3>2 DEF LiveIn, TreeAssumption, Addressed
    <3>3. CASE d.path # <<>>
      <4>1. named = {}  BY <2>3, <3>1, <3>3 DEF At
      <4> QED  BY <4>1
    <3> QED  BY <3>2, <3>3
  <2> QED  BY <2>1, <2>4, <2>5
<1>2. TreeAssumption /\ TInv /\ CInv /\ AInv => RemoveFileTellsTruth
  BY <1>1, Zenon DEF RemoveFileTellsTruth, Addressed
<1> QED  BY <1>2, TreeInvariant, PTL
=============================================================================
