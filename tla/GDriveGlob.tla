----------------------------- MODULE GDriveGlob -----------------------------
(***************************************************************************)
(* Glob (gdrive_filesystem.cpp): the pattern is expanded, each expansion   *)
(* is resolved, or its literal prefix is and the folder listed, what was   *)
(* listed is cached for the opens that follow, and matched.  Drive does    *)
(* not change meanwhile; GDriveOpenFile has other clients and one folder,  *)
(* this module folders, patterns and names that are not unique.            *)
(*                                                                         *)
(* The same behaviours run MatchSegment round by round on single names,    *)
(* and Glob on an empty Drive with every short text for an address.        *)
(***************************************************************************)
EXTENDS GDriveGlobPatterns

CONSTANTS
    Texts,       \* what may follow the scheme, well formed or not
    ImmutablePrefixes,    \* entries of gdrive_immutable_prefixes, without the scheme
    Globs,       \* patterns Glob is called with; "" or without empty segments
    Entries,     \* what Drive may hold: records of id, parent, name and folder
    Root         \* the root folder's id

ASSUME GlobAssumption ==
    /\ {"/", "id:"} \subseteq DOMAIN Code
    /\ Texts \cup Globs \cup ImmutablePrefixes \subseteq Seq(DOMAIN Code)
    /\ IsFiniteSet(Entries)
    /\ \A e \in Entries : e.name \in Seq(DOMAIN Code) /\ e.id # Root /\ e.folder \in BOOLEAN
    /\ \A e \in Entries : ParseGDriveUri(e.name) = Path(<<e.name>>)
    /\ \A e, f \in Entries : e.id = f.id => e = f

\* match.result is "idle" if Glob runs instead of MatchSegment.
VARIABLES
    drive,     \* the entries Drive holds
    glob,      \* the pattern Glob was called with
    pc,
    todo,      \* expansions not yet looked at
    cache,     \* the path cache: pairs of a path and an entry
    result     \* what Glob has found: pairs of an entry and its address

vars == <<match, drive, glob, pc, todo, cache, result>>

ChildrenOf(f) == {e \in drive : e.parent = f}
Holds(D) == \A e \in D : e.parent = Root \/ \E f \in D : f.id = e.parent /\ f.folder

InitSegment == InitMatch /\ drive = {} /\ glob = <<>> /\ pc = "idle"
InitText ==
    /\ match = [Matching(<<>>, <<>>) EXCEPT !.result = "idle"]
    /\ drive = {} /\ glob \in Texts /\ pc = "called"
InitGlob ==
    /\ match = [Matching(<<>>, <<>>) EXCEPT !.result = "idle"]
    /\ drive \in {D \in SUBSET Entries : Holds(D)}
    /\ glob \in Globs /\ pc = "called"
Init == (InitSegment \/ InitText \/ InitGlob) /\ todo = <<>> /\ cache = {} /\ result = <<>>

RootFolder == [id |-> Root, folder |-> TRUE]
TheOne(found) == CHOOSE e \in found : TRUE

\* TryResolvePath, one segment after the other: what it found, more than one entry if
\* it throws, and the cache it leaves.  Before the last segment it looks for folders
\* only, and it goes on from an entry that is the only one.
Resolved(segments) ==
    LET walk[n \in 0..Len(segments)] ==
            IF n = 0 THEN [found |-> {RootFolder}, cache |-> cache]
            ELSE LET before == walk[n - 1]
                     key == JoinSegments(SubSeq(segments, 1, n))
                     cached == {e \in drive : <<key, e>> \in before.cache}
                     found == IF cached # {} THEN cached
                              ELSE {e \in ChildrenOf(TheOne(before.found).id) :
                                      e.name = segments[n] /\ (n < Len(segments) => e.folder)} IN
                 IF Cardinality(before.found) # 1 THEN before
                 ELSE [found |-> found,
                       cache |-> before.cache \cup
                           (IF Cardinality(found) = 1 THEN {<<key, TheOne(found)>>} ELSE {})] IN
    walk[Len(segments)]
TryResolvePath(uri) ==
    IF uri.kind = "FILE_ID"
    THEN [found |-> {e \in drive : e.id = uri.file_id}, cache |-> cache]
    ELSE Resolved(uri.segments)

\* Pairs of an entry and its path below the folder, level by level.
ListFolder(folder, recursive) ==
    LET level[k \in 0..Cardinality(drive)] ==
            IF k = 0 THEN {<<e.name, e>> : e \in ChildrenOf(folder)}
            ELSE UNION {{<<x[1] \o <<"/">> \o e.name, e>> : e \in ChildrenOf(x[2].id)} :
                        x \in {y \in level[k - 1] : y[2].folder}} IN
    IF recursive THEN UNION {level[k] : k \in 0..Cardinality(drive)} ELSE level[0]

HitAnything(path, found, results) ==
    IF found # {} THEN Append(results, <<TheOne(found), path>>) ELSE results
\* A resolved path becomes a result if it is a file.
Hit(path, found, results) ==
    IF \E e \in found : ~e.folder
    THEN Append(results, <<TheOne(found), path>>) ELSE results

-----------------------------------------------------------------------------
(* MatchSegment, one round of its loop at a time.                          *)

RoundOfSegment == MatchRound /\ UNCHANGED <<drive, glob, pc, todo, cache, result>>

-----------------------------------------------------------------------------
(* Glob.                                                                   *)

Throws(found) == Cardinality(found) > 1
Fail == pc' = "failed" /\ UNCHANGED <<todo, result>>

parsed == ParseGDriveUri(glob)

\* An address that is none is refused, but for the one that DuckDB makes itself.
Refuse ==
    /\ pc = "called" /\ parsed = Rejected
    /\ pc' = IF IsFileIdFallbackGlobProbe(glob) THEN "done" ELSE "failed"
    /\ UNCHANGED <<match, drive, glob, todo, cache, result>>

GlobLiteral ==
    /\ pc = "called" /\ parsed # Rejected
    /\ parsed.kind = "FILE_ID" \/ ~HasGlobMetacharacters(glob)
    /\ LET resolved == TryResolvePath(parsed) IN
       /\ cache' = resolved.cache
       /\ IF Throws(resolved.found) THEN Fail
          ELSE pc' = "done" /\ result' = Hit(glob, resolved.found, <<>>) /\ UNCHANGED todo
    /\ UNCHANGED <<match, drive, glob>>

Expand ==
    /\ pc = "called" /\ parsed.kind = "PATH" /\ HasGlobMetacharacters(glob)
    /\ IF ExpandBraces(glob) = <<>> THEN Fail
       ELSE pc' = "expanded" /\ todo' = ExpandBraces(glob) /\ UNCHANGED result
    /\ UNCHANGED <<match, drive, glob, cache>>

\* An expansion without metacharacters is resolved; one that is no address is
\* passed over.
ExpandedLiteral ==
    /\ pc = "expanded" /\ todo # <<>> /\ ~HasGlobMetacharacters(Head(todo))
    /\ LET literal == ParseGDriveUri(Head(todo))
           resolved == IF literal = Rejected THEN [found |-> {}, cache |-> cache]
                       ELSE TryResolvePath(literal) IN
       /\ cache' = resolved.cache
       /\ IF Throws(resolved.found) THEN Fail
          ELSE /\ result' = Hit(Head(todo), resolved.found, result)
               /\ todo' = Tail(todo) /\ UNCHANGED pc
    /\ UNCHANGED <<match, drive, glob>>

\* In the order Drive lists them in, which may be any.
AppendAll(results, found) ==
    LET append[n \in 0..Cardinality(found)] ==
            IF n = 0 THEN [left |-> found, results |-> results]
            ELSE LET before == append[n - 1] IN
                 [left |-> before.left \ {TheOne(before.left)},
                  results |-> Append(before.results, TheOne(before.left))] IN
    append[Cardinality(found)].results

\* What is listed is cached unless its path, or one above it, is shared.
UnambiguousItself(listing) ==
    {x \in listing : \A y \in listing : y[1] = x[1] => y = x}
Unambiguous(listing) ==
    {x \in UnambiguousItself(listing) : \A y \in listing :
        IsPrefix(y[1] \o <<"/">>, x[1]) => y \in UnambiguousItself(listing)}

\* The folder to list is the literal prefix, the root if that is empty.  A listed
\* entry that shares its path is named by its id.
List ==
    /\ pc = "expanded" /\ todo # <<>> /\ HasGlobMetacharacters(Head(todo))
    /\ LET split == SplitGlob(Head(todo))
           prefix == ParseGDriveUri(split.literal_prefix)
           resolved == IF prefix = Rejected THEN [found |-> {}, cache |-> cache]
                       ELSE TryResolvePath(prefix)
           found == resolved.found
           listing == IF found = {} THEN {}
                      ELSE ListFolder(TheOne(found).id, split.recursive)
           FullPath(x) == JoinGDrivePath(split.literal_prefix, x[1])
           hits == {x \in listing : MatchPath(Head(todo), FullPath(x)) /\ ~x[2].folder}
           Parent(x) == JoinSegments(Front(SplitOnSlash(FullPath(x))))
           Named(x) == <<x[2], DisambiguatePath(Parent(x), x[2].name, x[2].id,
                                                \E y \in listing \ {x} : y[1] = x[1])>> IN
       IF prefix = Rejected \/ Throws(found) THEN Fail /\ cache' = resolved.cache
       ELSE /\ cache' = resolved.cache \cup {<<FullPath(x), x[2]>> : x \in Unambiguous(listing)}
            /\ result' = AppendAll(result, {Named(x) : x \in hits})
            /\ todo' = Tail(todo) /\ UNCHANGED pc
    /\ UNCHANGED <<match, drive, glob>>

DropNothing(results) == results
\* A path, or id, that overlapping expansions found twice stays once.
DropRepeated(results) ==
    LET kept[n \in 0..Len(results)] ==
            IF n = 0 THEN <<>>
            ELSE IF results[n] \in Range(kept[n - 1]) THEN kept[n - 1]
            ELSE Append(kept[n - 1], results[n]) IN
    kept[Len(results)]

\* A pattern that matches nothing may be the name of a file.
Finish ==
    /\ pc = "expanded" /\ todo = <<>>
    /\ LET unique == DropRepeated(result)
           resolved == TryResolvePath(parsed) IN
       IF unique = <<>>
       THEN /\ cache' = resolved.cache
            /\ IF Throws(resolved.found) THEN Fail
               ELSE pc' = "done" /\ result' = Hit(glob, resolved.found, <<>>) /\ UNCHANGED todo
       ELSE pc' = "done" /\ result' = unique /\ UNCHANGED <<todo, cache>>
    /\ UNCHANGED <<match, drive, glob>>

\* It has returned or thrown.
Returned ==
    /\ match.result \in {"yes", "no"} \/ pc \in {"done", "failed"}
    /\ UNCHANGED vars

Next == RoundOfSegment \/ Refuse \/ GlobLiteral \/ Expand \/ ExpandedLiteral \/ List \/ Finish \/ Returned
Spec == Init /\ [][Next]_vars

-----------------------------------------------------------------------------
(* What globs mean, by definitions of their own.                           *)

\* Each segment of the path belongs to one segment of the pattern, in order:
\* every one but ** has exactly one.
PathMeans(pattern, path) ==
    LET ps == SplitOnSlash(pattern)  ss == SplitOnSlash(path) IN
    \E owner \in [DOMAIN ss -> DOMAIN ps] :
        /\ \A i, j \in DOMAIN ss : i < j => owner[i] <= owner[j]
        /\ \A k \in DOMAIN ps : ps[k] # <<"*", "*">> =>
             \E i \in DOMAIN ss : /\ owner[i] = k /\ Means(ps[k], ss[i])
                                  /\ \A j \in DOMAIN ss : owner[j] = k => j = i

\* Rewriting an innermost group by its alternatives until none is left.
Language[s \in Seq(DOMAIN Code)] ==
    LET inner == {x \in (DOMAIN s) \X (DOMAIN s) :
                    x[1] < x[2] /\ s[x[1]] = "{" /\ s[x[2]] = "}"
                    /\ \A k \in (x[1] + 1)..(x[2] - 1) : s[k] \notin {"{", "}"}}
        g == CHOOSE x \in inner : TRUE
        body == SubSeq(s, g[1] + 1, g[2] - 1)
        commas == {0, Len(body) + 1} \cup {i \in DOMAIN body : body[i] = ","}
        choices == {SubSeq(body, y[1] + 1, y[2] - 1) : y \in
                      {x \in commas \X commas : x[1] < x[2]
                        /\ \A c \in commas : c <= x[1] \/ x[2] <= c}} IN
    IF inner = {} THEN {s}
    ELSE UNION {Language[SubSeq(s, 1, g[1] - 1) \o c \o SubSeq(s, g[2] + 1, Len(s))] :
                c \in choices}
Balanced(s) ==
    Open(s, Len(s)) = 0 /\ Cardinality({i \in DOMAIN s : s[i] = "{"})
                         = Cardinality({i \in DOMAIN s : s[i] = "}"})

\* The path of an entry of drive.
PathOf[e \in drive] ==
    IF e.parent = Root THEN e.name
    ELSE PathOf[CHOOSE f \in drive : f.id = e.parent] \o <<"/">> \o e.name

\* The entries that a path of so many segments from the root leads to, and whether
\* it leads there through one of two folders that share a path.
Places(segments) ==
    LET at[n \in 0..Len(segments)] ==
            IF n = 0 THEN {RootFolder}
            ELSE {e \in drive : /\ e.name = segments[n]
                                /\ \E f \in at[n - 1] : f.folder /\ e.parent = f.id} IN
    at
Denotes(path) == Places(SplitSegments(path))[Len(SplitSegments(path))]
BelowSharedFolder(path) ==
    \E n \in 1..(Len(SplitSegments(path)) - 1) :
        \E y, z \in Places(SplitSegments(path))[n] : y # z /\ y.folder /\ z.folder

\* A text without the slashes at its ends and the second one of any two.
Squeezed(s) ==
    LET Kept(i) == s[i] # "/" \/ (/\ i > 1 /\ s[i - 1] # "/"
                                 /\ \E j \in i..Len(s) : s[j] # "/")
        squeezed[i \in 0..Len(s)] ==
            IF i = 0 THEN <<>>
            ELSE IF Kept(i) THEN Append(squeezed[i - 1], s[i]) ELSE squeezed[i - 1] IN
    squeezed[Len(s)]

-----------------------------------------------------------------------------
TypeOK ==
    /\ match.result \in {"idle", "none", "yes", "no"} /\ match.rounds \in Nat
    /\ match.pidx \in 1..(Len(match.pattern) + 1)
    /\ match.sidx \in 1..(Len(match.name) + 1)
    /\ pc \in {"idle", "called", "expanded", "done", "failed"}
    /\ drive \subseteq Entries /\ glob \in Globs \cup Texts \cup {<<>>}
    /\ cache \subseteq (Seq(DOMAIN Code) \X drive)
    /\ \A r \in Range(result) : r[1] \in drive

\* gdrive_uri.hpp: a text is parsed to an address that round-trips and whose
\* parent and name make it up again; what DuckDB makes of a missing file id is
\* told from every other text, and is no address; and a prefix covers whole
\* segments only, slashes at its end being as good as none.  Left out are paths whose
\* first segment begins with id:, which a slash before it makes possible and which do
\* not round-trip (see README).
UrisExact ==
    pc = "called" =>
        /\ parsed.kind = "PATH" => UriText(parsed) = Squeezed(glob)
        /\ parsed # Rejected /\ (parsed.kind = "PATH" => ~StartsWithId(Squeezed(glob))) =>
             /\ ParseGDriveUri(UriText(parsed)) = parsed
             /\ parsed.segments # <<>> =>
                  /\ ParseGDriveUri(ParentPath(parsed)) = Path(Front(parsed.segments))
                  /\ JoinGDrivePath(ParentPath(parsed), FileName(parsed)) = Squeezed(glob)
                  /\ CanonicalPathOf(parsed) = Squeezed(glob)
        /\ IsFileIdFallbackGlobProbe(glob) =>
             /\ parsed = Rejected
             /\ SplitSegments(glob) =
                  <<Head(SplitSegments(glob)), <<"*", "*">>, Last(SplitSegments(glob))>>
        /\ \A p \in ImmutablePrefixes :
             PathMatchesAnyPrefix(Scheme \o glob, {Scheme \o p})
               <=> \E n \in 0..Len(p) :
                     /\ \A i \in (n + 1)..Len(p) : p[i] = "/"
                     /\ n = 0 \/ IsPrefix(SubSeq(p, 1, n) \o <<"/">>, glob \o <<"/">>)

\* A glob that ends returns each file some expansion matches, or names by its id,
\* once, unless an expansion is an id; and if there is no such file, the file the
\* pattern names literally.  It is returned by an address under which an open finds
\* it and no other, not by a path that another entry has; below one of two folders
\* that share a path the open throws.  Not matched is a file x by x/**.  And an
\* expansion that is not rejected is the whole product of the alternatives and
\* within the cap; what has nothing to expand is never taken for a rejected one.
GlobExact ==
    /\ pc = "called" /\ Balanced(glob) =>
        LET expanded == ExpandBraces(glob) IN
        /\ expanded # <<>> => Range(expanded) = Language[glob]
        /\ Len(expanded) <= MaxBraceExpansions
        /\ Language[glob] = {glob} /\ Len(glob) <= MaxBracePatternLength => expanded # <<>>
    /\ pc = "done" /\ Balanced(glob) =>
        LET ById(x) == {e \in drive : <<"id:">> \o e.id = x}
            hits == {e \in drive : ~e.folder /\ \E x \in Language[glob] :
                        \/ e \in ById(x)
                        \/ /\ PathMeans(x, PathOf[e])
                           /\ HasGlobMetacharacters(x) => PathOf[e] # SplitGlob(x).literal_prefix}
            literal == {e \in Denotes(glob) : ~e.folder} IN
        /\ {r[1] : r \in Range(result)} = IF hits # {} THEN hits ELSE literal
        /\ \A i, j \in DOMAIN result : result[i][1] = result[j][1] =>
             i = j \/ \E x \in Language[glob] : StartsWithId(x)
        /\ \A r \in Range(result) :
             LET found == TryResolvePath(ParseGDriveUri(r[2])).found IN
             IF BelowSharedFolder(r[2]) THEN Throws(found) ELSE found = {r[1]}

\* What a glob caches for the opens that follow names the entry it leads to, and only
\* that one: none of two that share a path, nor what is below two folders that do.
\* A folder that a resolved path goes through may have a file beside it of the same
\* name; a path that begins with an id leads nowhere from the root.
CachedNamesOne ==
    \A x \in cache :
        /\ x[2] \in Denotes(x[1]) \/ StartsWithId(x[1])
        /\ \A e \in Denotes(x[1]) \ {x[2]} : x[2].folder /\ ~e.folder
        /\ ~BelowSharedFolder(x[1])
=============================================================================
