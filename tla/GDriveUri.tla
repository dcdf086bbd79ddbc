------------------------------ MODULE GDriveUri ------------------------------
(***************************************************************************)
(* gdrive:// addresses: the pure functions of gdrive_uri.cpp and the       *)
(* helpers of gdrive_filesystem.cpp that put addresses together.           *)
(*                                                                         *)
(* A text is what follows the scheme, as a sequence of characters, except  *)
(* that "id:" is one symbol: no function looks into it.                    *)
(***************************************************************************)
EXTENDS Integers, Sequences, SequencesExt

Scheme == <<"gdrive:", "/", "/">>

HasSlash(s) == "/" \in Range(s)
StartsWithId(s) == s # <<>> /\ Head(s) = "id:"

\* Before the slash at position i, and after it.
Before(s, i) == SubSeq(s, 1, i - 1)
After(s, i) == SubSeq(s, i + 1, Len(s))
FirstSlash(s) == CHOOSE i \in DOMAIN s : s[i] = "/" /\ ~HasSlash(Before(s, i))

\* Runs of slashes collapse; slashes at either end are dropped.
SplitSegments(rest) ==
    LET split[i \in 0..Len(rest)] ==
            IF i = 0 THEN <<>>
            ELSE LET segments == split[i - 1] IN
                 IF rest[i] = "/" THEN segments
                 ELSE IF i > 1 /\ rest[i - 1] # "/"
                 THEN [segments EXCEPT ![Len(segments)] = Append(@, rest[i])]
                 ELSE Append(segments, <<rest[i]>>) IN
    split[Len(rest)]

JoinSegments(segments) ==
    LET join[k \in 0..Len(segments)] ==
            IF k = 0 THEN <<>>
            ELSE IF k = 1 THEN segments[1]
            ELSE join[k - 1] \o <<"/">> \o segments[k] IN
    join[Len(segments)]

Rejected == [kind |-> "REJECTED", file_id |-> <<>>, segments |-> <<>>]
FileId(id) == [kind |-> "FILE_ID", file_id |-> id, segments |-> <<>>]
Path(segments) == [kind |-> "PATH", file_id |-> <<>>, segments |-> segments]

ParseGDriveUri(rest) ==
    LET segments == SplitSegments(rest) IN
    IF StartsWithId(rest)
    THEN IF HasSlash(rest) \/ Tail(rest) = <<>> THEN Rejected ELSE FileId(Tail(rest))
    ELSE IF Range(segments) \cap {<<".">>, <<".", ".">>} # {} THEN Rejected
    ELSE Path(segments)

UriText(uri) ==
    IF uri.kind = "FILE_ID" THEN <<"id:">> \o uri.file_id ELSE JoinSegments(uri.segments)

ParentPath(uri) ==
    IF uri.kind # "PATH" \/ uri.segments = <<>> THEN <<>>
    ELSE JoinSegments(Front(uri.segments))

FileName(uri) ==
    IF uri.kind # "PATH" \/ uri.segments = <<>> THEN <<>> ELSE Last(uri.segments)

\* CanonicalPathOf: the key of the path cache.
CanonicalPathOf(uri) == IF uri.kind # "PATH" THEN <<>> ELSE JoinSegments(uri.segments)

JoinGDrivePath(parent_path, name) ==
    IF parent_path = <<>> THEN name ELSE parent_path \o <<"/">> \o name

DisambiguatePath(parent_path, name, id, name_is_ambiguous) ==
    IF name_is_ambiguous THEN <<"id:">> \o id ELSE JoinGDrivePath(parent_path, name)

\* The one text DuckDB makes of a file id that does not exist.
IsFileIdFallbackGlobProbe(rest) ==
    /\ StartsWithId(rest) /\ HasSlash(rest)
    /\ FirstSlash(rest) # 2
    /\ LET remainder == After(rest, FirstSlash(rest)) IN
       /\ HasSlash(remainder)
       /\ Before(remainder, FirstSlash(remainder)) = <<"*", "*">>
       /\ LET second == After(remainder, FirstSlash(remainder)) IN
          /\ ~HasSlash(second)
          /\ Len(second) > 2 /\ second[1] = "*" /\ second[2] = "."

\* Slashes at the end of a prefix do not count.
WithoutTrailingSlash(prefix) ==
    SubSeq(prefix, 1, CHOOSE n \in 0..Len(prefix) :
                          /\ \A i \in (n + 1)..Len(prefix) : i > 1 /\ prefix[i] = "/"
                          /\ n > 1 => prefix[n] # "/")

\* Mutated form: any text that begins like a prefix.
StartsWithAnyPrefix(path, prefixes) ==
    \E p \in prefixes : WithoutTrailingSlash(p) # <<>> /\ IsPrefix(WithoutTrailingSlash(p), path)

\* With the scheme; the setting's entries are a set, trimmed.
PathMatchesAnyPrefix(path, prefixes) ==
    \E p \in prefixes :
        LET prefix == WithoutTrailingSlash(p) IN
        /\ prefix # <<>>
        /\ IsPrefix(prefix, path)
        /\ path = prefix \/ path[Len(prefix) + 1] = "/"
=============================================================================
