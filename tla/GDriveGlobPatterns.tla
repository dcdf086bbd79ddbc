------------------------- MODULE GDriveGlobPatterns -------------------------
(***************************************************************************)
(* Glob patterns over Drive names, the other pure functions of             *)
(* gdrive_glob.cpp: MatchPath, SplitGlob and ExpandBraces.                 *)
(***************************************************************************)
EXTENDS GDriveSegment, GDriveUri, FiniteSets

CONSTANTS
    MaxBracePatternLength,   \* kMaxBracePatternLength
    MaxBraceExpansions,      \* kMaxBraceExpansions
    MaxBraceDepth            \* kMaxBraceDepth

ASSUME PatternsAssumption ==
    /\ MaxBracePatternLength \in Nat /\ MaxBraceExpansions \in Nat \ {0}
    /\ MaxBraceDepth \in Nat

-----------------------------------------------------------------------------
(* MatchSegment, the loop run to its end.                                  *)

\* SegmentsExact says that so many rounds are enough.
MatchSegment(p, s) ==
    LET loop[n \in 0..((Len(p) + 1) * (Len(s) + 1))] ==
            IF n = 0 THEN Matching(p, s)
            ELSE LET m == loop[n - 1] IN IF m.result = "none" THEN Round(m) ELSE m IN
    loop[(Len(p) + 1) * (Len(s) + 1)].result = "yes"

-----------------------------------------------------------------------------
(* MatchPath and SplitGlob.                                                *)

SplitOnSlash(s) ==
    LET split[i \in 0..Len(s)] ==
            IF i = 0 THEN <<<<>>>>
            ELSE LET segments == split[i - 1] IN
                 IF s[i] = "/" THEN Append(segments, <<>>)
                 ELSE [segments EXCEPT ![Len(segments)] = Append(@, s[i])] IN
    split[Len(s)]

\* MatchSegments, from the pi-th pattern and the si-th segment on.  A segment ** takes
\* none, or one and stays.
MatchSegments(patterns, segments) ==
    LET P == Len(patterns) + 1  S == Len(segments) + 1
        memo[pi \in 1..P] ==
            LET row[si \in 1..S] ==
                    IF pi = P THEN si = S
                    ELSE IF patterns[pi] = <<"*", "*">>
                    THEN memo[pi + 1][si] \/ (si < S /\ row[si + 1])
                    ELSE /\ si < S /\ MatchSegment(patterns[pi], segments[si])
                         /\ memo[pi + 1][si + 1] IN
            row IN
    memo[1][1]
MatchPath(pattern, path) == MatchSegments(SplitOnSlash(pattern), SplitOnSlash(path))

HasGlobMetacharacters(s) == \E i \in DOMAIN s : s[i] \in {"*", "?", "[", "{"}

HasDoubleStar(segment) == \E i \in 1..(Len(segment) - 1) : SubSeq(segment, i, i + 1) = <<"*", "*">>
SplitGlob(pattern) ==
    LET segments == SplitOnSlash(pattern)
        Literal(k) == \A i \in 1..k : ~HasGlobMetacharacters(segments[i])
        n == CHOOSE k \in 0..Len(segments) :
                 Literal(k) /\ (k = Len(segments) \/ ~Literal(k + 1))
        tail == SubSeq(segments, n + 1, Len(segments)) IN
    [literal_prefix |-> JoinSegments(SubSeq(segments, 1, n)), pattern_tail |-> JoinSegments(tail),
     recursive |-> Len(tail) > 1 \/ \E i \in DOMAIN tail : HasDoubleStar(tail[i])]

-----------------------------------------------------------------------------
(* ExpandBraces.                                                           *)

\* How many braces are open after the first n characters; a stray } is none.
Open(s, n) ==
    LET open[k \in 0..n] ==
            IF k = 0 THEN 0
            ELSE IF s[k] = "{" THEN open[k - 1] + 1
            ELSE IF s[k] = "}" /\ open[k - 1] > 0 THEN open[k - 1] - 1 ELSE open[k - 1] IN
    open[n]

\* Where the first balanced top-level group ends, 0 if there is none.
GroupEnd(s) ==
    LET ends == {i \in DOMAIN s : s[i] = "}" /\ Open(s, i - 1) = 1 /\ Open(s, i) = 0} IN
    IF ends = {} THEN 0 ELSE CHOOSE i \in ends : \A j \in ends : i <= j
GroupStart(s) ==
    CHOOSE i \in 1..GroupEnd(s) : s[i] = "{" /\ Open(s, i - 1) = 0
        /\ \A j \in (i + 1)..(GroupEnd(s) - 1) : Open(s, j) > 0

\* A comma within a nested group separates nothing.
Separates(s, i) == s[i] = "," /\ Open(s, i) = 0

Alternatives(s) ==
    LET parts[i \in 0..Len(s)] ==
            IF i = 0 THEN <<<<>>>>
            ELSE LET before == parts[i - 1] IN
                 IF Separates(s, i) THEN Append(before, <<>>)
                 ELSE [before EXCEPT ![Len(before)] = Append(@, s[i])] IN
    parts[Len(s)]

\* A budget of pushes is shared by the whole expansion; budget < 0 says that
\* it, or the depth, was exceeded.
Overflow == [budget |-> -1, out |-> <<>>]
Push(so_far, strings) ==
    IF so_far.budget < Len(strings) THEN Overflow
    ELSE [budget |-> so_far.budget - Len(strings), out |-> so_far.out \o strings]

\* Every head with every tail, in order.
Product(prefix, heads, tails) ==
    [i \in 1..(Len(heads) * Len(tails)) |->
        prefix \o heads[((i - 1) \div Len(tails)) + 1] \o tails[((i - 1) % Len(tails)) + 1]]

\* The first group of s, where deeper expands what follows it and its alternatives.
ExpandGroup(deeper, s, budget) ==
    LET prefix == SubSeq(s, 1, GroupStart(s) - 1)
        heads == Alternatives(SubSeq(s, GroupStart(s) + 1, GroupEnd(s) - 1))
        suffixes == deeper[SubSeq(s, GroupEnd(s) + 1, Len(s))][budget]
        sum[k \in 0..Len(heads)] ==
            IF k = 0 THEN [budget |-> suffixes.budget, out |-> <<>>]
            ELSE LET expanded == deeper[heads[k]][sum[k - 1].budget] IN
                 IF expanded.budget < 0 THEN Overflow
                 ELSE Push([sum[k - 1] EXCEPT !.budget = expanded.budget],
                           Product(prefix, expanded.out, suffixes.out)) IN
    IF suffixes.budget < 0 THEN Overflow ELSE sum[Len(heads)]

\* With so many levels left.
ExpandBracesInto[left \in 0..(MaxBraceDepth + 1)] ==
    [s \in Seq(DOMAIN Code) |-> [budget \in Int |->
        IF left = 0 \/ budget < 0 THEN Overflow
        ELSE IF GroupEnd(s) = 0 THEN Push([budget |-> budget, out |-> <<>>], <<s>>)
        ELSE ExpandGroup(ExpandBracesInto[left - 1], s, budget)]]

\* The empty result means that the pattern is rejected.
ExpandBraces(s) ==
    IF Len(s) > MaxBracePatternLength THEN <<>>
    ELSE ExpandBracesInto[MaxBraceDepth + 1][s][MaxBraceExpansions].out
=============================================================================
