--------------------------- MODULE GDriveSegment ---------------------------
(***************************************************************************)
(* MatchSegment (gdrive_glob.cpp): a pattern of one segment against a      *)
(* name, by a loop that returns to the last star when it cannot go on.     *)
(* Each round of the loop is a step.  A string is a sequence of            *)
(* characters, indexed from 1.                                             *)
(***************************************************************************)
EXTENDS Integers, Sequences

CONSTANTS
    Code,        \* the characters and their codes, signed as char is
    Patterns,    \* patterns of one segment
    Strings      \* names to match them with

ASSUME SegmentAssumption ==
    /\ \A c \in DOMAIN Code : Code[c] \in Int
    /\ Patterns \subseteq Seq(DOMAIN Code) /\ Strings \subseteq Seq(DOMAIN Code)

VARIABLE match    \* MatchSegmentImpl's variables

Has(s, i) == i <= Len(s)

-----------------------------------------------------------------------------
(* MatchSegmentImpl.                                                       *)

\* A range like a-z, but - is itself before the closing bracket.
IsRange(p, i) == Has(p, i + 2) /\ p[i + 1] = "-" /\ p[i + 2] # "]"

NoClass == [end |-> 0, found |-> FALSE]
\* TryMatchClass, whose loop is at i: in a class whose members begin at start, a ]
\* there is the first of them.
TryMatchClass(p, c, start) ==
    LET class[i \in 1..(Len(p) + 1)] ==
            IF ~Has(p, i) THEN NoClass
            ELSE IF p[i] = "]" /\ i # start THEN [end |-> i + 1, found |-> FALSE]
            ELSE LET matched == IF IsRange(p, i) THEN Code[c] \in Code[p[i]]..Code[p[i + 2]]
                                ELSE p[i] = c
                     rest == class[IF IsRange(p, i) THEN i + 3 ELSE i + 1] IN
                 IF rest = NoClass THEN NoClass ELSE [rest EXCEPT !.found = @ \/ matched] IN
    class[start]

\* What one character of the name is matched against: [ok, next].
Against(p, i, c) ==
    LET negate == Has(p, i + 1) /\ p[i + 1] \in {"!", "^"}
        class == TryMatchClass(p, c, IF negate THEN i + 2 ELSE i + 1) IN
    CASE p[i] = "?" -> [ok |-> TRUE, next |-> i + 1]
      [] p[i] = "[" /\ class # NoClass -> [ok |-> class.found # negate, next |-> class.end]
      [] OTHER -> [ok |-> p[i] = c, next |-> i + 1]

\* The position after the stars that begin at i.
AfterStars(p, i) ==
    CHOOSE j \in i..(Len(p) + 1) :
        (\A k \in i..(j - 1) : p[k] = "*") /\ (Has(p, j) => p[j] # "*")

\* star_pidx = 0 stands for npos, and result is "none" until it returns.
Matching(p, s) == [pattern |-> p, name |-> s, pidx |-> 1, sidx |-> 1,
                   star_pidx |-> 0, star_sidx |-> 0, rounds |-> 0, result |-> "none"]
Done(m, verdict) == [m EXCEPT !.result = IF verdict THEN "yes" ELSE "no"]

\* After a mismatch the last star takes one more character.
BacktrackForgetful(m) == [m EXCEPT !.star_sidx = @ + 1, !.sidx = @ + 1, !.pidx = m.star_pidx]
Backtrack(m) == [m EXCEPT !.star_sidx = @ + 1, !.sidx = m.star_sidx + 1,
                          !.pidx = m.star_pidx]

Advance(m) ==
    LET p == m.pattern  i == m.pidx IN
    IF ~Has(m.name, m.sidx) THEN Done(m, AfterStars(p, i) > Len(p))
    ELSE IF Has(p, i) /\ p[i] = "*"
    THEN IF AfterStars(p, i) > Len(p) THEN Done(m, TRUE)
         ELSE [m EXCEPT !.pidx = AfterStars(p, i), !.star_pidx = AfterStars(p, i),
                        !.star_sidx = m.sidx]
    ELSE IF Has(p, i) /\ Against(p, i, m.name[m.sidx]).ok
    THEN [m EXCEPT !.sidx = @ + 1, !.pidx = Against(p, i, m.name[m.sidx]).next]
    ELSE IF m.star_pidx = 0 THEN Done(m, FALSE) ELSE Backtrack(m)

\* One round of the loop.
Round(m) == [Advance(m) EXCEPT !.rounds = @ + 1]

InitMatch == \E p \in Patterns, s \in Strings : match = Matching(p, s)
MatchRound == match.result = "none" /\ match' = Round(match)
MatchSpec == InitMatch /\ [][MatchRound]_match

-----------------------------------------------------------------------------
(* What a pattern means, by definitions of its own.                        *)

\* Where the class that begins at i closes, 0 if it does not: at the first ]
\* that is not the first of its members.
Negated(p, i) == Has(p, i + 1) /\ p[i + 1] \in {"!", "^"}
First(p, i) == IF Negated(p, i) THEN i + 2 ELSE i + 1
Closes(p, i, k) == /\ p[i] = "[" /\ k \in (First(p, i) + 1)..Len(p) /\ p[k] = "]"
                   /\ \A j \in (First(p, i) + 1)..(k - 1) : p[j] # "]"
IsClass(p, i) == \E k \in 1..Len(p) : Closes(p, i, k)
Closing(p, i) == CHOOSE k \in 1..Len(p) : Closes(p, i, k)

\* Where a member of the class begins: at its first, and after each.
MemberEnd(p, i) == IF IsRange(p, i) THEN i + 2 ELSE i
Starts(p, f, k) ==
    {x \in f..(k - 1) : \A S \in SUBSET (f..k) :
        f \in S /\ (\A y \in S \ {k} : MemberEnd(p, y) + 1 \in S) => x \in S}
IsMember(p, x, c) ==
    IF IsRange(p, x) THEN Code[p[x]] <= Code[c] /\ Code[c] <= Code[p[x + 2]] ELSE p[x] = c
Members(p, i) ==
    {c \in DOMAIN Code : \E x \in Starts(p, First(p, i), Closing(p, i)) : IsMember(p, x, c)}

\* The characters the place at i takes, and the place that follows it.
Takes(p, i, c) ==
    \/ p[i] \in {"*", "?"}
    \/ IsClass(p, i) /\ (c \in Members(p, i) <=> ~Negated(p, i))
    \/ p[i] \notin {"*", "?"} /\ ~IsClass(p, i) /\ c = p[i]
NextPlace(p, i) == IF p[i] = "*" THEN i ELSE IF IsClass(p, i) THEN Closing(p, i) + 1 ELSE i + 1

\* From place i one comes to place k past stars only.
Skips(p, i, k) == i <= k /\ \A x \in i..(k - 1) : p[x] = "*"

\* A pattern means a name if its characters can be shared out among the places in
\* order: each is taken by a place, a star takes as many as it likes, any other one,
\* and only stars take none.  The end of the pattern takes the end of the name.
Reads(p, s, taker) ==
    /\ Skips(p, 1, taker[1])
    /\ \A x \in 1..Len(s) : /\ Takes(p, taker[x], s[x])
                            /\ Skips(p, NextPlace(p, taker[x]), taker[x + 1])
Means(p, s) ==
    \E takers \in [1..Len(s) -> 1..Len(p)] : Reads(p, s, Append(takers, Len(p) + 1))

-----------------------------------------------------------------------------
\* gdrive_glob.hpp: a matcher that is too eager widens a scan, one that is too
\* strict drops files.  The backtracking loop, which only ever returns to the
\* last star, finds a match exactly if there is one, and in "O(pattern * name)
\* worst case, never exponential" rounds.
SegmentsExact ==
    /\ match.result \in {"yes", "no"} =>
         ((match.result = "yes") <=> Means(match.pattern, match.name))
    /\ match.rounds <= (Len(match.pattern) + 1) * (Len(match.name) + 1)
=============================================================================
