------------------------------- MODULE MCGlob -------------------------------
(* GDriveGlob on every pattern of up to four characters for single names,  *)
(* on chosen globs over trees of up to two levels with shared names, and   *)
(* on every address of up to four symbols.                                 *)
EXTENDS GDriveGlob

Codes == [c \in {"!", "*", ",", "-", "/", "?", "[", "]", "a", "b", "{", "}",
               ".", "1", "2", "3", "id:"} |->
    CASE c = "!" -> 33 [] c = "*" -> 42 [] c = "," -> 44 [] c = "-" -> 45
      [] c = "/" -> 47 [] c = "?" -> 63 [] c = "[" -> 91 [] c = "]" -> 93
      [] c = "a" -> 97 [] c = "b" -> 98 [] c = "{" -> 123 [] c = "}" -> 125
      [] c = "." -> 46 [] c = "1" -> 49 [] c = "2" -> 50 [] c = "3" -> 51 [] c = "id:" -> 0]

UpTo(n, S) == UNION {[1..k -> S] : k \in 0..n}

SomePatterns == UpTo(4, {"a", "*", "[", "]", "-", "!"}) \cup UpTo(4, {"a", "b", "*", "?"})
SomeStrings == UpTo(3, {"a", "b"}) \cup UpTo(2, {"a", "]", "-"})

A == <<"a">>
B == <<"b">>
Top == <<"3", "3">>
One == <<"1">>
Two == <<"2">>
Three == <<"3">>
File(id, f, n) == [id |-> id, parent |-> f, name |-> n, folder |-> FALSE]
Folder(id, f, n) == [id |-> id, parent |-> f, name |-> n, folder |-> TRUE]
SomeEntries ==
    {File(One, Top, A), File(Two, Top, A), Folder(Three, Top, B), Folder(One \o One, Top, B),
     File(One \o Two, Three, A), File(One \o Three, One \o One, B), Folder(Two \o One, Three, B),
     File(Two \o Two, Two \o One, A), File(Two \o Three, Top, <<"[", "a", "]">>),
     File(Three \o One, Top, B)}

\* What DuckDB makes of id:a that does not exist, and texts one symbol away.
Probe == <<"id:", "a", "/", "*", "*", "/", "*", ".", "a">>
NearProbe ==
    UNION {{SubSeq(Probe, 1, i - 1) \o x \o SubSeq(Probe, i + 1, Len(Probe)) :
              x \in {<<>>, <<"/">>, <<"*">>, <<"a">>, <<Probe[i], "/">>, <<Probe[i], "a">>}} :
           i \in DOMAIN Probe}
SomeTexts == UpTo(4, {"id:", "/", ".", "a"}) \cup NearProbe
SomePrefixes == {<<>>, A, <<"a", "/">>, <<"a", "/", "a">>, <<".", ".">>}

Bare == {g \in UpTo(4, {"a", "b", "*", "/"}) :
           \A s \in {SplitOnSlash(g)[i] : i \in DOMAIN SplitOnSlash(g)} : s # <<>>}
Chosen ==
    {<<>>, <<"id:", "1">>, <<"id:", "2", "1">>, <<"{", "id:", "1", ",", "a", "}">>,
     <<"{", ".", ",", "b", "}">>, <<"[", "a", "]">>, <<"[", "!", "a", "]">>, <<"?">>, <<"[", "a">>, <<"b", "/", "?">>,
     <<"{", "a", ",", "b", "}">>, <<"{", "a", ",", "*", "}">>, <<"{", "a", ",", "a", "}">>,
     <<"b", "/", "{", "a", ",", "b", "}">>, <<"{", "b", ",", "b", "/", "b", "}", "/", "a">>,
     <<"{", "a", ",", "b", "}", "{", "a", ",", "b", "}">>, <<"{", "a">>, <<"a", "}", "*">>,
     <<"{", "a", ",", "{", "b", ",", "*", "}", "}">>,
     <<"{", "{", "a", ",", "b", "}", "/", "*", ",", "*", "}">>,
     <<"{", "[", "a", "]", ",", "b", "}">>, <<"b", "*", "/", "*", "*", "/", "a">>,
     <<"{", "{", "{", "a", "}", "}", "}">>,
     <<"{", "a", ",", "b", ",", "*", "}", "{", ",", "a", ",", "b", "}">>}
SomeGlobs == Bare \cup Chosen
=============================================================================
