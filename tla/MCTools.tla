------------------------------ MODULE MCTools -------------------------------
(***************************************************************************)
(* A small instance of ToolCalls.                                          *)
(***************************************************************************)
EXTENDS ToolCalls

Workspace == <<"ws">>

SeqsOf(S, n) == UNION {[1..k -> S] : k \in 1..n}

\* Every pattern of up to three segments against every path of up to three, in
\* the workspace, and one path outside it.
Patterns == SeqsOf({"a", "*", "**", ""}, 3) \cup {<<".", "", "a">>, <<"a", ".">>}
Paths == {Workspace \o p : p \in SeqsOf({"a", "b"}, 3)} \cup {<<"a", "ws", "b">>}

Matching ==
  [tool : {"fd"}, pattern : Patterns, output : {<<p>> : p \in Paths}, background : {"none"}]

\* Enumerations: none, one that fills the pipe, one with an overlong line.
A == Workspace \o <<"a">>
B == Workspace \o <<"b">>

Enumerating ==
  [tool : Globs, pattern : {<<"a">>},
   output : {<<>>, <<A, B, A, A>>, <<B, Overlong, A, A, A>>}, background : {"none"}]

Numbered == <<A, B, <<"x">>, A, B>>

Searching ==
  [tool : {"grep", "git"}, pattern : {<<>>},
   output : {SubSeq(Numbered, 1, n) : n \in 0..5}, background : {"none"}]

Running ==
  [tool : {"bash"}, pattern : {<<>>},
   output : {SubSeq(Numbered, 1, n) : n \in 0..5}, background : {"none", "group", "escaped"}]

SomeCalls == Matching \cup Enumerating \cup Searching \cup Running

\* Up to four pieces: short, half a page, over the ceiling.
SomeFiles ==
  [kind : {"text"}, pieces : {Append(s, last) : s \in {<<>>} \cup SeqsOf({1, 2, 5}, 4), last \in {0, 1, 2, 5}}]
    \cup [kind : {"binary", "large"}, pieces : {<<1>>}]

\* Up to four characters, of two kinds besides the newline.
SomeContents == {<<>>} \cup SeqsOf({"a", "b", NL}, 4)
SomeStrings  == {<<>>} \cup SeqsOf({"a", NL}, 2)

SomeOffsets == {0, 1, 2, 3, 5, 7}
SomeLimits  == {0, 1, 2, 3}
=============================================================================
