------------------------------ MODULE MCStream ------------------------------
(***************************************************************************)
(* Small instances of StreamParser: streams of call fragments, of content  *)
(* tokens, and of reasoning details.                                       *)
(***************************************************************************)
EXTENDS StreamParser

Chunk == [content |-> <<>>, details |-> <<>>, calls |-> <<>>, finish |-> ""]

CallFragments ==
  [index : {0, 1}, id : {"", "a", "b"}, name : {"", "f"}, type : {""},
   args : {<<>>, <<"x">>, <<"y">>}]

CallFeed ==
  {[Chunk EXCEPT !.calls = <<f>>] : f \in CallFragments}
    \cup {[Chunk EXCEPT !.finish = "tool_calls"]}

\* Two calls in one frame, and a call beside Harmony content.
MixedFeed ==
  LET whole(i, id) == [index |-> i, id |-> id, name |-> "f", type |-> "function", args |-> <<"x">>]
  IN  { [Chunk EXCEPT !.calls = <<whole(0, "a"), whole(1, "b")>>],
        [Chunk EXCEPT !.calls = <<whole(1, "a"), whole(0, "b")>>, !.finish = "tool_calls"],
        [Chunk EXCEPT !.calls = <<whole(0, "a"), whole(0, "b")>>, !.content = <<"call">>],
        [Chunk EXCEPT !.content = <<"call", "prose">>, !.finish = "stop"] }

ContentFeed ==
  {[Chunk EXCEPT !.content = <<a, b>>] : a, b \in Tokens}
    \cup {[Chunk EXCEPT !.finish = "stop"]}

Keys ==
  { <<>>, [text |-> Text(<<"p">>)], [text |-> Text(<<"q">>)], [text |-> Text(<<>>)],
    [text |-> Null], [text |-> Other],
    [signature |-> Text(<<"g">>)] }

\* All of them at one index, and a few elsewhere to come in between.
Objects ==
  [kind : {"object"}, index : {0}, type : {NoType, "s", "t"}, keys : Keys]
    \cup [kind : {"object"}, index : {NoIndex, 1}, type : {NoType, "s"},
          keys : {[text |-> Text(<<"p">>)]}]

DetailFeed ==
  LET rest == [index |-> NoIndex, type |-> NoType, keys |-> <<>>]
  IN  {[Chunk EXCEPT !.details = <<f>>] :
         f \in Objects \cup {rest @@ [kind |-> "null"], rest @@ [kind |-> "verbatim"]}}

AllFeeds == {CallFeed, MixedFeed, ContentFeed, DetailFeed}

JustContent == {ContentFeed}
=============================================================================
