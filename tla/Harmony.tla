------------------------------ MODULE Harmony -------------------------------
(***************************************************************************)
(* llm/harmony.go: tool calls taken out of content in the Harmony format.  *)
(* Content is a sequence of tokens: "call" a commentary header up to and   *)
(* with its message token, "final" a final-channel header, "end" one of    *)
(* the framing tokens <|end|>, <|return|> and <|start|>assistant,          *)
(* "analysis" the header of another channel and "other" any other token,   *)
(* both with the word stuck to them, "prose" text without "<|".            *)
(***************************************************************************)
EXTENDS Integers, SequencesExt, Slices

Tokens == {"call", "final", "end", "analysis", "other", "prose"}

\* The content has a channel token at all.
HasChannel(content) ==
  \E i \in DOMAIN content : content[i] \in {"call", "final", "analysis"}

IsFraming(t) == t # "prose"

Headers(content) == {i \in DOMAIN content : content[i] = "call"}

\* The smallest of the positions, and a default when there is none.
FirstOf(positions, default) == IF positions = {} THEN default ELSE Min(positions)

\* Faulty: the last call takes everything that follows.
ArgEndGreedy(content, at) == FirstOf({i \in Headers(content) : i > at}, Len(content) + 1)

\* Where the arguments of the call at the given position end: at the next
\* call's header, or for the last call at the next token of any kind.
ArgEnd(content, at) ==
  IF \E i \in Headers(content) : i > at
  THEN FirstOf({i \in Headers(content) : i > at}, Len(content) + 1)
  ELSE FirstOf({i \in at + 1..Len(content) : IsFraming(content[i])}, Len(content) + 1)

Argument(content, at) == SubSeq(content, at + 1, ArgEnd(content, at) - 1)

\* extractHarmonyToolCalls: the arguments of the calls, in order.
Extracted(content) ==
  Picked([i \in DOMAIN content |-> Argument(content, i)], Headers(content))

\* The positions of the headers and the arguments.
Taken(content) == UNION {at..(ArgEnd(content, at) - 1) : at \in Headers(content)}

\* What is left of the content, without framing (stripHarmonyFraming):
\* final-channel text stays, and nothing but prose.
Rest(content) ==
  Picked(content, {i \in DOMAIN content \ Taken(content) : ~IsFraming(content[i])})
============================================================================
