------------------------------ MODULE History ------------------------------
(***************************************************************************)
(* The conversation a run builds up and sends to the model: llm.Message    *)
(* values in a slice.  A message is reduced to what the chat API's         *)
(* ordering rules can tell apart: its role, for an assistant message the   *)
(* number of tool calls it carries, and for a tool message which of its    *)
(* batch's calls it answers (the tool_call_id).                            *)
(***************************************************************************)
EXTENDS Integers, Sequences

Roles == {"system", "user", "assistant", "tool"}

Message == [role : Roles, calls : Nat, call : Nat]

System        == [role |-> "system", calls |-> 0, call |-> 0]
User          == [role |-> "user", calls |-> 0, call |-> 0]
Assistant(n)  == [role |-> "assistant", calls |-> n, call |-> 0]
\* The result of call k of a batch of n.
ToolResult(n, k) == [role |-> "tool", calls |-> n, call |-> k]

\* n user messages in a row: a drained inbox.
Users(n) == [i \in 1..n |-> User]

----------------------------------------------------------------------------
(* What an OpenAI-shaped endpoint accepts.                                 *)

\* m leaves tool calls of its batch unanswered.
IsOpen(m) == \/ m.role = "assistant" /\ m.calls > 0
             \/ m.role = "tool" /\ m.call < m.calls

\* s may be the message right after m: an open batch is answered call by
\* call before anything else, a tool result answers only an open batch, the
\* conversation is opened by the user and two assistant turns never touch.
Follows(m, s) ==
  IF IsOpen(m)
  THEN s.role = "tool" /\ s.calls = m.calls /\ s.call = m.call + 1
  ELSE /\ s.role \in {"user", "assistant"}
       /\ m.role \in {"system", "assistant"} => s.role = "user"

Chain(h) == \A i \in 1..(Len(h) - 1) : Follows(h[i], h[i + 1])

WellFormed(h) == /\ h # <<>>
                 /\ h[1].role \in {"system", "user"}
                 /\ Chain(h)

\* No call of h is left unanswered.
Settled(h) == ~ IsOpen(h[Len(h)])

\* h may be sent: the model is the one to speak.
Sendable(h) == Settled(h) /\ h[Len(h)].role \in {"user", "tool"}

----------------------------------------------------------------------------
(* In-window compaction, compact() in harness/compaction.go.  Positions b  *)
(* are the code's slice indices: h[b + 1] is the first message kept.       *)

SysCount(h) == IF h # <<>> /\ h[1].role = "system" THEN 1 ELSE 0

KeepRecent(keep) == IF keep < 0 THEN 0 ELSE keep

EnoughToSummarize(h, keep) == Len(h) - SysCount(h) - KeepRecent(keep) > 1

\* Faulty: the split is not snapped to a batch.
WalksNowhere(h, keep, b) ==
  b = Len(h) - KeepRecent(keep) /\ b >= SysCount(h)

\* b is where the walk back over a run of tool results ends.
WalksBackTo(h, keep, b) ==
  /\ b \in SysCount(h)..(Len(h) - KeepRecent(keep))
  /\ ~(b > SysCount(h) /\ b < Len(h) /\ h[b + 1].role = "tool")
  /\ \A j \in (b + 1)..(Len(h) - KeepRecent(keep)) :
        j < Len(h) /\ h[j + 1].role = "tool"

\* An assistant with calls that the summary would leave dangling is kept.
PullAssistant(h, b) ==
  IF b > SysCount(h) /\ h[b].role = "assistant" /\ h[b].calls > 0
  THEN b - 1 ELSE b

SplitsAt(h, keep, b) ==
  \E w \in SysCount(h)..Len(h) : WalksBackTo(h, keep, w) /\ b = PullAssistant(h, w)

\* Faulty: the first message to keep is lost.
SummarizedOneOff(h, b) ==
  SubSeq(h, 1, SysCount(h)) \o <<User>> \o SubSeq(h, b + 2, Len(h))

\* The history with h[SysCount + 1 .. b] replaced by one user-role summary.
Summarized(h, b) ==
  SubSeq(h, 1, SysCount(h)) \o <<User>> \o SubSeq(h, b + 1, Len(h))
============================================================================
