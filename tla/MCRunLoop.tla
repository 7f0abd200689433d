----------------------------- MODULE MCRunLoop -----------------------------
(***************************************************************************)
(* Small instances of RunLoop.  Each run fixes a few Config values and the *)
(* replies that make its question interesting.                             *)
(***************************************************************************)
EXTENDS RunLoop

Base == [interactive |-> FALSE, inbox |-> FALSE, system |-> TRUE,
         history |-> <<>>, maxTurns |-> 4, maxCost |-> 0,
         window |-> 0, compaction |-> FALSE, threshold |-> 0, keep |-> 0,
         wrapUp |-> 0, batchNudge |-> 0, incapable |-> 2,
         grace |-> FALSE, terminals |-> 0]

\* A conversation an earlier run left: a batch of two, answered, and a reply.
Earlier == <<User, Assistant(2), ToolResult(2, 1), ToolResult(2, 2), Assistant(0)>>

Empty       == [calls |-> 0, empty |-> TRUE,  prompt |-> 0, cost |-> 1]
Text        == [calls |-> 0, empty |-> FALSE, prompt |-> 0, cost |-> 1]
Tools(n)    == [calls |-> n, empty |-> FALSE, prompt |-> 0, cost |-> 1]
Sized(r, p) == [r EXCEPT !.prompt = p]

----------------------------------------------------------------------------
\* Autonomous runs: the caps, the nudges, the grace call.
AutonomousConfigs ==
  { [Base EXCEPT !.wrapUp = 1, !.batchNudge = 2, !.maxTurns = 5],
    [Base EXCEPT !.wrapUp = 2, !.batchNudge = 1, !.grace = TRUE, !.terminals = 1],
    [Base EXCEPT !.maxTurns = 0, !.batchNudge = 1, !.grace = TRUE, !.terminals = 2, !.maxCost = 2],
    [Base EXCEPT !.maxCost = 2, !.terminals = 1, !.incapable = 0] }
AutonomousReplies == { Empty, Text, Tools(1), Tools(2) }

\* Runs fed by a human, interactive or not.
HumanConfigs ==
  { [Base EXCEPT !.inbox = TRUE, !.terminals = 1, !.maxTurns = 2],
    [Base EXCEPT !.inbox = TRUE, !.interactive = TRUE, !.incapable = 1, !.system = FALSE],
    [Base EXCEPT !.interactive = TRUE] }
HumanReplies == { Empty, Text, Tools(3) }

\* Compaction with every retained length.
WindowConfigs ==
  { [Base EXCEPT !.maxTurns = 3, !.window = 100, !.compaction = TRUE, !.threshold = 60,
                 !.keep = k, !.history = h, !.system = s] :
      k \in -1..4, h \in {<<>>, Earlier}, s \in BOOLEAN }
    \cup { [Base EXCEPT !.window = 100],
           [Base EXCEPT !.window = 100, !.compaction = TRUE, !.threshold = 95, !.keep = 1],
           [Base EXCEPT !.window = 100, !.compaction = TRUE, !.threshold = 60,
                        !.keep = 1, !.inbox = TRUE] }
WindowReplies == { Sized(r, p) : r \in {Empty, Text, Tools(1), Tools(2)}, p \in {10, 70, 90} }

\* The batching nudge and what breaks its streak.
NudgeConfigs == { [Base EXCEPT !.batchNudge = 2] }
NudgeReplies == { Empty, Tools(1) }

\* An autonomous run that a human may interrupt.
StashConfigs == { [Base EXCEPT !.inbox = TRUE, !.incapable = 1, !.maxTurns = 1] }
StashReplies == { Tools(2) }

OneCost == {1}
AllKinds == Kinds
SomeKinds == {"badargs", "plain", "terminal"}
PlainKinds == {"badargs", "plain"}
============================================================================
