------------------------------ MODULE RunLoop ------------------------------
(***************************************************************************)
(* harness.Run: the agent loop.  One goroutine asks the model, dispatches  *)
(* the tool calls of its reply and asks again, until a reply, a terminal   *)
(* tool, a cap or a failure ends the run.  The model, the tools, the human *)
(* feeding the inbox and the caller's context are the environment, and     *)
(* every point where the goroutine blocks on one of them is a state.       *)
(*                                                                         *)
(* Metrics (token buckets, call and repair counts, output text) and the    *)
(* rendering of events are left out; the cost is kept because a cap reads  *)
(* it.                                                                     *)
(***************************************************************************)
EXTENDS History

CONSTANTS
  Configs,             \* the Config values a run may be started with
  Replies,             \* the replies the model may give
  CallKinds,           \* what a requested tool call may turn out to be
  SummaryCosts,        \* what a summarize call may cost
  DefaultMaxTurns,     \* defaultMaxTurns
  DefaultIncapable,    \* defaultIncapableThreshold
  ReservedHeadroom,    \* reservedHeadroomTokens
  MaxUserMsgs,         \* bound: messages the human sends
  TurnBound            \* bound: turns of an interactive run before it is cancelled

MaxEmptyRetries     == 2    \* maxEmptyResponseRetries
ContextLimitPercent == 85   \* contextLimitThreshold

Kinds == {"unknown", "badargs", "plain", "readonly", "terminal"}

Reply == [calls : Nat, empty : BOOLEAN, prompt : Nat, cost : Nat]

Config == [interactive : BOOLEAN, inbox : BOOLEAN, system : BOOLEAN,
           history : Seq(Message), maxTurns : Int, maxCost : Nat,
           window : Nat, compaction : BOOLEAN, threshold : Nat, keep : Int,
           wrapUp : Nat, batchNudge : Nat, incapable : Int,
           grace : BOOLEAN, terminals : Nat]

\* A history handed to a run is one an earlier run left, without its system
\* prompt: the conversation so far, with every call answered.
ASSUME ConfigAssumption ==
  \A c \in Configs :
    /\ c \in Config
    /\ c.history # <<>> => /\ WellFormed(c.history)
                           /\ Settled(c.history)
                           /\ c.history[1].role = "user"
ASSUME ReplyAssumption ==
  \A r \in Replies : r \in Reply /\ (r.empty => r.calls = 0)
ASSUME BoundAssumption ==
  /\ CallKinds \subseteq Kinds
  /\ SummaryCosts \subseteq Nat
  /\ DefaultMaxTurns \in Nat \ {0}
  /\ DefaultIncapable \in Nat \ {0}
  /\ ReservedHeadroom \in Nat
  /\ MaxUserMsgs \in Nat
  /\ TurnBound \in Nat

NoReply == [calls |-> 0, empty |-> TRUE, prompt |-> 0, cost |-> 0]

\* The locals of one pass over a tool batch; i calls have been walked, kind
\* is the call being executed.
Batch == [i : Nat, kind : Kinds, interrupted : BOOLEAN, terminated : BOOLEAN,
          capable : BOOLEAN, readOnly : BOOLEAN, images : BOOLEAN]

NewBatch == [i |-> 0, kind |-> "unknown", interrupted |-> FALSE,
             terminated |-> FALSE, capable |-> FALSE, readOnly |-> FALSE,
             images |-> FALSE]

VARIABLES
  cfg,          \* the run's Config
  pc,           \* where the run's goroutine stands
  msgs,         \* the conversation
  turns, cost,  \* Result.Turns; Result.TotalCostUSD, up to the cap
  stop,         \* Result.Reason, "running" before the run returns
  completedBy,  \* who set Result.Completed: "" while nobody did
  nudged, batchNudged, singleBatch, emptyRun, unproductive,
  reply,        \* the reply being acted on
  compacted,    \* its history was replaced by a summary
  batch,        \* the tool batch being walked
  pending,      \* pendingMsgs: drained in mid-batch, not yet delivered
  inbox,        \* what the human sent and the run has not drained
  closed,       \* the inbox is closed
  ctxDone,      \* the caller's context is done
  doomed        \* the call in flight was issued under a done context

\* What an observer of the run records.
VARIABLES
  sent,         \* number of messages the human sent
  delivered,    \* the messages that entered the conversation, in order
  called, answered, \* tool_call and tool_result/tool_repair events of a batch
  reports,      \* terminal tools that ran and succeeded
  touched,      \* the conversation changed since the last turn sent it
  repeats,      \* turns in a row that sent the same conversation again
  streak        \* turns in a row that were one read-only call each

caps     == <<turns, cost>>
result   == <<stop, completedBy>>
nudges   == <<nudged, batchNudged>>
counters == <<singleBatch, emptyRun, unproductive>>
turnVars == <<reply, compacted>>
batchVars == <<batch, called, answered>>
human    == <<inbox, closed, sent>>
sending  == <<touched, repeats>>

vars == <<cfg, pc, msgs, caps, result, nudges, counters, turnVars, batchVars,
          pending, human, ctxDone, doomed, delivered, reports, sending, streak>>

----------------------------------------------------------------------------
(* Configuration read as the code reads it.                                *)

MaxTurns == IF cfg.maxTurns <= 0 /\ ~cfg.interactive
            THEN DefaultMaxTurns ELSE cfg.maxTurns

IncapableThreshold == IF cfg.incapable <= 0 THEN DefaultIncapable ELSE cfg.incapable

\* costCapExceeded
CostCapExceeded == cfg.maxCost > 0 /\ cost >= cfg.maxCost

\* Spending c more.  Only the comparison with the cap is ever read, so the
\* sum stops counting there.
Spend(c) == IF cost + c > cfg.maxCost THEN cfg.maxCost ELSE cost + c

\* effectiveCompactionThreshold
CompactionThreshold ==
  LET fraction == (cfg.threshold * cfg.window) \div 100
      floor    == cfg.window - ReservedHeadroom
  IN  IF floor > 0 /\ floor < fraction THEN floor ELSE fraction

HardStop ==
  LET limit == (ContextLimitPercent * cfg.window) \div 100
  IN  IF cfg.compaction /\ CompactionThreshold > limit
      THEN CompactionThreshold ELSE limit

\* A non-empty reply without calls that nobody can answer ends the run.
Final == ~reply.empty /\ reply.calls = 0 /\ ~cfg.inbox

CompactionDue(r) ==
  /\ cfg.window > 0 /\ cfg.compaction
  /\ ~(~r.empty /\ r.calls = 0 /\ ~cfg.inbox)
  /\ r.prompt >= CompactionThreshold

\* Faulty: the hard stop compares with the compaction threshold.
OverThreshold == cfg.window > 0 /\ ~Final /\ reply.prompt >= CompactionThreshold

OverLimit == cfg.window > 0 /\ ~Final /\ ~compacted /\ reply.prompt >= HardStop

----------------------------------------------------------------------------
(* Steps shared by several handlers.                                       *)

\* The run returns; no step follows.
Return(reason) == pc' = "stopped" /\ stop' = reason

Complete(by) == Return("done") /\ completedBy' = by

\* Faulty: an autonomous run awaits input nobody can give.
FailTurnAwaiting == emptyRun' = 0 /\ pc' = "await" /\ UNCHANGED stop

\* The rest of a turn that fails: failTurn.
FailTurn ==
  /\ emptyRun' = 0
  /\ IF cfg.interactive
     THEN pc' = "await" /\ UNCHANGED stop
     ELSE Return("error")

\* The messages ids enter the conversation, one user_input event each.
Deliver(ids) == delivered' = delivered \o ids

----------------------------------------------------------------------------
(* The human and the caller.                                               *)

Push ==
  /\ cfg.inbox /\ ~closed /\ pc # "stopped"
  /\ sent < MaxUserMsgs
  /\ sent' = sent + 1
  /\ inbox' = Append(inbox, sent + 1)
  /\ UNCHANGED <<cfg, pc, msgs, caps, result, nudges, counters, turnVars,
                 batchVars, pending, closed, ctxDone, doomed, delivered,
                 reports, sending, streak>>

CloseInbox ==
  /\ cfg.inbox /\ ~closed /\ pc # "stopped"
  /\ closed' = TRUE
  /\ UNCHANGED <<cfg, pc, msgs, caps, result, nudges, counters, turnVars,
                 batchVars, pending, inbox, sent, ctxDone, doomed, delivered,
                 reports, sending, streak>>

CancelContext ==
  /\ ~ctxDone /\ pc # "stopped"
  /\ ctxDone' = TRUE
  /\ UNCHANGED <<cfg, pc, msgs, caps, result, nudges, counters, turnVars,
                 batchVars, pending, human, doomed, delivered, reports,
                 sending, streak>>

----------------------------------------------------------------------------
(* Entry and the top of the loop.                                          *)

RejectConfig ==
  /\ pc = "start"
  /\ cfg.interactive /\ ~cfg.inbox
  /\ Return("rejected")
  /\ UNCHANGED <<cfg, msgs, caps, completedBy, nudges, counters, turnVars,
                 batchVars, pending, human, ctxDone, doomed, delivered,
                 reports, sending, streak>>

Seed ==
  /\ pc = "start"
  /\ ~(cfg.interactive /\ ~cfg.inbox)
  /\ msgs' = (IF cfg.system THEN <<System>> ELSE <<>>) \o cfg.history \o <<User>>
  /\ pc' = "top"
  /\ UNCHANGED <<cfg, caps, result, nudges, counters, turnVars, batchVars,
                 pending, human, ctxDone, doomed, delivered, reports,
                 sending, streak>>

TurnsLeft == cfg.interactive \/ turns < MaxTurns

StopAtCostCap ==
  /\ pc = "top"
  /\ TurnsLeft /\ CostCapExceeded
  /\ Return("max_cost")
  /\ UNCHANGED <<cfg, msgs, caps, completedBy, nudges, counters, turnVars,
                 batchVars, pending, human, ctxDone, doomed, delivered,
                 reports, sending, streak>>

LeaveLoop ==
  /\ pc = "top"
  /\ ~TurnsLeft
  /\ pc' = "exhausted"
  /\ UNCHANGED <<cfg, msgs, caps, result, nudges, counters, turnVars,
                 batchVars, pending, human, ctxDone, doomed, delivered,
                 reports, sending, streak>>

\* Faulty: compares after the turn was counted.
WrapUpLate == /\ ~cfg.interactive /\ cfg.wrapUp > 0 /\ ~nudged
              /\ MaxTurns - (turns + 1) = cfg.wrapUp

WrapUpDue == /\ ~cfg.interactive /\ cfg.wrapUp > 0 /\ ~nudged
             /\ MaxTurns - turns = cfg.wrapUp

BatchNudgeDue == /\ cfg.batchNudge > 0 /\ ~batchNudged /\ ~nudged
                 /\ singleBatch >= cfg.batchNudge

\* A turn starts: the inbox is drained, a nudge may be added after it, and
\* the whole conversation goes to the model.
SendTurn(nudge) ==
  /\ pc = "top"
  /\ TurnsLeft /\ ~CostCapExceeded
  /\ cfg.interactive => turns < TurnBound \/ ctxDone
  /\ msgs' = msgs \o Users(Len(inbox)) \o nudge
  /\ inbox' = <<>>
  /\ Deliver(inbox)
  /\ turns' = turns + 1
  /\ pc' = "send"
  /\ doomed' = ctxDone
  /\ touched' = FALSE
  /\ repeats' = IF touched \/ msgs' # msgs THEN 0 ELSE repeats + 1
  /\ UNCHANGED <<cfg, cost, result, counters, turnVars, batchVars, pending,
                 closed, sent, ctxDone, reports, streak>>

StartWrapUpTurn ==
  /\ WrapUpDue
  /\ SendTurn(<<User>>)
  /\ nudged' = TRUE
  /\ UNCHANGED batchNudged

StartBatchNudgeTurn ==
  /\ ~WrapUpDue /\ BatchNudgeDue
  /\ SendTurn(<<User>>)
  /\ batchNudged' = TRUE
  /\ UNCHANGED nudged

StartTurn ==
  /\ ~WrapUpDue /\ ~BatchNudgeDue
  /\ SendTurn(<<>>)
  /\ UNCHANGED nudges

----------------------------------------------------------------------------
(* The model answers, or the call fails after the client's retries.        *)

ModelFails ==
  /\ pc = "send"
  /\ FailTurn
  /\ doomed' = FALSE
  /\ streak' = 0
  /\ UNCHANGED <<cfg, msgs, caps, completedBy, nudges, singleBatch,
                 unproductive, turnVars, batchVars, pending, human, ctxDone,
                 delivered, reports, sending>>

ModelReplies ==
  /\ pc = "send" /\ ~doomed
  /\ \E r \in Replies :
       /\ reply' = r
       /\ cost' = Spend(r.cost)
       /\ pc' = IF CompactionDue(r) THEN "compact" ELSE "judge"
  /\ UNCHANGED <<cfg, msgs, turns, result, nudges, counters, compacted,
                 batchVars, pending, human, ctxDone, doomed, delivered,
                 reports, sending, streak>>

----------------------------------------------------------------------------
(* In-window compaction, before the reply is acted on.                     *)

\* Too little to summarize, or the summarize call failed: no request is
\* billed and the history stands.
CompactionFails ==
  /\ pc = "compact"
  /\ pc' = "judge"
  /\ UNCHANGED <<cfg, msgs, caps, result, nudges, counters, turnVars,
                 batchVars, pending, human, ctxDone, doomed, delivered,
                 reports, sending, streak>>

\* The summarize call answers.  Only a shorter history replaces the old one.
Compact ==
  /\ pc = "compact"
  /\ EnoughToSummarize(msgs, cfg.keep)
  /\ \E b \in (SysCount(msgs) + 1)..Len(msgs), c \in SummaryCosts :
       /\ SplitsAt(msgs, cfg.keep, b)
       /\ cost' = Spend(c)
       /\ LET shrunk == Summarized(msgs, b)
          IN  IF Len(shrunk) < Len(msgs)
              THEN /\ msgs' = shrunk /\ touched' = TRUE
                   /\ compacted' = TRUE /\ emptyRun' = 0
              ELSE UNCHANGED <<msgs, touched, compacted, emptyRun>>
  /\ pc' = "judge"
  /\ UNCHANGED <<cfg, turns, result, nudges, singleBatch, unproductive, reply,
                 batchVars, pending, human, ctxDone, doomed, delivered,
                 reports, repeats, streak>>

StopAtContextLimit ==
  /\ pc = "judge"
  /\ OverLimit
  /\ Return("context_limit")
  /\ UNCHANGED <<cfg, msgs, caps, completedBy, nudges, counters, turnVars,
                 batchVars, pending, human, ctxDone, doomed, delivered,
                 reports, sending, streak>>

----------------------------------------------------------------------------
(* A reply without tool calls.                                             *)

\* The locals of a turn end with it.
EndTurn ==
  /\ pc' = "top"
  /\ reply' = NoReply
  /\ compacted' = FALSE

\* Faulty: one retry too many.
MayRetryOnceMore == emptyRun <= MaxEmptyRetries

MayRetryEmpty == emptyRun < MaxEmptyRetries

RetryEmpty ==
  /\ pc = "judge" /\ ~OverLimit
  /\ reply.empty
  /\ MayRetryEmpty
  /\ emptyRun' = emptyRun + 1
  /\ EndTurn
  /\ streak' = 0
  /\ UNCHANGED <<cfg, msgs, caps, result, nudges, singleBatch, unproductive,
                 batchVars, pending, human, ctxDone, doomed, delivered,
                 reports, sending>>

FailEmpty ==
  /\ pc = "judge" /\ ~OverLimit
  /\ reply.empty
  /\ ~MayRetryEmpty
  /\ FailTurn
  /\ reply' = NoReply /\ compacted' = FALSE
  /\ streak' = 0
  /\ UNCHANGED <<cfg, msgs, caps, completedBy, nudges, singleBatch,
                 unproductive, batchVars, pending, human, ctxDone, doomed,
                 delivered, reports, sending>>

\* The reply is accepted and enters the conversation.
Accept ==
  /\ pc = "judge" /\ ~OverLimit /\ ~reply.empty
  /\ emptyRun' = 0
  /\ msgs' = Append(msgs, Assistant(reply.calls))
  /\ touched' = TRUE

FinishByReply ==
  /\ Accept
  /\ reply.calls = 0 /\ ~cfg.inbox
  /\ Complete("reply")
  /\ singleBatch' = 0 /\ streak' = 0
  /\ UNCHANGED <<cfg, caps, nudges, unproductive, turnVars, batchVars,
                 pending, human, ctxDone, doomed, delivered, reports, repeats>>

\* A natural stop of a run somebody may answer.
Pause ==
  /\ Accept
  /\ reply.calls = 0 /\ cfg.inbox
  /\ pc' = "pause"
  /\ reply' = NoReply /\ compacted' = FALSE
  /\ singleBatch' = 0 /\ streak' = 0
  /\ UNCHANGED <<cfg, caps, result, nudges, unproductive, batchVars, pending,
                 human, ctxDone, doomed, delivered, reports, repeats>>

ContinueWithInbox ==
  /\ pc = "pause"
  /\ inbox # <<>>
  /\ msgs' = msgs \o Users(Len(inbox))
  /\ Deliver(inbox)
  /\ inbox' = <<>>
  /\ pc' = "top"
  /\ UNCHANGED <<cfg, caps, result, nudges, counters, turnVars, batchVars,
                 pending, closed, sent, ctxDone, doomed, reports, sending,
                 streak>>

AwaitHuman ==
  /\ pc = "pause"
  /\ inbox = <<>>
  /\ pc' = "await"
  /\ UNCHANGED <<cfg, msgs, caps, result, nudges, counters, turnVars, batchVars,
                 pending, human, ctxDone, doomed, delivered, reports, sending,
                 streak>>

----------------------------------------------------------------------------
(* Blocked in Inbox.Wait, at a natural stop or in awaitNext.  When several *)
(* of its outcomes are ready, which one it returns is not specified.       *)

WaitGetsMessage ==
  /\ pc = "await"
  /\ inbox # <<>>
  /\ inbox' = Tail(inbox)
  /\ Deliver(<<Head(inbox)>>)
  /\ msgs' = Append(msgs, User)
  /\ touched' = TRUE
  /\ pc' = "top"
  /\ UNCHANGED <<cfg, caps, result, nudges, counters, turnVars, batchVars,
                 pending, closed, sent, ctxDone, doomed, reports, repeats,
                 streak>>

\* Faulty: a Wait that closing the inbox, or cancelling, does not wake.
WaitNeverWakes == FALSE

WaitFindsClosed ==
  /\ pc = "await"
  /\ closed
  /\ Complete("human")
  /\ UNCHANGED <<cfg, msgs, caps, nudges, counters, turnVars, batchVars,
                 pending, human, ctxDone, doomed, delivered, reports, sending,
                 streak>>

WaitCanceled ==
  /\ pc = "await"
  /\ ctxDone
  /\ Return("canceled")
  /\ UNCHANGED <<cfg, msgs, caps, completedBy, nudges, counters, turnVars,
                 batchVars, pending, human, ctxDone, doomed, delivered,
                 reports, sending, streak>>

----------------------------------------------------------------------------
(* The tool batch of a reply, call by call.                                *)

BeginBatch ==
  /\ Accept
  /\ reply.calls > 0
  /\ pc' = "batch"
  /\ batch' = NewBatch
  /\ called' = 0 /\ answered' = 0
  /\ UNCHANGED <<cfg, caps, result, nudges, singleBatch, unproductive,
                 turnVars, pending, human, ctxDone, doomed, delivered,
                 reports, repeats, streak>>

\* The tool message of the call at hand enters the conversation together
\* with its tool_result or tool_repair event.
AnswerCall ==
  /\ msgs' = Append(msgs, ToolResult(reply.calls, batch.i + 1))
  /\ answered' = answered + 1

CallsLeft == pc = "batch" /\ batch.i < reply.calls

\* A call that is never dispatched, after an interjection or after a
\* terminal call: skipToolCall.
SkipCall ==
  /\ CallsLeft
  /\ batch.interrupted \/ batch.terminated
  /\ AnswerCall
  /\ called' = called + 1
  /\ batch' = [batch EXCEPT !.i = @ + 1]
  /\ UNCHANGED <<cfg, pc, caps, result, nudges, counters, turnVars, pending,
                 human, ctxDone, doomed, delivered, reports, sending, streak>>

\* Faulty: calls after a terminal call still run.
MayDispatchAfterEnd == CallsLeft /\ ~batch.interrupted

MayDispatch == CallsLeft /\ ~batch.interrupted /\ ~batch.terminated

\* No such tool, or arguments that do not parse: answered without running.
RefuseCall ==
  /\ MayDispatch
  /\ {"unknown", "badargs"} \cap CallKinds # {}
  /\ called' = called + 1
  /\ AnswerCall
  /\ pc' = "between"
  /\ UNCHANGED <<cfg, caps, result, nudges, counters, turnVars, batch, pending,
                 human, ctxDone, doomed, delivered, reports, sending, streak>>

\* The arguments parse and the tool starts: the model is capable, whatever
\* the tool returns.
Dispatch ==
  /\ MayDispatch
  /\ \E k \in CallKinds \cap {"plain", "readonly", "terminal"} :
       /\ k = "terminal" => cfg.terminals > 0
       /\ batch' = [batch EXCEPT !.kind = k, !.capable = TRUE,
                                 !.readOnly = @ \/ k = "readonly"]
  /\ called' = called + 1
  /\ pc' = "exec"
  /\ UNCHANGED <<cfg, msgs, caps, result, nudges, counters, turnVars, answered,
                 pending, human, ctxDone, doomed, delivered, reports, sending,
                 streak>>

ToolFails ==
  /\ pc = "exec"
  /\ AnswerCall
  /\ pc' = "between"
  /\ UNCHANGED <<cfg, caps, result, nudges, counters, turnVars, batch, called,
                 pending, human, ctxDone, doomed, delivered, reports, sending,
                 streak>>

ToolSucceeds ==
  /\ pc = "exec"
  /\ AnswerCall
  /\ \E image \in BOOLEAN :
       batch' = [batch EXCEPT !.images = @ \/ image,
                              !.terminated = (batch.kind = "terminal")]
  /\ reports' = IF batch.kind = "terminal" THEN reports + 1 ELSE reports
  /\ pc' = "between"
  /\ UNCHANGED <<cfg, caps, result, nudges, counters, turnVars, called, pending,
                 human, ctxDone, doomed, delivered, sending, streak>>

\* Faulty: an interjection enters the conversation between tool results.
NextCallInterjecting ==
  /\ pc = "between"
  /\ batch' = [batch EXCEPT !.i = @ + 1, !.interrupted = @ \/ inbox # <<>>]
  /\ msgs' = msgs \o Users(Len(inbox))
  /\ Deliver(inbox)
  /\ inbox' = <<>>
  /\ pc' = "batch"
  /\ UNCHANGED <<cfg, caps, result, nudges, counters, turnVars, called, answered,
                 pending, closed, sent, ctxDone, doomed, reports, sending, streak>>

\* After each dispatched call: input that arrived meanwhile interrupts the
\* batch, when there are calls left to skip.
NextCall ==
  /\ pc = "between"
  /\ LET interrupt == /\ cfg.inbox /\ ~batch.terminated
                       /\ batch.i < reply.calls - 1 /\ inbox # <<>>
     IN  /\ batch' = [batch EXCEPT !.i = @ + 1, !.interrupted = @ \/ interrupt]
         /\ pending' = IF interrupt THEN inbox ELSE pending
         /\ inbox' = IF interrupt THEN <<>> ELSE inbox
  /\ pc' = "batch"
  /\ UNCHANGED <<cfg, msgs, caps, result, nudges, counters, turnVars, called,
                 answered, closed, sent, ctxDone, doomed, delivered, reports,
                 sending, streak>>

\* Faulty: a terminal call ends the run in mid-batch.
BatchCutShort == pc = "batch" /\ (batch.i >= reply.calls \/ batch.terminated)

BatchWalked == pc = "batch" /\ batch.i >= reply.calls

FinishByTool ==
  /\ BatchWalked /\ batch.terminated
  /\ Complete("tool")
  /\ UNCHANGED <<cfg, msgs, caps, nudges, counters, turnVars, batchVars,
                 pending, human, ctxDone, doomed, delivered, reports, sending,
                 streak>>

\* The batch shape the batching nudge counts.
CountShape ==
  LET lookup == reply.calls = 1 /\ batch.readOnly
  IN  /\ singleBatch' = IF lookup THEN singleBatch + 1 ELSE 0
      /\ streak' = IF lookup THEN streak + 1 ELSE 0

\* Faulty: the stash goes out of scope with the batch.
EndBatchForgetting ==
  /\ EndTurn
  /\ batch' = NewBatch
  /\ called' = 0 /\ answered' = 0
  /\ pending' = <<>> /\ UNCHANGED delivered

EndBatch ==
  /\ EndTurn
  /\ batch' = NewBatch
  /\ called' = 0 /\ answered' = 0
  /\ Deliver(pending)
  /\ pending' = <<>>

\* A batch in which some call could run, or not yet one unproductive batch
\* too many: images first, then what the human interjected.
ContinueAfterBatch ==
  /\ BatchWalked /\ ~batch.terminated
  /\ batch.capable \/ unproductive + 1 < IncapableThreshold
  /\ CountShape
  /\ unproductive' = IF batch.capable THEN 0 ELSE unproductive + 1
  /\ msgs' = msgs \o (IF batch.images THEN <<User>> ELSE <<>>)
                  \o Users(Len(pending))
  /\ EndBatch
  /\ UNCHANGED <<cfg, caps, result, nudges, emptyRun, human, ctxDone, doomed,
                 reports, sending>>

Incapable == /\ BatchWalked /\ ~batch.terminated
             /\ ~batch.capable /\ unproductive + 1 >= IncapableThreshold

StopIncapable ==
  /\ Incapable /\ ~cfg.interactive
  /\ CountShape
  /\ unproductive' = unproductive + 1
  /\ Return("incapable")
  /\ UNCHANGED <<cfg, msgs, caps, completedBy, nudges, emptyRun, turnVars,
                 batchVars, pending, human, ctxDone, doomed, delivered,
                 reports, sending>>

\* In an interactive run the interjection is the recovery input.
RecoverWithPending ==
  /\ Incapable /\ cfg.interactive /\ pending # <<>>
  /\ CountShape
  /\ unproductive' = 0
  /\ msgs' = msgs \o Users(Len(pending))
  /\ EndBatch
  /\ UNCHANGED <<cfg, caps, result, nudges, emptyRun, human, ctxDone, doomed,
                 reports, sending>>

AwaitRecovery ==
  /\ Incapable /\ cfg.interactive /\ pending = <<>>
  /\ CountShape
  /\ unproductive' = 0
  /\ pc' = "await"
  /\ reply' = NoReply /\ compacted' = FALSE
  /\ batch' = NewBatch
  /\ called' = 0 /\ answered' = 0
  /\ UNCHANGED <<cfg, msgs, caps, result, nudges, emptyRun, pending, human,
                 ctxDone, doomed, delivered, reports, sending>>

----------------------------------------------------------------------------
(* Past the last turn: graceFinish and the max_turns stop.                 *)

\* Faulty: the grace gate forgets the budget.
GraceDueAnyway == cfg.grace /\ ~cfg.interactive /\ cfg.terminals > 0

GraceDue == cfg.grace /\ ~cfg.interactive /\ ~CostCapExceeded /\ cfg.terminals > 0

StopAtMaxTurns ==
  /\ pc = "exhausted"
  /\ ~GraceDue
  /\ Return("max_turns")
  /\ UNCHANGED <<cfg, msgs, caps, completedBy, nudges, counters, turnVars,
                 batchVars, pending, human, ctxDone, doomed, delivered,
                 reports, sending, streak>>

\* One call that offers and forces the terminal tools.  Its synthetic user
\* message is not part of the conversation the run leaves.
AskGrace ==
  /\ pc = "exhausted" /\ GraceDue
  /\ pc' = "graceForced"
  /\ doomed' = ctxDone
  /\ UNCHANGED <<cfg, msgs, caps, result, nudges, counters, turnVars, batchVars,
                 pending, human, ctxDone, delivered, reports, sending, streak>>

\* The gateway rejects the forced choice: once more without it.
GraceUnforced ==
  /\ pc = "graceForced" /\ ~doomed
  /\ pc' = "gracePlain"
  /\ doomed' = ctxDone
  /\ UNCHANGED <<cfg, msgs, caps, result, nudges, counters, turnVars, batchVars,
                 pending, human, ctxDone, delivered, reports, sending, streak>>

GraceFails ==
  /\ pc \in {"graceForced", "gracePlain"}
  /\ doomed' = FALSE
  /\ Return("max_turns")
  /\ UNCHANGED <<cfg, msgs, caps, completedBy, nudges, counters, turnVars,
                 batchVars, pending, human, ctxDone, delivered, reports,
                 sending, streak>>

GraceReplies ==
  /\ pc \in {"graceForced", "gracePlain"} /\ ~doomed
  /\ \E r \in Replies : reply' = r /\ cost' = Spend(r.cost)
  /\ batch' = NewBatch
  /\ pc' = "graceCalls"
  /\ UNCHANGED <<cfg, msgs, turns, result, nudges, counters, compacted, called,
                 answered, pending, human, ctxDone, doomed, delivered, reports,
                 sending, streak>>

GraceCallsLeft == pc = "graceCalls" /\ batch.i < reply.calls

\* Not a terminal tool, or arguments that do not parse.
GraceIgnores ==
  /\ GraceCallsLeft
  /\ batch' = [batch EXCEPT !.i = @ + 1]
  /\ UNCHANGED <<cfg, pc, msgs, caps, result, nudges, counters, turnVars, called,
                 answered, pending, human, ctxDone, doomed, delivered, reports,
                 sending, streak>>

GraceToolFails ==
  /\ GraceCallsLeft
  /\ "terminal" \in CallKinds
  /\ batch' = [batch EXCEPT !.i = @ + 1]
  /\ called' = called + 1 /\ answered' = answered + 1
  /\ UNCHANGED <<cfg, pc, msgs, caps, result, nudges, counters, turnVars,
                 pending, human, ctxDone, doomed, delivered, reports, sending,
                 streak>>

GraceToolSucceeds ==
  /\ GraceCallsLeft
  /\ "terminal" \in CallKinds
  /\ reports' = reports + 1
  /\ called' = called + 1 /\ answered' = answered + 1
  /\ Complete("grace")
  /\ UNCHANGED <<cfg, msgs, caps, nudges, counters, turnVars, batch, pending,
                 human, ctxDone, doomed, delivered, sending, streak>>

GraceDeclined ==
  /\ pc = "graceCalls" /\ batch.i >= reply.calls
  /\ Return("max_turns")
  /\ UNCHANGED <<cfg, msgs, caps, completedBy, nudges, counters, turnVars,
                 batchVars, pending, human, ctxDone, doomed, delivered,
                 reports, sending, streak>>

----------------------------------------------------------------------------

Init ==
  /\ cfg \in Configs
  /\ pc = "start" /\ msgs = <<>>
  /\ turns = 0 /\ cost = 0
  /\ stop = "running" /\ completedBy = ""
  /\ nudged = FALSE /\ batchNudged = FALSE
  /\ singleBatch = 0 /\ emptyRun = 0 /\ unproductive = 0
  /\ reply = NoReply /\ compacted = FALSE
  /\ batch = NewBatch /\ called = 0 /\ answered = 0
  /\ pending = <<>>
  /\ inbox = <<>> /\ closed = FALSE /\ sent = 0
  /\ ctxDone = FALSE /\ doomed = FALSE
  /\ delivered = <<>> /\ reports = 0
  /\ touched = TRUE /\ repeats = 0 /\ streak = 0

\* The run's goroutine.
RunStep ==
  \/ RejectConfig \/ Seed
  \/ StopAtCostCap \/ LeaveLoop
  \/ StartWrapUpTurn \/ StartBatchNudgeTurn \/ StartTurn
  \/ ModelFails \/ ModelReplies
  \/ CompactionFails \/ Compact \/ StopAtContextLimit
  \/ RetryEmpty \/ FailEmpty
  \/ FinishByReply \/ Pause \/ ContinueWithInbox \/ AwaitHuman
  \/ WaitGetsMessage \/ WaitFindsClosed \/ WaitCanceled
  \/ BeginBatch \/ SkipCall \/ RefuseCall \/ Dispatch
  \/ ToolFails \/ ToolSucceeds \/ NextCall
  \/ FinishByTool \/ ContinueAfterBatch
  \/ StopIncapable \/ RecoverWithPending \/ AwaitRecovery
  \/ StopAtMaxTurns \/ AskGrace \/ GraceUnforced \/ GraceFails \/ GraceReplies
  \/ GraceIgnores \/ GraceToolFails \/ GraceToolSucceeds \/ GraceDeclined

Environment == Push \/ CloseInbox \/ CancelContext

\* Run returned: nothing more happens.
Returned == pc = "stopped" /\ UNCHANGED vars

Next == RunStep \/ Environment \/ Returned

Spec == Init /\ [][Next]_vars

\* The goroutine is scheduled, model calls and tools return.  Nothing is
\* assumed of the human or of the caller.
FairSpec == Spec /\ WF_vars(RunStep)

----------------------------------------------------------------------------
(* Types.                                                                  *)

Points == {"start", "top", "send", "compact", "judge", "pause", "await",
           "batch", "exec", "between", "exhausted", "graceForced",
           "gracePlain", "graceCalls", "stopped"}

Reasons == {"running", "rejected", "done", "max_turns", "max_cost",
            "context_limit", "incapable", "error", "canceled"}

\* Every variable keeps its type; the counters never leave the naturals.
TypeOK ==
  /\ cfg \in Configs /\ pc \in Points
  /\ msgs \in Seq(Message)
  /\ turns \in Nat /\ cost \in Nat
  /\ stop \in Reasons
  /\ completedBy \in {"", "reply", "human", "tool", "grace"}
  /\ nudged \in BOOLEAN /\ batchNudged \in BOOLEAN
  /\ singleBatch \in Nat /\ emptyRun \in 0..MaxEmptyRetries /\ unproductive \in Nat
  /\ reply \in Replies \cup {NoReply} /\ compacted \in BOOLEAN
  /\ batch \in Batch /\ called \in Nat /\ answered \in Nat
  /\ pending \in Seq(Nat) /\ inbox \in Seq(Nat) /\ delivered \in Seq(Nat)
  /\ closed \in BOOLEAN /\ sent \in Nat
  /\ ctxDone \in BOOLEAN /\ doomed \in BOOLEAN
  /\ reports \in Nat /\ touched \in BOOLEAN /\ repeats \in Nat /\ streak \in Nat

----------------------------------------------------------------------------
(* Safety.                                                                 *)

Seeded == pc # "start" /\ stop # "rejected"

\* The conversation a run builds is one the chat API accepts, through
\* interjections, skipped calls, images, nudges, compaction and every kind of
\* stop: tool results right after the calls they answer and in their order,
\* no user message between them, two assistant turns never in a row.  The
\* model is asked, by a turn or the grace call, only with every call
\* answered, and no run leaves an unanswered call behind.
ConversationOK ==
  Seeded =>
    /\ WellFormed(msgs)
    /\ pc \in {"top", "send", "compact", "judge", "exhausted", "graceForced",
               "gracePlain"} => Sendable(msgs)
    /\ pc \in {"pause", "await", "stopped"} => Settled(msgs)

\* Every tool_call event is paired with one tool_result or tool_repair event,
\* the one that is open is the call being executed, and no batch is left with
\* a call that has neither (harness.go 604-743, skipToolCall).
CallsPaired ==
  /\ called = IF pc = "exec" THEN answered + 1 ELSE answered
  /\ BatchWalked \/ stop = "incapable" \/ completedBy = "tool"
       => answered = reply.calls

\* A terminal tool reports completion at most once, and a run whose terminal
\* tool reported ends as completed by it, with that call's arguments, whatever
\* the rest of the batch, the human or the caps do (harness.go 641-650,
\* 748-756, graceturn.go 102-107).
ReportsOnce ==
  /\ reports <= 1
  /\ reports = 1 => pc \in {"batch", "between", "stopped"}
  /\ pc = "stopped" => (reports = 1 <=> completedBy \in {"tool", "grace"})

\* Human input is neither lost, duplicated nor reordered: what was sent is
\* what entered the conversation, then what a batch has stashed, then what is
\* still in the inbox.  A stash is delivered before the model is asked again or
\* the human is waited for, and no run that ends other than incapable drops it
\* (harness.go 737-742, 851-856).
InputDelivered ==
  /\ delivered \o pending \o inbox = [k \in 1..sent |-> k]
  /\ pc \in {"top", "send", "compact", "judge", "pause", "await", "exhausted",
             "graceForced", "gracePlain", "graceCalls"} => pending = <<>>
  /\ pc = "stopped" /\ stop # "incapable" => pending = <<>>

\* The wrap-up nudge is given on the turn that starts with WrapUpTurns left,
\* never earlier and never missed, whatever failed or was retried before.
WrapUpOnTime ==
  ~cfg.interactive /\ cfg.wrapUp > 0 =>
    (nudged <=> cfg.wrapUp <= MaxTurns /\ turns > MaxTurns - cfg.wrapUp)

\* The same conversation is sent at most maxEmptyResponseRetries + 1 times:
\* a model that answers nothing is not asked for ever (harness.go 531-544).
RepeatsBounded == repeats <= MaxEmptyRetries

\* The reason a run reports is true of it (Result.Reason, Result.Completed).
ReasonJustified ==
  pc = "stopped" =>
    /\ stop = "done" <=> completedBy # ""
    /\ completedBy = "reply" => ~cfg.inbox /\ ~IsOpen(msgs[Len(msgs)])
    /\ completedBy = "human" => cfg.inbox /\ closed
    /\ completedBy = "grace" => turns = MaxTurns /\ ~cfg.interactive
    /\ stop = "max_turns" => turns = MaxTurns /\ ~cfg.interactive
    /\ stop = "max_cost" => cfg.maxCost > 0 /\ cost >= cfg.maxCost
    /\ stop = "context_limit" => /\ reply.prompt >= HardStop
                                 /\ msgs[Len(msgs)].role # "assistant"
    /\ stop = "incapable" => /\ ~cfg.interactive
                             /\ unproductive >= IncapableThreshold
    /\ stop = "error" => ~cfg.interactive
    /\ stop = "canceled" => ctxDone /\ cfg.inbox

\* A stashed interjection is delivered whatever ends the run: the comment at
\* harness.go:740 ("stash; appended after the loop").
StashNeverDropped == pc = "stopped" => pending = <<>>

----------------------------------------------------------------------------
(* Action properties.                                                      *)

\* Once the cost has reached the cap no further turn and no grace call is
\* started, in either mode (costCapExceeded at both gates).
StaysInBudget ==
  CostCapExceeded => /\ turns' = turns
                     /\ pc' \in {"graceForced", "gracePlain"} =>
                          pc \in {"graceForced", "gracePlain"}
NoTurnOverBudget == [][StaysInBudget]_vars

Grows == Len(msgs') >= Len(msgs) /\ SubSeq(msgs', 1, Len(msgs)) = msgs

Condenses ==
  /\ pc = "compact" /\ Len(msgs') < Len(msgs)
  /\ SysCount(msgs') = SysCount(msgs)
  /\ \A j \in 0..(KeepRecent(cfg.keep) - 1) :
        msgs'[Len(msgs') - j] = msgs[Len(msgs) - j]

\* Compaction makes the conversation strictly shorter, keeps the system
\* prompt and at least the configured number of recent messages verbatim, and
\* is the only step that takes anything out of the conversation.
OnlyCompactionForgets == [][Grows \/ Condenses]_vars

\* The batching nudge says the last turns were one read-only lookup each, and
\* they were: "any other turn shape resets the count" (Config.BatchNudgeTurns).
BatchNudgeTruthful ==
  [][batchNudged' # batchNudged => streak >= cfg.batchNudge]_vars

----------------------------------------------------------------------------
(* The run as the chat API sees it.                                        *)

Owed(h) ==
  IF h # <<>> /\ IsOpen(h[Len(h)]) THEN h[Len(h)].calls - h[Len(h)].call ELSE 0

Speaker(h) == IF h = <<>> THEN "nobody" ELSE h[Len(h)].role

Asking == {"send", "compact", "judge", "graceForced", "gracePlain", "graceCalls"}

Phase == IF pc \in Asking THEN "asking" ELSE IF pc = "stopped" THEN "over" ELSE "open"

Chat == INSTANCE ChatProtocol WITH
          phase    <- Phase,
          owed     <- Owed(msgs),
          speaker  <- Speaker(msgs)

\* Run keeps the chat API's protocol: tool results are paid one by one right
\* after the reply that owes them, and asking, interjecting, compacting and
\* stopping happen only with no debt.
KeepsProtocol == Chat!Spec

----------------------------------------------------------------------------
(* Liveness.                                                               *)

Over == pc = "stopped"

\* A run nobody can answer ends, whatever the model replies and whatever fails.
AutonomousEnds == ~cfg.inbox ~> Over

\* Without Interactive, a closed inbox is enough for the run to end.
ClosedRunEnds == (closed /\ ~cfg.interactive) ~> Over

\* A done context ends every run, an interactive one included.
CancelEnds == ctxDone ~> Over
============================================================================
