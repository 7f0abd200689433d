------------------------------- MODULE Fanout -------------------------------
(***************************************************************************)
(* harness.SpawnSubagents: one goroutine per spec runs a child Harness.Run *)
(* over a shared client, registry and emitter, writes its result to the    *)
(* slot of its spec and leaves the wait group; the caller waits for all.   *)
(*                                                                         *)
(* A child's run is reduced to what its result and its events depend on:   *)
(* turns, the unproductive streak with its evidence, and how it ends.      *)
(* RunLoop has the rest.  Children are autonomous and have no inbox, grace *)
(* turn or cost cap, because SpawnSubagents configures none.  The events   *)
(* of a turn are reduced to the one that starts it; a run that ends emits  *)
(* one more.                                                               *)
(***************************************************************************)
EXTENDS Emitter, Incapable, FiniteSets

CONSTANTS
  Children,    \* the indexes of the specs there may be, 1..n
  Outcomes,    \* what a child's tool batches may come to
  MaxTurns,    \* MaxTurns of each spec, the default where it says 0
  Threshold    \* defaultIncapableThreshold: a fan-out sets no other

\* A turn that called tools: whether a call had arguments that parse, and the
\* arguments that did not.
Outcome == [capable : BOOLEAN, failed : Seq(Payload)]

ASSUME ChildrenAssumption ==
  /\ IsFiniteSet(Children) /\ Children = 1..Cardinality(Children)
  /\ Actors = Children \cup {0}
ASSUME FanoutAssumption ==
  /\ \A c \in Children : Outcomes[c] \subseteq Outcome
  /\ \A c \in Children : MaxTurns[c] \in Nat \ {0}
  /\ Threshold \in Nat \ {0}

Caller == 0

VARIABLES
  specs,     \* how many specs there are
  parent,    \* where SpawnSubagents stands
  started,   \* goroutines started so far
  wg,        \* the wait group's counter
  child,     \* where each child's goroutine stands
  turns, unproductive, window, reason, detail,  \* a child's run
  results,   \* the result slots
  ctxDone,   \* the shared context is done
  history    \* what each child's turns came to, for the observer

spawnVars == <<specs, parent, started, wg>>
streakVars == <<turns, unproductive, window>>
endVars == <<reason, detail>>
runVars == <<streakVars, endVars, history>>

vars == <<emitVars, spawnVars, child, runVars, results, ctxDone>>

Reasons == {"running", "done", "error", "incapable", "max_turns"}
Details == {"none", "concatenated", "identical"}

NoResult == [role |-> 0, reason |-> "running", detail |-> "none", turns |-> 0]

Result == [role : Children, reason : Reasons, detail : Details, turns : Nat]

TypeOK ==
  /\ EmitterTypeOK
  /\ specs \in 0..Cardinality(Children)
  /\ parent \in {"start", "spawn", "returned"}
  /\ started \in 0..specs
  /\ wg \in 0..specs
  /\ child \in [Children -> {"unborn", "top", "ask", "doomed", "return", "done", "gone"}]
  /\ turns \in [Children -> Nat] /\ \A c \in Children : turns[c] <= MaxTurns[c]
  /\ unproductive \in [Children -> 0..Threshold]
  /\ window \in [Children -> Seq(Seq(Payload))]
  /\ reason \in [Children -> Reasons]
  /\ detail \in [Children -> Details]
  /\ results \in [Children -> Result \cup {NoResult}]
  /\ ctxDone \in BOOLEAN
  /\ history \in [Children -> Seq(Outcome)]

Init ==
  /\ EmitterInit
  /\ specs \in 0..Cardinality(Children)
  /\ parent = "start" /\ started = 0 /\ wg = 0
  /\ child = [c \in Children |-> "unborn"]
  /\ turns = [c \in Children |-> 0]
  /\ unproductive = [c \in Children |-> 0]
  /\ window = [c \in Children |-> <<>>]
  /\ reason = [c \in Children |-> "running"]
  /\ detail = [c \in Children |-> "none"]
  /\ results = [c \in Children |-> NoResult]
  /\ ctxDone = FALSE
  /\ history = [c \in Children |-> <<>>]

----------------------------------------------------------------------------
(* The caller's goroutine.                                                 *)

ReturnNothing ==
  /\ parent = "start" /\ specs = 0
  /\ parent' = "returned"
  /\ UNCHANGED <<emitVars, specs, started, wg, child, runVars, results, ctxDone>>

Announce ==
  /\ parent = "start" /\ specs > 0
  /\ Begin(Caller)
  /\ parent' = "spawn"
  /\ UNCHANGED <<specs, started, wg, child, runVars, results, ctxDone>>

Started == parent = "spawn" /\ stage[Caller] = "out"

\* Faulty: the goroutine joins the wait group only when it runs.
SpawnUncounted ==
  /\ Started /\ started < specs
  /\ started' = started + 1
  /\ child' = [child EXCEPT ![started + 1] = "top"]
  /\ UNCHANGED <<emitVars, specs, parent, wg, runVars, results, ctxDone>>

Spawn ==
  /\ Started /\ started < specs
  /\ started' = started + 1
  /\ wg' = wg + 1
  /\ child' = [child EXCEPT ![started + 1] = "top"]
  /\ UNCHANGED <<emitVars, specs, parent, runVars, results, ctxDone>>

Join ==
  /\ Started /\ started = specs /\ wg = 0
  /\ parent' = "returned"
  /\ UNCHANGED <<emitVars, specs, started, wg, child, runVars, results, ctxDone>>

CancelContext ==
  /\ ~ctxDone /\ parent # "returned"
  /\ ctxDone' = TRUE
  /\ UNCHANGED <<emitVars, spawnVars, child, runVars, results>>

----------------------------------------------------------------------------
(* A child's run.                                                          *)

At(c, point) == child[c] = point /\ stage[c] = "out"

\* The run of child c ends; only its stop or error event is left to emit.
End(c, why) ==
  /\ reason' = [reason EXCEPT ![c] = why]
  /\ child' = [child EXCEPT ![c] = "return"]
  /\ Begin(c)

\* A turn starts.  A request issued under a done context cannot succeed.
Request(c) ==
  /\ At(c, "top") /\ turns[c] < MaxTurns[c]
  /\ turns' = [turns EXCEPT ![c] = turns[c] + 1]
  /\ child' = [child EXCEPT ![c] = IF ctxDone THEN "doomed" ELSE "ask"]
  /\ Begin(c)
  /\ UNCHANGED <<spawnVars, unproductive, window, endVars, history, results, ctxDone>>

RunOutOfTurns(c) ==
  /\ At(c, "top") /\ turns[c] = MaxTurns[c]
  /\ End(c, "max_turns")
  /\ UNCHANGED <<spawnVars, streakVars, detail, history, results, ctxDone>>

RequestFails(c) ==
  /\ At(c, "ask") \/ At(c, "doomed")
  /\ End(c, "error")
  /\ UNCHANGED <<spawnVars, streakVars, detail, history, results, ctxDone>>

FinalReply(c) ==
  /\ At(c, "ask")
  /\ End(c, "done")
  /\ UNCHANGED <<spawnVars, streakVars, detail, history, results, ctxDone>>

\* Faulty: a capable turn resets the count and keeps the evidence.
CapableBatchKeepsWindow(c) ==
  /\ At(c, "ask")
  /\ \E o \in Outcomes[c] :
       /\ o.capable
       /\ history' = [history EXCEPT ![c] = Append(history[c], o)]
  /\ unproductive' = [unproductive EXCEPT ![c] = 0]
  /\ child' = [child EXCEPT ![c] = "top"]
  /\ UNCHANGED <<emitVars, spawnVars, turns, window, endVars, results, ctxDone>>

\* A batch with a call whose arguments parse ends the streak.
CapableBatch(c) ==
  /\ At(c, "ask")
  /\ \E o \in Outcomes[c] :
       /\ o.capable
       /\ history' = [history EXCEPT ![c] = Append(history[c], o)]
  /\ unproductive' = [unproductive EXCEPT ![c] = 0]
  /\ window' = [window EXCEPT ![c] = <<>>]
  /\ child' = [child EXCEPT ![c] = "top"]
  /\ UNCHANGED <<emitVars, spawnVars, turns, endVars, results, ctxDone>>

\* A batch none of whose calls had arguments that parse.
UnproductiveBatch(c) ==
  /\ At(c, "ask")
  /\ \E o \in Outcomes[c] :
       /\ ~o.capable
       /\ history' = [history EXCEPT ![c] = Append(history[c], o)]
       /\ window' = [window EXCEPT ![c] = Append(window[c], o.failed)]
  /\ unproductive' = [unproductive EXCEPT ![c] = unproductive[c] + 1]
  /\ IF unproductive[c] + 1 >= Threshold
     THEN /\ detail' = [detail EXCEPT ![c] = ClassifyIncapable(window'[c])]
          /\ End(c, "incapable")
     ELSE /\ child' = [child EXCEPT ![c] = "top"]
          /\ UNCHANGED <<emitVars, endVars>>
  /\ UNCHANGED <<spawnVars, turns, results, ctxDone>>

----------------------------------------------------------------------------
(* The goroutine around it.                                                *)

ResultOf(c) == [role |-> c, reason |-> reason[c], detail |-> detail[c], turns |-> turns[c]]

\* Faulty: results are stored in the order the children end.
StoreInOrderOfEnding(c) ==
  /\ At(c, "return")
  /\ results' = [results EXCEPT ![started - wg + 1] = ResultOf(c)]
  /\ child' = [child EXCEPT ![c] = "done"]
  /\ UNCHANGED <<emitVars, spawnVars, runVars, ctxDone>>

StoreResult(c) ==
  /\ At(c, "return")
  /\ results' = [results EXCEPT ![c] = ResultOf(c)]
  /\ child' = [child EXCEPT ![c] = "done"]
  /\ UNCHANGED <<emitVars, spawnVars, runVars, ctxDone>>

\* Faulty: a child whose run failed does not leave the wait group.
DoneUnlessFailed(c) ==
  /\ child[c] = "done" /\ reason[c] # "error"
  /\ wg' = wg - 1
  /\ child' = [child EXCEPT ![c] = "gone"]
  /\ UNCHANGED <<emitVars, specs, parent, started, runVars, results, ctxDone>>

Done(c) ==
  /\ child[c] = "done"
  /\ wg' = wg - 1
  /\ child' = [child EXCEPT ![c] = "gone"]
  /\ UNCHANGED <<emitVars, specs, parent, started, runVars, results, ctxDone>>

----------------------------------------------------------------------------

Emitting(a) == Emit(a) /\ UNCHANGED <<spawnVars, child, runVars, results, ctxDone>>

CallerStep == ReturnNothing \/ Announce \/ Spawn \/ Join \/ Emitting(Caller)

ChildStep(c) ==
  \/ Request(c) \/ RunOutOfTurns(c) \/ RequestFails(c) \/ FinalReply(c)
  \/ CapableBatch(c) \/ UnproductiveBatch(c)
  \/ StoreResult(c) \/ Done(c) \/ Emitting(c)

\* The fan-out has returned.
Returned == parent = "returned" /\ UNCHANGED vars

Next == CallerStep \/ (\E c \in Children : ChildStep(c)) \/ CancelContext \/ Returned

Spec == Init /\ [][Next]_vars

\* Goroutines are scheduled, a waiting one gets the mutex when the others stop
\* asking for it, and a child's model calls and tools return.
FairSpec == Spec /\ WF_vars(CallerStep) /\ \A c \in Children : WF_vars(ChildStep(c))

----------------------------------------------------------------------------
(* Properties.                                                             *)

\* When SpawnSubagents returns, every spec's slot holds the result of its own
\* child, no goroutine is left running or emitting, and the human was shown
\* every event, whatever the order the children ended in (subagents.go:85
\* writes by index, and Wait follows the last Done).
JoinedComplete ==
  parent = "returned" =>
    /\ \A c \in 1..specs :
         child[c] = "gone" /\ results[c] = ResultOf(c) /\ reason[c] # "running"
    /\ \A c \in Children \ 1..specs : results[c] = NoResult
    /\ \A a \in Actors : stage[a] = "out"
    /\ human = [n \in 1..seq |-> n]

\* The turns since the last one that could drive a tool.
CurrentStreak(c) ==
  LET last == CHOOSE n \in 0..Len(history[c]) :
                /\ n = 0 \/ history[c][n].capable
                /\ \A m \in (n + 1)..Len(history[c]) : ~history[c][m].capable
  IN  SubSeq(history[c], last + 1, Len(history[c]))

PayloadsOf(o) == {o.failed[k] : k \in DOMAIN o.failed}

\* A child is given up exactly when its current streak of unproductive turns
\* reaches the threshold, and the diagnosis is the one those turns alone
\* support: concatenated objects when every turn kept payloads and all of them
\* are concatenations, else identical payloads when every turn kept payloads,
\* there are two turns, and all payloads are the same (harness.go:776-785 with
\* incapable.go:75).
DiagnosisCurrent ==
  \A c \in Children :
    LET streak   == CurrentStreak(c)
        payloads == UNION {PayloadsOf(streak[t]) : t \in DOMAIN streak}
        speaking == streak # <<>> /\ \A t \in DOMAIN streak : PayloadsOf(streak[t]) # {}
        joined   == \A p \in payloads : p.values > 1
        same     == Len(streak) > 1 /\ Cardinality(payloads) = 1
    IN  /\ reason[c] = "incapable" <=> Len(streak) = Threshold
        /\ reason[c] = "incapable" =>
             /\ detail[c] = "concatenated" <=> speaking /\ joined
             /\ detail[c] = "identical" <=> speaking /\ ~joined /\ same
        /\ reason[c] # "incapable" => detail[c] = "none"

\* SpawnSubagents returns, whichever children fail, give up or run out of
\* turns, and whenever the context is cancelled.
FanoutReturns == <>(parent = "returned")
=============================================================================
