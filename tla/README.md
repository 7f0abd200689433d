# Verification of contextmatrix-harness

TLA+ models of the agent harness, model-checked with TLC and, for the core, proved with
TLAPS. Paths and line numbers are relative to the repository's root.

    tlc -workers 2 -config RunHuman.cfg MCRunLoop.tla     # model-check one run
    tlapm RunSafetyProofs.tla                             # check one module's proofs

1. The system and its parts
2. Modules
3. Properties, and the hazards they are for
4. Runs: what each shows, its bounds, its fairness
5. Where code and documentation disagree
6. Proofs
7. What is not modelled, and why
8. Plan

## 1. The system and its parts

The harness is a library. A caller hands `harness.Run` a model client, a registry of
tools, an event emitter and a `Config`; `Run` asks the model, executes the tool calls of
its reply, appends their results and asks again, until a reply without calls, a terminal
tool, a cap or a failure ends the run. A human may feed messages through an `Inbox`.

| Part | State it keeps | Operations | Interacts with |
|---|---|---|---|
| Run loop, `src/harness/harness.go` | conversation, turn and cost counters, empty/unproductive/single-lookup counters, nudge flags, the stash of a batch | one turn; tool batch; awaitNext; failTurn; caps | client (call), tools (call), inbox (Drain/Wait), context, emitter |
| Compaction, `compaction.go` | none (rewrites the conversation) | split, summarize, replace | run loop, client |
| Grace turn, `graceturn.go` | none | one forced call, one unforced retry, first terminal tool | run loop, client, tools |
| Reasoning replay, `replay.go` | none (reads the conversation) | pick a pin, filter details, retry a 400 once without | run loop, client |
| Incapable classifier, `incapable.go` | window of failed payloads (in the loop) | classify a streak | run loop |
| Subagents, `subagents.go` | result slots, the wait group | fan out, join | run loops in parallel, one emitter |
| Model client, `src/llm/client.go`, `retry.go`, `stall.go` | attempt counters, the last response, whether anything was delivered | Send, SendStream, doWithRetry, backoff, stall timer | endpoint, context, the delta callback |
| Stream parser, `sse.go` | accumulators of content, calls, details, finish | one frame; end of stream | client, delta callback |
| Details accumulator, `reasoning.go` | open entry per index, per-key concatenation | add a fragment | stream parser |
| Harmony normalization, `harmony.go` | none | extract calls, strip framing | stream parser, Send |
| Emitter, `src/events/events.go` | sequence number under a mutex | Emit | every part |
| Commands: bash, grep, git, glob, `src/tools/` | a subprocess, its pipe, a capped buffer | start, copy, wait, time out, kill | subprocesses, the caller's context |
| Files: read, write, edit, `src/tools/` | none between calls | one page; one change | file system |
| Redaction, TLS, catalog, dialects | none | pure or one-shot I/O | client, caller |

What is hard here is concurrency and order at the few points where a run blocks, and the
counters that several paths touch:

* a human message can arrive at any moment: while the model is asked, between two calls
  of a batch, while a tool runs, or after the inbox was last drained;
* the context can be cancelled, and the inbox closed, at any moment;
* a tool batch can be cut by an interjection or by a terminal tool in its middle, and the
  chat API still demands one result per call, in order, with nothing in between;
* compaction replaces history between a reply and acting on it, so the reply's measured
  prompt size and the retry counters become stale;
* two retry loops nest in the client, a stream may break after it delivered, and the
  Retry-After of one response must not outlive it;
* children of a fan-out end in any order while they write one slice, share one emitter and
  one context;
* a command's exit, its timer and the caller's cancellation race, and what the command left
  behind may hold the pipe that the call still reads;
* fragments of calls and of signed reasoning interleave in a stream and may stop anywhere.

Correctness, part by part: the conversation is always acceptable to the API and input is
never lost (run loop); compaction forgets nothing recent (compaction); completion is
reported once (grace turn, terminal tools); signed reasoning goes only where it was
produced (replay); what a caller was shown is the reply, budgets do not multiply, and
calls return (client); what is assembled is what was sent (parser, accumulator); the join is complete and each
event is recorded as if in one step (subagents, emitter); a diagnosis rests on the current
streak (classifier); a tool call returns, leaves nothing behind that it was to stop, does not
pass a part off as the whole, and says what it changed (tools).

## 2. Modules

| Module | Models | Correspondence |
|---|---|---|
| `History` | the conversation (`[]llm.Message`) and `compact` | a message is its role, the size of its batch and which call it answers; `SplitsAt`/`Summarized` are the split walk and the rewrite of `compaction.go` |
| `RunLoop` | `harness.Run`, inbox, caps, nudges, batches, compaction, grace turn | `pc` is where the goroutine stands; one action per handler and per outcome of a blocking call |
| `ChatProtocol` | the abstract specification: what the run promises the API, with a debt of any number of results | `RunLoop` implements it under the mapping at the end of `RunLoop` |
| `ModelClient` | one `Send` or `SendStream` call | `attempt` is the outer loop, `try` is `doWithRetry`'s; endpoint, network, timer and context are the environment |
| `Replay` | which details and pin go out with each request of a run | the run loop is reduced to what decides this; RunLoop has the rest |
| `ReasoningDetails` | `detailsAccumulator` | an entry records which fragments made it (`from`) |
| `Harmony` | `extractHarmonyToolCalls`, `stripHarmonyFraming` | content is a sequence of tokens |
| `StreamParser` | `parseStreamWithLimit`, with `normalizeHarmony` | `wire` is what was read; `calls.shown` is what the deltas made the caller show |
| `Emitter` | `events.Emitter.Emit` | `stage` is where a goroutine stands in `Emit`: waiting for the mutex, locked, numbered, transcript written |
| `EventLog` | the abstract specification of the emitter | a log that records a whole event in one step; `Emitter` implements it under the mapping at its end |
| `Incapable` | `classifyIncapable` | operators over a window of failed payloads |
| `Fanout` | `SpawnSubagents`, composed with `Emitter` and `Incapable` | `parent` and `child` are where the goroutines stand, `wg` is the wait group; a child's run is its turns, its streak and its end |
| `GlobMatch` | `normalizeGlobPattern`, `matchSegments` | the two rows of the table; `Promised` is what the schema's words promise, the reference definition |
| `Subprocess` | one call of bash, grep, git or glob | `child`, `background` and the pipe are the operating system's; `copier` and `wait` are `os/exec`'s goroutines; `at` is where `Execute` stands |
| `ReadPage` | `read`'s pages and hints | a file is the lengths of its pieces; a session follows the hints |
| `WriteFile` | `write`, `edit` | contents are short sequences of characters |
| `ToolCalls` | the three above, one call each, with their properties | `serving` says which of them is called |
| `MCRunLoop`, `MCModelClient`, `MCReplay`, `MCStream`, `MCFanout`, `MCTools` | instances for TLC | constants only |
| `Slices` | the loop that picks some elements of a slice, in order | used where the code builds a slice that way: `pinProvider`, `normalizeGlobPattern`, `extractHarmonyToolCalls`, where the lines of a text end, and the definition of a complete listing |
| `StepLemmas` | lemmas only | loops, step by step; least and greatest elements; joined and picked sequences |
| `RunLoopProofs`, `RunSafetyProofs`, `ClientProofs`, `ReplayProofs`, `FanoutProofs`, `StreamProofs`, `ToolProofs` | theorems | section 6 |

In `RunLoop` the control points are: `start` (validation, seeding), `top` (gates and
nudges), `send` (the model is asked), `compact` (the summarize call), `judge` (the reply
is acted on), `pause` (a natural stop drains the inbox), `await` (blocked in
`Inbox.Wait`), `batch`/`exec`/`between` (walking the tool calls, a tool running, after a
call), `exhausted` and the three grace points, `stopped`. A step between two points is
atomic because nothing outside the goroutine can be observed or intervene there, except
an arriving message, a close or a cancellation, which are actions of their own and can
happen at every point. Which outcome `Inbox.Wait` returns when several are ready is not
specified by the interface, so it is a free choice.

The client's `CancelContext`, the run's, and the human's actions are environment actions
with no fairness. A call issued under a done context cannot succeed (`doomed`); one in
flight when the context is cancelled may still return its reply.

In `Fanout` the goroutines are the actors of `Emitter`: a step of a child either calls `Emit`
(`Begin`), is inside it, or happens with the call over (`At`). The shared context may be
cancelled at any point; a request started after that is bound to fail. A child's `Run` is
`RunLoop`'s subject; `Fanout` keeps what its result and its events depend on.

In `Subprocess` nothing makes the command write, exit or let go of the pipe, and a timer may
fire at any moment. bash waits in the three-way `select`; grep and git wait in `cmd.Run`;
glob scans the pipe itself and calls `Wait` afterwards. rg, fd and git are assumed to leave
no process behind (`CallsAssumption`); only what bash runs may.

Definitions and actions after a comment beginning "Faulty:" are never part of a
specification. They are plausible bugs of the same code, kept to show that every property
is able to fail: replacing the definition after them by the faulty one violates the
property PROJECT.json pairs them with.

## 3. Properties, and the hazards they are for

The full list of hazards, each at its line, is in PROJECT.json. The main groups:

* **Interjection in mid-batch** (harness.go 737, 748): `ConversationOK`, `InputDelivered`,
  `CallsPaired`, `ReportsOnce`, and the refinement `KeepsProtocol`.
* **Compaction boundary** (compaction.go 56-81): `OnlyCompactionForgets`, `ConversationOK`.
* **Counters reset by several paths** (harness.go 346, 531, 769): `WrapUpOnTime`,
  `RepeatsBounded`, `ReasonJustified`, `BatchNudgeTruthful`.
* **Caps crossed inside a turn** (harness.go 859): `NoTurnOverBudget`.
* **Ending** (harness.go 297): `AutonomousEnds`, `ClosedRunEnds`, `CancelEnds`.
* **Nested retries and replayed streams** (client.go 100-148, 226-251): `ShownIsReply`,
  `RequestsBounded`, `SleepsAsAsked`, `StreamedCallReturns`, `CancelReturns`; proved only:
  `StreamedStatusTerminal`.
* **Signed reasoning** (replay.go): `SignedWhereProduced`, `RoutingRespected`,
  `NewestReplayed`, `RetriedOnceClean`; proved only: `NothingReplayedUnasked`,
  `HistoryUntouched`.
* **Interleaved fragments** (sse.go 161, reasoning.go 124, harmony.go 66):
  `ShownIsAssembled`, `CallsAsSent`, `DetailsAssembled`, `HarmonyExtracted`,
  `TruncationDetected`.
* **Children in parallel** (subagents.go 65, 85; events.go 107): `JoinedComplete`,
  `FanoutReturns`, and the refinement `EmitsAtomically`.
* **Evidence of a streak** (harness.go 776): `DiagnosisCurrent`.
* **Exit, timer and cancellation; the held or unread pipe; the cap on output** (bash.go 115,
  glob.go 195, capbuf.go 29): `CallReturns`, `GroupKilled`, `NothingCutSilently`.
* **A part taken for the whole** (glob.go 204, 366; read.go 161): `ListComplete`,
  `PagesContiguous`.
* **Overlapping beginnings and ends of two texts** (write.go 109): `ChangeExplained`.

`ChatProtocol` is deliberately smaller than `ConversationOK`: it knows only who spoke last
and how many results are owed. The run implements it step by step, so that a user message
slipped in between two results, or a request made with a call unanswered, is a step the
protocol does not have, even where the finished conversation would look fine.

## 4. Runs

States are distinct states. `fanout` takes under two minutes on two workers, every other run
under one.

| Run | Question | States |
|---|---|---|
| `autonomous` | caps, wrap-up and batching nudges, empty retries, grace turn, with nobody to answer | 382 952 |
| `human` | a human interjecting, closing and cancelling at any moment, interactive or not | 119 055 |
| `window` | compaction with every retained length, the context limit, over fresh and seeded conversations | 958 451 |
| `nudge_streak` | (violation) is the batching nudge true of the last turns? | section 5 |
| `stash_incapable` | (violation) is a stash always delivered? | section 5 |
| `client` | one call against an endpoint that refuses, throttles, breaks and goes silent | 9 885 |
| `client_status` | (violation) are all non-200 statuses terminal in `Send`? | section 5 |
| `replay` | two turns, a compaction and a grace turn with two providers | 615 222 |
| `stream` | streams of call fragments, mixed frames, Harmony tokens and reasoning details | 498 580 |
| `harmony_args` | (violation) do arguments end at the next token? | section 5 |
| `fanout` | a caller and up to two children over one emitter, one of them meeting every kind of evidence, with a cancellation at any point | 1 369 382 |
| `tools` | one call of each tool: commands that exit, hang, flood or fork; every small glob pattern against every small path; files page by page; small texts changed | 433 141 |

**Bounds, and why they suffice.**

* `MaxTurns` 2 to 5: every counter has a threshold of at most 3, and five turns are enough
  for a third empty retry, were there one, to be sent before the wrap-up nudge changes the
  conversation. `DefaultMaxTurns` 2 stands for the code's 30 (only comparisons with it are made);
  `DefaultIncapable` 3 is the code's own default.
* Batches of up to three calls: first, middle and last call are distinguished, which is
  what the interrupt condition `i < len-1` depends on.
* `MaxUserMsgs` 3: one delivered, one stashed, one in the inbox at the same time.
* `TurnBound` 3: an interactive run has no turn limit, so the model stops starting turns
  there unless the context is done. It is a bound of the exploration, not of the code.
* Costs are counted only up to the cap (`Spend`): the code compares and never subtracts.
* Windows of 100 with prompts of 10, 70 and 90: below the compaction threshold, between it
  and the hard stop, above both; a threshold of 95 puts compaction above the 85% stop.
  `KeepRecentTurns` runs from -1 past the length of the conversation.
* Client: three policies (with and without cap and jitter, and no retries), Retry-After
  negative, short and past the cap, two fragments per stream. A second fragment is what a
  Reset must erase together with the first.
* Replay: two providers, nine routing values (each entry absent, empty, a list or
  malformed), two turns; three seeded histories.
* Stream: three chunks over four feeds, two call indexes, three detail indexes. A third
  fragment is needed to return to an index after another one or after a new block.

* Fan-out: two children and the caller are three contenders for the mutex, so that one can
  overtake two. The first child has four turns and a threshold of 2: a streak, a capable turn
  and a second streak, so that evidence of the first could leak into the second. The second
  child has one turn and only keeps time; `DiagnosisCurrent` needs no second streak beside it,
  because the window is a local variable of the run.
* Tools: a pipe of two lines, a cap of three and outputs of up to five: a command can be
  blocked on the pipe, fill the buffer exactly, and overflow it. Patterns and paths of up to
  three segments contain two `**` with a literal between them. Texts of up to four
  characters of two kinds, so that beginnings and ends overlap; files of up to four pieces
  with a piece over the ceiling of four bytes; offsets past the end.

**Fairness.** `RunLoop`'s `FairSpec` has weak fairness of `RunStep` alone: the goroutine
is scheduled, model calls and tools return. The first is the Go scheduler's; the second is
what `ModelClient` shows for streamed calls and what the tools' own time-outs give, and a
done context bounds the rest. Nothing is assumed of the human or the caller:
`ClosedRunEnds` and `CancelEnds` start from the close and the cancellation.

`ModelClient`'s `FairSpec` assumes that a request gets its headers or fails, and that the
body of a refused reply ends (the client sets no `http.Client` timeout and reads both
without a timer, so there the code relies on the endpoint or the caller's context), that
sleeps end, that the stall timer fires, and that a closed body or a done context fails the
read. It does not assume that an open stream ever delivers or ends. A plain `Send` has no
stall timer, so no property says that it returns unless it is cancelled. A stream that
sends a byte now and then for ever is excluded by `MaxFragments`: the code bounds silence,
not duration.

`Fanout`'s `FairSpec` has weak fairness of the caller's and of each child's steps: goroutines
are scheduled, and a child's model calls and tools return (the previous paragraphs and the
next). Weak fairness is enough for the mutex because a child emits finitely often; Go's own
mutex also hands over to a starving waiter.

`ToolCalls`' `FairSpec` assumes that goroutines are scheduled, that timers fire and that a
killed process is reaped. It assumes nothing of the command or of a process left behind:
either may do nothing for ever. `CallReturns` therefore says that a bash call always returns,
and that a call of the others returns once the context is done or the scan has failed.

**Deadlock** is checked in every run; the states where a run or a call has returned
stutter explicitly.

## 5. Where code and documentation disagree

* `nudge_streak`: harness.go:289-291 says any other turn shape resets the single-lookup
  count. A retried empty reply (531-537) and a failed interactive turn (386-391) do not,
  so the nudge can follow two lookups with an empty turn between them.
* `stash_incapable`: harness.go:740 says the interjection drained in mid-batch is "appended
  after the loop". When that batch also trips the incapable threshold of a non-interactive
  run, 832-835 returns first, and the message is in neither the conversation nor an event.
* `client_status`: client.go:159-162 says non-OK statuses stay terminal in `Send`. The body
  is read before the status is looked at, so a non-200 whose body fails to read is retried.
* `harmony_args`: harmony.go:35-36 says arguments run to the next token. Only the last
  call's do; those of an earlier call run to the next call's header.

Not findings, but visible in the models: `OnDelta`'s Reset covers one `SendStream`, so the
second request after a 400 is not announced by one (the first delivered nothing); a request
that cannot be pinned because the routing rules the provider out still carries all details
(`NewestReplayed` relies on it); call fragments that repeat an index are one call.

Of the tools, met while modelling, with no sentence of the repository that says otherwise:

* a git command killed because the context ended is an `ExitError`, so its partial output is
  returned as a success (git.go:62);
* a bash command that fails while a process still holds the pipe gets the exit note only, and
  not the one about the pipe (bash.go:131-138; `Wait` reports the exit first);
* grep counts the "[output truncated]" line as one of its lines, and may cut it off; the note
  that there are more lines takes its place (grep.go:133);
* a page asked for with a limit that exceeds the byte ceiling is cut without a hint to go on
  (read.go:219-223), which is why `PagesContiguous` demands the end of the file only of
  sessions without a limit or past their first page;
* edit counts occurrences that do not overlap, so `aa` in `aaa` passes as unique (edit.go:71);
  `ChangeExplained` says just this;
* a pattern is matched against paths relative to the workspace, also when glob is given a
  directory to search (glob.go, `filterGlobStream`).

## 6. Proofs

TLC answers for the instances above; the theorems hold for every value of the constants
under the named assumptions of the modules. Those that say more than a type:

* `RunLoop`: `ConfigAssumption` (a seeded history is one an earlier run left: well formed,
  settled, without its system prompt), `ReplyAssumption` (an empty reply has no calls, as
  harness.go classifies it);
* `Replay`: `HistoryAssumption` (a seeded history names the provider that signed its details,
  or none), `ProviderAssumption`;
* `Fanout`: `ChildrenAssumption` (the specs are numbered, their goroutines and the caller are
  the actors of the emitter);
* `Subprocess`: `CallsAssumption` (only what bash runs leaves a process behind);
* `ReadPage`: `FilesAssumption` (a file has a piece, and none but the last is empty) and
  `ReadAssumption` (the ceiling and the default are positive).

| Theorem | Module | Says |
|---|---|---|
| `TypeCorrect` | `RunLoopProofs` | `[]TypeOK` |
| `SummarizedWellFormed` | `RunLoopProofs` | what compacting preserves, for every conversation and retained length |
| `ConversationAlwaysOK`, `OnlyCompactionShortens` | `RunLoopProofs` | `[]ConversationOK`; the action property `OnlyCompactionForgets` |
| `RunImplementsProtocol` | `RunLoopProofs` | `Spec => KeepsProtocol`: the run implements `ChatProtocol` |
| `ReportsAtMostOnce`, `RepeatsAlwaysBounded`, `WrapUpAlwaysOnTime`, `InputKept`, `CallsAlwaysPaired`, `ReasonAlwaysJustified` | `RunSafetyProofs` | the run loop's other invariants |
| `NeverTurnsOverBudget` | `RunSafetyProofs` | the action property `NoTurnOverBudget` |
| `CallTyped`, `ShownAlwaysReply`, `RequestsAlwaysBounded`, `SleepsAlwaysAsAsked`, `StreamedStatusAlwaysTerminal` | `ClientProofs` | the safety properties of a call, for every policy and stream length |
| `ReplayTyped`, `AlwaysSignedWhereProduced`, `NewestAlwaysReplayed`, `AlwaysRetriedOnceClean`, `RoutingAlwaysRespected`, `NeverReplayedUnasked`, `HistoryNeverTouched` | `ReplayProofs` | the safety properties of replay |
| `MutexHeld`, `EmitterImplementsLog` | `FanoutProofs` | mutual exclusion, and `EmitterSpec => EmitsAtomically` for any number of goroutines |
| `FanoutTyped`, `AlwaysJoinedComplete`, `FanoutEmitsAtomically`, `DiagnosisAlwaysCurrent` | `FanoutProofs` | the join, the shared emitter and the diagnosis, for any number of specs |
| `AlwaysShownAsAssembled`, `AlwaysAsSent`, `TruncationAlwaysDetected` | `StreamProofs` | what is shown, what is assembled and when a stream is refused, for every stream |
| `HarmonyAlwaysExtracted` | `StreamProofs` | content in the Harmony format becomes its calls and loses no prose, for every content |
| `DetailsAlwaysAssembled` | `StreamProofs` | signed details stay in their blocks, in order and with their text, however the fragments interleave |
| `ToolsTyped` | `ToolProofs` | `[]TypeOK` of a call, whatever is called |
| `AlwaysGroupKilled`, `NeverCutSilently`, `ListAlwaysComplete` | `ToolProofs` | commands, for every output, bound and way to end; the list of a glob, for every pattern |
| `AlwaysContiguous` | `ToolProofs` | the pages of every file |
| `ChangeAlwaysExplained` | `ToolProofs` | what write and edit say, for every file and all arguments |

Few of these are inductive as they stand. The run loop:

* `ConversationOK` says nothing of mid-batch states beyond well-formedness. `ConvInv` adds
  that the last message tells how far the batch is answered: the assistant's, or the result
  of the call last walked. The step that answers a call then appends exactly the result
  that may follow. A batch walked to its end has its last call answered, so the model may
  be asked. The compaction step is the lemma `SummarizedWellFormed`: the backwards walk
  never leaves the split inside a batch, and pulling an assistant with calls into the kept
  part never leaves it dangling. That the split lies beyond the system prompt is the guard
  of `Compact`.
* `KeepsProtocol`: under `ConvInv` the debt the mapping computes from the conversation is what
  the batch has left to answer. Every action then either leaves phase and debt alone
  (`Stays`), or is one of the protocol's steps; the summary of a compaction is a message of
  the user where nothing is owed.
* `OnlyCompactionForgets`: a step that is not a compaction appends; the compaction keeps the
  system prompt and what lies behind the split.
* `ReportsOnce`: `ReportsInv` ties the count to `batch.terminated`; after a terminal tool
  reported, no call is dispatched, and the batch's end completes the run.
* `RepeatsBounded`: `RepeatsInv` says that an unchanged conversation is on its way to the
  model only by an empty retry, which `emptyRun` counts; whatever resets `emptyRun` also
  changed the conversation, or leaves the loop until a message arrives.
* `InputDelivered`: `InputInv` says that only an interrupted batch that
  no terminal tool ended holds a stash, and that it is empty while a tool runs, so an
  interrupt never overwrites one.
* `CallsPaired`: `PairInv` says how many calls have their event wherever the batch stands; a
  run that stopped as incapable or by a tool has walked its last batch to the end.
* `ReasonJustified`: `ReasonInv` says which stops are still possible: nobody pauses without an
  inbox, only an autonomous run at its limit enters the grace turn, and nothing is decided
  before the run stops.

The client, replay and the stream:

* `ClientInv` adds to the properties what the counters are between two
  requests (`Counts`), that what a listening caller was shown is the stream being read
  (`Told`), and which answers are still to be judged (`Judged`): an attempt is started only
  after a Reset, so that nothing of a broken stream is left in what was shown.
* `ReplayInv` says that the kept conversation names for every signature the
  provider that made it or none (`Kept`), how often a request of this turn was made
  (`Counted`), and what the request that is out was made of (`Made`). A pin is a name taken
  from a message with details; filtering by it leaves only details that name it, and those,
  by `Kept`, it signed. The newest details are the last of finitely many (`GreatestOf`).
* `RoutingRespected`: every request ever built respects the routing (`RequestRespects`), so
  it need only be carried along. That nobody is lost from the order is `PickedHas`: whatever
  the loop of `pinProvider` does not skip is in the slice it builds.
* `StreamInv` relates the state of the accumulators to the list of all fragments read so far:
  each call is what the fragments of its index said, put together (`Holds`); the caller's view
  agrees with it (`Follows`); the indexes are listed in the order they appeared (`Listed`). A
  fragment is one step of a loop over a frame, so the three are carried through a loop
  (`AssembledAfter`) and from frame to frame (`ReadMore`).
* `HarmonyExtracted` is about the algorithm, and `StreamInv` need only say that a finished
  stream's reply is what normalization makes of its content. The extraction walks from
  header to header: the arguments of a call end before the next header (`ArgEndIs`), so each
  call adds the prose of its own arguments and none that was said before (`ExtractNext`,
  `SpokenNext`, `ExtractAll`). What is left is prose and nothing else, all of it outside the
  arguments (`RestIs`). The two parts are disjoint and together are all prose.
* `DetailsAssembled` is not inductive: which entry a fragment goes to depends on `byIndex`,
  which it does not mention. `Gathered` adds that `byIndex` leads from an index to its last
  entry (`Indexes`), so that a second entry for an index is opened only against a type the
  last one has (`InOrder`, `Opened`); that every fragment but null is in an entry
  (`Covered`) and in no second one (`Apart`); and that each entry is `Whole`: fragments of
  its index and one type at most, in order, with their text joined. A fragment is passed
  over, opens an entry or is merged (`GathersSame`, `GathersNew`, `GathersMerged`, together
  `AddKeeps`). The text is the hard part of a merge: a value that is no string throws away
  what was joined, and a later string begins anew (`TextMerges`).

Fan-out:

* Whoever is between `Lock` and the deferred unlock holds the mutex, and the
  number it took is the latest (`Held`). The step that writes the transcript is then the one
  step of the log, and every other step stutters: a number is not counted before its line is
  written, and a written line counts as shown.
* Every step of a fan-out is a step of the emitter or leaves it alone, so the
  two theorems above carry over. `Joining` says that the wait group counts exactly the
  goroutines that are started and not gone, and that those are numbered up to `started`;
  `Stored` that a slot is filled by its own child once its run is over; `Silent` that who has
  ended is not inside `Emit`. When the counter is zero the set it counts is empty, which is
  `JoinedComplete`; `AllShown` adds that the human saw every number.
* `DiagnosisInv` says that a child's window holds the payloads of its latest turns and that
  the turn before them was capable (`Tracks`); a diagnosis is made from that window at the
  moment the streak reaches the threshold, and nothing changes either afterwards.

Tools:

* `CommandInv` says what the stages of `Execute`, `os/exec` and the process tell of one
  another (`Standing`, `Over`), that what was killed stays dead (`Killed`), what an exit
  status says about the output (`Exited`), and that the buffer is the beginning of the output
  and is marked exactly when it is not all that was taken out of the pipe (`Copied`).
* `ListComplete` rests on `KeepsWhatIsPromised`: the table of `matchSegments` over a
  normalized pattern agrees with the schema's words. A row of the table is what the first
  segments of the pattern can cover (`Row`); that the code's rule for filling a row is right
  is the two facts `DealGlobstar` and `DealPlain` about dealing out the segments of a path,
  whatever the other row held before (`FillIsRow`). The globstar that normalization puts in
  front means that the pattern need only cover a tail of the path (`TailBehindGlobstar`,
  `TailUnderGlobstar`), and what trimming removes says nothing (`TrimLeavesSaid`). `ScanInv`
  then says that the paths kept are the promised ones of what was scanned, and that a scan
  that was not stopped saw all that was written; by `Exited` that is all there is.
* `ReadInv` says that the pages shown follow one another from the line asked for, that the
  hint is the line after the last page, and that it is zero only when the file is shown or the
  caller's limit ended the page.
* `WriteInv` adds to `ChangeExplained` that a tool that has not returned has changed nothing
  (`Untouched`); the work is in the algorithms. Write: the common beginning and the common
  end that is sought behind it do not overlap, and what lies between differs at both of its
  ends (`CommonEnds`, `DifferenceExplains`); a text that ends with a newline has as many
  lines as newlines (`LinesCounted`). Edit: the places found from the left cover every
  occurrence (`Chosen`), so that each of a set of disjoint occurrences has a found one of its
  own, and no such set is larger (`ChosenMost`); the length of the replaced content is that
  of the old one, and the difference for each place (`ReplacedLength`), and one replacement
  leaves the text before and behind it as it was (`OneReplaced`).

**Recursion.** A recursive function is reasoned about by its values: `Steps` shows that the
values a loop goes through exist and `SameSteps` that they are unique, both from a least
counterexample (`LeastOf`, by the well-foundedness of the naturals); `PicksExist`,
`PickedIs`, `JoinExists` and `JoinIs` are the two facts for slices picked and joined,
`FindsExist` and `FoundIs` for occurrences found, `AddsExist` and `AddAllIs` for the
fragments of a frame. What holds at every step of such a loop
is shown by `Climb`.

**Only model-checked**: liveness (fairness and ENABLED are outside the prover). Every
invariant, action property and refinement that a passing run checks is a theorem. The four
properties of section 5, `BatchNudgeTruthful` among them, are violated.

## 7. What is not modelled, and why

* **Text and numbers nobody compares**: prompts, outputs, JSON, token metrics, event
  rendering, log lines.
* **The rest of the tools**: `RunLoop` needs whether a call parses, runs, fails, is read-only
  or terminal, and whether it returns an image. `Subprocess`, `ReadPage` and `WriteFile` have
  what happens once the arguments are accepted; the coercion of arguments (`args.go`), the
  checks of git's arguments and of a pattern's size, the scrubbed environment of bash, and
  `truncate.go`'s head and tail are functions of one value without state.
* **Path jail and skill tool**: what they decide depends on symbolic links and on files of the
  host; the rest is a filter over a fixed list. A model would restate the filter.
* **A child's full run inside `Fanout`**: composing `RunLoop` there would multiply its states
  by those of two more loops and tell nothing about the join; what a child shares with the
  others is the emitter, its slot, the wait group and the context, and these are all there.
* **Request encoding, catalog, redaction, TLS**: pure functions or one-shot I/O without
  state.
* **`BaseDelay << (attempt-1)` overflow**: needs a retry count far past any policy the
  code builds; `Backoff` is exact for the small counts of the model.

## 8. Plan

Written so far, in order of importance: `History`, `RunLoop` with `ChatProtocol`;
`ModelClient`; `Replay`; `ReasoningDetails`, `Harmony`, `StreamParser`; `Emitter` with
`EventLog`, `Incapable`, `Fanout`; `GlobMatch`, `Subprocess`, `ReadPage`, `WriteFile`,
`ToolCalls`; the proofs above.

Nothing is left of the safety properties the runs check. What could follow is a child's
whole run inside `Fanout`, for which section 7 gives the cost.
