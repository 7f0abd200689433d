----------------------------- MODULE ToolCalls ------------------------------
(***************************************************************************)
(* One call of a tool, with the properties the model's turns depend on: a  *)
(* call returns, leaves nothing behind that it was to stop, does not pass  *)
(* a part of an answer off as the whole, and tells what it changed.        *)
(***************************************************************************)
EXTENDS Subprocess, ReadPage, WriteFile, FiniteSets

VARIABLE serving   \* what is called: a "command", "read", or a "change" of a file

vars == <<processVars, readVars, writeVars, serving>>

TypeOK ==
  ProcessTypeOK /\ ReadTypeOK /\ WriteTypeOK /\ serving \in {"command", "read", "change"}

AnyCall == CHOOSE c \in Calls : TRUE
AnyFile == CHOOSE f \in Files : TRUE

\* What is not called is fixed.
Init ==
  /\ serving \in {"command", "read", "change"}
  /\ IF serving = "command" THEN call \in Calls ELSE call = AnyCall
  /\ IF serving = "read" THEN file \in Files ELSE file = AnyFile
  /\ serving # "change" => before = Absent /\ asked = [content |-> <<>>]
  /\ WriteInit /\ ProcessInit /\ ReadInit

OfCommand(step) == serving = "command" /\ step /\ UNCHANGED <<readVars, writeVars, serving>>

Reading == serving = "read" /\ ReadNext /\ UNCHANGED <<processVars, writeVars, serving>>

Changing == serving = "change" /\ WriteNext /\ UNCHANGED <<processVars, readVars, serving>>

Returned ==
  /\ serving = "command" => at = "returned"
  /\ serving = "read" => reading # "idle" /\ hint = 0
  /\ serving = "change" => summary # Nothing
  /\ UNCHANGED vars

Next == OfCommand(ProcessNext) \/ Reading \/ Changing \/ Returned

Spec == Init /\ [][Next]_vars

\* Goroutines are scheduled, timers fire, a process that was killed is reaped.
\* The command and what it leaves behind may do nothing for ever.
FairSpec ==
  /\ Spec
  /\ WF_vars(OfCommand(CopierStep)) /\ WF_vars(OfCommand(ContextKills))
  /\ WF_vars(OfCommand(WaitStep)) /\ WF_vars(OfCommand(TimerFires))
  /\ WF_vars(OfCommand(ExecuteStep))

----------------------------------------------------------------------------
(* Properties.                                                             *)

CommandReturned == at = "returned" /\ stop # "start"

\* A bash call returns, even when the command never ends, or leaves a process
\* behind that escaped from the process group and holds the pipe for ever: the
\* timer is always there, and WaitDelay bounds the wait that follows a kill or
\* an exit (bash.go:95, bash.go:112-127).  A call of grep, git or glob returns
\* once its context is done or its scan has failed, although the command may be
\* blocked on a full pipe: it is killed before Wait (glob.go:195,
\* exec.CommandContext).  They have no other bound.
CallReturns ==
  serving = "command" /\ (Bash \/ ctxDone \/ stop = "scan") ~> at = "returned"

\* A bash call that timed out or was canceled leaves nothing of the command's
\* process group behind, not even when the command itself had already exited
\* at the time of the kill (bash.go:94, bash.go:117).
GroupKilled ==
  Bash /\ CommandReturned /\ stop # "none" =>
    child = "gone" /\ background # "group"

\* A glob result is the whole answer: every enumerated path that the schema's
\* reading of the pattern covers, in order and relative to the workspace, from
\* a command that ran to its end; anything less is an error (glob.go:56,
\* glob.go:200-212, glob.go:366).
ListComplete ==
  call.tool \in Globs /\ CommandReturned /\ ~result.error =>
    LET all == Strip(call.output)
    IN  result.lines = Picked(all, {k \in DOMAIN all : Promised(call.pattern, all[k])})

\* A text without a note is all the command wrote, and nothing can follow it:
\* the lines of a text, but for the note that it was truncated, are the first
\* that the command wrote, and are all of them exactly when no note says that
\* there are more; reading stops before the pipe is closed only when the text
\* tells of a timeout, a failure or a process left behind.  A grep result comes
\* from a search that ran to its end (capbuf.go:41, bash.go:132, grep.go:133).
NothingCutSilently ==
  ~(call.tool \in Globs) /\ CommandReturned /\ ~result.error =>
    LET all  == IF call.tool = "grep" THEN Strip(call.output) ELSE call.output
        kept == Len(result.lines) - (IF "truncated" \in result.notes THEN 1 ELSE 0)
    IN  /\ copier = "eof" \/ result.notes \cap {"timeout", "delay", "exit"} # {}
        /\ SubSeq(result.lines, 1, kept) = SubSeq(all, 1, kept)
        /\ copier = "eof" => (kept = sent <=> result.notes \cap {"truncated", "more"} = {})
        /\ call.tool = "grep" => sent = Len(call.output)

\* The lines of a page: what follows a final newline is not one.
Lines(page) == {n \in page.from..page.to : n <= LogicalEnd}

\* A caller that follows the hints is shown every line from the one it asked
\* for on, once and in order, up to the end of the file; no page exceeds the
\* ceiling, and a line that does is cut, alone on its page and said to be.
\* With a limit the first page has at most so many lines (read.go:160-224).
PagesContiguous ==
  /\ \A k \in DOMAIN pages :
       /\ k > 1 => pages[k].from = pages[k - 1].to + 1
       /\ pages[k].cut <=> file.pieces[pages[k].from] > ReadMaxBytes
       /\ IF pages[k].cut THEN pages[k].to = pages[k].from
          ELSE Bytes(pages[k].from - 1, pages[k].to) <= ReadMaxBytes
  /\ pages # <<>> =>
       /\ pages[1].from = IF first.offset > 0 THEN first.offset ELSE 1
       /\ first.limit > 0 => Cardinality(Lines(pages[1])) <= first.limit
  /\ reading = "session" /\ hint = 0 /\ (first.limit <= 0 \/ Len(pages) > 1) =>
       \A n \in 1..LogicalEnd :
         n >= first.offset => \E k \in DOMAIN pages : n \in Lines(pages[k])

\* s ends with exactly one newline.
EndsOnce(s) == s # <<>> /\ Last(s) = NL /\ (Len(s) > 1 => s[Len(s) - 1] # NL)

\* What is said to have been removed stood where what is said to have been added
\* stands now, all else is as it was, and neither could be said in fewer lines.
Explains(o, n) ==
  LET r == summary.removed
      a == summary.added
  IN  /\ \E k \in 0..Len(o) :
           /\ SubSeq(o, k + 1, k + Len(r)) = r
           /\ n = SubSeq(o, 1, k) \o a \o SubSeq(o, k + Len(r) + 1, Len(o))
      /\ r # <<>> /\ a # <<>> => Head(r) # Head(a) /\ Last(r) # Last(a)

\* The summary of a change that succeeded tells all of it: write's created,
\* unchanged or changed, with exactly the lines that differ however beginning
\* and end overlap; edit's number of replacements, one unless all were asked
\* for, with no other place left (write.go:72-127, edit.go:71-90).
ChangeExplained ==
  LET old == before.content
      new == disk.content
      Places == {k \in DOMAIN old : OccursAt(old, asked.old, k)}
      Disjoint(P) == \A j, k \in P : j < k => j + Len(asked.old) <= k
  IN  /\ summary.kind \in {"created", "unchanged", "changed"} =>
           /\ EndsOnce(new)
           /\ summary.kind = "created" <=> ~before.exists
           /\ summary.kind = "created" => summary.count = Cardinality(Ends(new))
           /\ summary.kind = "unchanged" <=> disk = before
           /\ summary.kind = "changed" => Explains(SplitLines(old), SplitLines(new))
      /\ summary.kind = "edited" =>
           /\ summary.count > 1 => asked.all
           /\ summary.count = Max({Cardinality(P) : P \in {Q \in SUBSET Places : Disjoint(Q)}})
           /\ Len(new) = Len(old) + summary.count * (Len(asked.new) - Len(asked.old))
           /\ summary.count = 1 =>
                \E k \in Places :
                  new = SubSeq(old, 1, k - 1) \o asked.new \o SubSeq(old, k + Len(asked.old), Len(old))
=============================================================================
