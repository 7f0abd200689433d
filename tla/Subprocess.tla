----------------------------- MODULE Subprocess -----------------------------
(***************************************************************************)
(* One call of a tool that runs a command: bash (tools/bash.go), grep      *)
(* (grep.go), git (git.go), and glob through fd or rg (glob.go).  The      *)
(* command writes into a pipe of bounded room; os/exec copies the pipe     *)
(* into a capped buffer (capbuf.go), except that glob scans it itself; and *)
(* Wait returns when the command is reaped and the copying is over.        *)
(*                                                                         *)
(* A line of output is the path it begins with, as its segments.  Time is  *)
(* left out: a timer that is set may fire at any moment.                   *)
(***************************************************************************)
EXTENDS GlobMatch

CONSTANTS
  Calls,           \* the calls there are: tool, pattern, output, background
  Root,            \* the workspace root, as segments
  PipeRoom,        \* lines a pipe holds
  OutputCap,       \* subprocessOutputCap, in lines
  GrepMaxLines,    \* grepMaxLines
  CheckEvery       \* globCtxCheckEvery

Globs == {"fd", "rg"}
Tools == {"bash", "grep", "git"} \cup Globs

Line == Seq(STRING)

\* A line longer than glob's scanner takes (globScanBufSize).
Overlong == <<>>

\* The command of a call: what it will have written when it succeeds, and the
\* background process it leaves behind with the pipe open, in its process
\* group or escaped from it.
Call == [tool : Tools, pattern : Line, output : Seq(Line),
         background : {"none", "group", "escaped"}]

\* rg, fd and git leave no process behind.
ASSUME CallsAssumption ==
  \A c \in Calls : c \in Call /\ (c.tool # "bash" => c.background = "none")
ASSUME RootAssumption == Root \in Line
ASSUME BoundsAssumption ==
  /\ PipeRoom \in Nat \ {0} /\ OutputCap \in Nat \ {0}
  /\ GrepMaxLines \in Nat \ {0} /\ CheckEvery \in Nat \ {0}

VARIABLES
  call,        \* the call
  at,          \* where Execute stands
  child,       \* the command's process
  exit,        \* how it ended
  background,  \* the process that still holds the pipe
  sent,        \* lines written into the pipe
  got,         \* lines taken out of it
  buffer,      \* capWriter.buf
  truncated,   \* capWriter.truncated
  copier,      \* the goroutine os/exec copies with: glob's has only stderr
  wait,        \* where cmd.Wait stands
  werr,        \* the error it returns
  ctxDone,     \* the caller's context is done
  ctxKilled,   \* os/exec has acted on that
  stop,        \* why Execute gave up before the command ended
  rels,        \* the paths glob has kept
  result       \* what the call returned

pipeVars == <<sent, got>>
copyVars == <<buffer, truncated, copier>>
waitVars == <<wait, werr>>
procVars == <<child, exit, background>>
ctxVars  == <<ctxDone, ctxKilled>>
endVars  == <<stop, rels, result>>

processVars == <<call, at, procVars, pipeVars, copyVars, waitVars, ctxVars, endVars>>

Notes == {"truncated", "more", "timeout", "delay", "exit"}

NoResult == [error |-> FALSE, lines |-> <<>>, notes |-> {}]

ProcessTypeOK ==
  /\ call \in Calls
  /\ at \in {"start", "run", "kill", "check", "scan", "wait", "returned"}
  /\ child \in {"none", "alive", "gone"}
  /\ exit \in {"none", "ok", "one", "bad", "killed"}
  /\ (child = "gone") = (exit # "none")
  /\ background \in {"none", "group", "escaped"}
  /\ sent \in 0..Len(call.output) /\ got \in 0..sent /\ sent - got <= PipeRoom
  /\ buffer \in Seq(Line) /\ Len(buffer) <= OutputCap
  /\ truncated \in BOOLEAN
  /\ copier \in {"idle", "copying", "eof", "closed"}
  /\ wait \in {"idle", "reaping", "draining", "done"}
  /\ werr \in {"none", "exit", "ctx", "delay"}
  /\ ctxDone \in BOOLEAN /\ ctxKilled \in BOOLEAN
  /\ stop \in {"none", "start", "timeout", "canceled", "scan"}
  /\ rels \in Seq(Line)
  /\ result.error \in BOOLEAN /\ result.lines \in Seq(Line) /\ result.notes \subseteq Notes

ProcessInit ==
  /\ call \in Calls
  /\ at = "start"
  /\ child = "none" /\ exit = "none" /\ background = "none"
  /\ sent = 0 /\ got = 0
  /\ buffer = <<>> /\ truncated = FALSE /\ copier = "idle"
  /\ wait = "idle" /\ werr = "none"
  /\ ctxDone = FALSE /\ ctxKilled = FALSE
  /\ stop = "none" /\ rels = <<>> /\ result = NoResult

Bash    == call.tool = "bash"
Globbing == call.tool \in Globs
PipeHeld == child = "alive" \/ background # "none"

----------------------------------------------------------------------------
(* The command.  Nothing makes it write, exit, or leave the pipe.          *)

ChildWrites ==
  /\ child = "alive" /\ sent < Len(call.output) /\ sent - got < PipeRoom
  /\ sent' = sent + 1
  /\ UNCHANGED <<call, at, procVars, got, copyVars, waitVars, ctxVars, endVars>>

\* A command succeeds after its last line; rg exits 1 when it has none.
ChildExits ==
  /\ child = "alive"
  /\ exit' \in {"ok", "one", "bad"}
  /\ exit' = "ok" => sent = Len(call.output)
  /\ call.tool \in {"grep", "rg"} /\ call.output = <<>> => exit' # "ok"
  /\ exit' = "one" => call.tool \in {"grep", "rg"} /\ call.output = <<>>
  /\ child' = "gone"
  /\ UNCHANGED <<call, at, background, pipeVars, copyVars, waitVars, ctxVars, endVars>>

BackgroundExits ==
  /\ background # "none"
  /\ background' = "none"
  /\ UNCHANGED <<call, at, child, exit, pipeVars, copyVars, waitVars, ctxVars, endVars>>

\* A command is killed alone: what it started lives on.
KillChild ==
  /\ child' = "gone"
  /\ exit' = IF child = "alive" THEN "killed" ELSE exit
  /\ UNCHANGED background

\* Its process group is killed: what escaped from the group lives on.
KillGroup ==
  /\ child' = "gone"
  /\ exit' = IF child = "alive" THEN "killed" ELSE exit
  /\ background' = IF background = "group" THEN "none" ELSE background

CancelContext ==
  /\ ~ctxDone /\ at # "returned"
  /\ ctxDone' = TRUE
  /\ UNCHANGED <<call, at, procVars, pipeVars, copyVars, waitVars, ctxKilled, endVars>>

----------------------------------------------------------------------------
(* os/exec.                                                                *)

\* Faulty: the writer has no limit.
CopyLineUncapped ==
  /\ copier = "copying" /\ ~Globbing /\ got < sent
  /\ got' = got + 1
  /\ buffer' = Append(buffer, call.output[got + 1])
  /\ UNCHANGED <<call, at, procVars, sent, truncated, copier, waitVars, ctxVars, endVars>>

\* Faulty: the writer drops what does not fit and forgets that it did.
CopyLineUnmarked ==
  /\ copier = "copying" /\ ~Globbing /\ got < sent
  /\ got' = got + 1
  /\ buffer' = IF Len(buffer) < OutputCap THEN Append(buffer, call.output[got + 1]) ELSE buffer
  /\ UNCHANGED <<call, at, procVars, sent, truncated, copier, waitVars, ctxVars, endVars>>

\* capWriter.Write
CopyLine ==
  /\ copier = "copying" /\ ~Globbing /\ got < sent
  /\ got' = got + 1
  /\ IF Len(buffer) < OutputCap
     THEN buffer' = Append(buffer, call.output[got + 1]) /\ UNCHANGED truncated
     ELSE truncated' = TRUE /\ UNCHANGED buffer
  /\ UNCHANGED <<call, at, procVars, sent, copier, waitVars, ctxVars, endVars>>

CopyEnds ==
  /\ copier = "copying" /\ ~PipeHeld /\ (Globbing \/ got = sent)
  /\ copier' = "eof"
  /\ UNCHANGED <<call, at, procVars, pipeVars, buffer, truncated, waitVars, ctxVars, endVars>>

\* A command made with CommandContext is killed, alone, when the context ends
\* before it is reaped.
ContextKills ==
  /\ ~Bash /\ ctxDone /\ ~ctxKilled
  /\ child # "none" /\ wait \in {"idle", "reaping"}
  /\ ctxKilled' = TRUE
  /\ KillChild
  /\ UNCHANGED <<call, at, pipeVars, copyVars, waitVars, ctxDone, endVars>>

Reap ==
  /\ wait = "reaping" /\ child = "gone"
  /\ wait' = "draining"
  /\ werr' = IF exit # "ok" THEN "exit" ELSE IF ctxKilled THEN "ctx" ELSE "none"
  /\ UNCHANGED <<call, at, procVars, pipeVars, copyVars, ctxVars, endVars>>

Drained ==
  /\ wait = "draining" /\ copier = "eof"
  /\ wait' = "done"
  /\ UNCHANGED <<call, at, procVars, pipeVars, copyVars, werr, ctxVars, endVars>>

\* Faulty: the command is given no WaitDelay.
NoWaitDelay == FALSE /\ UNCHANGED processVars

\* cmd.WaitDelay, which only bash sets: the copying is cut off.
WaitDelayElapses ==
  /\ Bash /\ wait = "draining" /\ copier = "copying"
  /\ wait' = "done"
  /\ werr' = IF werr = "none" THEN "delay" ELSE werr
  /\ copier' = "closed"
  /\ UNCHANGED <<call, at, procVars, pipeVars, buffer, truncated, ctxVars, endVars>>

----------------------------------------------------------------------------
(* Execute.                                                                *)

Return(error, lines, notes) ==
  /\ at' = "returned"
  /\ result' = [error |-> error, lines |-> lines, notes |-> notes]

\* The command starts, and Wait with it, except that glob scans first.  Only a
\* context given to the command stops it from starting.
Start ==
  /\ at = "start"
  /\ Bash \/ ~ctxDone
  /\ at' = IF Globbing THEN "check" ELSE "run"
  /\ child' = "alive" /\ background' = call.background
  /\ copier' = "copying"
  /\ wait' = IF Globbing THEN "idle" ELSE "reaping"
  /\ UNCHANGED <<call, exit, pipeVars, buffer, truncated, werr, ctxVars, endVars>>

StartFails ==
  /\ at = "start"
  /\ Return(TRUE, <<>>, {})
  /\ stop' = "start"
  /\ UNCHANGED <<call, procVars, pipeVars, copyVars, waitVars, ctxVars, rels>>

\* "[output truncated]", a line that begins with no path.
TruncationNote == <<>>

\* capWriter.String
Text == IF truncated THEN Append(buffer, TruncationNote) ELSE buffer

TextNotes == IF truncated THEN {"truncated"} ELSE {}

\* Faulty: only the command itself is killed.
GiveUpOnChild(why) ==
  /\ at = "run" /\ Bash
  /\ KillChild
  /\ stop' = why
  /\ at' = "kill"
  /\ UNCHANGED <<call, pipeVars, copyVars, waitVars, ctxVars, rels, result>>

GiveUp(why) ==
  /\ at = "run" /\ Bash
  /\ KillGroup
  /\ stop' = why
  /\ at' = "kill"
  /\ UNCHANGED <<call, pipeVars, copyVars, waitVars, ctxVars, rels, result>>

TimerFires == GiveUp("timeout")

SeeCancel == ctxDone /\ GiveUp("canceled")

BashGaveUp ==
  /\ at = "kill" /\ wait = "done"
  /\ IF stop = "timeout"
     THEN Return(FALSE, Text, TextNotes \cup {"timeout"})
     ELSE Return(TRUE, Text, TextNotes)
  /\ UNCHANGED <<call, procVars, pipeVars, copyVars, waitVars, ctxVars, stop, rels>>

WaitNotes ==
  CASE werr = "delay" -> {"delay"} [] werr = "exit" -> {"exit"} [] OTHER -> {}

BashDone ==
  /\ at = "run" /\ Bash /\ wait = "done"
  /\ Return(FALSE, Text, TextNotes \cup WaitNotes)
  /\ UNCHANGED <<call, procVars, pipeVars, copyVars, waitVars, ctxVars, stop, rels>>

\* stripWorkspacePrefix, and glob's TrimPrefix
Relative(line) ==
  IF Len(line) > Len(Root) /\ SubSeq(line, 1, Len(Root)) = Root
  THEN SubSeq(line, Len(Root) + 1, Len(line)) ELSE line

Strip(lines) == [k \in DOMAIN lines |-> Relative(lines[k])]

\* grep: capLines counts the note about truncation as a line.
GrepDone ==
  /\ at = "run" /\ call.tool = "grep" /\ wait = "done"
  /\ \/ /\ werr = "none"
        /\ IF Len(Text) <= GrepMaxLines
           THEN Return(FALSE, Strip(Text), TextNotes)
           ELSE Return(FALSE, SubSeq(Strip(Text), 1, GrepMaxLines), {"more"})
     \/ werr = "exit" /\ exit = "one" /\ Return(FALSE, <<>>, {})
     \/ werr # "none" /\ exit # "one" /\ Return(TRUE, <<>>, {})
  /\ UNCHANGED <<call, procVars, pipeVars, copyVars, waitVars, ctxVars, stop, rels>>

\* git: how the command ended is not told apart.
GitDone ==
  /\ at = "run" /\ call.tool = "git" /\ wait = "done"
  /\ IF werr = "ctx" THEN Return(TRUE, <<>>, {}) ELSE Return(FALSE, Text, TextNotes)
  /\ UNCHANGED <<call, procVars, pipeVars, copyVars, waitVars, ctxVars, stop, rels>>

----------------------------------------------------------------------------
(* glob: streamEnumeration and filterGlobStream.                           *)

StartWait ==
  /\ at' = "wait"
  /\ wait' = "reaping"

\* The command may be blocked on the pipe nobody reads any longer.
StopScan ==
  /\ StartWait
  /\ stop' = "scan"
  /\ KillChild
  /\ UNCHANGED <<rels, result>>

CheckContext ==
  /\ at = "check"
  /\ \/ ctxDone /\ StopScan
     \/ ~ctxDone /\ at' = "scan" /\ UNCHANGED <<procVars, wait, endVars>>
  /\ UNCHANGED <<call, pipeVars, copyVars, werr, ctxVars>>

Keeps(line) == MatchSegments(Normalize(call.pattern), Relative(line))

ScanLine ==
  /\ at = "scan" /\ got < sent
  /\ LET line == call.output[got + 1]
         due  == got % CheckEvery = 0
     IN  \/ /\ line = Overlong \/ (due /\ ctxDone)
            /\ StopScan
            /\ UNCHANGED got
         \/ /\ line # Overlong /\ ~(due /\ ctxDone)
            /\ got' = got + 1
            /\ rels' = IF Keeps(line) THEN Append(rels, Relative(line)) ELSE rels
            /\ UNCHANGED <<at, wait, procVars, stop, result>>
  /\ UNCHANGED <<call, sent, copyVars, werr, ctxVars>>

ScanEnds ==
  /\ at = "scan" /\ got = sent /\ ~PipeHeld
  /\ StartWait
  /\ UNCHANGED <<call, procVars, pipeVars, copyVars, werr, ctxVars, endVars>>

\* Only rg's exit 1 says that there are no files.
GlobDone ==
  /\ at = "wait" /\ wait = "done"
  /\ IF stop = "none" /\ werr = "none" THEN Return(FALSE, rels, {})
     ELSE IF stop = "none" /\ call.tool = "rg" /\ exit = "one" THEN Return(FALSE, <<>>, {})
     ELSE Return(TRUE, <<>>, {})
  /\ UNCHANGED <<call, procVars, pipeVars, copyVars, waitVars, ctxVars, stop, rels>>

----------------------------------------------------------------------------

CopierStep == CopyLine \/ CopyEnds

WaitStep == Reap \/ Drained \/ WaitDelayElapses

ExecuteStep ==
  \/ Start \/ StartFails
  \/ SeeCancel \/ BashGaveUp \/ BashDone \/ GrepDone \/ GitDone
  \/ CheckContext \/ ScanLine \/ ScanEnds \/ GlobDone

CommandStep == ChildWrites \/ ChildExits \/ BackgroundExits

ProcessNext ==
  \/ CommandStep \/ CancelContext
  \/ CopierStep \/ ContextKills \/ WaitStep \/ TimerFires \/ ExecuteStep
=============================================================================
