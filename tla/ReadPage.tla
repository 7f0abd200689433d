------------------------------ MODULE ReadPage ------------------------------
(***************************************************************************)
(* The read tool (tools/read.go): one page of a text file, and a session   *)
(* that follows the hints from page to page.  A file is the sequence of    *)
(* the lengths of its pieces, as SplitAfter cuts it: every line with its   *)
(* newline, then what follows the last newline, which may have length 0.   *)
(***************************************************************************)
EXTENDS Integers, Sequences

CONSTANTS
  Files,         \* the files there may be
  Offsets,       \* offset arguments of a first call, 0 without one
  Limits,        \* limit arguments, 0 without one
  ReadMaxLines,
  ReadMaxBytes

\* What is looked at before the text: a NUL byte in the beginning, the size.
File == [kind : {"text", "binary", "large"}, pieces : Seq(Nat)]

ASSUME FilesAssumption ==
  \A f \in Files :
    /\ f \in File /\ f.pieces # <<>>
    /\ \A k \in 1..(Len(f.pieces) - 1) : f.pieces[k] > 0
ASSUME ReadAssumption ==
  /\ Offsets \subseteq Int /\ Limits \subseteq Int
  /\ ReadMaxLines \in Nat \ {0} /\ ReadMaxBytes \in Nat \ {0}

VARIABLES
  file,     \* the file
  pages,    \* the pages returned so far: [from, to, cut]
  hint,     \* the offset the last page says to go on with, 0 when it says none
  first,    \* the arguments of the first call
  reading   \* "idle", "session", "refused"

readVars == <<file, pages, hint, first, reading>>

Page == [from : Nat, to : Nat, cut : BOOLEAN]

ReadTypeOK ==
  /\ file \in Files
  /\ pages \in Seq(Page)
  /\ hint \in Nat
  /\ first \in [offset : Int, limit : Int]
  /\ reading \in {"idle", "session", "refused"}

ReadInit ==
  /\ file \in Files
  /\ pages = <<>> /\ hint = 0
  /\ first = [offset |-> 0, limit |-> 0]
  /\ reading = "idle"

TotalLines == Len(file.pieces)

\* The trailing empty piece is not a line.
LogicalEnd == IF file.pieces[TotalLines] = 0 THEN TotalLines - 1 ELSE TotalLines

Least(a, b) == IF a <= b THEN a ELSE b

StartAt(offset) == IF offset > 0 THEN Least(offset - 1, TotalLines) ELSE 0

EndAt(start, limit) ==
  Least(TotalLines, start + (IF limit > 0 THEN limit ELSE ReadMaxLines))

Bytes(start, end) ==
  LET upTo[n \in start..end] == IF n = start THEN 0 ELSE upTo[n - 1] + file.pieces[n]
  IN  upTo[end]

TooLongAt(start, end) == start < end /\ file.pieces[start + 1] > ReadMaxBytes

\* The last whole line of start..end that keeps the page under the ceiling.
CappedEnd(start, end) ==
  CHOOSE n \in start..end :
    /\ Bytes(start, n) <= ReadMaxBytes
    /\ n < end => Bytes(start, n + 1) > ReadMaxBytes

\* Faulty: the hint names the last line of the page.
NextOffsetAtLast(capped, limit) ==
  IF limit <= 0 /\ capped < LogicalEnd THEN capped ELSE 0

NextOffset(capped, limit) ==
  IF limit <= 0 /\ capped < LogicalEnd THEN capped + 1 ELSE 0

Answer(offset, limit) ==
  LET start  == StartAt(offset)
      end    == EndAt(start, limit)
      capped == CappedEnd(start, end)
  IN  IF TooLongAt(start, end)
      THEN \* Its first ReadMaxBytes bytes are all there is to be had of it.
           /\ pages' = Append(pages, [from |-> start + 1, to |-> start + 1, cut |-> TRUE])
           /\ hint' = IF start + 1 < LogicalEnd THEN start + 2 ELSE 0
      ELSE IF capped = start
      THEN hint' = 0 /\ UNCHANGED pages
      ELSE /\ pages' = Append(pages, [from |-> start + 1, to |-> capped, cut |-> FALSE])
           /\ hint' = NextOffset(capped, limit)

\* Only a note about the file is returned.
Refuse ==
  /\ reading = "idle" /\ file.kind # "text"
  /\ reading' = "refused"
  /\ UNCHANGED <<file, pages, hint, first>>

Read(offset, limit) ==
  /\ reading = "idle" /\ file.kind = "text"
  /\ reading' = "session"
  /\ first' = [offset |-> offset, limit |-> limit]
  /\ Answer(offset, limit)
  /\ UNCHANGED file

\* The caller goes on where the hint says.
Follow ==
  /\ reading = "session" /\ hint > 0
  /\ Answer(hint, 0)
  /\ UNCHANGED <<file, first, reading>>

ReadNext == Refuse \/ (\E o \in Offsets, l \in Limits : Read(o, l)) \/ Follow
=============================================================================
