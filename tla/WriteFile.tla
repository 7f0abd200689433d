----------------------------- MODULE WriteFile ------------------------------
(***************************************************************************)
(* The tools that change a file: write (tools/write.go) and edit           *)
(* (tools/edit.go).  A content is a sequence of characters, one of which   *)
(* is the newline; a file that does not exist has none.                    *)
(***************************************************************************)
EXTENDS Integers, Sequences, SequencesExt, FiniteSetsExt, Slices

CONSTANTS
  Contents,   \* contents of files and arguments of write
  OldStrings, NewStrings   \* arguments of edit

NL == "nl"

\* The newline, or another.
Char == {NL} \cup STRING

Absent == [exists |-> FALSE, content |-> <<>>]

Stored(content) == [exists |-> TRUE, content |-> content]

ASSUME ContentsAssumption ==
  Contents \cup OldStrings \cup NewStrings \subseteq Seq(Char)

VARIABLES
  disk,      \* the file
  before,    \* the file when the tool was called
  asked,     \* the arguments
  summary    \* what the tool returned, nothing before

writeVars == <<disk, before, asked, summary>>

Nothing == [kind |-> "none", count |-> 0, removed |-> <<>>, added |-> <<>>]

Summary(kind, count, removed, added) ==
  [kind |-> kind, count |-> count, removed |-> removed, added |-> added]

Asked == [content : Seq(Char)] \cup [old : Seq(Char), new : Seq(Char), all : BOOLEAN]

WriteTypeOK ==
  /\ disk \in [exists : BOOLEAN, content : Seq(Char)]
  /\ before \in [exists : BOOLEAN, content : Seq(Char)]
  /\ asked \in Asked
  /\ summary.kind \in {"none", "created", "unchanged", "changed", "edited", "error"}
  /\ summary.count \in Nat
  /\ summary.removed \in Seq(Seq(Char)) /\ summary.added \in Seq(Seq(Char))

WriteInit ==
  /\ before \in {Absent} \cup {Stored(c) : c \in Contents}
  /\ asked \in [content : Contents]
                 \cup [old : OldStrings, new : NewStrings, all : BOOLEAN]
  /\ disk = before
  /\ summary = Nothing

----------------------------------------------------------------------------
(* write                                                                   *)

\* The positions after which a line of s ends.
Ends(s) == {k \in 1..Len(s) : s[k] = NL}

\* splitLines: what follows the last newline is a line unless it is empty.
SplitLines(s) ==
  LET ends  == Picked([k \in 1..(Len(s) + 1) |-> k], Ends(s) \cup {Len(s) + 1})
      start == [n \in DOMAIN ends |-> IF n = 1 THEN 1 ELSE ends[n - 1] + 1]
      split == [n \in DOMAIN ends |-> SubSeq(s, start[n], ends[n] - 1)]
  IN  IF Last(split) = <<>> THEN Front(split) ELSE split

\* The content without the newlines at its end, and one.
Normalized(content) ==
  LET body == Max({0} \cup {k \in DOMAIN content : content[k] # NL})
  IN  Append(SubSeq(content, 1, body), NL)

CommonPrefix(o, n) ==
  Max({p \in 0..Min({Len(o), Len(n)}) : \A k \in 1..p : o[k] = n[k]})

\* Faulty: the common end may reach into the common beginning.
CommonSuffixFree(o, n, p) ==
  Max({s \in 0..Min({Len(o), Len(n)}) :
         \A k \in 0..(s - 1) : o[Len(o) - k] = n[Len(n) - k]})

CommonSuffix(o, n, p) ==
  Max({s \in 0..(Min({Len(o), Len(n)}) - p) :
         \A k \in 0..(s - 1) : o[Len(o) - k] = n[Len(n) - k]})

\* summarizeWrite and prefixSuffixDiff
SummarizeWrite(file, new) ==
  LET o == SplitLines(file.content)
      n == SplitLines(new)
      p == CommonPrefix(o, n)
      s == CommonSuffix(o, n, p)
  IN  IF ~file.exists THEN Summary("created", Len(n), <<>>, <<>>)
      ELSE IF file.content = new THEN Summary("unchanged", 0, <<>>, <<>>)
      ELSE Summary("changed", 0, SubSeq(o, p + 1, Len(o) - s), SubSeq(n, p + 1, Len(n) - s))

Writing == DOMAIN asked = {"content"}

Error == Summary("error", 0, <<>>, <<>>)

\* os.WriteFile empties the file first: when it fails, the file is as it was or
\* holds a part of the content.
Store(content, done) ==
  \/ disk' = Stored(content) /\ summary' = done
  \/ /\ disk' \in {disk} \cup {Stored(SubSeq(content, 1, k)) : k \in 0..(Len(content) - 1)}
     /\ summary' = Error

Write ==
  /\ summary = Nothing /\ Writing
  /\ LET new == Normalized(asked.content)
     IN  Store(new, SummarizeWrite(disk, new))
  /\ UNCHANGED <<before, asked>>

----------------------------------------------------------------------------
(* edit                                                                    *)

OccursAt(content, old, k) ==
  k + Len(old) - 1 <= Len(content) /\ SubSeq(content, k, k + Len(old) - 1) = old

\* Where strings.Count and strings.Replace find old: from the left, each time
\* after the end of the one before.
Occurrences(content, old) ==
  LET found[k \in 0..Len(content)] ==
        IF k = 0 THEN <<>>
        ELSE IF OccursAt(content, old, k)
                  /\ (found[k - 1] = <<>> \/ Last(found[k - 1]) + Len(old) <= k)
             THEN Append(found[k - 1], k) ELSE found[k - 1]
  IN  found[Len(content)]

\* The content with old at the given places replaced.
Replaced(content, old, new, places) ==
  LET Part(k) == IF k \in places THEN new
                 ELSE IF \E q \in places : q < k /\ k < q + Len(old) THEN <<>>
                 ELSE <<content[k]>>
  IN  FlattenSeq([k \in DOMAIN content |-> Part(k)])

\* The text is ambiguous only when every one is not to be replaced.
Refused(n) == asked.old = <<>> \/ ~disk.exists \/ n = 0 \/ (n > 1 /\ ~asked.all)

Edit ==
  /\ summary = Nothing /\ ~Writing
  /\ LET found == Occurrences(disk.content, asked.old)
     IN  IF Refused(Len(found))
         THEN summary' = Error /\ UNCHANGED disk
         ELSE Store(Replaced(disk.content, asked.old, asked.new, Range(found)),
                    Summary("edited", Len(found), <<>>, <<>>))
  /\ UNCHANGED <<before, asked>>

WriteNext == Write \/ Edit
=============================================================================
