----------------------------- MODULE GlobMatch ------------------------------
(***************************************************************************)
(* The glob tool's pattern: how it is normalized and how a path is matched *)
(* against it (tools/glob.go).  Patterns and paths are sequences of the    *)
(* segments between slashes; an empty segment is what two slashes, or a    *)
(* slash at either end, leave between them.                                *)
(***************************************************************************)
EXTENDS Integers, SequencesExt, Slices

Globstar == "**"

\* filepath.Match on one segment, for the patterns "*" and plain names.
SegmentMatches(seg, name) == seg = "*" \/ seg = name

\* The leading "./" and "/" of a pattern, however often they are repeated.
LeadingTrim(raw) ==
  Max({k \in 0..(Len(raw) - 1) : \A i \in 1..k : raw[i] \in {"", "."}})

\* normalizeGlobPattern
Normalize(raw) ==
  LET segs == Picked(raw, {i \in (LeadingTrim(raw) + 1)..Len(raw) : raw[i] # ""})
  IN  IF segs = <<>> THEN <<Globstar>>
      ELSE IF Head(segs) = Globstar THEN segs ELSE <<Globstar>> \o segs

----------------------------------------------------------------------------
(* matchSegments: cell j of a row says whether the pattern consumed so far *)
(* matches the first j segments of the path.  Two rows take turns, so the  *)
(* row that is filled holds what it held two rows ago.                     *)

\* Faulty: the border cell of a row is set only by a globstar.
FillKeepingBorder(prev, stale, seg, path) ==
  LET cell[j \in 0..Len(path)] ==
        IF seg = Globstar
        THEN prev[j] \/ (j > 0 /\ cell[j - 1])
        ELSE IF j = 0 THEN stale[0]
        ELSE SegmentMatches(seg, path[j]) /\ prev[j - 1]
  IN  cell

Fill(prev, stale, seg, path) ==
  LET cell[j \in 0..Len(path)] ==
        IF seg = Globstar
        THEN prev[j] \/ (j > 0 /\ cell[j - 1])
        ELSE j > 0 /\ SegmentMatches(seg, path[j]) /\ prev[j - 1]
  IN  cell

MatchSegments(pattern, path) ==
  LET rows[i \in 0..Len(pattern)] ==
        IF i = 0 THEN [prev |-> [j \in 0..Len(path) |-> j = 0],
                       curr |-> [j \in 0..Len(path) |-> FALSE]]
        ELSE [prev |-> Fill(rows[i - 1].prev, rows[i - 1].curr, pattern[i], path),
              curr |-> rows[i - 1].prev]
  IN  rows[Len(pattern)].prev[Len(path)]

----------------------------------------------------------------------------
(* What the tool's schema promises.                                        *)

\* The segments of the path from number `from` on can be dealt out to the
\* pattern's in order, each plain segment of the pattern taking exactly one that
\* matches it.
Covers(pattern, path, from) ==
  \E deal \in [from..Len(path) -> DOMAIN pattern] :
    /\ \A i, j \in from..Len(path) : i <= j => deal[i] <= deal[j]
    /\ \A k \in DOMAIN pattern :
         pattern[k] # Globstar =>
           \E j \in from..Len(path) :
             /\ deal[j] = k /\ SegmentMatches(pattern[k], path[j])
             /\ \A i \in from..Len(path) : deal[i] = k => i = j

\* What a pattern says: leading dots and all empty segments say nothing, but a
\* dot alone does.
Says(raw, i) ==
  /\ raw[i] # ""
  /\ i = Len(raw) \/ \E k \in 1..i : raw[k] \notin {"", "."}

\* A leading **/ is implied: the pattern covers some tail of the path; one that
\* says nothing matches every file.
Promised(raw, path) ==
  LET said == Picked(raw, {i \in DOMAIN raw : Says(raw, i)})
  IN  said = <<>> \/ \E from \in 1..(Len(path) + 1) : Covers(said, path, from)
=============================================================================
