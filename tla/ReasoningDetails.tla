-------------------------- MODULE ReasoningDetails --------------------------
(***************************************************************************)
(* llm/reasoning.go: the accumulator that assembles streamed               *)
(* reasoning_details fragments into entries.  Two keys stand for all:      *)
(* "text" for the keys that are concatenated and "signature" for every     *)
(* other one.  index and type are taken apart from them, as the code does. *)
(***************************************************************************)
EXTENDS Integers, Sequences

NoIndex == -1     \* absent, null, a string or a fraction
NoType  == ""     \* absent, null or ""

ConcatKey(k) == k = "text"

\* A JSON value: a string as the sequence of its pieces, "empty" (null), or
\* any value that is not a string.
Text(pieces) == [kind |-> "string", pieces |-> pieces]
Null         == [kind |-> "null", pieces |-> <<>>]
Other        == [kind |-> "other", pieces |-> <<>>]

\* Absent keys are not there, so this is null or "".
EmptyJSON(v) == v.kind = "null" \/ v = Text(<<>>)

IsConcat(k, v) == ConcatKey(k) /\ v.kind = "string"

\* An entry is its plain fields, the strings being concatenated, and its type;
\* from holds the fragments that went into it.  A fragment that is no object
\* is kept as it came.
Verbatim(id) == [object |-> FALSE, fields |-> <<>>, cat |-> <<>>, type |-> NoType,
                 index |-> NoIndex, from |-> <<id>>]

NewEntry(f, id) ==
  [object |-> TRUE, type |-> f.type, index |-> f.index, from |-> <<id>>,
   fields |-> [k \in {x \in DOMAIN f.keys : ~IsConcat(x, f.keys[x])} |-> f.keys[k]],
   cat    |-> [k \in {x \in DOMAIN f.keys : IsConcat(x, f.keys[x])} |-> f.keys[k].pieces]]

Merge(e, f, id) ==
  LET joins == {k \in DOMAIN f.keys : IsConcat(k, f.keys[k])}
      sets  == {k \in DOMAIN f.keys \ joins : ~EmptyJSON(f.keys[k])}
  IN  [object |-> TRUE, index |-> e.index, from |-> Append(e.from, id),
       type   |-> IF e.type = NoType THEN f.type ELSE e.type,
       fields |-> [k \in (DOMAIN e.fields \ joins) \cup sets |->
                     IF k \in sets THEN f.keys[k] ELSE e.fields[k]],
       cat    |-> [k \in (DOMAIN e.cat \cup joins) \ sets |->
                     (IF k \in DOMAIN e.cat THEN e.cat[k] ELSE <<>>)
                       \o (IF k \in joins THEN f.keys[k].pieces ELSE <<>>)]]

\* Faulty: an entry takes whatever comes for its index.
StartsBlockNever(e, f) == FALSE

\* A fragment of another type is a block of its own.
StartsBlock(e, f) == f.type # NoType /\ e.type # NoType /\ f.type # e.type

\* The new entry is the one later fragments of its index go to.
Opens(a, f) == f.index # NoIndex

Start(a, f, id) ==
  [entries |-> Append(a.entries, NewEntry(f, id)),
   byIndex |-> IF Opens(a, f)
               THEN [i \in DOMAIN a.byIndex \cup {f.index} |->
                       IF i = f.index THEN Len(a.entries) + 1 ELSE a.byIndex[i]]
               ELSE a.byIndex]

EmptyAccumulator == [entries |-> <<>>, byIndex |-> <<>>]

\* detailsAccumulator.add; f.kind is "object", "null" or "verbatim", id its
\* number in the stream.
Add(a, f, id) ==
  IF f.kind = "null" THEN a
  ELSE IF f.kind = "verbatim" THEN [a EXCEPT !.entries = Append(@, Verbatim(id))]
  ELSE IF f.index \in DOMAIN a.byIndex /\ ~StartsBlock(a.entries[a.byIndex[f.index]], f)
  THEN [a EXCEPT !.entries[a.byIndex[f.index]] = Merge(@, f, id)]
  ELSE Start(a, f, id)

\* The fragments of a chunk, with n of them before.
AddAll(a, fs, n) ==
  LET after[k \in 0..Len(fs)] == IF k = 0 THEN a ELSE Add(after[k - 1], fs[k], n + k)
  IN  after[Len(fs)]
============================================================================
