---------------------------- MODULE StreamParser ----------------------------
(***************************************************************************)
(* llm/sse.go: one stream of frames assembled into a Response, with the    *)
(* deltas its caller sees on the way.  Frames come from the endpoint in    *)
(* any order and may stop anywhere.                                        *)
(*                                                                         *)
(* Not modelled: blank lines, comments and other fields of the protocol    *)
(* (they are skipped), reasoning text (assembled as content is), and       *)
(* model, provider and usage (the latest frame's value wins).              *)
(***************************************************************************)
EXTENDS ReasoningDetails, Harmony

CONSTANTS
  Feeds,       \* the sets of chunks a stream may be made of
  MaxChunks    \* bound: chunks of a stream

\* A fragment of a call, with "" and <<>> for what it does not carry.
Fragment == [index : Int, id : STRING, name : STRING, type : STRING, args : Seq(STRING)]

\* A fragment of details; only an object has an index, a type and keys.
IsDetail(f) ==
  /\ f.kind \in {"object", "null", "verbatim"}
  /\ f.index \in Int /\ f.type \in STRING
  /\ f.kind # "object" => f.index = NoIndex /\ f.type = NoType /\ DOMAIN f.keys = {}
  /\ \A k \in DOMAIN f.keys :
       f.keys[k].kind \in {"string", "null", "other"} /\ f.keys[k].pieces \in Seq(STRING)

\* A chunk: content is tokens, details and calls are fragments, finish is ""
\* in all but a last one.
ASSUME FeedAssumption ==
  \A feed \in Feeds : \A c \in feed :
    /\ c.content \in Seq(Tokens)
    /\ c.calls \in Seq(Fragment)
    /\ c.details \in Seq(Range(c.details))
    /\ \A f \in Range(c.details) : IsDetail(f)
ASSUME ChunkAssumption == MaxChunks \in Nat

VARIABLES
  feed,
  wire,       \* the chunks read so far
  result,     \* "" while reading, then "ok", "truncated" or "error"
  sawDone,
  content, finish,
  calls,      \* [acc, order, shown]; shown is what the caller made of the deltas
  details,    \* the accumulator
  reply       \* the Response of a successful parse

vars == <<feed, wire, result, sawDone, content, finish, calls, details, reply>>

----------------------------------------------------------------------------
Blank == [id |-> "", name |-> "", type |-> "", args |-> <<>>]

Latest(new, old) == IF new = "" THEN old ELSE new

At(f, i, default) == IF i \in DOMAIN f THEN f[i] ELSE default

With(f, i, v) == [j \in DOMAIN f \cup {i} |-> IF j = i THEN v ELSE f[j]]

\* Faulty: only an argument fragment is worth a delta.
ChangedArgs(cur, f) == f.args # <<>>

Changed(cur, f) ==
  \/ f.args # <<>>
  \/ f.id \notin {"", cur.id}
  \/ f.name \notin {"", cur.name}

\* Faulty: the id of a call is the first one seen.
MergedFirstId(cur, f) ==
  [id |-> Latest(cur.id, f.id), name |-> Latest(f.name, cur.name),
   type |-> Latest(f.type, cur.type), args |-> cur.args \o f.args]

Merged(cur, f) ==
  [id |-> Latest(f.id, cur.id), name |-> Latest(f.name, cur.name),
   type |-> Latest(f.type, cur.type), args |-> cur.args \o f.args]

\* How a caller follows the deltas: the latest id and name, the arguments so far.
Show(shown, i, call, args) ==
  With(shown, i, [id |-> call.id, name |-> call.name,
                  args |-> At(shown, i, Blank).args \o args])

TakeCall(s, f) ==
  LET cur == At(s.acc, f.index, Blank)
      new == Merged(cur, f)
  IN  [acc   |-> With(s.acc, f.index, new),
       order |-> IF f.index \in DOMAIN s.acc THEN s.order ELSE Append(s.order, f.index),
       shown |-> IF Changed(cur, f) THEN Show(s.shown, f.index, new, f.args) ELSE s.shown]

\* What the fragments of a chunk make of s, one after another.
TakeCalls(s, fs) ==
  LET after[n \in 0..Len(fs)] == IF n = 0 THEN s ELSE TakeCall(after[n - 1], fs[n])
  IN  after[Len(fs)]

\* The fragments of details read so far.
AllDetails == FlattenSeq([k \in DOMAIN wire |-> wire[k].details])

\* The calls of a reply, with a type even when the stream named none.
CallList ==
  [k \in DOMAIN calls.order |->
     LET c == calls.acc[calls.order[k]]
     IN  [c EXCEPT !.type = Latest(@, "function")]]

HarmonyCall(k, args) ==
  [id |-> "harmony", number |-> k - 1, name |-> "f", type |-> "function", args |-> args]

\* normalizeHarmony of what the stream gave.
Normalized ==
  IF calls.order # <<>> \/ ~HasChannel(content)
  THEN [content |-> content, calls |-> CallList, finish |-> finish, details |-> details.entries]
  ELSE LET args == Extracted(content)
       IN  [content |-> Rest(content),
            calls   |-> [k \in DOMAIN args |-> HarmonyCall(k, args[k])],
            finish  |-> IF args # <<>> /\ finish \in {"stop", ""} THEN "tool_calls" ELSE finish,
            details |-> details.entries]

NoReply == [content |-> <<>>, calls |-> <<>>, finish |-> "", details |-> <<>>]

----------------------------------------------------------------------------
ReadChunk ==
  /\ result = "" /\ Len(wire) < MaxChunks
  /\ \E c \in feed :
       /\ wire' = Append(wire, c)
       /\ content' = content \o c.content
       /\ finish' = Latest(c.finish, finish)
       /\ calls' = TakeCalls(calls, c.calls)
       /\ details' = AddAll(details, c.details, Len(AllDetails))
  /\ UNCHANGED <<feed, result, sawDone, reply>>

\* An error frame, a frame that does not decode, a line past the limit or a
\* transport error: what was assembled is not used.
Break ==
  /\ result = ""
  /\ result' = "error"
  /\ UNCHANGED <<feed, wire, sawDone, content, finish, calls, details, reply>>

\* Faulty: whatever a stream that ended gave is the reply.
CompleteAnyway(done) == TRUE

Complete(done) == done \/ finish # ""

\* [DONE], or the end of the body.
End ==
  /\ result = ""
  /\ \E done \in BOOLEAN :
       /\ sawDone' = done
       /\ IF Complete(done)
          THEN result' = "ok" /\ reply' = Normalized
          ELSE result' = "truncated" /\ UNCHANGED reply
  /\ UNCHANGED <<feed, wire, content, finish, calls, details>>

Parsed == result # "" /\ UNCHANGED vars

Init ==
  /\ feed \in Feeds
  /\ wire = <<>> /\ result = "" /\ sawDone = FALSE
  /\ content = <<>> /\ finish = ""
  /\ calls = [acc |-> <<>>, order |-> <<>>, shown |-> <<>>]
  /\ details = EmptyAccumulator
  /\ reply = NoReply

Next == ReadChunk \/ Break \/ End \/ Parsed

Spec == Init /\ [][Next]_vars

----------------------------------------------------------------------------
(* What the wire said, read as a whole.                                    *)

AllCalls == FlattenSeq([k \in DOMAIN wire |-> wire[k].calls])

\* The positions of the fragments of a call.
CallsOf(i) == {k \in DOMAIN AllCalls : AllCalls[k].index = i}

\* What the caller of a stream has shown of its tool calls is what the reply
\* will say of them: the latest id and name, every argument fragment once and
\* in order; a call never shown has none of these (Delta.ToolCall).
ShownIsAssembled ==
  \A i \in DOMAIN calls.acc :
    LET call == calls.acc[i]
        seen == At(calls.shown, i, Blank)
    IN  seen.id = call.id /\ seen.name = call.name /\ seen.args = call.args

\* Each call is what the fragments of its index said, wherever in the stream
\* they came: arguments in order, the last id and name given; calls are in the
\* order their indexes first appeared, each once.
CallsAsSent ==
  /\ \A i \in DOMAIN calls.acc :
       LET call  == calls.acc[i]
           ids   == {k \in CallsOf(i) : AllCalls[k].id # ""}
           names == {k \in CallsOf(i) : AllCalls[k].name # ""}
       IN  /\ call.args = FlattenSeq([k \in DOMAIN AllCalls |->
                            IF k \in CallsOf(i) THEN AllCalls[k].args ELSE <<>>])
           /\ call.id = IF ids = {} THEN "" ELSE AllCalls[Max(ids)].id
           /\ call.name = IF names = {} THEN "" ELSE AllCalls[Max(names)].name
  /\ IsInjective(calls.order) /\ Range(calls.order) = DOMAIN calls.acc
  /\ \A j, k \in DOMAIN calls.order : j < k =>
       \E n \in DOMAIN AllCalls :
         /\ AllCalls[n].index = calls.order[j]
         /\ \A m \in 1..n : AllCalls[m].index # calls.order[k]

\* A stream cut off in the middle is never taken for a reply: one that is ended
\* with [DONE] or said why it finished, and a reply with calls taken from its
\* content does not say that the model just stopped.
TruncationDetected ==
  /\ result = "ok" => sawDone \/ \E k \in DOMAIN wire : wire[k].finish # ""
  /\ result = "ok" /\ calls.order = <<>> /\ reply.calls # <<>> => reply.finish \notin {"", "stop"}

Prose(s) == {i \in DOMAIN s : s[i] = "prose"}

\* Content in the Harmony format becomes one call per header, loses no prose to
\* the framing, and leaves no framing in the text or in the arguments of the
\* last call.
HarmonyExtracted ==
  result = "ok" /\ calls.order = <<>> /\ HasChannel(content) =>
    LET args == [k \in DOMAIN reply.calls |-> reply.calls[k].args]
    IN  /\ Len(reply.calls) = Cardinality(Headers(content))
        /\ Prose(reply.content) = DOMAIN reply.content
        /\ Cardinality(Prose(content)) = Cardinality(Prose(reply.content))
                                         + Cardinality(Prose(FlattenSeq(args)))
        /\ args # <<>> => \A k \in DOMAIN Last(args) : ~IsFraming(Last(args)[k])

\* "Arguments run to the next <|...|> token or end of string"
\* (harmony.go:35-36), for every call.
ArgumentsEndAtToken ==
  result = "ok" /\ calls.order = <<>> /\ HasChannel(content) =>
    \A k \in DOMAIN reply.calls :
      \A j \in DOMAIN reply.calls[k].args : ~IsFraming(reply.calls[k].args[j])

Entries == details.entries

\* Fragment k is part of entry n.
Holding(n, k) == \E j \in DOMAIN Entries[n].from : Entries[n].from[j] = k

\* Signed details are assembled as they were sent.  Every fragment but null is
\* in exactly one entry, once; an entry holds fragments of one index, in order,
\* and of one type at most.
BlocksKeptApart ==
  /\ \A k \in DOMAIN AllDetails :
       AllDetails[k].kind # "null" <=> \E n \in DOMAIN Entries : Holding(n, k)
  /\ \A m, n \in DOMAIN Entries : \A k \in DOMAIN AllDetails :
       Holding(m, k) /\ Holding(n, k) => m = n
  /\ \A n \in DOMAIN Entries :
       LET from == Entries[n].from
       IN  /\ \A j \in DOMAIN from :
                /\ from[j] \in DOMAIN AllDetails
                /\ AllDetails[from[j]].index = Entries[n].index
                /\ AllDetails[from[j]].type \in {NoType, Entries[n].type}
           /\ \A j, k \in DOMAIN from :
                j < k => from[j] < from[k] /\ Entries[n].index # NoIndex

\* Entries are in the order of their first fragments; once an index has opened
\* a new one the earlier gets nothing more, and it opens one only for a fragment
\* of another type than all that the earlier one holds.
BlocksInOrder ==
  \A m, n \in DOMAIN Entries :
    LET first == Head(Entries[n].from)
    IN  m < n =>
          /\ Head(Entries[m].from) < first
          /\ Entries[m].index = Entries[n].index /\ Entries[m].index # NoIndex =>
               /\ \A j \in DOMAIN Entries[m].from : Entries[m].from[j] < first
               /\ \/ \E o \in m + 1..n - 1 : Entries[o].index = Entries[n].index
                  \/ /\ Entries[m].type # NoType
                     /\ AllDetails[first].type \notin {NoType, Entries[m].type}

\* The text a fragment carries, a string or something else.
HasText(f, kind) == "text" \in DOMAIN f.keys /\ f.keys["text"].kind = kind

\* The text of an entry is that of its fragments in order, from the last value
\* that was no string on; no key is kept both ways.
TextJoined ==
  \A n \in DOMAIN Entries :
    LET e     == Entries[n]
        piece == [j \in DOMAIN e.from |-> AllDetails[e.from[j]]]
        since == {j \in DOMAIN piece :
                    /\ HasText(piece[j], "string")
                    /\ \A k \in DOMAIN piece : k > j => ~HasText(piece[k], "other")}
    IN  /\ DOMAIN e.fields \cap DOMAIN e.cat = {}
        /\ "text" \in DOMAIN e.cat <=> since # {}
        /\ since # {} =>
             e.cat["text"] = FlattenSeq([j \in DOMAIN piece |->
                               IF j \in since THEN piece[j].keys["text"].pieces ELSE <<>>])

\* Signed details reach the next request as the provider sent them: no block
\* takes another's fragment, none loses one, and each text is its own fragments
\* joined in order (reasoning.go 124-187).
DetailsAssembled == BlocksKeptApart /\ BlocksInOrder /\ TextJoined
=============================================================================
