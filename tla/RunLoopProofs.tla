--------------------------- MODULE RunLoopProofs ---------------------------
(***************************************************************************)
(* Type correctness of the run loop, and the conversation of a run: what   *)
(* the ways it grows and shrinks preserve, that it is acceptable to the    *)
(* chat API in every state, that only compaction takes anything out of it, *)
(* and that the run implements the protocol of the chat API.               *)
(***************************************************************************)
EXTENDS RunLoop, TLAPS

----------------------------------------------------------------------------
(* Conversations.                                                          *)

LEMMA MessageTypes ==
  /\ System \in Message /\ User \in Message
  /\ \A n \in Nat : Assistant(n) \in Message
  /\ \A n, k \in Nat : ToolResult(n, k) \in Message
  BY DEF System, User, Assistant, ToolResult, Message, Roles

\* One more message that may follow the last one keeps the conversation
\* acceptable.
LEMMA AppendWellFormed ==
  ASSUME NEW h \in Seq(Message), NEW m \in Message,
         WellFormed(h), Follows(h[Len(h)], m)
  PROVE  /\ Append(h, m) \in Seq(Message)
         /\ WellFormed(Append(h, m))
         /\ Len(Append(h, m)) = Len(h) + 1
         /\ Append(h, m)[Len(h) + 1] = m
<1> DEFINE g == Append(h, m)
<1>1. /\ g \in Seq(Message) /\ Len(g) = Len(h) + 1 /\ g[Len(h) + 1] = m
      /\ \A i \in 1..Len(h) : g[i] = h[i]
  OBVIOUS
<1>2. Len(h) \in Nat /\ Len(h) >= 1
  BY DEF WellFormed
<1>3. ASSUME NEW i \in 1..(Len(g) - 1)
      PROVE  Follows(g[i], g[i + 1])
  <2>1. CASE i = Len(h)
    BY <1>1, <1>2, <2>1
  <2>2. CASE i # Len(h)
    <3>1. i \in 1..(Len(h) - 1)
      BY <1>1, <1>2, <2>2
    <3>2. Follows(h[i], h[i + 1])
      BY <3>1 DEF WellFormed, Chain
    <3> QED BY <1>1, <1>2, <3>1, <3>2
  <2> QED BY <2>1, <2>2
<1>4. Chain(g)
  BY <1>3 DEF Chain
<1>5. g # <<>> /\ g[1] = h[1]
  BY <1>1, <1>2
<1> QED BY <1>1, <1>4, <1>5 DEF WellFormed

\* User messages may follow any settled conversation.
LEMMA UsersWellFormed ==
  ASSUME NEW h \in Seq(Message), NEW n \in Nat, WellFormed(h), Settled(h)
  PROVE  /\ h \o Users(n) \in Seq(Message)
         /\ WellFormed(h \o Users(n))
         /\ Settled(h \o Users(n))
         /\ n > 0 \/ Sendable(h) => Sendable(h \o Users(n))
<1> DEFINE g == h \o Users(n)
<1>1. Users(n) \in Seq(Message) /\ Len(Users(n)) = n /\ \A i \in 1..n : Users(n)[i] = User
  BY MessageTypes DEF Users
<1>2. /\ g \in Seq(Message) /\ Len(g) = Len(h) + n
      /\ \A i \in 1..Len(h) : g[i] = h[i]
      /\ \A i \in (Len(h) + 1)..(Len(h) + n) : g[i] = User
  BY <1>1
<1>3. Len(h) \in Nat /\ Len(h) >= 1
  BY DEF WellFormed
<1>4. ~IsOpen(User) /\ User.role = "user"
  BY DEF IsOpen, User
<1>5. ASSUME NEW i \in 1..(Len(g) - 1)
      PROVE  Follows(g[i], g[i + 1])
  <2>1. CASE i < Len(h)
    <3>1. Follows(h[i], h[i + 1])
      BY <1>3, <2>1 DEF WellFormed, Chain
    <3> QED BY <1>2, <1>3, <2>1, <3>1
  <2>2. CASE i = Len(h)
    <3>1. g[i] = h[Len(h)] /\ g[i + 1] = User
      BY <1>2, <1>3, <2>2
    <3>2. ~IsOpen(h[Len(h)])
      BY DEF Settled
    <3> QED BY <1>4, <3>1, <3>2 DEF Follows
  <2>3. CASE i > Len(h)
    <3>1. g[i] = User /\ g[i + 1] = User
      BY <1>2, <1>3, <2>3
    <3> QED BY <1>4, <3>1 DEF Follows
  <2> QED BY <1>3, <2>1, <2>2, <2>3
<1>6. WellFormed(g)
  <2>1. g # <<>> /\ g[1] = h[1]
    BY <1>2, <1>3
  <2> QED BY <1>5, <2>1 DEF WellFormed, Chain
<1>7. g[Len(g)] = IF n > 0 THEN User ELSE h[Len(h)]
  BY <1>2, <1>3
<1>8. Settled(g) /\ (n > 0 \/ Sendable(h) => Sendable(g))
  BY <1>4, <1>7 DEF Settled, Sendable
<1> QED BY <1>2, <1>6, <1>8

\* The conversation a run starts from.
LEMMA SeedWellFormed ==
  ASSUME NEW h \in Seq(Message), NEW s \in {<<System>>, <<>>},
         h # <<>> => WellFormed(h) /\ Settled(h) /\ h[1].role = "user"
  PROVE  /\ s \o h \o <<User>> \in Seq(Message)
         /\ WellFormed(s \o h \o <<User>>)
         /\ Sendable(s \o h \o <<User>>)
<1> DEFINE g == s \o h \o <<User>>
<1>1. s \in Seq(Message) /\ Len(s) \in {0, 1}
      /\ (Len(s) = 1 => s[1] = System)
  <2>1. CASE s = <<System>>
    BY <2>1, MessageTypes
  <2>2. CASE s = <<>>
    BY <2>2
  <2> QED BY <2>1, <2>2
<1>2. /\ g \in Seq(Message) /\ Len(g) = Len(s) + Len(h) + 1
      /\ \A i \in 1..Len(s) : g[i] = s[i]
      /\ \A i \in 1..Len(h) : g[Len(s) + i] = h[i]
      /\ g[Len(s) + Len(h) + 1] = User
  BY <1>1, MessageTypes
<1>3. Len(h) \in Nat
  OBVIOUS
<1>4. /\ ~IsOpen(User) /\ User.role = "user"
      /\ ~IsOpen(System) /\ System.role = "system"
  BY DEF IsOpen, User, System
<1>5. g[Len(s) + 1].role = "user"
  <2>1. CASE Len(h) = 0
    BY <1>2, <1>4, <2>1
  <2>2. CASE Len(h) > 0
    BY <1>2, <2>2
  <2> QED BY <1>3, <2>1, <2>2
<1>6. g[1].role \in {"system", "user"}
  BY <1>1, <1>2, <1>4, <1>5
<1>7. ASSUME NEW i \in 1..(Len(g) - 1)
      PROVE  Follows(g[i], g[i + 1])
  <2>0. i \in Nat /\ i >= 1 /\ i <= Len(s) + Len(h)
    BY <1>1, <1>2, <1>3
  <2>1. CASE i <= Len(s)
    <3>1. i = 1 /\ g[1] = System /\ g[2].role = "user"
      BY <1>1, <1>2, <1>5, <2>1
    <3> QED BY <1>4, <3>1 DEF Follows
  <2>2. CASE i > Len(s) /\ i < Len(s) + Len(h)
    <3> DEFINE j == i - Len(s)
    <3>1. j \in 1..(Len(h) - 1) /\ h # <<>>
      BY <1>1, <1>3, <2>2
    <3>2. Follows(h[j], h[j + 1])
      BY <3>1 DEF WellFormed, Chain
    <3>3. g[i] = h[j] /\ g[i + 1] = h[j + 1]
      BY <1>1, <1>2, <1>3, <3>1
    <3> QED BY <3>2, <3>3
  <2>3. CASE i > Len(s) /\ i = Len(s) + Len(h)
    <3>1. h # <<>> /\ g[i] = h[Len(h)] /\ g[i + 1] = User
      BY <1>1, <1>2, <1>3, <2>3
    <3>2. ~IsOpen(h[Len(h)])
      BY <3>1 DEF Settled
    <3> QED BY <1>4, <3>1, <3>2 DEF Follows
  <2> QED BY <1>1, <1>3, <2>0, <2>1, <2>2, <2>3
<1>8. WellFormed(g)
  BY <1>1, <1>2, <1>3, <1>6, <1>7 DEF WellFormed, Chain
<1>9. Sendable(g)
  BY <1>1, <1>2, <1>3, <1>4 DEF Sendable, Settled
<1> QED BY <1>2, <1>8, <1>9

\* A message between two sequences.
LEMMA Sandwich ==
  ASSUME NEW S, NEW p \in Seq(S), NEW m \in S, NEW q \in Seq(S)
  PROVE  /\ (p \o <<m>> \o q) \in Seq(S)
         /\ Len(p \o <<m>> \o q) = Len(p) + 1 + Len(q)
         /\ \A i \in 1..Len(p) : (p \o <<m>> \o q)[i] = p[i]
         /\ (p \o <<m>> \o q)[Len(p) + 1] = m
         /\ \A i \in 1..Len(q) : (p \o <<m>> \o q)[Len(p) + 1 + i] = q[i]
<1> DEFINE t == p \o <<m>>
<1>1. /\ t \in Seq(S) /\ Len(t) = Len(p) + 1 /\ t[Len(p) + 1] = m
      /\ \A i \in 1..Len(p) : t[i] = p[i]
  OBVIOUS
<1>2. Len(p) \in Nat /\ Len(q) \in Nat
  OBVIOUS
<1> HIDE DEF t
<1>3. /\ t \o q \in Seq(S) /\ Len(t \o q) = Len(t) + Len(q)
      /\ \A i \in 1..Len(t) : (t \o q)[i] = t[i]
      /\ \A i \in 1..Len(q) : (t \o q)[Len(t) + i] = q[i]
  BY <1>1
<1>4. \A i \in 1..Len(p) : i \in 1..Len(t)
  BY <1>1, <1>2
<1>5. Len(p) + 1 \in 1..Len(t)
  BY <1>1, <1>2
<1>6. /\ t \o q \in Seq(S) /\ Len(t \o q) = Len(p) + 1 + Len(q)
      /\ \A i \in 1..Len(p) : (t \o q)[i] = p[i]
      /\ (t \o q)[Len(p) + 1] = m
      /\ \A i \in 1..Len(q) : (t \o q)[Len(p) + 1 + i] = q[i]
  BY <1>1, <1>2, <1>3, <1>4, <1>5
<1> QED BY <1>6 DEF t

\* Compaction: wherever the snapped split falls, the summary and the tail are
\* a conversation the model may be asked to continue, the system prompt and
\* the recent messages survive, and the length is known.
LEMMA SummarizedWellFormed ==
  ASSUME NEW h \in Seq(Message), NEW keep \in Int, NEW b \in Nat,
         WellFormed(h), Sendable(h), EnoughToSummarize(h, keep),
         b > SysCount(h), SplitsAt(h, keep, b)
  PROVE  /\ Summarized(h, b) \in Seq(Message)
         /\ WellFormed(Summarized(h, b))
         /\ Sendable(Summarized(h, b))
         /\ Len(Summarized(h, b)) = SysCount(h) + 1 + Len(h) - b
         /\ SysCount(Summarized(h, b)) = SysCount(h)
         /\ \A j \in 0..(KeepRecent(keep) - 1) :
              Summarized(h, b)[Len(Summarized(h, b)) - j] = h[Len(h) - j]
<1> DEFINE y == SysCount(h)
           k == KeepRecent(keep)
           n == Len(h)
           g == Summarized(h, b)
<1>1. /\ n \in Nat /\ n >= 1 /\ y \in {0, 1} /\ k \in Nat
      /\ y = 1 <=> h[1].role = "system"
      /\ n - y - k > 1
  <2>1. n \in Nat /\ h # <<>>
    BY DEF WellFormed
  <2>2. n >= 1
    BY <2>1
  <2>3. y \in {0, 1} /\ (y = 1 <=> h[1].role = "system")
    BY <2>1 DEF SysCount
  <2>4. k \in Nat
    BY DEF KeepRecent
  <2>5. n - y - k > 1
    BY DEF EnoughToSummarize
  <2> QED BY <2>1, <2>2, <2>3, <2>4, <2>5
<1>2. PICK w \in y..n : WalksBackTo(h, keep, w) /\ b = PullAssistant(h, w)
  BY DEF SplitsAt
<1>3. /\ w \in y..(n - k)
      /\ ~(w > y /\ w < n /\ h[w + 1].role = "tool")
  BY <1>2 DEF WalksBackTo
<1>4. /\ b \in {w - 1, w} /\ b > y /\ b <= n - k
      /\ b = w - 1 => h[w].role = "assistant"
  BY <1>1, <1>2, <1>3 DEF PullAssistant
<1>5. b < n => h[b + 1].role \in {"user", "assistant"}
  <2> SUFFICES ASSUME b < n
               PROVE  h[b + 1].role \in {"user", "assistant"}
    OBVIOUS
  <2>1. CASE b = w - 1
    BY <1>4, <2>1
  <2>2. CASE b = w
    <3>1. b \in 1..(n - 1)
      BY <1>1, <1>4
    <3>2. Follows(h[b], h[b + 1])
      BY <3>1 DEF WellFormed, Chain
    <3>3. h[b + 1].role # "tool"
      BY <1>3, <1>4, <2>2
    <3> QED BY <3>2, <3>3 DEF Follows
  <2> QED BY <1>4, <2>1, <2>2
<1>6. /\ g \in Seq(Message)
      /\ Len(g) = y + 1 + n - b
      /\ y = 1 => g[1] = h[1]
      /\ g[y + 1] = User
      /\ \A i \in 1..(n - b) : g[y + 1 + i] = h[b + i]
  <2>1. /\ SubSeq(h, 1, y) \in Seq(Message) /\ Len(SubSeq(h, 1, y)) = y
        /\ y = 1 => SubSeq(h, 1, y)[1] = h[1]
    BY <1>1
  <2>2. /\ SubSeq(h, b + 1, n) \in Seq(Message) /\ Len(SubSeq(h, b + 1, n)) = n - b
        /\ \A i \in 1..(n - b) : SubSeq(h, b + 1, n)[i] = h[b + i]
    <3>1. n \in Nat /\ b \in 1..n
      BY <1>1, <1>4
    <3>2. /\ SubSeq(h, b + 1, n) \in Seq(Message)
          /\ Len(SubSeq(h, b + 1, n)) = IF b + 1 <= n THEN n - b ELSE 0
      BY <3>1
    <3>3. \A i \in 1..(n - b) : SubSeq(h, b + 1, n)[i] = h[b + i]
      BY <3>1
    <3> QED BY <3>1, <3>2, <3>3
  <2>3. <<User>> \in Seq(Message) /\ Len(<<User>>) = 1 /\ <<User>>[1] = User
    BY MessageTypes
  <2> HIDE DEF y, n, k
  <2>4. g = SubSeq(h, 1, y) \o <<User>> \o SubSeq(h, b + 1, n)
    BY DEF Summarized, y, n
  <2> DEFINE p == SubSeq(h, 1, y)
             q == SubSeq(h, b + 1, n)
  <2> HIDE DEF g, p, q
  <2>5. /\ p \in Seq(Message) /\ Len(p) = y /\ (y = 1 => p[1] = h[1])
        /\ q \in Seq(Message) /\ Len(q) = n - b
        /\ \A i \in 1..(n - b) : q[i] = h[b + i]
        /\ g = p \o <<User>> \o q
    BY <2>1, <2>2, <2>4 DEF p, q
  <2>6. /\ g \in Seq(Message)
        /\ Len(g) = Len(p) + 1 + Len(q)
        /\ \A i \in 1..Len(p) : g[i] = p[i]
        /\ g[Len(p) + 1] = User
        /\ \A i \in 1..Len(q) : g[Len(p) + 1 + i] = q[i]
    <3>1. User \in Message
      BY MessageTypes
    <3>2. p \in Seq(Message) /\ q \in Seq(Message) /\ g = p \o <<User>> \o q
      BY <2>5
    <3>3. /\ (p \o <<User>> \o q) \in Seq(Message)
          /\ Len(p \o <<User>> \o q) = Len(p) + 1 + Len(q)
          /\ \A i \in 1..Len(p) : (p \o <<User>> \o q)[i] = p[i]
          /\ (p \o <<User>> \o q)[Len(p) + 1] = User
          /\ \A i \in 1..Len(q) : (p \o <<User>> \o q)[Len(p) + 1 + i] = q[i]
      <4> HIDE DEF y, k, n
      <4> QED BY ONLY <3>1, <3>2, Sandwich
    <3> QED BY <3>2, <3>3, Zenon
  <2>7. Len(g) = y + 1 + n - b
    BY <1>1, <1>4, <2>5, <2>6
  <2>8. (y = 1 => g[1] = h[1]) /\ g[y + 1] = User
    <3>1. g[y + 1] = User
      BY <2>5, <2>6
    <3>2. y = 1 => 1 \in 1..Len(p)
      BY <2>5
    <3> QED BY <2>5, <2>6, <3>1, <3>2
  <2>9. \A i \in 1..(n - b) : g[y + 1 + i] = h[b + i]
    BY <2>5, <2>6
  <2> QED BY <2>6, <2>7, <2>8, <2>9
<1>7. /\ ~IsOpen(User) /\ User.role = "user"
  BY DEF IsOpen, User
<1> HIDE DEF g
<1>8. ASSUME NEW i \in 1..(Len(g) - 1)
      PROVE  Follows(g[i], g[i + 1])
  <2>1. CASE i <= y
    <3>1. i = 1 /\ y = 1 /\ g[1] = h[1] /\ g[2] = User
      BY <1>1, <1>6, <2>1
    <3>2. ~IsOpen(h[1])
      BY <1>1, <3>1 DEF IsOpen
    <3> QED BY <1>7, <3>1, <3>2 DEF Follows
  <2>2. CASE i = y + 1
    <3>1. b < n /\ g[i] = User /\ g[i + 1] = h[b + 1]
      BY <1>1, <1>4, <1>6, <2>2
    <3> QED BY <1>5, <1>7, <3>1 DEF Follows
  <2>3. CASE i > y + 1
    <3> DEFINE j == b + (i - y - 1)
    <3>0. i \in Nat /\ i <= y + n - b /\ i > y + 1
      BY <1>1, <1>4, <1>6, <2>3
    <3>1. i - y - 1 \in 1..(n - b) /\ i - y \in 1..(n - b) /\ j \in 1..(n - 1)
      <4>1. y \in Nat /\ n \in Nat /\ b \in Nat /\ b >= 1 /\ b <= n
        BY <1>1, <1>4
      <4> HIDE DEF y, n, k
      <4>2. i - y - 1 \in 1..(n - b)
        BY ONLY <4>1, <3>0
      <4>3. i - y \in 1..(n - b)
        BY ONLY <4>1, <3>0
      <4>4. b + (i - y - 1) \in 1..(n - 1)
        BY ONLY <4>1, <3>0
      <4> QED BY <4>2, <4>3, <4>4
    <3>2. g[i] = h[j] /\ g[i + 1] = h[j + 1]
      <4>1. g[y + 1 + (i - y - 1)] = h[b + (i - y - 1)]
        BY <1>6, <3>1
      <4>2. g[y + 1 + (i - y)] = h[b + (i - y)]
        BY <1>6, <3>1
      <4>3. /\ y + 1 + (i - y - 1) = i /\ y + 1 + (i - y) = i + 1
            /\ b + (i - y) = j + 1
        BY <1>1, <1>4, <3>0
      <4> HIDE DEF j
      <4> QED BY <4>1, <4>2, <4>3 DEF j
    <3>3. Follows(h[j], h[j + 1])
      BY <3>1 DEF WellFormed, Chain
    <3> QED BY <3>2, <3>3
  <2> QED BY <1>1, <2>1, <2>2, <2>3
<1>9. WellFormed(g) /\ SysCount(g) = y
  <2>1. g # <<>>
    BY <1>1, <1>4, <1>6
  <2>2. g[1].role = IF y = 1 THEN "system" ELSE "user"
    BY <1>1, <1>6, <1>7
  <2> QED BY <1>1, <1>8, <2>1, <2>2 DEF WellFormed, Chain, SysCount
<1>10. Sendable(g)
  <2>1. CASE b = n
    <3>1. g[Len(g)] = User
      BY <1>1, <1>6, <2>1
    <3> QED BY <1>7, <3>1 DEF Sendable, Settled
  <2>2. CASE b < n
    <3>1. n - b \in 1..(n - b) /\ y + 1 + (n - b) = Len(g) /\ b + (n - b) = n
      BY <1>1, <1>4, <1>6, <2>2
    <3>2. g[Len(g)] = h[n]
      BY <1>6, <3>1
    <3> QED BY <3>2 DEF Sendable, Settled
  <2> QED BY <1>1, <1>4, <2>1, <2>2
<1>11. ASSUME NEW j \in 0..(k - 1)
       PROVE  g[Len(g) - j] = h[n - j]
  <2>1. n - b - j \in 1..(n - b)
    BY <1>1, <1>4
  <2>2. g[y + 1 + (n - b - j)] = h[b + (n - b - j)]
    BY <1>6, <2>1
  <2>3. y + 1 + (n - b - j) = Len(g) - j /\ b + (n - b - j) = n - j
    BY <1>1, <1>4, <1>6
  <2> QED BY <2>2, <2>3
<1>12. /\ g \in Seq(Message) /\ Len(g) = y + 1 + n - b
       /\ \A j \in 0..(k - 1) : g[Len(g) - j] = h[n - j]
  BY <1>6, <1>11
<1> QED BY <1>9, <1>10, <1>12 DEF g

----------------------------------------------------------------------------
(* The run loop.                                                           *)

USE DEF caps, result, nudges, counters, turnVars, batchVars, human, sending

----------------------------------------------------------------------------
(* Types.                                                                  *)

LEMMA Types ==
  /\ NoReply \in Reply
  /\ NewBatch \in Batch
  /\ \A r \in Replies : r \in Reply /\ (r.empty => r.calls = 0)
  /\ \A c \in Configs : c \in Config
  /\ \A c \in Configs : c.maxCost \in Nat /\ c.history \in Seq(Message)
  BY ConfigAssumption, ReplyAssumption DEF NoReply, NewBatch, Reply, Batch, Kinds, Config

\* The control points, reasons and counts that steps assign.
LEMMA Members ==
  /\ \A p \in {"start", "top", "send", "compact", "judge", "pause", "await",
               "batch", "exec", "between", "exhausted", "graceForced",
               "gracePlain", "graceCalls", "stopped"} : p \in Points
  /\ \A r \in {"running", "rejected", "done", "max_turns", "max_cost",
               "context_limit", "incapable", "error", "canceled"} : r \in Reasons
  /\ 0 \in 0..MaxEmptyRetries
  BY DEF Points, Reasons, MaxEmptyRetries

LEMMA SeqTypes ==
  ASSUME NEW S
  PROVE  /\ <<>> \in Seq(S)
         /\ \A x \in S : <<x>> \in Seq(S)
         /\ \A s, t \in Seq(S) : s \o t \in Seq(S)
         /\ \A s \in Seq(S), x \in S : Append(s, x) \in Seq(S)
         /\ \A s \in Seq(S) : Len(s) \in Nat
         /\ \A s \in Seq(S) : s # <<>> => Tail(s) \in Seq(S) /\ Head(s) \in S
  OBVIOUS

LEMMA NatSeqs ==
  /\ <<>> \in Seq(Nat)
  /\ \A x \in Nat : <<x>> \in Seq(Nat)
  /\ \A s, t \in Seq(Nat) : s \o t \in Seq(Nat)
  /\ \A s \in Seq(Nat), x \in Nat : Append(s, x) \in Seq(Nat)
  /\ \A s \in Seq(Nat) : Len(s) \in Nat
  /\ \A s \in Seq(Nat) : s # <<>> => Tail(s) \in Seq(Nat) /\ Head(s) \in Nat
  BY SeqTypes

LEMMA Conversations ==
  /\ <<>> \in Seq(Message) /\ <<User>> \in Seq(Message) /\ <<System>> \in Seq(Message)
  /\ \A s, t \in Seq(Message) : s \o t \in Seq(Message)
  /\ \A s \in Seq(Message), x \in Message : Append(s, x) \in Seq(Message)
  /\ \A n \in Nat : Users(n) \in Seq(Message)
<1>1. \A n \in Nat : Users(n) \in Seq(Message)
  BY MessageTypes DEF Users
<1> QED BY <1>1, SeqTypes, MessageTypes

LEMMA Numbers ==
  TypeOK => /\ turns \in Nat /\ repeats \in Nat /\ called \in Nat /\ answered \in Nat
            /\ singleBatch \in Nat /\ streak \in Nat /\ unproductive \in Nat
            /\ reports \in Nat /\ sent \in Nat /\ reply.calls \in Nat
            /\ batch \in Batch /\ emptyRun \in 0..MaxEmptyRetries
            /\ msgs \in Seq(Message)
  BY Types DEF TypeOK, Reply

LEMMA BatchStep ==
  ASSUME NEW b \in Batch
  PROVE  /\ b.i \in Nat /\ b.i + 1 \in Nat
         /\ [b EXCEPT !.i = @ + 1] \in Batch
  BY DEF Batch

LEMMA BatchInterrupt ==
  ASSUME NEW b \in Batch, NEW x \in BOOLEAN
  PROVE  [b EXCEPT !.i = @ + 1, !.interrupted = @ \/ x] \in Batch
<1>1. b.interrupted \/ x \in BOOLEAN
  OBVIOUS
<1>2. b.i + 1 \in Nat
  BY DEF Batch
<1> QED BY <1>1, <1>2 DEF Batch

LEMMA BatchSuccess ==
  ASSUME NEW b \in Batch, NEW x \in BOOLEAN, NEW y \in BOOLEAN
  PROVE  [b EXCEPT !.images = @ \/ x, !.terminated = y] \in Batch
  BY DEF Batch

LEMMA BatchKind ==
  ASSUME NEW b \in Batch, NEW k \in Kinds, NEW x \in BOOLEAN
  PROVE  [b EXCEPT !.kind = k, !.capable = TRUE, !.readOnly = @ \/ x] \in Batch
  BY DEF Batch

LEMMA InitTypeOK == Init => TypeOK
<1> SUFFICES ASSUME Init PROVE TypeOK
  OBVIOUS
<1>1. msgs \in Seq(Message) /\ pending \in Seq(Nat) /\ inbox \in Seq(Nat) /\ delivered \in Seq(Nat)
  BY SeqTypes DEF Init
<1>2. emptyRun \in 0..MaxEmptyRetries /\ pc \in Points /\ stop \in Reasons
  BY Members DEF Init
<1> QED BY <1>1, <1>2, Types DEF Init, TypeOK

LEMMA SpendType == ASSUME TypeOK, NEW c \in Nat PROVE Spend(c) \in Nat
<1>1. cfg.maxCost \in Nat /\ cost \in Nat
  BY Types DEF TypeOK
<1> QED BY <1>1 DEF Spend

LEMMA SendTurnTypeOK ==
  ASSUME TypeOK, NEW nudge \in Seq(Message), SendTurn(nudge),
         nudged' \in BOOLEAN, batchNudged' \in BOOLEAN
  PROVE  TypeOK'
<1>1. /\ msgs' \in Seq(Message) /\ inbox' \in Seq(Nat) /\ delivered' \in Seq(Nat)
  BY NatSeqs, Conversations DEF TypeOK, SendTurn, Deliver
<1>2. turns' \in Nat /\ repeats' \in Nat
  <2>1. turns' = turns + 1 /\ repeats' \in {0, repeats + 1}
    BY DEF SendTurn
  <2>2. turns \in Nat /\ repeats \in Nat
    BY Numbers
  <2> QED BY ONLY <2>1, <2>2
<1>3. pc' \in Points
  BY Members DEF SendTurn
<1> QED BY <1>1, <1>2, <1>3 DEF TypeOK, SendTurn

LEMMA AcceptTypes ==
  ASSUME TypeOK, Accept
  PROVE  msgs' \in Seq(Message) /\ emptyRun' \in 0..MaxEmptyRetries /\ touched' \in BOOLEAN
<1>1. Assistant(reply.calls) \in Message
  BY Numbers, MessageTypes
<1> QED BY <1>1, Numbers, Conversations, Members DEF Accept

LEMMA AnswerCallTypes ==
  ASSUME TypeOK, AnswerCall
  PROVE  msgs' \in Seq(Message) /\ answered' \in Nat
<1>1. reply.calls \in Nat /\ batch.i + 1 \in Nat
  BY Numbers, BatchStep
<1>2. ToolResult(reply.calls, batch.i + 1) \in Message
  BY <1>1, MessageTypes
<1>3. msgs' = Append(msgs, ToolResult(reply.calls, batch.i + 1)) /\ answered' = answered + 1
  BY DEF AnswerCall
<1>4. msgs' \in Seq(Message)
  BY <1>2, <1>3, Numbers, Conversations
<1> QED BY <1>3, <1>4, Numbers

LEMMA EndBatchTypes ==
  ASSUME TypeOK, EndBatch
  PROVE  /\ pc' \in Points /\ reply' = NoReply /\ compacted' = FALSE
         /\ batch' \in Batch /\ called' \in Nat /\ answered' \in Nat
         /\ delivered' \in Seq(Nat) /\ pending' \in Seq(Nat)
  BY Types, Members, NatSeqs DEF TypeOK, EndBatch, EndTurn, Deliver

LEMMA CountShapeTypes ==
  ASSUME TypeOK, CountShape
  PROVE  singleBatch' \in Nat /\ streak' \in Nat
<1>1. singleBatch' \in {0, singleBatch + 1} /\ streak' \in {0, streak + 1}
  BY DEF CountShape
<1> QED BY <1>1, Numbers

LEMMA NextTypeOK == TypeOK /\ [Next]_vars => TypeOK'
<1> SUFFICES ASSUME TypeOK, [Next]_vars PROVE TypeOK'
  OBVIOUS
<1>1. CASE RejectConfig
  BY <1>1, Members DEF RejectConfig, Return, TypeOK
<1>2. CASE Seed
  BY <1>2, Types, Conversations, Members DEF Seed, TypeOK
<1>3. CASE StopAtCostCap
  BY <1>3, Members DEF StopAtCostCap, Return, TypeOK
<1>4. CASE LeaveLoop
  BY <1>4, Members DEF LeaveLoop, TypeOK
<1>5. CASE StartWrapUpTurn
  <2>1. SendTurn(<<User>>) /\ nudged' \in BOOLEAN /\ batchNudged' \in BOOLEAN
    BY <1>5 DEF StartWrapUpTurn, TypeOK
  <2> QED BY <2>1, SendTurnTypeOK, Conversations
<1>6. CASE StartBatchNudgeTurn
  <2>1. SendTurn(<<User>>) /\ nudged' \in BOOLEAN /\ batchNudged' \in BOOLEAN
    BY <1>6 DEF StartBatchNudgeTurn, TypeOK
  <2> QED BY <2>1, SendTurnTypeOK, Conversations
<1>7. CASE StartTurn
  <2>1. SendTurn(<<>>) /\ nudged' \in BOOLEAN /\ batchNudged' \in BOOLEAN
    BY <1>7 DEF StartTurn, TypeOK
  <2> QED BY <2>1, SendTurnTypeOK, Conversations
<1>8. CASE ModelFails
  BY <1>8, Members DEF ModelFails, FailTurn, Return, TypeOK
<1>9. CASE ModelReplies
  <2>1. PICK r \in Replies : reply' = r /\ cost' = Spend(r.cost)
    BY <1>9 DEF ModelReplies
  <2>2. r.cost \in Nat
    BY Types DEF Reply
  <2>3. cost' \in Nat
    BY <2>1, <2>2, SpendType
  <2> QED BY <1>9, <2>1, <2>3, Members DEF ModelReplies, TypeOK
<1>10. CASE CompactionFails
  BY <1>10, Members DEF CompactionFails, TypeOK
<1>11. CASE Compact
  <2>1. PICK b \in (SysCount(msgs) + 1)..Len(msgs), c \in SummaryCosts :
          /\ cost' = Spend(c)
          /\ \/ msgs' = Summarized(msgs, b) /\ touched' = TRUE
                /\ compacted' = TRUE /\ emptyRun' = 0
             \/ UNCHANGED <<msgs, touched, compacted, emptyRun>>
    BY <1>11 DEF Compact
  <2>2. c \in Nat
    BY BoundAssumption
  <2>3. cost' \in Nat
    BY <2>1, <2>2, SpendType
  <2>4. Summarized(msgs, b) \in Seq(Message)
    <3>1. /\ msgs \in Seq(Message) /\ SysCount(msgs) \in {0, 1} /\ Len(msgs) \in Nat
          /\ b \in SysCount(msgs) + 1..Len(msgs)
      BY SeqTypes DEF TypeOK, SysCount
    <3>2. SubSeq(msgs, 1, SysCount(msgs)) \in Seq(Message)
      BY <3>1
    <3>3. SubSeq(msgs, b + 1, Len(msgs)) \in Seq(Message)
      BY <3>1
    <3> QED BY <3>2, <3>3, Conversations DEF Summarized
  <2>5. msgs' \in Seq(Message) /\ emptyRun' \in 0..MaxEmptyRetries
    BY <2>1, <2>4, Members DEF TypeOK
  <2> QED BY <1>11, <2>1, <2>3, <2>5, Members DEF Compact, TypeOK
<1>12. CASE StopAtContextLimit
  BY <1>12, Members DEF StopAtContextLimit, Return, TypeOK
<1>13. CASE RetryEmpty
  <2>1. emptyRun' \in 0..MaxEmptyRetries
    <3>1. emptyRun < MaxEmptyRetries /\ emptyRun' = emptyRun + 1
      BY <1>13 DEF RetryEmpty, MayRetryEmpty
    <3> QED BY <3>1, Numbers DEF MaxEmptyRetries
  <2> QED BY <1>13, <2>1, Members DEF RetryEmpty, EndTurn, TypeOK
<1>14. CASE FailEmpty
  BY <1>14, Members DEF FailEmpty, FailTurn, Return, TypeOK
<1>15. CASE FinishByReply
  <2>1. msgs' \in Seq(Message) /\ emptyRun' \in 0..MaxEmptyRetries /\ touched' \in BOOLEAN
    BY <1>15, AcceptTypes DEF FinishByReply
  <2> QED BY <1>15, <2>1, Types, Members DEF FinishByReply, Complete, Return, TypeOK
<1>16. CASE Pause
  <2>1. msgs' \in Seq(Message) /\ emptyRun' \in 0..MaxEmptyRetries /\ touched' \in BOOLEAN
    BY <1>16, AcceptTypes DEF Pause
  <2> QED BY <1>16, <2>1, Types, Members DEF Pause, TypeOK
<1>17. CASE ContinueWithInbox
  BY <1>17, NatSeqs, Conversations, Members DEF ContinueWithInbox, Deliver, TypeOK
<1>18. CASE AwaitHuman
  BY <1>18, Members DEF AwaitHuman, TypeOK
<1>19. CASE WaitGetsMessage
  BY <1>19, NatSeqs, Conversations, MessageTypes, Members DEF WaitGetsMessage, Deliver, TypeOK
<1>20. CASE WaitFindsClosed
  BY <1>20, Members DEF WaitFindsClosed, Complete, Return, TypeOK
<1>21. CASE WaitCanceled
  BY <1>21, Members DEF WaitCanceled, Return, TypeOK
<1>22. CASE BeginBatch
  <2>1. msgs' \in Seq(Message) /\ emptyRun' \in 0..MaxEmptyRetries /\ touched' \in BOOLEAN
    BY <1>22, AcceptTypes DEF BeginBatch
  <2> QED BY <1>22, <2>1, Types, Members DEF BeginBatch, TypeOK
<1>23. CASE SkipCall
  <2>1. msgs' \in Seq(Message) /\ answered' \in Nat
    BY <1>23, AnswerCallTypes DEF SkipCall
  <2>2. called' = called + 1 /\ batch' = [batch EXCEPT !.i = @ + 1]
    BY <1>23 DEF SkipCall
  <2>3. batch' \in Batch
    BY <2>2, Numbers, BatchStep
  <2>4. called' \in Nat
    BY <2>2, Numbers
  <2> QED BY <1>23, <2>1, <2>3, <2>4 DEF SkipCall, TypeOK
<1>24. CASE RefuseCall
  <2>1. msgs' \in Seq(Message) /\ answered' \in Nat
    BY <1>24, AnswerCallTypes DEF RefuseCall
  <2>2. called' = called + 1
    BY <1>24 DEF RefuseCall
  <2>3. called' \in Nat
    BY <2>2, Numbers
  <2> QED BY <1>24, <2>1, <2>3, Members DEF RefuseCall, TypeOK
<1>25. CASE Dispatch
  <2>1. PICK k \in Kinds :
          batch' = [batch EXCEPT !.kind = k, !.capable = TRUE,
                                 !.readOnly = @ \/ k = "readonly"]
    BY <1>25, BoundAssumption DEF Dispatch
  <2>2. called' = called + 1
    BY <1>25 DEF Dispatch
  <2>3. batch' \in Batch
    BY <2>1, Numbers, BatchKind
  <2>4. called' \in Nat
    BY <2>2, Numbers
  <2> QED BY <1>25, <2>3, <2>4, Members DEF Dispatch, TypeOK
<1>26. CASE ToolFails
  <2>1. msgs' \in Seq(Message) /\ answered' \in Nat
    BY <1>26, AnswerCallTypes DEF ToolFails
  <2> QED BY <1>26, <2>1, Members DEF ToolFails, TypeOK
<1>27. CASE ToolSucceeds
  <2>1. msgs' \in Seq(Message) /\ answered' \in Nat
    BY <1>27, AnswerCallTypes DEF ToolSucceeds
  <2>2. PICK image \in BOOLEAN :
          batch' = [batch EXCEPT !.images = @ \/ image,
                                 !.terminated = (batch.kind = "terminal")]
    BY <1>27 DEF ToolSucceeds
  <2>3. batch' \in Batch
    BY <2>2, Numbers, BatchSuccess
  <2>4. reports' \in {reports, reports + 1}
    BY <1>27 DEF ToolSucceeds
  <2>5. reports' \in Nat
    BY <2>4, Numbers
  <2> QED BY <1>27, <2>1, <2>3, <2>5, Members DEF ToolSucceeds, TypeOK
<1>28. CASE NextCall
  <2>1. PICK x \in BOOLEAN :
          batch' = [batch EXCEPT !.i = @ + 1, !.interrupted = @ \/ x]
    BY <1>28 DEF NextCall
  <2>2. batch' \in Batch
    BY <2>1, Numbers, BatchInterrupt
  <2>3. pending' \in Seq(Nat) /\ inbox' \in Seq(Nat)
    BY <1>28, NatSeqs DEF NextCall, TypeOK
  <2> QED BY <1>28, <2>2, <2>3, Members DEF NextCall, TypeOK
<1>29. CASE FinishByTool
  BY <1>29, Members DEF FinishByTool, Complete, Return, TypeOK
<1>30. CASE ContinueAfterBatch
  <2>1. /\ pc' \in Points /\ reply' = NoReply /\ compacted' = FALSE
        /\ batch' \in Batch /\ called' \in Nat /\ answered' \in Nat
        /\ delivered' \in Seq(Nat) /\ pending' \in Seq(Nat)
        /\ singleBatch' \in Nat /\ streak' \in Nat
    BY <1>30, EndBatchTypes, CountShapeTypes DEF ContinueAfterBatch
  <2>2. msgs' \in Seq(Message)
    BY <1>30, NatSeqs, Conversations DEF ContinueAfterBatch, TypeOK
  <2>3. unproductive' \in Nat
    <3>1. unproductive' \in {0, unproductive + 1}
      BY <1>30 DEF ContinueAfterBatch
    <3> QED BY <3>1, Numbers
  <2> QED BY <1>30, <2>1, <2>2, <2>3 DEF ContinueAfterBatch, TypeOK
<1>31. CASE StopIncapable
  <2>1. singleBatch' \in Nat /\ streak' \in Nat
    BY <1>31, CountShapeTypes DEF StopIncapable
  <2>2. unproductive' = unproductive + 1
    BY <1>31 DEF StopIncapable
  <2>3. unproductive' \in Nat
    BY <2>2, Numbers
  <2> QED BY <1>31, <2>1, <2>3, Members DEF StopIncapable, Return, TypeOK
<1>32. CASE RecoverWithPending
  <2>1. /\ pc' \in Points /\ reply' = NoReply /\ compacted' = FALSE
        /\ batch' \in Batch /\ called' \in Nat /\ answered' \in Nat
        /\ delivered' \in Seq(Nat) /\ pending' \in Seq(Nat)
        /\ singleBatch' \in Nat /\ streak' \in Nat
    BY <1>32, EndBatchTypes, CountShapeTypes DEF RecoverWithPending
  <2>2. msgs' \in Seq(Message)
    BY <1>32, NatSeqs, Conversations DEF RecoverWithPending, TypeOK
  <2> QED BY <1>32, <2>1, <2>2 DEF RecoverWithPending, TypeOK
<1>33. CASE AwaitRecovery
  <2>1. singleBatch' \in Nat /\ streak' \in Nat
    BY <1>33, CountShapeTypes DEF AwaitRecovery
  <2> QED BY <1>33, <2>1, Members, Types DEF AwaitRecovery, TypeOK
<1>34. CASE StopAtMaxTurns
  BY <1>34, Members DEF StopAtMaxTurns, Return, TypeOK
<1>35. CASE AskGrace
  BY <1>35, Members DEF AskGrace, TypeOK
<1>36. CASE GraceUnforced
  BY <1>36, Members DEF GraceUnforced, TypeOK
<1>37. CASE GraceFails
  BY <1>37, Members DEF GraceFails, Return, TypeOK
<1>38. CASE GraceReplies
  <2>1. PICK r \in Replies : reply' = r /\ cost' = Spend(r.cost)
    BY <1>38 DEF GraceReplies
  <2>2. r.cost \in Nat
    BY Types DEF Reply
  <2>3. cost' \in Nat
    BY <2>1, <2>2, SpendType
  <2> QED BY <1>38, <2>1, <2>3, Types, Members DEF GraceReplies, TypeOK
<1>39. CASE GraceIgnores
  <2>1. batch' = [batch EXCEPT !.i = @ + 1]
    BY <1>39 DEF GraceIgnores
  <2>2. batch' \in Batch
    BY <2>1, Numbers, BatchStep
  <2> QED BY <1>39, <2>2 DEF GraceIgnores, TypeOK
<1>40. CASE GraceToolFails
  <2>1. /\ batch' = [batch EXCEPT !.i = @ + 1]
        /\ called' = called + 1 /\ answered' = answered + 1
    BY <1>40 DEF GraceToolFails
  <2>2. batch' \in Batch
    BY <2>1, Numbers, BatchStep
  <2>3. called' \in Nat /\ answered' \in Nat
    BY <2>1, Numbers
  <2> QED BY <1>40, <2>2, <2>3 DEF GraceToolFails, TypeOK
<1>41. CASE GraceToolSucceeds
  <2>1. reports' = reports + 1 /\ called' = called + 1 /\ answered' = answered + 1
    BY <1>41 DEF GraceToolSucceeds
  <2>2. reports' \in Nat /\ called' \in Nat /\ answered' \in Nat
    <3>1. reports \in Nat /\ called \in Nat /\ answered \in Nat
      BY Numbers
    <3> QED BY ONLY <2>1, <3>1
  <2> QED BY <1>41, <2>2, Members DEF GraceToolSucceeds, Complete, Return, TypeOK
<1>42. CASE GraceDeclined
  BY <1>42, Members DEF GraceDeclined, Return, TypeOK
<1>43. CASE Push
  <2>1. sent' = sent + 1 /\ inbox' = Append(inbox, sent + 1)
    BY <1>43 DEF Push
  <2>2. sent' \in Nat /\ sent + 1 \in Nat
    BY <2>1, Numbers
  <2>3. inbox' \in Seq(Nat)
    BY <2>1, <2>2, NatSeqs DEF TypeOK
  <2> QED BY <1>43, <2>2, <2>3 DEF Push, TypeOK
<1>44. CASE CloseInbox
  BY <1>44, Members DEF CloseInbox, TypeOK
<1>45. CASE CancelContext
  BY <1>45, Members DEF CancelContext, TypeOK
<1>46. CASE UNCHANGED vars
  BY <1>46 DEF vars, TypeOK
<1> QED BY <1>1, <1>2, <1>3, <1>4, <1>5, <1>6, <1>7, <1>8, <1>9, <1>10,
           <1>11, <1>12, <1>13, <1>14, <1>15, <1>16, <1>17, <1>18, <1>19,
           <1>20, <1>21, <1>22, <1>23, <1>24, <1>25, <1>26, <1>27, <1>28,
           <1>29, <1>30, <1>31, <1>32, <1>33, <1>34, <1>35, <1>36, <1>37,
           <1>38, <1>39, <1>40, <1>41, <1>42, <1>43, <1>44, <1>45, <1>46 DEF
           Next, RunStep, Environment, Returned

\* Every variable keeps its type through every step of the run and of its
\* environment.
THEOREM TypeCorrect == Spec => []TypeOK
<1>1. Init => TypeOK
  BY InitTypeOK
<1>2. TypeOK /\ [Next]_vars => TypeOK'
  BY NextTypeOK
<1> QED BY <1>1, <1>2, PTL DEF Spec

----------------------------------------------------------------------------
(* The conversation of a run.                                             *)

USE DEF caps, result, nudges, counters, turnVars, batchVars, human, sending

\* Where the model is the one to speak, where nobody owes anything, and where
\* a tool batch is being answered.
Speaking == {"top", "send", "compact", "judge", "exhausted", "graceForced",
             "gracePlain", "graceCalls"}
Resting  == {"pause", "await"}
Walking  == {"batch", "exec", "between"}

\* The last message once i calls of a batch of n are answered.
Answered(n, i) == IF i = 0 THEN Assistant(n) ELSE ToolResult(n, i)

\* The inductive strengthening: in mid-batch, the last message tells how far
\* the batch is answered.
ConvInv ==
  /\ stop = "rejected" => pc = "stopped"
  /\ pc \in Speaking => WellFormed(msgs) /\ Sendable(msgs)
  /\ pc \in Resting => WellFormed(msgs) /\ Settled(msgs)
  /\ pc = "stopped" /\ stop # "rejected" => WellFormed(msgs) /\ Settled(msgs)
  /\ pc \in Walking =>
       /\ WellFormed(msgs)
       /\ reply.calls > 0 /\ batch.i <= reply.calls
       /\ pc # "batch" => batch.i < reply.calls
       /\ msgs[Len(msgs)] = IF pc = "between"
                            THEN ToolResult(reply.calls, batch.i + 1)
                            ELSE Answered(reply.calls, batch.i)

----------------------------------------------------------------------------

LEMMA SendableIsSettled == \A h : Sendable(h) => Settled(h)
  BY DEF Sendable

LEMMA OneUser ==
  ASSUME NEW h \in Seq(Message), WellFormed(h), Settled(h)
  PROVE  /\ Append(h, User) \in Seq(Message)
         /\ WellFormed(Append(h, User)) /\ Sendable(Append(h, User))
<1>1. Follows(h[Len(h)], User) /\ ~IsOpen(User) /\ User.role = "user"
  BY DEF Settled, Follows, IsOpen, User
<1>2. Len(h) \in Nat
  OBVIOUS
<1> QED BY <1>1, <1>2, AppendWellFormed, MessageTypes DEF Sendable, Settled

LEMMA MaybeUser ==
  ASSUME NEW h \in Seq(Message), WellFormed(h), Sendable(h), NEW u \in {<<User>>, <<>>}
  PROVE  h \o u \in Seq(Message) /\ WellFormed(h \o u) /\ Sendable(h \o u)
<1>1. CASE u = <<>>
  <2>1. h \o u = h
    BY <1>1
  <2> QED BY <2>1
<1>2. CASE u = <<User>>
  <2>1. h \o <<User>> = Append(h, User)
    BY MessageTypes
  <2> QED BY <1>2, <2>1, OneUser, SendableIsSettled
<1> QED BY <1>1, <1>2

LEMMA SendTurnConv ==
  ASSUME TypeOK, ConvInv, NEW nudge \in {<<User>>, <<>>}, SendTurn(nudge)
  PROVE  ConvInv'
<1>1. msgs \in Seq(Message) /\ Len(inbox) \in Nat /\ WellFormed(msgs) /\ Sendable(msgs)
  BY NatSeqs DEF TypeOK, ConvInv, SendTurn, Speaking
<1>2. /\ msgs \o Users(Len(inbox)) \in Seq(Message)
      /\ WellFormed(msgs \o Users(Len(inbox))) /\ Sendable(msgs \o Users(Len(inbox)))
  BY <1>1, UsersWellFormed, SendableIsSettled
<1>3. msgs' = (msgs \o Users(Len(inbox))) \o nudge
  BY DEF SendTurn
<1>4. WellFormed(msgs') /\ Sendable(msgs')
  BY <1>2, <1>3, MaybeUser
<1>5. pc' = "send" /\ stop' = stop /\ pc = "top"
  BY DEF SendTurn
<1> QED BY <1>4, <1>5 DEF ConvInv, Speaking, Resting, Walking

LEMMA AcceptConv ==
  ASSUME TypeOK, ConvInv, Accept
  PROVE  WellFormed(msgs') /\ msgs'[Len(msgs')] = Assistant(reply.calls)
<1>0. msgs \in Seq(Message) /\ Len(msgs) \in Nat
  BY Numbers, SeqTypes
<1>1. WellFormed(msgs) /\ Sendable(msgs)
  BY DEF ConvInv, Accept, Speaking
<1>2. Assistant(reply.calls) \in Message /\ msgs' = Append(msgs, Assistant(reply.calls))
  BY Numbers, MessageTypes DEF Accept
<1>3. Follows(msgs[Len(msgs)], Assistant(reply.calls))
  BY <1>1 DEF Sendable, Settled, Follows, Assistant
<1> QED BY <1>0, <1>1, <1>2, <1>3, AppendWellFormed

\* The next call of a batch may be answered, by whatever step answers it.
LEMMA AnswerConv ==
  ASSUME TypeOK, ConvInv, pc \in {"batch", "exec"}, batch.i < reply.calls, AnswerCall
  PROVE  WellFormed(msgs') /\ msgs'[Len(msgs')] = ToolResult(reply.calls, batch.i + 1)
<1> DEFINE n == reply.calls
           i == batch.i
<1>1. n \in Nat /\ i \in Nat /\ i + 1 \in Nat /\ i < n
  BY Numbers, BatchStep
<1>0. msgs \in Seq(Message) /\ Len(msgs) \in Nat
  BY Numbers, SeqTypes
<1>2. WellFormed(msgs) /\ msgs[Len(msgs)] = Answered(n, i)
  BY DEF ConvInv, Walking
<1>3. msgs' = Append(msgs, ToolResult(n, i + 1))
  BY DEF AnswerCall
<1> HIDE DEF n, i
<1>4. Follows(Answered(n, i), ToolResult(n, i + 1))
  <2>1. CASE i = 0
    BY <1>1, <2>1 DEF Answered, Follows, IsOpen, Assistant, ToolResult
  <2>2. CASE i # 0
    BY <1>1, <2>2 DEF Answered, Follows, IsOpen, ToolResult
  <2> QED BY <2>1, <2>2
<1>5. ToolResult(n, i + 1) \in Message
  BY <1>1, MessageTypes
<1>6. WellFormed(msgs') /\ msgs'[Len(msgs')] = ToolResult(n, i + 1)
  BY <1>0, <1>2, <1>3, <1>4, <1>5, AppendWellFormed
<1> QED BY <1>6 DEF n, i

LEMMA AnsweredBetween ==
  ASSUME TypeOK, ConvInv, pc \in {"batch", "exec"}, batch.i < reply.calls, AnswerCall,
         pc' = "between", reply' = reply, stop' = stop, batch'.i = batch.i
  PROVE  ConvInv'
<1>1. WellFormed(msgs') /\ msgs'[Len(msgs')] = ToolResult(reply.calls, batch.i + 1)
  BY AnswerConv
<1>2. reply.calls > 0 /\ batch.i <= reply.calls
  BY Numbers DEF ConvInv, Walking
<1> QED BY <1>1, <1>2 DEF ConvInv, Speaking, Resting, Walking

\* A batch that is walked to its end leaves no call unanswered.
LEMMA WalkedConv ==
  ASSUME TypeOK, ConvInv, BatchWalked
  PROVE  WellFormed(msgs) /\ Sendable(msgs)
<1> DEFINE n == reply.calls
<1>0. n \in Nat /\ batch.i \in Nat
  BY Numbers, BatchStep
<1>a. n > 0 /\ batch.i <= n /\ batch.i >= n
  BY DEF ConvInv, BatchWalked, Walking
<1>1. n \in Nat /\ n > 0 /\ batch.i = n
  BY <1>0, <1>a
<1>2. WellFormed(msgs) /\ msgs[Len(msgs)] = Answered(n, n)
  BY <1>1 DEF ConvInv, BatchWalked, Walking
<1> HIDE DEF n
<1>3. Answered(n, n).role = "tool" /\ ~IsOpen(Answered(n, n))
  BY <1>1 DEF Answered, IsOpen, ToolResult
<1> QED BY <1>2, <1>3 DEF Sendable, Settled

LEMMA NextConv == TypeOK /\ ConvInv /\ [Next]_vars => ConvInv'
<1> SUFFICES ASSUME TypeOK, ConvInv, [Next]_vars PROVE ConvInv'
  OBVIOUS
<1>1. CASE RejectConfig
  BY <1>1, SendableIsSettled DEF RejectConfig, Return, ConvInv, Speaking, Resting, Walking
<1>2. CASE Seed
  <2>1. cfg.history \in Seq(Message) /\ (cfg.history # <<>> =>
          WellFormed(cfg.history) /\ Settled(cfg.history) /\ cfg.history[1].role = "user")
    BY Types, ConfigAssumption DEF TypeOK
  <2>2. PICK s \in {<<System>>, <<>>} : msgs' = s \o cfg.history \o <<User>>
    BY <1>2 DEF Seed
  <2>3. WellFormed(msgs') /\ Sendable(msgs')
    BY <2>1, <2>2, SeedWellFormed
  <2> QED BY <1>2, <2>3 DEF Seed, ConvInv, Speaking, Resting, Walking
<1>3. CASE StopAtCostCap
  BY <1>3, SendableIsSettled DEF StopAtCostCap, Return, ConvInv, Speaking, Resting, Walking
<1>4. CASE LeaveLoop
  BY <1>4, SendableIsSettled DEF LeaveLoop, ConvInv, Speaking, Resting, Walking
<1>5. CASE StartWrapUpTurn
  BY <1>5, SendTurnConv DEF StartWrapUpTurn
<1>6. CASE StartBatchNudgeTurn
  BY <1>6, SendTurnConv DEF StartBatchNudgeTurn
<1>7. CASE StartTurn
  BY <1>7, SendTurnConv DEF StartTurn
<1>8. CASE ModelFails
  BY <1>8, SendableIsSettled
     DEF ModelFails, FailTurn, Return, ConvInv, Speaking, Resting, Walking
<1>9. CASE ModelReplies
  BY <1>9, SendableIsSettled DEF ModelReplies, ConvInv, Speaking, Resting, Walking
<1>10. CASE CompactionFails
  BY <1>10, SendableIsSettled DEF CompactionFails, ConvInv, Speaking, Resting, Walking
<1>11. CASE Compact
  <2>1. PICK b \in (SysCount(msgs) + 1)..Len(msgs) :
          /\ SplitsAt(msgs, cfg.keep, b)
          /\ msgs' = Summarized(msgs, b) \/ msgs' = msgs
    BY <1>11 DEF Compact
  <2>2. WellFormed(msgs) /\ Sendable(msgs) /\ EnoughToSummarize(msgs, cfg.keep)
    BY <1>11 DEF Compact, ConvInv, Speaking
  <2>3. WellFormed(Summarized(msgs, b)) /\ Sendable(Summarized(msgs, b))
    <3>1. cfg.keep \in Int /\ msgs \in Seq(Message)
      BY Types DEF TypeOK, Config
    <3>2. b \in Nat /\ b > SysCount(msgs)
      BY <3>1 DEF SysCount
    <3> QED BY <2>1, <2>2, <3>1, <3>2, SummarizedWellFormed
  <2>4. WellFormed(msgs') /\ Sendable(msgs')
    BY <2>1, <2>2, <2>3
  <2>5. pc' = "judge" /\ stop' = stop /\ pc = "compact"
    BY <1>11 DEF Compact
  <2> QED BY <2>4, <2>5 DEF ConvInv, Speaking, Resting, Walking
<1>12. CASE StopAtContextLimit
  BY <1>12, SendableIsSettled
     DEF StopAtContextLimit, Return, ConvInv, Speaking, Resting, Walking
<1>13. CASE RetryEmpty
  BY <1>13, SendableIsSettled DEF RetryEmpty, EndTurn, ConvInv, Speaking, Resting, Walking
<1>14. CASE FailEmpty
  BY <1>14, SendableIsSettled
     DEF FailEmpty, FailTurn, Return, ConvInv, Speaking, Resting, Walking
<1>15. CASE FinishByReply
  <2>1. WellFormed(msgs') /\ msgs'[Len(msgs')] = Assistant(0)
    BY <1>15, AcceptConv DEF FinishByReply
  <2>2. Settled(msgs')
    BY <2>1 DEF Settled, IsOpen, Assistant
  <2> QED BY <1>15, <2>1, <2>2
             DEF FinishByReply, Complete, Return, ConvInv, Speaking, Resting, Walking
<1>16. CASE Pause
  <2>1. WellFormed(msgs') /\ msgs'[Len(msgs')] = Assistant(0)
    BY <1>16, AcceptConv DEF Pause
  <2>2. Settled(msgs')
    BY <2>1 DEF Settled, IsOpen, Assistant
  <2>3. pc' = "pause" /\ stop' = stop /\ pc = "judge"
    BY <1>16 DEF Pause, Accept
  <2> QED BY <2>1, <2>2, <2>3 DEF ConvInv, Speaking, Resting, Walking
<1>17. CASE ContinueWithInbox
  <2>0. inbox \in Seq(Nat) /\ inbox # <<>> /\ msgs \in Seq(Message)
    BY <1>17 DEF ContinueWithInbox, TypeOK
  <2>1. Len(inbox) \in Nat /\ Len(inbox) > 0
    BY <2>0
  <2>2. WellFormed(msgs) /\ Settled(msgs) /\ msgs' = msgs \o Users(Len(inbox))
    BY <1>17 DEF ContinueWithInbox, ConvInv, Resting
  <2>3. WellFormed(msgs') /\ Sendable(msgs')
    BY <2>0, <2>1, <2>2, UsersWellFormed
  <2> QED BY <1>17, <2>3 DEF ContinueWithInbox, ConvInv, Speaking, Resting, Walking
<1>18. CASE AwaitHuman
  BY <1>18, SendableIsSettled DEF AwaitHuman, ConvInv, Speaking, Resting, Walking
<1>19. CASE WaitGetsMessage
  <2>1. msgs \in Seq(Message) /\ WellFormed(msgs) /\ Settled(msgs) /\ msgs' = Append(msgs, User)
    BY <1>19 DEF WaitGetsMessage, ConvInv, Resting, TypeOK
  <2>2. WellFormed(msgs') /\ Sendable(msgs')
    BY <2>1, OneUser
  <2> QED BY <1>19, <2>2 DEF WaitGetsMessage, ConvInv, Speaking, Resting, Walking
<1>20. CASE WaitFindsClosed
  BY <1>20, SendableIsSettled
     DEF WaitFindsClosed, Complete, Return, ConvInv, Speaking, Resting, Walking
<1>21. CASE WaitCanceled
  BY <1>21, SendableIsSettled DEF WaitCanceled, Return, ConvInv, Speaking, Resting, Walking
<1>22. CASE BeginBatch
  <2>1. WellFormed(msgs') /\ msgs'[Len(msgs')] = Assistant(reply.calls)
    BY <1>22, AcceptConv DEF BeginBatch
  <2>2. /\ reply' = reply /\ batch'.i = 0 /\ reply.calls > 0 /\ reply.calls \in Nat
        /\ pc' = "batch" /\ stop' = stop /\ pc = "judge"
    BY <1>22, Numbers DEF BeginBatch, Accept, NewBatch
  <2> QED BY <2>1, <2>2 DEF ConvInv, Speaking, Resting, Walking, Answered
<1>23. CASE SkipCall
  <2>1. /\ pc = "batch" /\ pc' = "batch" /\ reply' = reply /\ stop' = stop
        /\ batch.i < reply.calls /\ AnswerCall
        /\ batch' = [batch EXCEPT !.i = @ + 1]
    BY <1>23 DEF SkipCall, CallsLeft
  <2>2. batch'.i = batch.i + 1 /\ batch.i \in Nat /\ reply.calls \in Nat
    BY <2>1, Numbers, BatchStep DEF Batch
  <2>3. WellFormed(msgs') /\ msgs'[Len(msgs')] = ToolResult(reply.calls, batch.i + 1)
    BY <2>1, AnswerConv
  <2>4. batch'.i <= reply'.calls /\ reply'.calls > 0 /\ batch'.i # 0
    BY <2>1, <2>2
  <2> QED BY <2>1, <2>2, <2>3, <2>4 DEF ConvInv, Speaking, Resting, Walking, Answered
<1>24. CASE RefuseCall
  <2>1. /\ pc = "batch" /\ pc' = "between" /\ reply' = reply /\ stop' = stop /\ batch' = batch
        /\ batch.i < reply.calls /\ AnswerCall
    BY <1>24 DEF RefuseCall, MayDispatch, CallsLeft
  <2> QED BY <2>1, AnsweredBetween
<1>25. CASE Dispatch
  <2>1. PICK k \in Kinds :
          batch' = [batch EXCEPT !.kind = k, !.capable = TRUE,
                                 !.readOnly = @ \/ k = "readonly"]
    BY <1>25, BoundAssumption DEF Dispatch
  <2>2. batch'.i = batch.i
    BY <2>1, Numbers DEF Batch
  <2>3. /\ pc = "batch" /\ pc' = "exec" /\ reply' = reply /\ stop' = stop /\ msgs' = msgs
        /\ batch.i < reply.calls
    BY <1>25 DEF Dispatch, MayDispatch, CallsLeft
  <2> QED BY <2>2, <2>3 DEF ConvInv, Speaking, Resting, Walking
<1>26. CASE ToolFails
  <2>1. /\ pc = "exec" /\ pc' = "between" /\ reply' = reply /\ stop' = stop /\ batch' = batch
        /\ AnswerCall
    BY <1>26 DEF ToolFails
  <2>2. batch.i < reply.calls
    BY <2>1 DEF ConvInv, Walking
  <2> QED BY <2>1, <2>2, AnsweredBetween
<1>27. CASE ToolSucceeds
  <2>1. PICK image \in BOOLEAN :
          batch' = [batch EXCEPT !.images = @ \/ image,
                                 !.terminated = (batch.kind = "terminal")]
    BY <1>27 DEF ToolSucceeds
  <2>2. batch'.i = batch.i
    BY <2>1, Numbers DEF Batch
  <2>3. /\ pc = "exec" /\ pc' = "between" /\ reply' = reply /\ stop' = stop /\ AnswerCall
    BY <1>27 DEF ToolSucceeds
  <2>4. batch.i < reply.calls
    BY <2>3 DEF ConvInv, Walking
  <2> QED BY <2>2, <2>3, <2>4, AnsweredBetween
<1>28. CASE NextCall
  <2>1. PICK x \in BOOLEAN :
          batch' = [batch EXCEPT !.i = @ + 1, !.interrupted = @ \/ x]
    BY <1>28 DEF NextCall
  <2>2. batch'.i = batch.i + 1 /\ batch.i \in Nat /\ reply.calls \in Nat
    BY <2>1, Numbers DEF Batch
  <2>3. pc = "between" /\ pc' = "batch" /\ reply' = reply /\ stop' = stop /\ msgs' = msgs
    BY <1>28 DEF NextCall
  <2>4. batch'.i <= reply'.calls /\ batch'.i # 0
    BY <2>2, <2>3 DEF ConvInv, Walking
  <2> QED BY <2>2, <2>3, <2>4 DEF ConvInv, Speaking, Resting, Walking, Answered
<1>29. CASE FinishByTool
  <2>1. WellFormed(msgs) /\ Sendable(msgs)
    BY <1>29, WalkedConv DEF FinishByTool
  <2> QED BY <1>29, <2>1, SendableIsSettled
             DEF FinishByTool, Complete, Return, ConvInv, Speaking, Resting, Walking
<1>30. CASE ContinueAfterBatch
  <2>1. WellFormed(msgs) /\ Sendable(msgs) /\ msgs \in Seq(Message)
    BY <1>30, WalkedConv DEF ContinueAfterBatch, TypeOK
  <2>2. PICK image \in {<<User>>, <<>>} : msgs' = msgs \o image \o Users(Len(pending))
    BY <1>30 DEF ContinueAfterBatch
  <2>3. Len(pending) \in Nat
    BY NatSeqs DEF TypeOK
  <2>4. /\ msgs \o image \in Seq(Message)
        /\ WellFormed(msgs \o image) /\ Sendable(msgs \o image)
    BY <2>1, MaybeUser
  <2>5. WellFormed(msgs') /\ Sendable(msgs')
    BY <2>2, <2>3, <2>4, UsersWellFormed, SendableIsSettled
  <2>6. pc' = "top" /\ stop' = stop /\ pc = "batch"
    BY <1>30 DEF ContinueAfterBatch, EndBatch, EndTurn, BatchWalked
  <2> QED BY <2>5, <2>6 DEF ConvInv, Speaking, Resting, Walking
<1>31. CASE StopIncapable
  <2>1. WellFormed(msgs) /\ Sendable(msgs)
    BY <1>31, WalkedConv DEF StopIncapable, Incapable
  <2> QED BY <1>31, <2>1, SendableIsSettled
             DEF StopIncapable, Return, ConvInv, Speaking, Resting, Walking
<1>32. CASE RecoverWithPending
  <2>1. WellFormed(msgs) /\ Sendable(msgs) /\ msgs \in Seq(Message)
    BY <1>32, WalkedConv DEF RecoverWithPending, Incapable, TypeOK
  <2>2. Len(pending) \in Nat /\ msgs' = msgs \o Users(Len(pending))
    BY <1>32, NatSeqs DEF RecoverWithPending, TypeOK
  <2>3. WellFormed(msgs') /\ Sendable(msgs')
    BY <2>1, <2>2, UsersWellFormed, SendableIsSettled
  <2>4. pc' = "top" /\ stop' = stop /\ pc = "batch"
    BY <1>32 DEF RecoverWithPending, EndBatch, EndTurn, Incapable, BatchWalked
  <2> QED BY <2>3, <2>4 DEF ConvInv, Speaking, Resting, Walking
<1>33. CASE AwaitRecovery
  <2>1. WellFormed(msgs) /\ Sendable(msgs)
    BY <1>33, WalkedConv DEF AwaitRecovery, Incapable
  <2>2. pc' = "await" /\ stop' = stop /\ msgs' = msgs /\ pc = "batch"
    BY <1>33 DEF AwaitRecovery, Incapable, BatchWalked
  <2> QED BY <2>1, <2>2, SendableIsSettled DEF ConvInv, Speaking, Resting, Walking
<1>34. CASE StopAtMaxTurns
  BY <1>34, SendableIsSettled
     DEF StopAtMaxTurns, Return, ConvInv, Speaking, Resting, Walking
<1>35. CASE AskGrace
  BY <1>35, SendableIsSettled DEF AskGrace, ConvInv, Speaking, Resting, Walking
<1>36. CASE GraceUnforced
  BY <1>36, SendableIsSettled DEF GraceUnforced, ConvInv, Speaking, Resting, Walking
<1>37. CASE GraceFails
  BY <1>37, SendableIsSettled DEF GraceFails, Return, ConvInv, Speaking, Resting, Walking
<1>38. CASE GraceReplies
  BY <1>38, SendableIsSettled DEF GraceReplies, ConvInv, Speaking, Resting, Walking
<1>39. CASE GraceIgnores
  BY <1>39, SendableIsSettled
     DEF GraceIgnores, GraceCallsLeft, ConvInv, Speaking, Resting, Walking
<1>40. CASE GraceToolFails
  BY <1>40, SendableIsSettled
     DEF GraceToolFails, GraceCallsLeft, ConvInv, Speaking, Resting, Walking
<1>41. CASE GraceToolSucceeds
  BY <1>41, SendableIsSettled
     DEF GraceToolSucceeds, GraceCallsLeft, Complete, Return, ConvInv, Speaking, Resting, Walking
<1>42. CASE GraceDeclined
  BY <1>42, SendableIsSettled DEF GraceDeclined, Return, ConvInv, Speaking, Resting, Walking
<1>43. CASE Push
  BY <1>43, SendableIsSettled DEF Push, ConvInv, Speaking, Resting, Walking
<1>44. CASE CloseInbox
  BY <1>44, SendableIsSettled DEF CloseInbox, ConvInv, Speaking, Resting, Walking
<1>45. CASE CancelContext
  BY <1>45, SendableIsSettled DEF CancelContext, ConvInv, Speaking, Resting, Walking
<1>46. CASE UNCHANGED vars
  BY <1>46 DEF vars, ConvInv
<1> QED BY <1>1, <1>2, <1>3, <1>4, <1>5, <1>6, <1>7, <1>8, <1>9, <1>10,
           <1>11, <1>12, <1>13, <1>14, <1>15, <1>16, <1>17, <1>18, <1>19,
           <1>20, <1>21, <1>22, <1>23, <1>24, <1>25, <1>26, <1>27, <1>28,
           <1>29, <1>30, <1>31, <1>32, <1>33, <1>34, <1>35, <1>36, <1>37,
           <1>38, <1>39, <1>40, <1>41, <1>42, <1>43, <1>44, <1>45, <1>46 DEF
           Next, RunStep, Environment, Returned

\* The conversation is acceptable to the chat API in every reachable state,
\* whatever the configuration, the replies, the tools and the human do.
THEOREM ConversationAlwaysOK == Spec => []ConversationOK
<1>1. Init => ConvInv
  BY DEF Init, ConvInv, Speaking, Resting, Walking
<1>2. TypeOK /\ ConvInv /\ [Next]_vars => ConvInv'
  BY NextConv
<1>3. TypeOK /\ ConvInv => ConversationOK
  <2> SUFFICES ASSUME TypeOK, ConvInv PROVE ConversationOK
    OBVIOUS
  <2>1. pc \in {"start", "stopped"} \cup Speaking \cup Resting \cup Walking
    BY DEF TypeOK, Points, Speaking, Resting, Walking
  <2> QED BY <2>1 DEF ConvInv, ConversationOK, Seeded, Speaking, Resting, Walking
<1> QED BY <1>1, <1>2, <1>3, TypeCorrect, PTL DEF Spec

----------------------------------------------------------------------------
(* What a step may do to the conversation.                                 *)

Adds == \E s \in Seq(Message) : msgs' = msgs \o s

LEMMA OneMore ==
  \A h \in Seq(Message), m \in Message :
     <<m>> \in Seq(Message) /\ Append(h, m) = h \o <<m>>
  OBVIOUS

LEMMA JoinedTwice ==
  \A h, s, t \in Seq(Message) : (h \o s) \o t = h \o (s \o t)
  OBVIOUS

LEMMA KeptPrefix ==
  ASSUME NEW h \in Seq(Message), NEW s \in Seq(Message)
  PROVE  Len(h \o s) >= Len(h) /\ SubSeq(h \o s, 1, Len(h)) = h
  OBVIOUS

LEMMA SendTurnAdds ==
  ASSUME TypeOK, NEW nudge \in Seq(Message), SendTurn(nudge)
  PROVE  Adds
<1>1. Len(inbox) \in Nat /\ msgs \in Seq(Message)
  BY Numbers, NatSeqs DEF TypeOK
<1>2. msgs' = (msgs \o Users(Len(inbox))) \o nudge
  BY DEF SendTurn
<1>3. Users(Len(inbox)) \o nudge \in Seq(Message)
  BY <1>1, Conversations
<1>4. msgs' = msgs \o (Users(Len(inbox)) \o nudge)
  BY <1>1, <1>2, Conversations, JoinedTwice
<1> QED BY <1>3, <1>4 DEF Adds

LEMMA AcceptAdds == TypeOK /\ Accept => Adds
<1> SUFFICES ASSUME TypeOK, Accept PROVE Adds
  OBVIOUS
<1>1. Assistant(reply.calls) \in Message /\ msgs' = Append(msgs, Assistant(reply.calls))
  BY Numbers, MessageTypes DEF Accept
<1> QED BY <1>1, Numbers, OneMore DEF Adds

LEMMA AnswerAdds == TypeOK /\ AnswerCall => Adds
<1> SUFFICES ASSUME TypeOK, AnswerCall PROVE Adds
  OBVIOUS
<1>1. reply.calls \in Nat /\ batch.i + 1 \in Nat
  BY Numbers, BatchStep
<1>2. ToolResult(reply.calls, batch.i + 1) \in Message
  BY <1>1, MessageTypes
<1>3. msgs' = Append(msgs, ToolResult(reply.calls, batch.i + 1))
  BY DEF AnswerCall
<1> QED BY <1>2, <1>3, Numbers, OneMore DEF Adds

\* Only seeding and compacting do anything but add to the conversation.
LEMMA MostlyAdds == TypeOK /\ [Next]_vars => Adds \/ UNCHANGED msgs \/ Seed \/ Compact
<1> SUFFICES ASSUME TypeOK, [Next]_vars
             PROVE  Adds \/ UNCHANGED msgs \/ Seed \/ Compact
  OBVIOUS
<1>1. CASE RejectConfig
  BY <1>1 DEF RejectConfig
<1>2. CASE Seed
  BY <1>2
<1>3. CASE StopAtCostCap
  BY <1>3 DEF StopAtCostCap
<1>4. CASE LeaveLoop
  BY <1>4 DEF LeaveLoop
<1>5. CASE StartWrapUpTurn
  <2>1. SendTurn(<<User>>)
    BY <1>5 DEF StartWrapUpTurn
  <2> QED BY <2>1, SendTurnAdds, Conversations
<1>6. CASE StartBatchNudgeTurn
  <2>1. SendTurn(<<User>>)
    BY <1>6 DEF StartBatchNudgeTurn
  <2> QED BY <2>1, SendTurnAdds, Conversations
<1>7. CASE StartTurn
  <2>1. SendTurn(<<>>)
    BY <1>7 DEF StartTurn
  <2> QED BY <2>1, SendTurnAdds, Conversations
<1>8. CASE ModelFails
  BY <1>8 DEF ModelFails
<1>9. CASE ModelReplies
  BY <1>9 DEF ModelReplies
<1>10. CASE CompactionFails
  BY <1>10 DEF CompactionFails
<1>11. CASE Compact
  BY <1>11
<1>12. CASE StopAtContextLimit
  BY <1>12 DEF StopAtContextLimit
<1>13. CASE RetryEmpty
  BY <1>13 DEF RetryEmpty
<1>14. CASE FailEmpty
  BY <1>14 DEF FailEmpty
<1>15. CASE FinishByReply
  BY <1>15, AcceptAdds DEF FinishByReply
<1>16. CASE Pause
  BY <1>16, AcceptAdds DEF Pause
<1>17. CASE ContinueWithInbox
  <2>1. msgs' = msgs \o Users(Len(inbox)) /\ Len(inbox) \in Nat
    BY <1>17, NatSeqs DEF ContinueWithInbox, TypeOK
  <2> QED BY <2>1, Conversations DEF Adds
<1>18. CASE AwaitHuman
  BY <1>18 DEF AwaitHuman
<1>19. CASE WaitGetsMessage
  <2>1. msgs' = Append(msgs, User)
    BY <1>19 DEF WaitGetsMessage
  <2> QED BY <2>1, Numbers, OneMore, MessageTypes DEF Adds
<1>20. CASE WaitFindsClosed
  BY <1>20 DEF WaitFindsClosed
<1>21. CASE WaitCanceled
  BY <1>21 DEF WaitCanceled
<1>22. CASE BeginBatch
  BY <1>22, AcceptAdds DEF BeginBatch
<1>23. CASE SkipCall
  BY <1>23, AnswerAdds DEF SkipCall
<1>24. CASE RefuseCall
  BY <1>24, AnswerAdds DEF RefuseCall
<1>25. CASE Dispatch
  BY <1>25 DEF Dispatch
<1>26. CASE ToolFails
  BY <1>26, AnswerAdds DEF ToolFails
<1>27. CASE ToolSucceeds
  BY <1>27, AnswerAdds DEF ToolSucceeds
<1>28. CASE NextCall
  BY <1>28 DEF NextCall
<1>29. CASE FinishByTool
  BY <1>29 DEF FinishByTool
<1>30. CASE ContinueAfterBatch
  <2>1. PICK image \in {<<User>>, <<>>} : msgs' = msgs \o image \o Users(Len(pending))
    BY <1>30 DEF ContinueAfterBatch
  <2>2. Len(pending) \in Nat
    BY NatSeqs DEF TypeOK
  <2>3. image \o Users(Len(pending)) \in Seq(Message)
    BY <2>2, Conversations
  <2>4. msgs \in Seq(Message) /\ image \in Seq(Message) /\ Users(Len(pending)) \in Seq(Message)
    BY <2>2, Numbers, Conversations
  <2>5. msgs' = msgs \o (image \o Users(Len(pending)))
    BY ONLY <2>1, <2>4, JoinedTwice
  <2> QED BY <2>3, <2>5 DEF Adds
<1>31. CASE StopIncapable
  BY <1>31 DEF StopIncapable
<1>32. CASE RecoverWithPending
  <2>1. msgs' = msgs \o Users(Len(pending)) /\ Len(pending) \in Nat
    BY <1>32, NatSeqs DEF RecoverWithPending, TypeOK
  <2> QED BY <2>1, Conversations DEF Adds
<1>33. CASE AwaitRecovery
  BY <1>33 DEF AwaitRecovery
<1>34. CASE StopAtMaxTurns
  BY <1>34 DEF StopAtMaxTurns
<1>35. CASE AskGrace
  BY <1>35 DEF AskGrace
<1>36. CASE GraceUnforced
  BY <1>36 DEF GraceUnforced
<1>37. CASE GraceFails
  BY <1>37 DEF GraceFails
<1>38. CASE GraceReplies
  BY <1>38 DEF GraceReplies
<1>39. CASE GraceIgnores
  BY <1>39 DEF GraceIgnores
<1>40. CASE GraceToolFails
  BY <1>40 DEF GraceToolFails
<1>41. CASE GraceToolSucceeds
  BY <1>41 DEF GraceToolSucceeds
<1>42. CASE GraceDeclined
  BY <1>42 DEF GraceDeclined
<1>43. CASE Push
  BY <1>43 DEF Push
<1>44. CASE CloseInbox
  BY <1>44 DEF CloseInbox
<1>45. CASE CancelContext
  BY <1>45 DEF CancelContext
<1>46. CASE UNCHANGED vars
  BY <1>46 DEF vars
<1> QED BY <1>1, <1>2, <1>3, <1>4, <1>5, <1>6, <1>7, <1>8, <1>9, <1>10,
           <1>11, <1>12, <1>13, <1>14, <1>15, <1>16, <1>17, <1>18, <1>19,
           <1>20, <1>21, <1>22, <1>23, <1>24, <1>25, <1>26, <1>27, <1>28,
           <1>29, <1>30, <1>31, <1>32, <1>33, <1>34, <1>35, <1>36, <1>37,
           <1>38, <1>39, <1>40, <1>41, <1>42, <1>43, <1>44, <1>45, <1>46
        DEF Next, RunStep, Environment, Returned

\* The conversation is empty until the run is seeded.
Unseeded == pc = "start" => msgs = <<>>

LEMMA NextUnseeded == [Next]_vars => (Unseeded => Unseeded')
<1> SUFFICES ASSUME [Next]_vars, Unseeded, pc' = "start" PROVE msgs' = <<>>
  BY DEF Unseeded
<1>1. UNCHANGED <<pc, msgs>>
  BY DEF vars, Next, RunStep, Environment, Returned, Return, Complete,
     Accept, FailTurn, EndTurn, EndBatch, SendTurn, CallsLeft, MayDispatch,
     GraceCallsLeft, BatchWalked, Incapable, RejectConfig, Seed,
     StopAtCostCap, LeaveLoop, StartWrapUpTurn, StartBatchNudgeTurn,
     StartTurn, ModelFails, ModelReplies, CompactionFails, Compact,
     StopAtContextLimit, RetryEmpty, FailEmpty, FinishByReply, Pause,
     ContinueWithInbox, AwaitHuman, WaitGetsMessage, WaitFindsClosed,
     WaitCanceled, BeginBatch, SkipCall, RefuseCall, Dispatch, ToolFails,
     ToolSucceeds, NextCall, FinishByTool, ContinueAfterBatch,
     StopIncapable, RecoverWithPending, AwaitRecovery, StopAtMaxTurns,
     AskGrace, GraceUnforced, GraceFails, GraceReplies, GraceIgnores,
     GraceToolFails, GraceToolSucceeds, GraceDeclined, Push, CloseInbox,
     CancelContext
<1> QED BY <1>1 DEF Unseeded

\* Where compaction splits, what is kept, and that it is shorter.
LEMMA CompactCases ==
  ASSUME TypeOK, ConvInv, Compact
  PROVE  \/ UNCHANGED msgs
         \/ \E b \in Nat :
              /\ b > SysCount(msgs) /\ b <= Len(msgs)
              /\ SplitsAt(msgs, cfg.keep, b)
              /\ WellFormed(msgs) /\ Sendable(msgs) /\ EnoughToSummarize(msgs, cfg.keep)
              /\ msgs' = Summarized(msgs, b) /\ Len(msgs') < Len(msgs)
<1>1. PICK b \in (SysCount(msgs) + 1)..Len(msgs) :
        /\ SplitsAt(msgs, cfg.keep, b)
        /\ \/ msgs' = Summarized(msgs, b) /\ Len(msgs') < Len(msgs)
           \/ msgs' = msgs
  BY DEF Compact
<1>2. WellFormed(msgs) /\ Sendable(msgs) /\ EnoughToSummarize(msgs, cfg.keep)
  BY DEF Compact, ConvInv, Speaking
<1>3. b \in Nat /\ b > SysCount(msgs) /\ b <= Len(msgs)
  <2>1. SysCount(msgs) \in Nat /\ Len(msgs) \in Nat
    BY Numbers, SeqTypes DEF SysCount
  <2> QED BY <2>1
<1> QED BY <1>1, <1>2, <1>3

\* Nothing but a compaction takes anything out of the conversation, and a
\* compaction shortens it, keeping the system prompt and the recent messages.
THEOREM OnlyCompactionShortens == Spec => OnlyCompactionForgets
<1>1. ASSUME TypeOK, ConvInv, Unseeded, [Next]_vars
      PROVE  Grows \/ Condenses
  <2>0. msgs \in Seq(Message) /\ Len(msgs) \in Nat
    BY <1>1, Numbers, SeqTypes
  <2>1. CASE Adds
    <3>1. PICK s \in Seq(Message) : msgs' = msgs \o s
      BY <2>1 DEF Adds
    <3> QED BY <2>0, <3>1, KeptPrefix DEF Grows
  <2>2. CASE UNCHANGED msgs
    <3>1. Len(msgs') >= Len(msgs) /\ SubSeq(msgs', 1, Len(msgs)) = msgs
      BY <2>0, <2>2
    <3> QED BY <3>1 DEF Grows
  <2>3. CASE Seed
    <3>1. msgs = <<>> /\ msgs' \in Seq(Message)
      BY <1>1, <2>3, NextTypeOK DEF Seed, Unseeded, TypeOK
    <3>2. msgs' = msgs \o msgs'
      BY <3>1
    <3> QED BY <2>0, <3>1, <3>2, KeptPrefix DEF Grows
  <2>4. CASE Compact /\ ~UNCHANGED msgs
    <3>1. cfg.keep \in Int
      BY <1>1, Types DEF TypeOK, Config
    <3>2. PICK b \in Nat :
            /\ b > SysCount(msgs) /\ b <= Len(msgs)
            /\ SplitsAt(msgs, cfg.keep, b)
            /\ WellFormed(msgs) /\ Sendable(msgs) /\ EnoughToSummarize(msgs, cfg.keep)
            /\ msgs' = Summarized(msgs, b) /\ Len(msgs') < Len(msgs)
      BY <1>1, <2>4, CompactCases
    <3>3. /\ SysCount(Summarized(msgs, b)) = SysCount(msgs)
          /\ \A j \in 0..(KeepRecent(cfg.keep) - 1) :
               Summarized(msgs, b)[Len(Summarized(msgs, b)) - j] = msgs[Len(msgs) - j]
      BY <2>0, <3>1, <3>2, SummarizedWellFormed
    <3>4. pc = "compact"
      BY <2>4 DEF Compact
    <3> QED BY <3>2, <3>3, <3>4 DEF Condenses
  <2> QED BY <1>1, <2>1, <2>2, <2>3, <2>4, MostlyAdds
<1>2. TypeOK /\ ConvInv /\ Unseeded /\ [Next]_vars => [Grows \/ Condenses]_vars
  BY <1>1
<1>3. Init => ConvInv /\ Unseeded
  BY DEF Init, ConvInv, Unseeded, Speaking, Resting, Walking
<1>4. TypeOK /\ ConvInv /\ Unseeded /\ [Next]_vars => ConvInv' /\ Unseeded'
  BY NextConv, NextUnseeded
<1> QED BY <1>2, <1>3, <1>4, TypeCorrect, PTL DEF Spec, OnlyCompactionForgets

----------------------------------------------------------------------------
(* The run implements the chat API's protocol.                             *)

LEMMA SettledOwesNothing ==
  \A h : Settled(h) => Owed(h) = 0
  BY DEF Settled, Owed

\* Nobody owes a tool result where the model or the human is to speak.
LEMMA NoDebt ==
  ASSUME ConvInv, pc \in Speaking \cup Resting
  PROVE  Owed(msgs) = 0 /\ (pc \in Speaking => Speaker(msgs) \in {"user", "tool"})
<1>1. WellFormed(msgs) /\ Settled(msgs) /\ (pc \in Speaking => Sendable(msgs))
  BY SendableIsSettled DEF ConvInv
<1>2. msgs # <<>>
  BY <1>1 DEF WellFormed
<1> QED BY <1>1, <1>2, SettledOwesNothing DEF Speaker, Sendable

LEMMA LastOfJoin ==
  ASSUME NEW s \in Seq(Message), NEW t \in Seq(Message), t # <<>>
  PROVE  s \o t \in Seq(Message) /\ s \o t # <<>> /\ (s \o t)[Len(s \o t)] = t[Len(t)]
<1>1. Len(t) \in Nat /\ Len(t) > 0 /\ Len(s) \in Nat
  OBVIOUS
<1>2. s \o t \in Seq(Message) /\ Len(s \o t) = Len(s) + Len(t)
  OBVIOUS
<1>3. (s \o t)[Len(s) + Len(t)] = t[Len(t)]
  BY <1>1
<1>4. s \o t # <<>>
  BY <1>1, <1>2
<1> QED BY <1>2, <1>3, <1>4

LEMMA EndsWithUser ==
  ASSUME NEW h \in Seq(Message)
  PROVE  Owed(h \o <<User>>) = 0 /\ Speaker(h \o <<User>>) = "user"
<1> DEFINE g == h \o <<User>>
<1>1. g # <<>> /\ g[Len(g)] = User
  BY MessageTypes
<1> HIDE DEF g
<1>2. User.role = "user" /\ ~IsOpen(User)
  BY DEF User, IsOpen
<1>3. Owed(g) = 0 /\ Speaker(g) = "user"
  BY <1>1, <1>2 DEF Owed, Speaker
<1> QED BY <1>3 DEF g

\* Any user messages at the end make the user the last to speak.
LEMMA UserSuffix ==
  ASSUME NEW h \in Seq(Message), NEW u \in {<<User>>, <<>>}, NEW n \in Nat
  PROVE  \/ h \o u \o Users(n) = h
         \/ Owed(h \o u \o Users(n)) = 0 /\ Speaker(h \o u \o Users(n)) = "user"
<1>1. CASE n = 0
  <2>1. Users(n) \in Seq(Message) /\ Len(Users(n)) = 0
    BY <1>1, Conversations DEF Users
  <2>2. Users(n) = <<>>
    BY ONLY <2>1
  <2>3. Users(n) = <<>> /\ h \o u \in Seq(Message)
    BY <2>2, Conversations
  <2>4. h \o u \o Users(n) = h \o u
    BY <2>3
  <2>5. u = <<>> => h \o u = h
    OBVIOUS
  <2> QED BY <2>4, <2>5, EndsWithUser
<1>2. CASE n > 0
  <2> DEFINE k == h \o u
             g == k \o Users(n)
  <2>1. k \in Seq(Message)
    BY Conversations
  <2> HIDE DEF k
  <2>2. Users(n) \in Seq(Message) /\ Len(Users(n)) = n /\ Users(n)[n] = User
    BY <1>2, Conversations DEF Users
  <2>3. g # <<>> /\ Len(g) = Len(k) + n /\ g[Len(k) + n] = User
    BY <1>2, <2>1, <2>2
  <2> HIDE DEF g
  <2>4. User.role = "user" /\ ~IsOpen(User)
    BY DEF User, IsOpen
  <2>5. Owed(g) = 0 /\ Speaker(g) = "user"
    BY <2>3, <2>4 DEF Owed, Speaker
  <2> QED BY <2>5 DEF g, k
<1> QED BY <1>1, <1>2

LEMMA UsersSuffix ==
  ASSUME NEW h \in Seq(Message), NEW n \in Nat
  PROVE  \/ h \o Users(n) = h
         \/ Owed(h \o Users(n)) = 0 /\ Speaker(h \o Users(n)) = "user"
<1>1. h \o <<>> = h
  OBVIOUS
<1> QED BY <1>1, UserSuffix

LEMMA SummarySpeaker ==
  ASSUME NEW h \in Seq(Message), NEW b \in Nat, b > SysCount(h), b <= Len(h),
         Summarized(h, b) \in Seq(Message)
  PROVE  Speaker(Summarized(h, b)) \in {Speaker(h), "user"}
<1> DEFINE p == SubSeq(h, 1, SysCount(h)) \o <<User>>
           q == SubSeq(h, b + 1, Len(h))
           g == p \o q
<1>0. Len(h) \in Nat /\ SysCount(h) \in {0, 1} /\ SysCount(h) <= Len(h)
  BY DEF SysCount
<1>1. SubSeq(h, 1, SysCount(h)) \in Seq(Message)
  BY <1>0
<1>2. p \in Seq(Message) /\ p # <<>> /\ p[Len(p)] = User
  BY <1>1, Conversations, LastOfJoin
<1>3. /\ q \in Seq(Message) /\ Len(q) = Len(h) - b
      /\ b < Len(h) => q[Len(h) - b] = h[Len(h)]
  BY <1>0
<1>4. Summarized(h, b) = g
  BY DEF Summarized
<1> HIDE DEF p, q
<1>5. CASE b = Len(h)
  <2>1. q = <<>>
    BY <1>0, <1>3, <1>5
  <2>2. g = p
    BY <1>2, <2>1
  <2>3. Speaker(p) = "user"
    BY <1>2 DEF Speaker, User
  <2> QED BY <1>4, <2>2, <2>3
<1>6. CASE b < Len(h)
  <2>0. q # <<>>
    BY <1>0, <1>3, <1>6
  <2>1. g # <<>> /\ g[Len(g)] = q[Len(q)]
    BY <1>2, <1>3, <2>0, LastOfJoin
  <2>2. h # <<>> /\ q[Len(q)] = h[Len(h)]
    BY <1>0, <1>3, <1>6
  <2> HIDE DEF g
  <2>3. Speaker(g) = Speaker(h)
    BY <2>1, <2>2 DEF Speaker
  <2> QED BY <1>4, <2>3 DEF g
<1> QED BY <1>0, <1>5, <1>6

LEMMA AcceptOwes ==
  ASSUME TypeOK, ConvInv, Accept
  PROVE  Owed(msgs') = reply.calls /\ Speaker(msgs') = "assistant"
<1>1. WellFormed(msgs') /\ msgs'[Len(msgs')] = Assistant(reply.calls)
  BY AcceptConv
<1>2. msgs' # <<>> /\ reply.calls \in Nat
  BY <1>1, Numbers DEF WellFormed
<1> QED BY <1>1, <1>2 DEF Owed, Speaker, Assistant, IsOpen

\* Steps of the run as steps of the protocol, or as none.
LEMMA Stays == msgs' = msgs /\ Phase' = Phase => UNCHANGED Chat!protocol
  BY DEF Chat!protocol, Owed, Speaker

LEMMA Ends ==
  ASSUME msgs' = msgs, Owed(msgs) = 0, pc # "stopped", pc' = "stopped"
  PROVE  Chat!Next
<1>1. Phase \in {"open", "asking"} /\ Phase' = "over"
  BY DEF Phase, Asking
<1>2. Speaker(msgs') = Speaker(msgs) /\ Owed(msgs') = Owed(msgs)
  OBVIOUS
<1>3. Chat!End
  BY <1>1, <1>2 DEF Chat!End
<1> QED BY <1>3 DEF Chat!Next

LEMMA GivesUp ==
  ASSUME ConvInv, msgs' = msgs, pc \in {"send", "judge"},
         pc' \in {"top", "await", "stopped"}
  PROVE  Chat!Next
<1>1. CASE pc' = "stopped"
  <2>1. Owed(msgs) = 0
    BY NoDebt DEF Speaking
  <2> QED BY <1>1, <2>1, Ends
<1>2. CASE pc' # "stopped"
  <2>1. Phase = "asking" /\ Phase' = "open"
    BY <1>2 DEF Phase, Asking
  <2>2. Speaker(msgs') = Speaker(msgs) /\ Owed(msgs') = Owed(msgs)
    OBVIOUS
  <2>3. Chat!GiveUp
    BY <2>1, <2>2 DEF Chat!GiveUp
  <2> QED BY <2>3 DEF Chat!Next
<1> QED BY <1>1, <1>2

LEMMA UserSays ==
  ASSUME Phase = "open", Phase' = "open", Owed(msgs) = 0,
         Owed(msgs') = 0, Speaker(msgs') = "user"
  PROVE  Chat!Next
<1>1. Chat!UserSpeaks
  BY DEF Chat!UserSpeaks
<1> QED BY <1>1 DEF Chat!Next

LEMMA MaybeUserSays ==
  ASSUME Phase = "open", Phase' = "open", Owed(msgs) = 0,
         msgs' = msgs \/ (Owed(msgs') = 0 /\ Speaker(msgs') = "user")
  PROVE  [Chat!Next]_(Chat!protocol)
  BY Stays, UserSays

LEMMA UsersSay ==
  ASSUME Phase = "open", Phase' = "open", Owed(msgs) = 0, msgs \in Seq(Message),
         NEW n \in Nat, msgs' = msgs \o Users(n)
  PROVE  [Chat!Next]_(Chat!protocol)
<1>1. msgs' = msgs \/ (Owed(msgs') = 0 /\ Speaker(msgs') = "user")
  BY UsersSuffix
<1> QED BY <1>1, MaybeUserSays

\* The model is asked: nobody owes anything, before or after the last words.
LEMMA Asks ==
  ASSUME ConvInv, msgs \in Seq(Message), pc \in {"top", "exhausted"},
         pc' \in {"send", "graceForced"},
         msgs' = msgs \/ (Owed(msgs') = 0 /\ Speaker(msgs') = "user")
  PROVE  Chat!Next
<1>1. Phase = "open" /\ Phase' = "asking"
  BY DEF Phase, Asking
<1>2. Owed(msgs) = 0 /\ Speaker(msgs) \in {"user", "tool"}
  BY NoDebt DEF Speaking
<1>3. /\ Owed(msgs') = Owed(msgs)
      /\ Speaker(msgs') \in {Speaker(msgs), "user"} /\ Speaker(msgs') \in {"user", "tool"}
  BY <1>2
<1>4. Chat!Ask
  BY <1>1, <1>2, <1>3 DEF Chat!Ask
<1> QED BY <1>4 DEF Chat!Next

LEMMA SendTurnAsks ==
  ASSUME TypeOK, ConvInv, NEW nudge \in {<<User>>, <<>>}, SendTurn(nudge)
  PROVE  Chat!Next
<1>1. pc = "top" /\ pc' = "send" /\ msgs' = msgs \o Users(Len(inbox)) \o nudge
  BY DEF SendTurn
<1>2. Len(inbox) \in Nat /\ msgs \in Seq(Message)
  BY NatSeqs DEF TypeOK
<1>3. msgs \o Users(Len(inbox)) \in Seq(Message)
  BY <1>2, Conversations
<1>4. msgs' = msgs \/ (Owed(msgs') = 0 /\ Speaker(msgs') = "user")
  <2>1. CASE nudge = <<User>>
    BY <1>1, <1>3, <2>1, EndsWithUser
  <2>2. CASE nudge = <<>>
    <3>1. msgs' = msgs \o Users(Len(inbox))
      BY <1>1, <1>3, <2>2
    <3> QED BY <1>2, <3>1, UsersSuffix
  <2> QED BY <2>1, <2>2
<1> QED BY <1>1, <1>2, <1>4, Asks

\* A tool result pays one call of the batch.
LEMMA AnswerPays ==
  ASSUME TypeOK, ConvInv, pc \in {"batch", "exec"}, batch.i < reply.calls, AnswerCall,
         Phase' = Phase
  PROVE  Chat!Next
<1> DEFINE n == reply.calls
           i == batch.i
<1>1. n \in Nat /\ i \in Nat /\ i < n
  BY Numbers, BatchStep
<1>2. /\ WellFormed(msgs) /\ msgs[Len(msgs)] = Answered(n, i)
      /\ WellFormed(msgs') /\ msgs'[Len(msgs')] = ToolResult(n, i + 1)
  BY AnswerConv DEF ConvInv, Walking
<1> HIDE DEF n, i
<1>3. msgs # <<>> /\ msgs' # <<>>
  BY <1>2 DEF WellFormed
<1>4. Owed(msgs) = n - i
  <2>1. CASE i = 0
    BY <1>1, <1>2, <1>3, <2>1 DEF Owed, Answered, Assistant, IsOpen
  <2>2. CASE i # 0
    BY <1>1, <1>2, <1>3, <2>2 DEF Owed, Answered, ToolResult, IsOpen
  <2> QED BY <2>1, <2>2
<1>5. Owed(msgs') = n - (i + 1) /\ Speaker(msgs') = "tool"
  <2>1. CASE i + 1 = n
    BY <1>1, <1>2, <1>3, <2>1 DEF Owed, Speaker, ToolResult, IsOpen
  <2>2. CASE i + 1 < n
    BY <1>1, <1>2, <1>3, <2>2 DEF Owed, Speaker, ToolResult, IsOpen
  <2> QED BY <1>1, <2>1, <2>2
<1>6. Phase = "open"
  BY DEF Phase, Asking
<1>7. Owed(msgs) > 0 /\ Owed(msgs') = Owed(msgs) - 1
  BY <1>1, <1>4, <1>5
<1>8. Chat!PayTool
  BY <1>5, <1>6, <1>7 DEF Chat!PayTool
<1> QED BY <1>8 DEF Chat!Next

LEMMA StepKeepsProtocol ==
  ASSUME TypeOK, ConvInv, Unseeded, [Next]_vars
  PROVE  [Chat!Next]_(Chat!protocol)
<1>1. CASE RejectConfig
  <2>1. msgs' = msgs /\ msgs = <<>> /\ pc' = "stopped" /\ pc = "start"
    BY <1>1 DEF RejectConfig, Return, Unseeded
  <2>2. Owed(msgs) = 0
    BY <2>1 DEF Owed
  <2> QED BY <2>1, <2>2, Ends
<1>2. CASE Seed
  <2>1. msgs = <<>> /\ pc = "start" /\ pc' = "top"
    BY <1>2 DEF Seed, Unseeded
  <2>2. PICK s \in {<<System>>, <<>>} : msgs' = (s \o cfg.history) \o <<User>>
    BY <1>2 DEF Seed
  <2>3. s \in Seq(Message) /\ cfg.history \in Seq(Message)
    BY Types, Conversations DEF TypeOK
  <2>4. s \o cfg.history \in Seq(Message)
    BY <2>3, Conversations
  <2>5. Owed(msgs) = 0
    BY <2>1 DEF Owed
  <2>6. Owed(msgs') = 0 /\ Speaker(msgs') = "user"
    BY <2>2, <2>4, EndsWithUser
  <2> QED BY <2>1, <2>5, <2>6, UserSays DEF Phase, Asking
<1>3. CASE StopAtCostCap
  <2>1. msgs' = msgs /\ pc = "top" /\ pc' = "stopped"
    BY <1>3 DEF StopAtCostCap, Return
  <2>2. Owed(msgs) = 0
    BY <2>1, NoDebt DEF Speaking, Resting
  <2> QED BY <2>1, <2>2, Ends
<1>4. CASE LeaveLoop
  <2>1. msgs' = msgs /\ Phase' = Phase
    BY <1>4 DEF LeaveLoop, Phase, Asking
  <2> QED BY <2>1, Stays
<1>5. CASE StartWrapUpTurn
  BY <1>5, SendTurnAsks DEF StartWrapUpTurn
<1>6. CASE StartBatchNudgeTurn
  BY <1>6, SendTurnAsks DEF StartBatchNudgeTurn
<1>7. CASE StartTurn
  BY <1>7, SendTurnAsks DEF StartTurn
<1>8. CASE ModelFails
  <2>1. msgs' = msgs /\ pc = "send" /\ pc' \in {"await", "stopped"}
    BY <1>8 DEF ModelFails, FailTurn, Return
  <2> QED BY <2>1, GivesUp
<1>9. CASE ModelReplies
  <2>1. msgs' = msgs /\ Phase' = Phase
    BY <1>9 DEF ModelReplies, Phase, Asking
  <2> QED BY <2>1, Stays
<1>10. CASE CompactionFails
  <2>1. msgs' = msgs /\ Phase' = Phase
    BY <1>10 DEF CompactionFails, Phase, Asking
  <2> QED BY <2>1, Stays
<1>11. CASE Compact
  <2>1. pc = "compact" /\ pc' = "judge"
    BY <1>11 DEF Compact
  <2>2. Phase = "asking" /\ Phase' = "asking"
    BY <2>1 DEF Phase, Asking
  <2>3. CASE UNCHANGED msgs
    BY <2>2, <2>3, Stays
  <2>4. CASE ~UNCHANGED msgs
    <3>1. PICK b \in Nat :
            /\ b > SysCount(msgs) /\ b <= Len(msgs)
            /\ msgs' = Summarized(msgs, b)
      BY <1>11, <2>4, CompactCases
    <3>2. msgs \in Seq(Message) /\ msgs' \in Seq(Message)
      BY NextTypeOK DEF TypeOK
    <3>3. WellFormed(msgs') /\ Sendable(msgs')
      BY <2>1, NextConv DEF ConvInv, Speaking
    <3>4. Owed(msgs) = 0 /\ Owed(msgs') = 0
      BY <2>1, <3>2, <3>3, NoDebt, SettledOwesNothing, SendableIsSettled DEF Speaking
    <3>5. Speaker(msgs') \in {Speaker(msgs), "user"}
      BY <3>1, <3>2, SummarySpeaker
    <3>6. Chat!Summarize
      BY <2>2, <3>4, <3>5 DEF Chat!Summarize
    <3> QED BY <3>6 DEF Chat!Next
  <2> QED BY <2>3, <2>4
<1>12. CASE StopAtContextLimit
  <2>1. msgs' = msgs /\ pc = "judge" /\ pc' = "stopped"
    BY <1>12 DEF StopAtContextLimit, Return
  <2>2. Owed(msgs) = 0
    BY <2>1, NoDebt DEF Speaking, Resting
  <2> QED BY <2>1, <2>2, Ends
<1>13. CASE RetryEmpty
  <2>1. msgs' = msgs /\ pc = "judge" /\ pc' = "top"
    BY <1>13 DEF RetryEmpty, EndTurn
  <2> QED BY <2>1, GivesUp
<1>14. CASE FailEmpty
  <2>1. msgs' = msgs /\ pc = "judge" /\ pc' \in {"await", "stopped"}
    BY <1>14 DEF FailEmpty, FailTurn, Return
  <2> QED BY <2>1, GivesUp
<1>15. CASE FinishByReply
  <2>1. Accept /\ reply.calls = 0 /\ pc' = "stopped"
    BY <1>15 DEF FinishByReply, Complete, Return
  <2>2. Owed(msgs) = 0 /\ Phase = "asking" /\ Phase' = "over"
    BY <2>1, NoDebt DEF Accept, Speaking, Phase, Asking
  <2>3. Owed(msgs') = 0 /\ Speaker(msgs') = "assistant"
    BY <2>1, AcceptOwes
  <2>4. Chat!End
    BY <2>2, <2>3 DEF Chat!End
  <2> QED BY <2>4 DEF Chat!Next
<1>16. CASE Pause
  <2>1. Accept /\ pc' = "pause"
    BY <1>16 DEF Pause
  <2>2. Phase = "asking" /\ Phase' = "open"
    BY <2>1 DEF Accept, Phase, Asking
  <2>3. Owed(msgs') \in Nat /\ Speaker(msgs') = "assistant"
    BY <2>1, AcceptOwes, Numbers
  <2>4. Chat!Answer
    BY <2>2, <2>3 DEF Chat!Answer
  <2> QED BY <2>4 DEF Chat!Next
<1>17. CASE ContinueWithInbox
  <2>1. pc = "pause" /\ pc' = "top" /\ msgs' = msgs \o Users(Len(inbox)) /\ Len(inbox) \in Nat
    BY <1>17, NatSeqs DEF ContinueWithInbox, TypeOK
  <2>2. Owed(msgs) = 0
    BY <2>1, NoDebt DEF Resting
  <2> QED BY <2>1, <2>2, Numbers, UsersSay DEF Phase, Asking
<1>18. CASE AwaitHuman
  <2>1. msgs' = msgs /\ Phase' = Phase
    BY <1>18 DEF AwaitHuman, Phase, Asking
  <2> QED BY <2>1, Stays
<1>19. CASE WaitGetsMessage
  <2>1. pc = "await" /\ pc' = "top" /\ msgs' = Append(msgs, User)
    BY <1>19 DEF WaitGetsMessage
  <2>2. Owed(msgs) = 0
    BY <2>1, NoDebt DEF Resting
  <2>3. Owed(msgs') = 0 /\ Speaker(msgs') = "user"
    BY <2>1, Numbers, EndsWithUser, OneMore, MessageTypes
  <2> QED BY <2>1, <2>2, <2>3, UserSays DEF Phase, Asking
<1>20. CASE WaitFindsClosed
  <2>1. msgs' = msgs /\ pc = "await" /\ pc' = "stopped"
    BY <1>20 DEF WaitFindsClosed, Complete, Return
  <2>2. Owed(msgs) = 0
    BY <2>1, NoDebt DEF Speaking, Resting
  <2> QED BY <2>1, <2>2, Ends
<1>21. CASE WaitCanceled
  <2>1. msgs' = msgs /\ pc = "await" /\ pc' = "stopped"
    BY <1>21 DEF WaitCanceled, Return
  <2>2. Owed(msgs) = 0
    BY <2>1, NoDebt DEF Speaking, Resting
  <2> QED BY <2>1, <2>2, Ends
<1>22. CASE BeginBatch
  <2>1. Accept /\ pc' = "batch"
    BY <1>22 DEF BeginBatch
  <2>2. Phase = "asking" /\ Phase' = "open"
    BY <2>1 DEF Accept, Phase, Asking
  <2>3. Owed(msgs') \in Nat /\ Speaker(msgs') = "assistant"
    BY <2>1, AcceptOwes, Numbers
  <2>4. Chat!Answer
    BY <2>2, <2>3 DEF Chat!Answer
  <2> QED BY <2>4 DEF Chat!Next
<1>23. CASE SkipCall
  <2>1. /\ AnswerCall /\ pc = "batch" /\ batch.i < reply.calls
        /\ Phase' = Phase
    BY <1>23 DEF SkipCall, CallsLeft, Phase, Asking
  <2> QED BY <2>1, AnswerPays
<1>24. CASE RefuseCall
  <2>1. /\ AnswerCall /\ pc = "batch" /\ batch.i < reply.calls
        /\ Phase' = Phase
    BY <1>24 DEF RefuseCall, MayDispatch, CallsLeft, Phase, Asking
  <2> QED BY <2>1, AnswerPays
<1>25. CASE Dispatch
  <2>1. msgs' = msgs /\ Phase' = Phase
    BY <1>25 DEF Dispatch, MayDispatch, CallsLeft, Phase, Asking
  <2> QED BY <2>1, Stays
<1>26. CASE ToolFails
  <2>1. AnswerCall /\ pc = "exec" /\ pc' = "between"
    BY <1>26 DEF ToolFails
  <2>2. batch.i < reply.calls
    BY <2>1 DEF ConvInv, Walking
  <2> QED BY <2>1, <2>2, AnswerPays DEF Phase, Asking
<1>27. CASE ToolSucceeds
  <2>1. AnswerCall /\ pc = "exec" /\ pc' = "between"
    BY <1>27 DEF ToolSucceeds
  <2>2. batch.i < reply.calls
    BY <2>1 DEF ConvInv, Walking
  <2> QED BY <2>1, <2>2, AnswerPays DEF Phase, Asking
<1>28. CASE NextCall
  <2>1. msgs' = msgs /\ Phase' = Phase
    BY <1>28 DEF NextCall, Phase, Asking
  <2> QED BY <2>1, Stays
<1>29. CASE FinishByTool
  <2>1. msgs' = msgs /\ BatchWalked /\ pc' = "stopped"
    BY <1>29 DEF FinishByTool, Return, Complete
  <2>2. Owed(msgs) = 0
    BY <2>1, WalkedConv, SettledOwesNothing, SendableIsSettled, Numbers
  <2> QED BY <2>1, <2>2, Ends DEF BatchWalked
<1>30. CASE ContinueAfterBatch
  <2>1. PICK image \in {<<User>>, <<>>} : msgs' = msgs \o image \o Users(Len(pending))
    BY <1>30 DEF ContinueAfterBatch
  <2>2. BatchWalked /\ pc' = "top"
    BY <1>30 DEF ContinueAfterBatch, EndBatch, EndTurn
  <2>3. Owed(msgs) = 0
    BY <2>2, WalkedConv, SettledOwesNothing, SendableIsSettled, Numbers
  <2>4. Len(pending) \in Nat
    BY NatSeqs DEF TypeOK
  <2>5. msgs' = msgs \/ (Owed(msgs') = 0 /\ Speaker(msgs') = "user")
    BY <2>1, <2>4, Numbers, UserSuffix
  <2> QED BY <2>2, <2>3, <2>5, MaybeUserSays DEF Phase, Asking, BatchWalked
<1>31. CASE StopIncapable
  <2>1. msgs' = msgs /\ BatchWalked /\ pc' = "stopped"
    BY <1>31 DEF StopIncapable, Incapable, Return
  <2>2. Owed(msgs) = 0
    BY <2>1, WalkedConv, SettledOwesNothing, SendableIsSettled, Numbers
  <2> QED BY <2>1, <2>2, Ends DEF BatchWalked
<1>32. CASE RecoverWithPending
  <2>1. /\ BatchWalked /\ pc' = "top"
        /\ msgs' = msgs \o Users(Len(pending)) /\ Len(pending) \in Nat
    BY <1>32, NatSeqs DEF RecoverWithPending, Incapable, EndBatch, EndTurn, TypeOK
  <2>2. Owed(msgs) = 0
    BY <2>1, WalkedConv, SettledOwesNothing, SendableIsSettled, Numbers
  <2> QED BY <2>1, <2>2, Numbers, UsersSay DEF Phase, Asking, BatchWalked
<1>33. CASE AwaitRecovery
  <2>1. msgs' = msgs /\ Phase' = Phase
    BY <1>33 DEF AwaitRecovery, Incapable, BatchWalked, Phase, Asking
  <2> QED BY <2>1, Stays
<1>34. CASE StopAtMaxTurns
  <2>1. msgs' = msgs /\ pc = "exhausted" /\ pc' = "stopped"
    BY <1>34 DEF StopAtMaxTurns, Return
  <2>2. Owed(msgs) = 0
    BY <2>1, NoDebt DEF Speaking, Resting
  <2> QED BY <2>1, <2>2, Ends
<1>35. CASE AskGrace
  <2>1. msgs' = msgs /\ pc = "exhausted" /\ pc' = "graceForced"
    BY <1>35 DEF AskGrace
  <2> QED BY <2>1, Asks, Numbers DEF Speaking
<1>36. CASE GraceUnforced
  <2>1. msgs' = msgs /\ Phase' = Phase
    BY <1>36 DEF GraceUnforced, Phase, Asking
  <2> QED BY <2>1, Stays
<1>37. CASE GraceFails
  <2>1. msgs' = msgs /\ pc \in {"graceForced", "gracePlain"} /\ pc' = "stopped"
    BY <1>37 DEF GraceFails, Return
  <2>2. Owed(msgs) = 0
    BY <2>1, NoDebt DEF Speaking, Resting
  <2> QED BY <2>1, <2>2, Ends
<1>38. CASE GraceReplies
  <2>1. msgs' = msgs /\ Phase' = Phase
    BY <1>38 DEF GraceReplies, Phase, Asking
  <2> QED BY <2>1, Stays
<1>39. CASE GraceIgnores
  <2>1. msgs' = msgs /\ Phase' = Phase
    BY <1>39 DEF GraceIgnores, GraceCallsLeft, Phase, Asking
  <2> QED BY <2>1, Stays
<1>40. CASE GraceToolFails
  <2>1. msgs' = msgs /\ Phase' = Phase
    BY <1>40 DEF GraceToolFails, GraceCallsLeft, Phase, Asking
  <2> QED BY <2>1, Stays
<1>41. CASE GraceToolSucceeds
  <2>1. msgs' = msgs /\ pc = "graceCalls" /\ pc' = "stopped"
    BY <1>41 DEF GraceToolSucceeds, GraceCallsLeft, Complete, Return
  <2>2. Owed(msgs) = 0
    BY <2>1, NoDebt DEF Speaking, Resting
  <2> QED BY <2>1, <2>2, Ends
<1>42. CASE GraceDeclined
  <2>1. msgs' = msgs /\ pc = "graceCalls" /\ pc' = "stopped"
    BY <1>42 DEF GraceDeclined, Return
  <2>2. Owed(msgs) = 0
    BY <2>1, NoDebt DEF Speaking, Resting
  <2> QED BY <2>1, <2>2, Ends
<1>43. CASE Push
  <2>1. msgs' = msgs /\ Phase' = Phase
    BY <1>43 DEF Push, Phase, Asking
  <2> QED BY <2>1, Stays
<1>44. CASE CloseInbox
  <2>1. msgs' = msgs /\ Phase' = Phase
    BY <1>44 DEF CloseInbox, Phase, Asking
  <2> QED BY <2>1, Stays
<1>45. CASE CancelContext
  <2>1. msgs' = msgs /\ Phase' = Phase
    BY <1>45 DEF CancelContext, Phase, Asking
  <2> QED BY <2>1, Stays
<1>46. CASE UNCHANGED vars
  <2>1. msgs' = msgs /\ Phase' = Phase
    BY <1>46 DEF vars, Phase
  <2> QED BY <2>1, Stays
<1> QED BY <1>1, <1>2, <1>3, <1>4, <1>5, <1>6, <1>7, <1>8, <1>9, <1>10,
           <1>11, <1>12, <1>13, <1>14, <1>15, <1>16, <1>17, <1>18, <1>19,
           <1>20, <1>21, <1>22, <1>23, <1>24, <1>25, <1>26, <1>27, <1>28,
           <1>29, <1>30, <1>31, <1>32, <1>33, <1>34, <1>35, <1>36, <1>37,
           <1>38, <1>39, <1>40, <1>41, <1>42, <1>43, <1>44, <1>45, <1>46
        DEF Next, RunStep, Environment, Returned

\* Every behaviour of the run, seen as who may speak and how many tool results
\* are owed, is one the chat API's protocol allows.
THEOREM RunImplementsProtocol == Spec => KeepsProtocol
<1>1. Init => Chat!Init
  <2> SUFFICES ASSUME Init PROVE Chat!Init
    OBVIOUS
  <2>1. msgs = <<>> /\ Phase = "open"
    BY DEF Init, Phase, Asking
  <2> QED BY <2>1 DEF Chat!Init, Owed, Speaker
<1>2. Init => ConvInv /\ Unseeded
  BY DEF Init, ConvInv, Unseeded, Speaking, Resting, Walking
<1>3. TypeOK /\ ConvInv /\ Unseeded /\ [Next]_vars =>
        ConvInv' /\ Unseeded' /\ [Chat!Next]_(Chat!protocol)
  BY NextConv, NextUnseeded, StepKeepsProtocol
<1> QED BY <1>1, <1>2, <1>3, TypeCorrect, PTL DEF Spec, KeepsProtocol, Chat!Spec
============================================================================
