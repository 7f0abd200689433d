---------------------------- MODULE ReplayProofs ----------------------------
(***************************************************************************)
(* What holds of the requests of a run for every routing value, every      *)
(* history it may be seeded with and every number of turns.                *)
(***************************************************************************)
EXTENDS Replay, StepLemmas

Names == Providers \cup {Unreported}

LEMMA MessageFields ==
  /\ Plain \in Message /\ ~Plain.details
  /\ \A m \in Message : m.details \in BOOLEAN /\ m.provider \in Names /\ m.origin \in Names
  /\ \A m \in Message, b \in BOOLEAN :
       LET n == [m EXCEPT !.details = b]
       IN  n \in Message /\ n.details = b /\ n.provider = m.provider /\ n.origin = m.origin
  BY DEF Plain, Message, Names

----------------------------------------------------------------------------
(* What the filters of replay.go leave of a history.                       *)

LEMMA Stripped ==
  ASSUME NEW ms \in Seq(Message)
  PROVE  /\ WithoutReasoning(ms) \in Seq(Message)
         /\ Len(WithoutReasoning(ms)) = Len(ms)
         /\ ~Carries(WithoutReasoning(ms))
<1>1. DOMAIN ms = 1..Len(ms) /\ Len(ms) \in Nat /\ \A i \in DOMAIN ms : ms[i] \in Message
  OBVIOUS
<1> DEFINE bare(i) == [ms[i] EXCEPT !.details = FALSE]
<1>2. \A i \in DOMAIN ms : bare(i) \in Message /\ ~bare(i).details
  BY <1>1, MessageFields
<1>3. WithoutReasoning(ms) = [i \in DOMAIN ms |-> bare(i)]
  BY DEF WithoutReasoning
<1> HIDE DEF bare
<1>4. DOMAIN WithoutReasoning(ms) = 1..Len(ms)
      /\ \A i \in 1..Len(ms) : WithoutReasoning(ms)[i] \in Message
                                 /\ ~WithoutReasoning(ms)[i].details
  BY <1>1, <1>2, <1>3
<1> QED BY <1>1, <1>2, <1>3, <1>4 DEF Carries

LEMMA Own ==
  ASSUME NEW ms \in Seq(Message), NEW pin
  PROVE  LET out == WithoutForeignReasoning(ms, pin)
         IN  /\ out \in Seq(Message) /\ Len(out) = Len(ms)
             /\ \A i \in 1..Len(ms) :
                  /\ out[i].details <=> ms[i].details /\ ms[i].provider = pin
                  /\ out[i].origin = ms[i].origin
<1>1. DOMAIN ms = 1..Len(ms) /\ Len(ms) \in Nat /\ \A i \in DOMAIN ms : ms[i] \in Message
  OBVIOUS
<1>2. \A i \in DOMAIN ms : (ms[i].details /\ ms[i].provider = pin) \in BOOLEAN
  OBVIOUS
<1> DEFINE own(i) == [ms[i] EXCEPT !.details = ms[i].details /\ ms[i].provider = pin]
<1>3. \A i \in DOMAIN ms :
        /\ own(i) \in Message /\ own(i).origin = ms[i].origin
        /\ own(i).details <=> ms[i].details /\ ms[i].provider = pin
  BY <1>1, <1>2, MessageFields
<1>4. WithoutForeignReasoning(ms, pin) = [i \in DOMAIN ms |-> own(i)]
  BY DEF WithoutForeignReasoning
<1> HIDE DEF own
<1> QED BY <1>1, <1>3, <1>4

\* The details a request is pinned for were signed where it goes, and the newest
\* of the history are among them.
LEMMA PinnedOwn ==
  ASSUME NEW ms \in Seq(Message), Honest(ms),
         ReplayRequest(ms).pin # Unreported
  PROVE  LET made == ReplayRequest(ms)
         IN  /\ made.pin \in Providers
             /\ Carries(made.messages)
             /\ \A i \in DOMAIN made.messages :
                  made.messages[i].details => made.messages[i].origin = made.pin
<1> DEFINE pin == ReplayPin(ms)
           S   == {i \in DOMAIN ms : ms[i].details}
           out == WithoutForeignReasoning(ms, pin)
<1>1. DOMAIN ms = 1..Len(ms) /\ Len(ms) \in Nat /\ \A i \in DOMAIN ms : ms[i] \in Message
  OBVIOUS
<1>2. /\ ReplayRequest(ms).pin = pin /\ ReplayRequest(ms).messages = out
      /\ pin # Unreported
  BY DEF ReplayRequest
<1>3. Carries(ms) /\ pin = ms[Max(S)].provider
  BY <1>2 DEF ReplayPin
<1>4. S # {} /\ S \in SUBSET (1..Len(ms))
  BY <1>1, <1>3 DEF Carries
<1>5. Max(S) \in S
  BY <1>1, <1>4, GreatestOf
<1>6. Max(S) \in 1..Len(ms) /\ ms[Max(S)].details
  BY <1>1, <1>5
<1>7. pin \in Providers
  BY <1>1, <1>2, <1>3, <1>6, MessageFields DEF Names
<1> HIDE DEF pin, S
<1>8. /\ DOMAIN out = 1..Len(ms)
      /\ \A i \in 1..Len(ms) : /\ out[i].details <=> ms[i].details /\ ms[i].provider = pin
                               /\ out[i].origin = ms[i].origin
  <2>1. out \in Seq(Message) /\ Len(out) = Len(ms)
    BY Own
  <2>2. DOMAIN out = 1..Len(ms)
    BY <2>1
  <2> QED BY <2>2, Own
<1> HIDE DEF out
<1>9. out[Max(S)].details
  BY <1>3, <1>6, <1>8
<1>10. Carries(out)
  BY <1>6, <1>8, <1>9 DEF Carries
<1>11. \A i \in DOMAIN out : out[i].details => out[i].origin = pin
  BY <1>1, <1>2, <1>8 DEF Honest
<1> QED BY <1>2, <1>7, <1>10, <1>11

\* The newest details of a history are in the request made of it.
LEMMA NewestKept ==
  ASSUME NEW ms \in Seq(Message), NEW i \in DOMAIN ms, ms[i].details,
         \A j \in DOMAIN ms : ms[j].details => j <= i
  PROVE  ReplayRequest(ms).messages[i].details
<1> DEFINE pin == ReplayPin(ms)
           S   == {j \in DOMAIN ms : ms[j].details}
<1>1. DOMAIN ms = 1..Len(ms) /\ Len(ms) \in Nat
  OBVIOUS
<1>2. i \in S /\ S \in SUBSET (1..Len(ms))
  BY <1>1
<1>3. Max(S) \in S /\ \A y \in S : y <= Max(S)
  BY <1>1, <1>2, GreatestOf
<1>4. Max(S) = i
  <2>1. Max(S) <= i /\ i <= Max(S) /\ Max(S) \in Int /\ i \in Int
    BY <1>1, <1>2, <1>3
  <2> QED BY <2>1
<1>5. pin = ms[i].provider
  BY <1>2, <1>4 DEF ReplayPin, Carries
<1> HIDE DEF pin
<1>6. WithoutForeignReasoning(ms, pin)[i].details
  BY <1>1, <1>2, <1>5, Own
<1>7. ReplayRequest(ms).messages \in {ms, WithoutForeignReasoning(ms, pin)}
  BY DEF ReplayRequest, pin
<1> QED BY <1>6, <1>7

LEMMA RequestTypes ==
  ASSUME NEW ms \in Seq(Message)
  PROVE  /\ ReplayRequest(ms).messages \in Seq(Message)
         /\ ReplayRequest(ms).pin \in Names
<1>1. WithoutForeignReasoning(ms, ReplayPin(ms)) \in Seq(Message)
  BY Own
<1>2. ReplayPin(ms) \in Names
  <2>1. DOMAIN ms = 1..Len(ms) /\ Len(ms) \in Nat /\ \A i \in DOMAIN ms : ms[i] \in Message
    OBVIOUS
  <2> DEFINE S == {i \in DOMAIN ms : ms[i].details}
  <2>2. CASE Carries(ms)
    <3>1. S # {} /\ S \in SUBSET (1..Len(ms))
      BY <2>1, <2>2 DEF Carries
    <3>2. Max(S) \in DOMAIN ms
      BY <2>1, <3>1, GreatestOf
    <3> QED BY <2>1, <2>2, <3>2, MessageFields DEF ReplayPin
  <2> QED BY <2>2 DEF ReplayPin, Names
<1> QED BY <1>1, <1>2 DEF ReplayRequest, Names

\* Nothing is added to what a history holds.
LEMMA NothingAdded ==
  ASSUME NEW ms \in Seq(Message), ~Carries(ms)
  PROVE  ~Carries(ReplayRequest(ms).messages) /\ ReplayRequest(ms).pin = Unreported
  BY DEF ReplayRequest, ReplayPin
----------------------------------------------------------------------------
(* What a history becomes.                                                 *)

HonestMessage(m) == m.details => m.provider \in {m.origin, Unreported}

LEMMA Extended ==
  ASSUME NEW ms \in Seq(Message), NEW m \in Message
  PROVE  /\ Append(ms, m) \in Seq(Message)
         /\ Honest(ms) /\ HonestMessage(m) => Honest(Append(ms, m))
         /\ ~Carries(ms) /\ ~m.details => ~Carries(Append(ms, m))
         /\ IsPrefix(ms, Append(ms, m))
<1>0. \A j \in 1..Len(ms) : Append(ms, m)[j] = ms[j]
  OBVIOUS
<1> DEFINE t == Append(ms, m)
<1>1. t \in Seq(Message) /\ Len(t) = Len(ms) + 1 /\ Len(ms) \in Nat
  OBVIOUS
<1>2. DOMAIN ms = 1..Len(ms) /\ DOMAIN t = 1..(Len(ms) + 1)
  BY <1>1
<1>3. \A i \in DOMAIN t : (i \in DOMAIN ms /\ t[i] = ms[i]) \/ (i = Len(ms) + 1 /\ t[i] = m)
  <2> SUFFICES ASSUME NEW i \in 1..(Len(ms) + 1)
               PROVE  (i \in 1..Len(ms) /\ t[i] = ms[i]) \/ (i = Len(ms) + 1 /\ t[i] = m)
    BY <1>2
  <2>1. CASE i = Len(ms) + 1
    BY <2>1
  <2>2. CASE i # Len(ms) + 1
    <3>1. i \in 1..Len(ms)
      BY <1>1, <2>2
    <3> QED BY <1>0, <3>1
  <2> QED BY <2>1, <2>2
<1>4. IsPrefix(ms, t)
  <2>1. SubSeq(t, 1, Len(ms)) = ms
    BY <1>1
  <2>2. SubSeq(ms, 1, Len(ms)) = ms
    OBVIOUS
  <2>3. Len(ms) <= Len(t)
    BY <1>1
  <2> QED BY <2>1, <2>2, <2>3 DEF IsPrefix
<1> HIDE DEF t
<1>5. Honest(ms) /\ HonestMessage(m) => Honest(t)
  BY <1>3 DEF Honest, HonestMessage
<1>6. ~Carries(ms) /\ ~m.details => ~Carries(t)
  BY <1>3 DEF Carries
<1> QED BY <1>1, <1>4, <1>5, <1>6 DEF t

LEMMA Compacted ==
  ASSUME NEW ms \in Seq(Message), NEW k \in 1..Len(ms)
  PROVE  LET t == <<Plain>> \o SubSeq(ms, k + 1, Len(ms))
         IN  /\ t \in Seq(Message)
             /\ Honest(ms) => Honest(t)
             /\ ~Carries(ms) => ~Carries(t)
<1> DEFINE r == SubSeq(ms, k + 1, Len(ms))
           t == <<Plain>> \o r
<1>1. r \in Seq(Message) /\ Len(r) = Len(ms) - k /\ Len(ms) - k \in Nat
      /\ \A i \in 1..(Len(ms) - k) : r[i] = ms[k + i]
  OBVIOUS
<1>2. DOMAIN ms = 1..Len(ms) /\ Len(ms) \in Nat
  OBVIOUS
<1> HIDE DEF r
<1>3. t \in Seq(Message) /\ Len(t) = Len(ms) - k + 1
  BY <1>1, MessageFields
<1>4. \A i \in 1..Len(t) : t[i] = IF i = 1 THEN Plain ELSE r[i - 1]
  BY <1>1, <1>3
<1>5. \A i \in DOMAIN t : t[i] = Plain \/ \E j \in DOMAIN ms : t[i] = ms[j]
  <2> SUFFICES ASSUME NEW i \in 1..Len(t), i # 1 PROVE \E j \in DOMAIN ms : t[i] = ms[j]
    BY <1>3, <1>4
  <2>1. i - 1 \in 1..(Len(ms) - k) /\ k + (i - 1) \in DOMAIN ms
    BY <1>2, <1>3
  <2>2. t[i] = ms[k + (i - 1)]
    BY <1>1, <1>4, <2>1
  <2> QED BY <2>1, <2>2
<1> HIDE DEF t
<1>6. Honest(ms) => Honest(t)
  BY <1>5, MessageFields DEF Honest
<1>7. ~Carries(ms) => ~Carries(t)
  BY <1>5, MessageFields DEF Carries
<1> QED BY <1>3, <1>6, <1>7 DEF t, r

----------------------------------------------------------------------------
(* The inductive invariant.                                                *)

\* What a run keeps is honest, and holds details only when they are replayed.
Kept ==
  /\ Honest(msgs) /\ HonestMessage(reply)
  /\ ~cfg.replay => ~Carries(msgs)

\* How often a request of this turn has been made.
Counted ==
  /\ call \in {"turn", "grace"} => total = sends
  /\ call = "gracePlain" => total <= sends + 2
  /\ call = "summary" => total <= 2 /\ sends = 1
  /\ sends = 2 => request.pin = Unreported /\ ~Carries(request.messages)

\* What the request that is out was made of.
Made ==
  /\ SignedWhereProduced
  /\ NothingReplayedUnasked
  /\ call = "summary" => request.pin = Unreported
  /\ pc = "sent" /\ call # "summary" /\ sends = 1 =>
       request.messages = ReplayRequest(Asked).messages
  /\ pc = "sent" /\ call = "summary" => Len(request.messages) \in 1..Len(msgs)

ReplayInv == TypeOK /\ Kept /\ Counted /\ Made

LEMMA InitInv == Init => ReplayInv
<1> SUFFICES ASSUME Init PROVE ReplayInv
  OBVIOUS
<1>1. PICK h \in Histories : msgs = Append(IF cfg.replay THEN h ELSE WithoutReasoning(h), Plain)
  BY DEF Init
<1> DEFINE seed == IF cfg.replay THEN h ELSE WithoutReasoning(h)
<1>2. h \in Seq(Message) /\ Honest(h)
  BY HistoryAssumption
<1>3. seed \in Seq(Message) /\ Honest(seed) /\ (~cfg.replay => ~Carries(seed))
  <2>1. WithoutReasoning(h) \in Seq(Message) /\ ~Carries(WithoutReasoning(h))
    BY <1>2, Stripped
  <2>2. Honest(WithoutReasoning(h))
    BY <2>1 DEF Honest, Carries
  <2> QED BY <1>2, <2>1, <2>2
<1> HIDE DEF seed
<1>4. msgs = Append(seed, Plain)
  BY <1>1 DEF seed
<1>5. HonestMessage(Plain)
  BY MessageFields DEF HonestMessage
<1>6. msgs \in Seq(Message) /\ Honest(msgs) /\ (~cfg.replay => ~Carries(msgs))
  BY <1>3, <1>4, <1>5, MessageFields, Extended
<1>7. request.messages = <<>> /\ request.pin = Unreported
  BY DEF Init
<1>8. request.messages \in Seq(Message) /\ ~Carries(request.messages)
  BY <1>7 DEF Carries
<1>9. TypeOK
  BY <1>6, <1>7, <1>8, MessageFields, TurnAssumption DEF Init, TypeOK
<1> QED BY <1>5, <1>6, <1>7, <1>8, <1>9
        DEF Init, ReplayInv, Kept, Counted, Made, SignedWhereProduced, NothingReplayedUnasked

\* sendModel's first request.
LEMMA SendKeeps ==
  ASSUME ReplayInv, NEW kind \in {"turn", "grace", "gracePlain"}, NEW ms, Send(kind, ms),
         ms = Asked', turns' \in 0..MaxTurns, total' \in Nat,
         \/ kind # "gracePlain" /\ total' = 1
         \/ kind = "gracePlain" /\ total' <= 3
  PROVE  ReplayInv'
<1>1. /\ pc' = "sent" /\ call' = kind /\ request' = ReplayRequest(ms) /\ sends' = 1
      /\ cfg' = cfg /\ msgs' = msgs /\ reply' = reply
  BY DEF Send
<1>2. Honest(msgs) /\ msgs \in Seq(Message) /\ (~cfg.replay => ~Carries(msgs))
  BY DEF ReplayInv, Kept, TypeOK
<1>3. ms = IF kind = "turn" THEN msgs ELSE Append(msgs, Plain)
  BY <1>1 DEF Asked
<1>4. ms \in Seq(Message) /\ Honest(ms) /\ (~cfg.replay => ~Carries(ms))
  <2>1. HonestMessage(Plain)
    BY MessageFields DEF HonestMessage
  <2> QED BY <1>2, <1>3, <2>1, MessageFields, Extended
<1>5. request'.messages \in Seq(Message) /\ request'.pin \in Names
  BY <1>1, <1>4, RequestTypes
<1>6. TypeOK'
  BY <1>1, <1>5 DEF ReplayInv, TypeOK, Names
<1>7. Kept'
  BY <1>1 DEF ReplayInv, Kept, Honest, HonestMessage, Carries
<1>8. Counted'
  BY <1>1 DEF Counted
<1>9. SignedWhereProduced'
  BY <1>1, <1>4, PinnedOwn DEF SignedWhereProduced
<1>10. NothingReplayedUnasked'
  BY <1>1, <1>4, NothingAdded DEF NothingReplayedUnasked
<1>11. ReplayRequest(Asked)' = ReplayRequest(ms)
  BY <1>1 DEF ReplayRequest
<1>12. Made'
  BY <1>1, <1>9, <1>10, <1>11 DEF Made
<1> QED BY <1>6, <1>7, <1>8, <1>12 DEF ReplayInv

\* A step that sends nothing and keeps the history.
LEMMA QuietKeeps ==
  ASSUME ReplayInv, UNCHANGED <<cfg, msgs, turns, request, sends, total>>,
         reply' \in Message, HonestMessage(reply'),
         pc' \in {"idle", "judge", "over"}, call' = call
  PROVE  ReplayInv'
<1>1. TypeOK'
  BY DEF ReplayInv, TypeOK
<1>2. Kept'
  BY DEF ReplayInv, Kept, Honest, HonestMessage, Carries
<1>3. Counted'
  BY DEF ReplayInv, Counted, Carries
<1>4. Made'
  BY DEF ReplayInv, Made, SignedWhereProduced, NothingReplayedUnasked, Carries
<1> QED BY <1>1, <1>2, <1>3, <1>4 DEF ReplayInv

\* A step that changes the history between requests.
LEMMA RecordKeeps ==
  ASSUME ReplayInv, UNCHANGED <<cfg, turns, call, request, sends, total, reply>>,
         msgs' \in Seq(Message), Honest(msgs'), ~cfg.replay => ~Carries(msgs'),
         pc' \in {"idle", "judge", "over"}
  PROVE  ReplayInv'
<1>1. TypeOK'
  BY DEF ReplayInv, TypeOK
<1>2. Kept'
  <2>1. (Honest(msgs))' /\ (~cfg.replay => ~Carries(msgs))'
    BY DEF Honest, Carries
  <2> QED BY <2>1 DEF ReplayInv, Kept, HonestMessage
<1>3. Counted'
  BY DEF ReplayInv, Counted, Carries
<1>4. Made'
  BY DEF ReplayInv, Made, SignedWhereProduced, NothingReplayedUnasked, Carries
<1> QED BY <1>1, <1>2, <1>3, <1>4 DEF ReplayInv

LEMMA AskedType ==
  ASSUME ReplayInv
  PROVE  Asked \in Seq(Message)
BY MessageFields, Extended DEF ReplayInv, TypeOK, Asked

\* sendModel's second request.
LEMMA DropKeeps == ReplayInv /\ DropReplay => ReplayInv'
<1> SUFFICES ASSUME ReplayInv, DropReplay PROVE ReplayInv'
  OBVIOUS
<1>1. /\ pc' = "sent" /\ call' = call /\ call # "summary" /\ sends = 1 /\ sends' = 2
      /\ total' = total + 1 /\ request' = Clean(Asked)
      /\ UNCHANGED <<cfg, msgs, turns, reply>>
  BY DEF DropReplay, MayDrop
<1>2. Clean(Asked).messages = WithoutReasoning(Asked) /\ Clean(Asked).pin = Unreported
  BY DEF Clean
<1>3. request'.messages \in Seq(Message) /\ ~Carries(request'.messages)
      /\ request'.pin = Unreported
  BY <1>1, <1>2, AskedType, Stripped
<1>4. (~Carries(request.messages))'
  BY <1>3 DEF Carries
<1>5. TypeOK'
  BY <1>1, <1>3 DEF ReplayInv, TypeOK
<1>6. Kept'
  BY <1>1 DEF ReplayInv, Kept, Honest, HonestMessage, Carries
<1>7. Counted'
  <2>1. (sends = 2 => request.pin = Unreported /\ ~Carries(request.messages))'
    BY <1>3, <1>4
  <2>2. total \in Nat
    BY DEF ReplayInv, TypeOK
  <2> QED BY <1>1, <2>1, <2>2 DEF ReplayInv, Counted
<1>8. Made'
  BY <1>1, <1>3, <1>4 DEF Made, SignedWhereProduced, NothingReplayedUnasked
<1> QED BY <1>5, <1>6, <1>7, <1>8 DEF ReplayInv

LEMMA SummarizeKeeps ==
  ASSUME ReplayInv, NEW cut \in 2..(Len(msgs) + 1), Summarize(cut)
  PROVE  ReplayInv'
<1> DEFINE asked == SubSeq(msgs, 1, cut - 1)
<1>1. msgs \in Seq(Message)
  BY DEF ReplayInv, TypeOK
<1>2. asked \in Seq(Message) /\ Len(asked) = cut - 1 /\ cut - 1 \in 1..Len(msgs)
  <2>1. cut - 1 \in 1..Len(msgs) /\ Len(msgs) \in Nat
    BY <1>1
  <2>2. \A i \in 1..(cut - 1) : i \in 1..Len(msgs) /\ msgs[i] \in Message
    BY <1>1, <2>1
  <2> QED BY <1>1, <2>1, <2>2
<1> HIDE DEF asked
<1>3. /\ pc' = "sent" /\ call' = "summary" /\ sends' = 1 /\ call = "turn" /\ pc = "judge"
      /\ request'.messages = WithoutReasoning(asked) /\ request'.pin = Unreported
      /\ UNCHANGED <<cfg, msgs, turns, total, reply>>
  BY DEF Summarize, asked
<1>4. request'.messages \in Seq(Message) /\ ~Carries(request'.messages)
      /\ Len(request'.messages) \in 1..Len(msgs)
  BY <1>2, <1>3, Stripped
<1>5. (~Carries(request.messages))' /\ (Len(request.messages) \in 1..Len(msgs))'
  BY <1>3, <1>4 DEF Carries
<1>6. TypeOK'
  BY <1>3, <1>4 DEF ReplayInv, TypeOK
<1>7. Kept'
  BY <1>3 DEF ReplayInv, Kept, Honest, HonestMessage, Carries
<1>8. Counted'
  <2>1. total = sends /\ sends \in 0..2
    BY <1>3 DEF ReplayInv, TypeOK, Counted
  <2> QED BY <1>3, <2>1 DEF Counted
<1>9. Made'
  BY <1>3, <1>5 DEF Made, SignedWhereProduced, NothingReplayedUnasked
<1> QED BY <1>6, <1>7, <1>8, <1>9 DEF ReplayInv

LEMMA SummarizedKeeps == ReplayInv /\ Summarized => ReplayInv'
<1> SUFFICES ASSUME ReplayInv, Summarized PROVE ReplayInv'
  OBVIOUS
<1> DEFINE k == Len(request.messages)
<1>1. k \in 1..Len(msgs) /\ msgs \in Seq(Message)
      /\ Honest(msgs) /\ (~cfg.replay => ~Carries(msgs))
  BY DEF Summarized, ReplayInv, Made, TypeOK, Kept
<1>2. msgs' = <<Plain>> \o SubSeq(msgs, k + 1, Len(msgs))
  BY DEF Summarized
<1> HIDE DEF k
<1>3. msgs' \in Seq(Message) /\ Honest(msgs') /\ (~cfg.replay => ~Carries(msgs'))
  BY <1>1, <1>2, Compacted
<1>4. UNCHANGED <<cfg, turns, call, request, sends, total, reply>> /\ pc' = "judge"
  BY DEF Summarized
<1> QED BY <1>3, <1>4, RecordKeeps

LEMMA RecordedHonest ==
  ASSUME ReplayInv
  PROVE  /\ Recorded(reply) \in Message /\ HonestMessage(Recorded(reply))
         /\ ~cfg.replay => ~Recorded(reply).details
BY MessageFields DEF ReplayInv, TypeOK, Kept, Recorded, HonestMessage

LEMMA AcceptKeeps == ReplayInv /\ Accept => ReplayInv'
<1> SUFFICES ASSUME ReplayInv, Accept PROVE ReplayInv'
  OBVIOUS
<1> DEFINE r == Recorded(reply)
           one == Append(msgs, r)
           two == Append(one, Plain)
<1>1. msgs \in Seq(Message) /\ Honest(msgs) /\ (~cfg.replay => ~Carries(msgs))
  BY DEF ReplayInv, TypeOK, Kept
<1>2. r \in Message /\ HonestMessage(r) /\ (~cfg.replay => ~r.details)
  BY RecordedHonest
<1>3. msgs' = msgs \o <<r, Plain>> \/ msgs' = one
  BY DEF Accept
<1> HIDE DEF r
<1>4. one \in Seq(Message) /\ Honest(one) /\ (~cfg.replay => ~Carries(one))
  BY <1>1, <1>2, Extended
<1>5. Plain \in Message /\ HonestMessage(Plain) /\ ~Plain.details
  BY MessageFields DEF HonestMessage
<1>6. msgs \o <<r, Plain>> = two
  BY <1>1, <1>2, <1>5
<1> HIDE DEF one
<1>7. two \in Seq(Message) /\ Honest(two) /\ (~cfg.replay => ~Carries(two))
  BY <1>4, <1>5, Extended
<1> HIDE DEF two
<1>8. msgs' \in Seq(Message) /\ Honest(msgs') /\ (~cfg.replay => ~Carries(msgs'))
  BY <1>3, <1>4, <1>6, <1>7
<1>9. UNCHANGED <<cfg, turns, call, request, sends, total, reply>>
      /\ pc' \in {"idle", "judge", "over"}
  BY DEF Accept
<1> QED BY <1>8, <1>9, RecordKeeps

LEMMA ReplyKeeps == ReplayInv /\ Reply => ReplayInv'
<1> SUFFICES ASSUME ReplayInv, Reply PROVE ReplayInv'
  OBVIOUS
<1>1. reply' \in Message /\ HonestMessage(reply')
  <2>1. CASE reply' = Plain
    BY <2>1, MessageFields DEF HonestMessage
  <2>2. CASE \E origin \in Providers : \E provider \in {origin, Unreported} :
               reply' = [details |-> TRUE, provider |-> provider, origin |-> origin]
    BY <2>2 DEF Message, HonestMessage
  <2> QED BY <2>1, <2>2 DEF Reply
<1>2. UNCHANGED <<cfg, msgs, turns, request, sends, total>> /\ pc' = "judge" /\ call' = call
  BY DEF Reply
<1> QED BY <1>1, <1>2, QuietKeeps

LEMMA NextKeeps == ReplayInv /\ [Next]_vars => ReplayInv'
<1> SUFFICES ASSUME ReplayInv, [Next]_vars PROVE ReplayInv'
  OBVIOUS
<1>0. /\ reply \in Message /\ HonestMessage(reply) /\ turns \in 0..MaxTurns
      /\ total \in Nat /\ sends \in 0..2 /\ MaxTurns \in Nat
  BY TurnAssumption DEF ReplayInv, TypeOK, Kept
<1>1. CASE StartTurn
  <2>1. Send("turn", msgs) /\ turns' \in 0..MaxTurns /\ total' = 1
    BY <1>0, <1>1 DEF StartTurn
  <2>2. msgs = Asked'
    BY <2>1 DEF Send, Asked
  <2> QED BY <2>1, <2>2, SendKeeps
<1>2. CASE StartGrace
  <2>1. Send("grace", Append(msgs, Plain)) /\ turns' \in 0..MaxTurns /\ total' = 1
    BY <1>0, <1>2 DEF StartGrace
  <2>2. Append(msgs, Plain) = Asked'
    BY <2>1 DEF Send, Asked
  <2> QED BY <2>1, <2>2, SendKeeps
<1>3. CASE DropReplay
  BY <1>3, DropKeeps
<1>4. CASE RetryUnforced
  <2>1. Send("gracePlain", Asked) /\ turns' \in 0..MaxTurns /\ total' = total + 1
        /\ call = "grace"
    BY <1>0, <1>4 DEF RetryUnforced
  <2>2. total = sends
    BY <2>1 DEF ReplayInv, Counted
  <2>3. Asked = Asked'
    BY <2>1 DEF Send, Asked
  <2>4. total' \in Nat /\ total' <= 3
    BY <1>0, <2>1, <2>2
  <2> QED BY <2>1, <2>3, <2>4, SendKeeps
<1>5. CASE Fail
  BY <1>0, <1>5, QuietKeeps DEF Fail
<1>6. CASE Reply
  BY <1>6, ReplyKeeps
<1>7. CASE GraceReply
  BY <1>0, <1>7, QuietKeeps DEF GraceReply
<1>8. CASE \E cut \in 2..Len(msgs) + 1 : Summarize(cut)
  BY <1>8, SummarizeKeeps
<1>9. CASE SummarizeFails
  BY <1>0, <1>9, QuietKeeps DEF SummarizeFails
<1>10. CASE Summarized
  BY <1>10, SummarizedKeeps
<1>11. CASE Ignore
  BY <1>0, <1>11, QuietKeeps DEF Ignore
<1>12. CASE Accept
  BY <1>12, AcceptKeeps
<1>13. CASE Stop
  BY <1>0, <1>13, QuietKeeps DEF Stop
<1>14. CASE Over \/ UNCHANGED vars
  <2>1. /\ UNCHANGED <<cfg, msgs, turns, pc, call>>
        /\ UNCHANGED <<request, sends, total, reply>>
    BY <1>14 DEF Over, vars
  <2>2. TypeOK'
    BY <2>1 DEF ReplayInv, TypeOK
  <2>3. Kept'
    BY <2>1 DEF ReplayInv, Kept, Honest, HonestMessage, Carries
  <2>4. Counted'
    BY <2>1 DEF ReplayInv, Counted, Carries
  <2>5. SignedWhereProduced' /\ NothingReplayedUnasked'
    BY <2>1 DEF ReplayInv, Made, SignedWhereProduced, NothingReplayedUnasked, Carries
  <2>6. ReplayRequest(Asked)' = ReplayRequest(Asked)
    BY <2>1 DEF Asked, ReplayRequest
  <2>7. Made'
    BY <2>1, <2>5, <2>6 DEF ReplayInv, Made
  <2> QED BY <2>2, <2>3, <2>4, <2>7 DEF ReplayInv
<1> QED BY <1>1, <1>2, <1>3, <1>4, <1>5, <1>6, <1>7, <1>8, <1>9, <1>10, <1>11, <1>12, <1>13,
           <1>14 DEF Next

\* How one step may change the history.
LEMMA HistoryStep ==
  ASSUME ReplayInv, [Next]_vars
  PROVE  \/ IsPrefix(msgs, msgs')
         \/ call = "summary" /\ \E cut \in 2..Len(msgs) :
              msgs' = <<Plain>> \o SubSeq(msgs, cut + 1, Len(msgs))
<1>0. msgs \in Seq(Message) /\ Len(msgs) \in Nat
  BY DEF ReplayInv, TypeOK
<1>1. CASE msgs' = msgs
  <2>1. SubSeq(msgs, 1, Len(msgs)) = msgs /\ Len(msgs) <= Len(msgs)
    BY <1>0
  <2> QED BY <1>1, <2>1 DEF IsPrefix
<1>2. CASE Summarized
  <2>1. call = "summary" /\ Len(request.messages) \in 1..Len(msgs)
        /\ Len(request.messages) > 1
    BY <1>2 DEF Summarized, ReplayInv, Made
  <2>2. Len(request.messages) \in 2..Len(msgs)
    BY <1>0, <2>1
  <2> QED BY <1>2, <2>1, <2>2 DEF Summarized
<1>3. CASE Accept
  <2> DEFINE r == Recorded(reply)
             one == Append(msgs, r)
  <2>1. r \in Message
    BY RecordedHonest
  <2>2. msgs' = msgs \o <<r, Plain>> \/ msgs' = one
    BY <1>3 DEF Accept
  <2> HIDE DEF r
  <2>3. IsPrefix(msgs, one)
    BY <1>0, <2>1, Extended
  <2>4. IsPrefix(msgs, msgs \o <<r, Plain>>)
    <3>1. r \in Message /\ Plain \in Message
      BY <2>1, MessageFields
    <3> DEFINE two == msgs \o <<r, Plain>>
    <3>2. two \in Seq(Message) /\ Len(two) = Len(msgs) + 2
      BY <1>0, <3>1
    <3>3. SubSeq(two, 1, Len(msgs)) = SubSeq(msgs, 1, Len(msgs))
      BY <1>0, <3>1
    <3> HIDE DEF two
    <3>4. Len(msgs) <= Len(two)
      BY <1>0, <3>2
    <3>5. msgs = SubSeq(two, 1, Len(msgs))
      <4>1. msgs = SubSeq(msgs, 1, Len(msgs))
        BY <1>0
      <4> QED BY <3>3, <4>1
    <3> QED BY <3>3, <3>4 DEF IsPrefix, two
  <2> QED BY <2>2, <2>3, <2>4
<1> QED BY <1>1, <1>2, <1>3 DEF Next, vars, StartTurn, StartGrace, Send, DropReplay, RetryUnforced,
        Fail, Reply, GraceReply, Summarize, SummarizeFails, Ignore, Stop, Over

LEMMA Always == Spec => []ReplayInv
BY InitInv, NextKeeps, PTL DEF Spec

----------------------------------------------------------------------------
(* The routing of a request.                                               *)

\* Every name but the pin stays among the others.
LEMMA OthersKept ==
  ASSUME NEW names \in Seq(Providers), NEW pin
  PROVE  /\ Others(names, pin) \in Seq(Providers)
         /\ \A k \in 1..Len(names) : names[k] = pin \/ names[k] \in Range(Others(names, pin))
<1> DEFINE P == {k \in DOMAIN names : names[k] # pin}
<1>1. Others(names, pin) = Picked(names, P)
  BY DEF Others
<1>2. \A k \in 1..Len(names) : names[k] = pin \/ k \in P
  OBVIOUS
<1> HIDE DEF P
<1>3. Picked(names, P) \in Seq(Providers)
  BY PickedType
<1>4. \A k \in 1..Len(names) : k \in P => names[k] \in Range(Picked(names, P))
  BY PickedHas
<1> QED BY <1>1, <1>2, <1>3, <1>4

\* What RoutingRespected says of one request.
Respects(r) ==
  /\ r.pin # Unreported =>
       /\ Head(r.routing.order.names) = r.pin
       /\ cfg.routing.only.kind # "absent" => r.pin \in Range(cfg.routing.only.names)
       /\ r.pin \notin Range(cfg.routing.ignore.names)
  /\ [r.routing EXCEPT !.order = cfg.routing.order] = cfg.routing
  /\ Range(cfg.routing.order.names) \subseteq Range(r.routing.order.names)
  /\ r.pin = Unreported => r.routing = cfg.routing

LEMMA RoutingFields ==
  ASSUME NEW r \in Routing
  PROVE  /\ r.order.names \in Seq(Providers)
         /\ [r EXCEPT !.order = r.order] = r
         /\ \A e : [[r EXCEPT !.order = e] EXCEPT !.order = r.order] = r
         /\ \A e : [r EXCEPT !.order = e].order = e
  BY DEF Routing, Entry

LEMMA UnpinnedRespects ==
  ASSUME cfg.routing \in Routing, NEW r, r.routing = cfg.routing, r.pin = Unreported
  PROVE  Respects(r)
  BY RoutingFields DEF Respects

\* The pin leads, and nobody the configuration prefers is lost.
LEMMA PinLeads ==
  ASSUME NEW routing \in Routing, NEW pin \in Providers
  PROVE  LET names == Pinned(routing, pin).order.names
         IN  Head(names) = pin /\ Range(routing.order.names) \subseteq Range(names)
<1> DEFINE old  == routing.order.names
           rest == Others(old, pin)
           names == <<pin>> \o rest
<1>1. old \in Seq(Providers)
  BY RoutingFields
<1>2. Pinned(routing, pin).order.names = names
  <2>1. Pinned(routing, pin).order = ListOf(names)
    BY RoutingFields DEF Pinned
  <2> QED BY <2>1 DEF ListOf
<1> HIDE DEF old
<1>3. rest \in Seq(Providers) /\ \A k \in 1..Len(old) : old[k] = pin \/ old[k] \in Range(rest)
  BY <1>1, OthersKept
<1> HIDE DEF rest
<1>4. /\ Len(names) = Len(rest) + 1 /\ Len(rest) \in Nat /\ DOMAIN names = 1..Len(names)
      /\ DOMAIN rest = 1..Len(rest) /\ DOMAIN old = 1..Len(old)
      /\ names[1] = pin /\ Head(names) = pin
      /\ \A k \in 1..Len(rest) : names[k + 1] = rest[k]
  BY <1>1, <1>3
<1> HIDE DEF names
<1>5. pin \in Range(names)
  <2>1. 1 \in DOMAIN names
    BY <1>4
  <2> QED BY <1>4, <2>1 DEF Range
<1>6. \A x \in Range(rest) : x \in Range(names)
  <2>1. \A k \in DOMAIN rest : k + 1 \in DOMAIN names /\ names[k + 1] = rest[k]
    BY <1>4
  <2> QED BY <2>1 DEF Range
<1>7. \A x \in Range(old) : x \in Range(names)
  <2>1. \A x \in Range(old) : x = pin \/ x \in Range(rest)
    BY <1>3, <1>4 DEF Range
  <2> QED BY <1>5, <1>6, <2>1
<1> QED BY <1>2, <1>4, <1>7 DEF old

LEMMA RequestRespects ==
  ASSUME cfg.routing \in Routing, NEW ms \in Seq(Message)
  PROVE  Respects(ReplayRequest(ms))
<1> DEFINE pin == ReplayPin(ms)
           r   == ReplayRequest(ms)
<1>1. CASE pin # Unreported /\ Admits(cfg.routing, pin)
  <2>1. r.routing = Pinned(cfg.routing, pin) /\ r.pin = pin
    BY <1>1 DEF ReplayRequest
  <2>2. pin \in Providers
    <3>1. r.pin \in Names
      BY RequestTypes
    <3> QED BY <1>1, <2>1, <3>1 DEF Names
  <2>3. /\ Head(r.routing.order.names) = pin
        /\ Range(cfg.routing.order.names) \subseteq Range(r.routing.order.names)
    BY <2>1, <2>2, PinLeads
  <2>4. [r.routing EXCEPT !.order = cfg.routing.order] = cfg.routing
    BY <2>1, RoutingFields DEF Pinned
  <2>5. /\ cfg.routing.only.kind # "absent" => pin \in Range(cfg.routing.only.names)
        /\ pin \notin Range(cfg.routing.ignore.names)
    BY <1>1 DEF Admits
  <2>6. Respects(r)
    <3>1. r.pin # Unreported /\ r.pin = pin
      BY <1>1, <2>1
    <3> HIDE DEF pin, r
    <3> QED BY <2>3, <2>4, <2>5, <3>1 DEF Respects
  <2> QED BY <2>6
<1>2. CASE ~(pin # Unreported /\ Admits(cfg.routing, pin))
  <2>1. r.routing = cfg.routing /\ r.pin = Unreported
    BY <1>2 DEF ReplayRequest
  <2> QED BY <2>1, UnpinnedRespects
<1> QED BY <1>1, <1>2

RoutingInv == cfg.routing \in Routing /\ RoutingRespected

LEMMA InitRouting == Init => RoutingInv
<1> SUFFICES ASSUME Init PROVE RoutingInv
  OBVIOUS
<1>1. cfg.routing \in Routing /\ request.routing = cfg.routing /\ request.pin = Unreported
  BY RoutingAssumption DEF Init
<1> QED BY <1>1, UnpinnedRespects DEF RoutingInv, RoutingRespected, Respects

LEMMA NextRouting == ReplayInv /\ RoutingInv /\ [Next]_vars => RoutingInv'
<1> SUFFICES ASSUME ReplayInv, RoutingInv, [Next]_vars PROVE RoutingInv'
  OBVIOUS
<1>1. cfg.routing \in Routing /\ cfg' = cfg /\ msgs \in Seq(Message) /\ Asked \in Seq(Message)
  BY AskedType DEF RoutingInv, ReplayInv, TypeOK, Next, vars, StartTurn, StartGrace, Send,
     DropReplay, RetryUnforced, Fail, Reply, GraceReply, Summarize, SummarizeFails, Summarized,
     Ignore, Accept, Stop, Over
<1>2. ASSUME request' = request PROVE RoutingInv'
  BY <1>1, <1>2 DEF RoutingInv, RoutingRespected
<1>3. ASSUME Respects(request') PROVE RoutingInv'
  BY <1>1, <1>3 DEF RoutingInv, RoutingRespected, Respects
<1>4. ASSUME NEW kind, NEW ms \in Seq(Message), Send(kind, ms) PROVE RoutingInv'
  BY <1>1, <1>3, <1>4, RequestRespects DEF Send
<1>5. CASE StartTurn
  BY <1>1, <1>4, <1>5 DEF StartTurn
<1>6. CASE StartGrace
  <2>1. Append(msgs, Plain) \in Seq(Message)
    BY <1>1, MessageFields
  <2> QED BY <1>4, <1>6, <2>1 DEF StartGrace
<1>7. CASE RetryUnforced
  BY <1>1, <1>4, <1>7 DEF RetryUnforced
<1>8. CASE DropReplay
  <2>1. request'.routing = cfg.routing /\ request'.pin = Unreported
    BY <1>8 DEF DropReplay, Clean
  <2> QED BY <1>1, <1>3, <2>1, UnpinnedRespects
<1>9. CASE \E cut \in 2..Len(msgs) + 1 : Summarize(cut)
  <2>1. request'.routing = cfg.routing /\ request'.pin = Unreported
    BY <1>9 DEF Summarize
  <2> QED BY <1>1, <1>3, <2>1, UnpinnedRespects
<1>10. CASE \/ Fail \/ Reply \/ GraceReply \/ SummarizeFails \/ Summarized
            \/ Ignore \/ Accept \/ Stop \/ Over \/ UNCHANGED vars
  BY <1>2, <1>10 DEF Fail, Reply, GraceReply, SummarizeFails, Summarized, Ignore, Accept,
     Stop, Over, vars
<1> QED BY <1>5, <1>6, <1>7, <1>8, <1>9, <1>10 DEF Next

LEMMA AlwaysRouted == Spec => []RoutingInv
BY InitRouting, NextRouting, Always, PTL DEF Spec

----------------------------------------------------------------------------
(* The theorems.                                                           *)

\* Every variable keeps its type, for every history and routing value.
THEOREM ReplayTyped == Spec => []TypeOK
<1>1. ReplayInv => TypeOK
  BY DEF ReplayInv
<1> QED BY <1>1, Always, PTL

\* A pinned request carries details, and only its provider's.
THEOREM AlwaysSignedWhereProduced == Spec => []SignedWhereProduced
<1>1. ReplayInv => SignedWhereProduced
  BY DEF ReplayInv, Made
<1> QED BY <1>1, Always, PTL

LEMMA NewestSent == ReplayInv => NewestReplayed
<1> SUFFICES ASSUME ReplayInv, pc = "sent", call # "summary", sends = 1,
                    NEW i \in DOMAIN msgs, msgs[i].details,
                    \A j \in DOMAIN msgs : msgs[j].details => j <= i
             PROVE  request.messages[i].details
  BY DEF NewestReplayed
<1>1. msgs \in Seq(Message) /\ Asked \in Seq(Message)
      /\ request.messages = ReplayRequest(Asked).messages
  BY AskedType DEF ReplayInv, TypeOK, Made
<1>2. CASE Asked = msgs
  BY <1>1, <1>2, NewestKept
<1>3. CASE Asked = Append(msgs, Plain)
  <2>1. ~Plain.details
    BY MessageFields
  <2>2. DOMAIN msgs = 1..Len(msgs) /\ Len(msgs) \in Nat
        /\ DOMAIN Asked = 1..(Len(msgs) + 1)
    BY <1>1, <1>3
  <2>3. \A j \in 1..Len(msgs) : Asked[j] = msgs[j]
    BY <1>1, <1>3
  <2>4. Asked[Len(msgs) + 1] = Plain
    BY <1>1, <1>3
  <2>5. \A j \in DOMAIN Asked : j \in 1..Len(msgs) \/ j = Len(msgs) + 1
    BY <2>2
  <2>6. \A j \in DOMAIN Asked : Asked[j].details => j <= i
    BY <2>1, <2>2, <2>3, <2>4, <2>5
  <2>7. i \in DOMAIN Asked /\ Asked[i].details
    BY <2>2, <2>3
  <2> QED BY <1>1, <2>6, <2>7, NewestKept
<1> QED BY <1>2, <1>3 DEF Asked

\* The newest details of the conversation go out with every first request.
THEOREM NewestAlwaysReplayed == Spec => []NewestReplayed
BY NewestSent, Always, PTL

\* One clean retry at most, for a turn and for the grace turn's two calls.
THEOREM AlwaysRetriedOnceClean == Spec => []RetriedOnceClean
<1>1. ReplayInv => RetriedOnceClean
  BY DEF ReplayInv, Counted, TypeOK, RetriedOnceClean
<1> QED BY <1>1, Always, PTL

\* Nothing signed is sent without ReplayReasoning, or for a summary.
THEOREM NeverReplayedUnasked == Spec => []NothingReplayedUnasked
<1>1. ReplayInv => NothingReplayedUnasked
  BY DEF ReplayInv, Made
<1> QED BY <1>1, Always, PTL

\* Sending never changes the history: only a summary takes messages out of it.
THEOREM HistoryNeverTouched == Spec => HistoryUntouched
<1>1. ReplayInv /\ [Next]_vars =>
        [\/ IsPrefix(msgs, msgs')
         \/ call = "summary" /\ \E cut \in 2..Len(msgs) :
              msgs' = <<Plain>> \o SubSeq(msgs, cut + 1, Len(msgs))]_vars
  BY HistoryStep
<1> QED BY <1>1, Always, PTL DEF Spec, HistoryUntouched

\* What the configuration forbids or prefers holds of every request, pinned or
\* not: the pin leads the order, nobody preferred is dropped from it, and a
\* request without pin has the configuration's routing.
THEOREM RoutingAlwaysRespected == Spec => []RoutingRespected
<1>1. RoutingInv => RoutingRespected
  BY DEF RoutingInv
<1> QED BY <1>1, AlwaysRouted, PTL
=============================================================================
