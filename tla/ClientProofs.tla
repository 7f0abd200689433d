---------------------------- MODULE ClientProofs ----------------------------
(***************************************************************************)
(* What holds of a call of the model client for every retry policy, every  *)
(* Retry-After and every length of stream.                                 *)
(***************************************************************************)
EXTENDS ModelClient, TLAPS

USE DEF stream, sleep

\* The attempts and requests made when the call stands where it stands.
Counts ==
  /\ pc \in {"connect", "redial"} => opened = attempt
  /\ pc \in {"open", "reading", "retry"} => opened = attempt + 1 /\ dialled = 0
  /\ pc = "returned" => opened <= attempt + 1 /\ dialled <= policy.retries + 1
  /\ pc = "connect" => dialled = try
  /\ pc = "redial" => dialled = try + 1 /\ try < policy.retries
  /\ pc = "retry" => attempt < policy.retries

\* What the caller was shown and what it was told to forget.
Told ==
  /\ mode = "plain" => ~listening
  /\ pc = "reading" => mode = "stream"
  /\ listening /\ ~delivered => shown = <<>>
  /\ listening /\ (pc = "reading" \/ result = "ok") => shown = got
  /\ pc # "returned" => result = "pending"

\* What is known of the status of the reply.
Judged ==
  /\ mode = "stream" /\ pc = "open" => (refused => status # "ok")
  /\ mode = "stream" /\ refused => pc = "open" \/ (pc = "returned" /\ result = "status")

ClientInv == TypeOK /\ Counts /\ Told /\ Judged /\ SleepsAsAsked

Hints == {NoHeader} \cup {<<d>> : d \in RetryAfters}

LEMMA SeqFacts ==
  ASSUME NEW S
  PROVE  /\ <<>> \in Seq(S)
         /\ \A s \in Seq(S), x \in S : Append(s, x) \in Seq(S)
  OBVIOUS

LEMMA PolicyTypes ==
  ASSUME policy \in Policies
  PROVE  policy.retries \in Nat /\ policy.base \in Int /\ policy.max \in Nat
         /\ policy.jitter \in BOOLEAN
  BY PolicyAssumption DEF Policy

LEMMA CapDelayBounds ==
  ASSUME policy \in Policies, NEW d \in Int
  PROVE  CapDelay(d) \in Nat /\ (policy.max > 0 => CapDelay(d) <= policy.max)
  BY PolicyTypes DEF CapDelay

LEMMA HalfBounds ==
  ASSUME NEW d \in Nat, d > 1, NEW x \in (d \div 2)..(2 * (d \div 2))
  PROVE  x \in Nat /\ x <= d
  OBVIOUS

\* A delay is a natural number that never passes MaxDelay.
LEMMA BackoffBounds ==
  ASSUME policy \in Policies, NEW n \in Nat \ {0}, NEW asked \in Hints,
         NEW d \in Backoff(n, asked)
  PROVE  d \in Nat /\ (policy.max > 0 => d <= policy.max)
<1>1. CASE asked # NoHeader
  <2>1. PICK e \in RetryAfters : asked = <<e>>
    BY <1>1 DEF Hints
  <2>2. asked[1] \in Int
    BY <2>1, HeaderAssumption
  <2>3. d = CapDelay(asked[1])
    BY <1>1 DEF Backoff
  <2> QED BY <2>2, <2>3, CapDelayBounds
<1>2. CASE asked = NoHeader
  <2>1. 2^(n - 1) \in Int
    <3>1. n - 1 \in Nat OBVIOUS
    <3> QED BY <3>1
  <2> DEFINE doubled == policy.base * 2^(n - 1)
  <2>2. doubled \in Int
    <3>1. \A a, b \in Int : a * b \in Int OBVIOUS
    <3> QED BY <2>1, <3>1, PolicyTypes
  <2> DEFINE c == CapDelay(doubled)
  <2>3. c \in Nat /\ (policy.max > 0 => c <= policy.max)
    BY <2>2, CapDelayBounds
  <2>4. d \in Jittered(c)
    BY <1>2 DEF Backoff
  <2> HIDE DEF c
  <2>5. d \in Nat /\ d <= c
    <3>1. CASE policy.jitter /\ c > 1
      BY <2>3, <2>4, <3>1, HalfBounds DEF Jittered
    <3>2. CASE ~(policy.jitter /\ c > 1)
      BY <2>3, <2>4, <3>2 DEF Jittered
    <3> QED BY <3>1, <3>2
  <2> QED BY <2>3, <2>5, PolicyTypes
<1> QED BY <1>1, <1>2

----------------------------------------------------------------------------
LEMMA InitInv == Init => ClientInv
<1> SUFFICES ASSUME Init PROVE ClientInv
  OBVIOUS
<1>1. got \in Seq(Fragments) /\ shown \in Seq(Fragments)
  BY SeqFacts DEF Init
<1>2. attempt \in 0..policy.retries /\ try \in 0..policy.retries
  BY PolicyTypes DEF Init
<1>3. TypeOK
  BY <1>1, <1>2 DEF Init, TypeOK, Statuses
<1> QED BY <1>3 DEF Init, ClientInv, Counts, Told, Judged, SleepsAsAsked

LEMMA ConnectFailsKeeps == ClientInv /\ ConnectFails => ClientInv'
<1> SUFFICES ASSUME ClientInv, ConnectFails PROVE ClientInv'
  OBVIOUS
<1> USE DEF ConnectFails, HintOf, GiveUpConnecting, Finish
<1>1. policy' = policy /\ policy \in Policies /\ NoHeader \in Hints
      /\ try \in Nat /\ try + 1 \in Nat \ {0}
  BY PolicyTypes DEF ClientInv, TypeOK, Hints
<1>2. \A d \in Backoff(try + 1, NoHeader) : d \in Nat /\ (policy.max > 0 => d <= policy.max)
  BY <1>1, BackoffBounds
<1>3. TypeOK'
  BY <1>1, <1>2, PolicyTypes DEF ClientInv, TypeOK
<1>4. Counts'
  BY PolicyTypes DEF ClientInv, TypeOK, Counts
<1>5. Told' /\ Judged'
  BY DEF ClientInv, Told, Judged
<1>6. SleepsAsAsked'
  <2>1. pc' = "redial" => delay' \in Backoff(try + 1, NoHeader)
    OBVIOUS
  <2>2. Backoff(try + 1, NoHeader)' = Backoff(try + 1, NoHeader)
    BY <1>1 DEF Backoff, Jittered, CapDelay
  <2> QED BY <1>1, <1>2, <2>1, <2>2 DEF SleepsAsAsked
<1> QED BY <1>3, <1>4, <1>5, <1>6 DEF ClientInv

LEMMA ServerIsBusyKeeps == ClientInv /\ ServerIsBusy => ClientInv'
<1> SUFFICES ASSUME ClientInv, ServerIsBusy PROVE ClientInv'
  OBVIOUS
<1> USE DEF ServerIsBusy, HintOf
<1>1. policy' = policy /\ policy \in Policies /\ try' = try
      /\ try \in Nat /\ try + 1 \in Nat \ {0}
  BY PolicyTypes DEF ClientInv, TypeOK
<1>2. PICK asked \in Hints : latest' = asked /\ hint' = asked /\ delay' \in Backoff(try + 1, asked)
  BY DEF Hints
<1>3. delay' \in Nat /\ (policy.max > 0 => delay' <= policy.max)
  BY <1>1, <1>2, BackoffBounds
<1>4. TypeOK'
  BY <1>1, <1>2, <1>3, PolicyTypes DEF ClientInv, TypeOK, Hints
<1>5. Counts'
  BY PolicyTypes DEF ClientInv, TypeOK, Counts
<1>6. Told' /\ Judged'
  BY DEF ClientInv, Told, Judged
<1>7. SleepsAsAsked'
  <2>1. Backoff(try + 1, latest)' = Backoff(try + 1, asked)
    BY <1>1, <1>2 DEF Backoff, Jittered, CapDelay
  <2> QED BY <1>1, <1>2, <1>3, <2>1 DEF SleepsAsAsked
<1> QED BY <1>4, <1>5, <1>6, <1>7 DEF ClientInv

LEMMA ServerAnswersKeeps == ClientInv /\ ServerAnswers => ClientInv'
<1> SUFFICES ASSUME ClientInv, ServerAnswers PROVE ClientInv'
  OBVIOUS
<1> USE DEF ServerAnswers
<1>1. TypeOK'
  BY PolicyTypes DEF ClientInv, TypeOK, Statuses
<1>2. Counts'
  BY PolicyTypes DEF ClientInv, TypeOK, Counts
<1>3. Told' /\ Judged' /\ SleepsAsAsked'
  BY DEF ClientInv, Told, Judged, SleepsAsAsked
<1> QED BY <1>1, <1>2, <1>3 DEF ClientInv

LEMMA WakeKeeps == ClientInv /\ Wake => ClientInv'
<1> SUFFICES ASSUME ClientInv, Wake PROVE ClientInv'
  OBVIOUS
<1> USE DEF Wake, RedialWakes, RetryWakes, SleepCanceled, Finish
<1>1. TypeOK'
  BY PolicyTypes DEF ClientInv, TypeOK, Counts
<1>2. Counts'
  BY PolicyTypes DEF ClientInv, TypeOK, Counts
<1>3. Told' /\ Judged' /\ SleepsAsAsked'
  BY DEF ClientInv, Told, Judged, SleepsAsAsked
<1> QED BY <1>1, <1>2, <1>3 DEF ClientInv

\* A reply is given up: the next attempt waits its turn, or the call returns.
LEMMA FailAttemptKeeps ==
  ASSUME ClientInv, NEW error \in {"stream", "read", "decode"}, FailAttempt(error),
         \/ pc = "reading" /\ mode = "stream"
         \/ pc = "open" /\ mode = "plain",
         UNCHANGED <<policy, mode, listening, attempt, try, status, stream, ctxDone,
                     opened, dialled, refused>>
  PROVE  ClientInv'
<1> USE DEF FailAttempt, Finish
<1>1. policy \in Policies /\ NoHeader \in Hints /\ attempt \in Nat /\ attempt + 1 \in Nat \ {0}
  BY PolicyTypes DEF ClientInv, TypeOK, Hints
<1>2. \A d \in Backoff(attempt + 1, NoHeader) : d \in Nat
  BY <1>1, BackoffBounds
<1>3. TypeOK'
  BY <1>1, <1>2 DEF ClientInv, TypeOK
<1>4. Counts'
  BY PolicyTypes DEF ClientInv, TypeOK, Counts
<1>5. Told' /\ Judged' /\ SleepsAsAsked'
  BY DEF ClientInv, Told, Judged, SleepsAsAsked
<1> QED BY <1>3, <1>4, <1>5 DEF ClientInv

LEMMA ReadKeeps == ClientInv /\ Read => ClientInv'
<1> SUFFICES ASSUME ClientInv, Read PROVE ClientInv'
  OBVIOUS
<1>1. CASE ReadFails \/ DecodeFails
  BY <1>1, FailAttemptKeeps DEF ReadFails, DecodeFails
<1>2. CASE RejectReply \/ AcceptReply
  <2> USE <1>2 DEF RejectReply, AcceptReply, Finish
  <2>1. TypeOK'
    BY DEF ClientInv, TypeOK
  <2>2. Counts'
    BY PolicyTypes DEF ClientInv, TypeOK, Counts
  <2>3. Told' /\ Judged' /\ SleepsAsAsked'
    BY DEF ClientInv, Told, Judged, SleepsAsAsked
  <2> QED BY <2>1, <2>2, <2>3 DEF ClientInv
<1> QED BY <1>1, <1>2 DEF Read

LEMMA StreamKeeps ==
  ClientInv /\ (RejectStream \/ OpenStream \/ StreamEnds) => ClientInv'
<1> SUFFICES ASSUME ClientInv, RejectStream \/ OpenStream \/ StreamEnds PROVE ClientInv'
  OBVIOUS
<1> USE DEF RejectStream, OpenStream, StreamEnds, Finish
<1>1. TypeOK'
  <2>1. got' \in Seq(Fragments) /\ shown' \in Seq(Fragments)
    BY SeqFacts DEF ClientInv, TypeOK
  <2>2. UNCHANGED <<policy, mode, listening, attempt, try, sleep, status, ctxDone, opened,
                    dialled, refused>>
    OBVIOUS
  <2>3. pc' \in {"reading", "returned"} /\ result' \in {result, "ok", "status"}
    OBVIOUS
  <2>4. stalled' \in BOOLEAN /\ delivered' \in BOOLEAN /\ (delivered' => listening')
    <3>1. stalled \in BOOLEAN /\ delivered \in BOOLEAN /\ (delivered => listening)
      BY DEF ClientInv, TypeOK
    <3>2. CASE OpenStream
      <4>1. stalled' = FALSE /\ delivered' = FALSE
        BY <3>2
      <4> QED BY <4>1
    <3>3. CASE RejectStream \/ StreamEnds
      <4>1. stalled' = stalled /\ delivered' = delivered /\ listening' = listening
        BY <3>3
      <4> QED BY ONLY <3>1, <4>1
    <3> QED BY <3>2, <3>3
  <2> QED BY ONLY ClientInv, <2>1, <2>2, <2>3, <2>4 DEF ClientInv, TypeOK, sleep
<1>2. Counts'
  BY PolicyTypes DEF ClientInv, TypeOK, Counts
<1>3. Told' /\ Judged' /\ SleepsAsAsked'
  BY DEF ClientInv, Told, Judged, SleepsAsAsked
<1> QED BY <1>1, <1>2, <1>3 DEF ClientInv

LEMMA ReceiveFragmentKeeps == ClientInv /\ ReceiveFragment => ClientInv'
<1> SUFFICES ASSUME ClientInv, ReceiveFragment PROVE ClientInv'
  OBVIOUS
<1> USE DEF ReceiveFragment, DeliveryNoted
<1> DEFINE fragment == <<attempt, Len(got) + 1>>
<1>1. got \in Seq(Fragments) /\ shown \in Seq(Fragments) /\ attempt \in Nat
  BY PolicyTypes DEF ClientInv, TypeOK
<1>2. fragment \in Fragments
  <2>1. Len(got) + 1 \in Nat
    BY <1>1
  <2> QED BY <1>1, <2>1 DEF Fragments
<1>3. got' \in Seq(Fragments) /\ shown' \in Seq(Fragments)
  BY <1>1, <1>2, SeqFacts
<1>4. TypeOK'
  BY <1>3 DEF ClientInv, TypeOK
<1>5. Counts'
  BY DEF ClientInv, Counts
<1>6. Told' /\ Judged' /\ SleepsAsAsked'
  BY DEF ClientInv, Told, Judged, SleepsAsAsked
<1> QED BY <1>4, <1>5, <1>6 DEF ClientInv

\* Steps of the environment: only ctxDone or stalled changes.
LEMMA QuietKeeps ==
  ClientInv /\ (StallTimer \/ CancelContext \/ UNCHANGED vars) => ClientInv'
<1> SUFFICES ASSUME ClientInv, StallTimer \/ CancelContext \/ UNCHANGED vars PROVE ClientInv'
  OBVIOUS
<1> USE DEF StallTimer, CancelContext, vars
<1>1. TypeOK'
  <2>1. got' \in Seq(Fragments) /\ shown' \in Seq(Fragments)
    BY DEF ClientInv, TypeOK
  <2>2. UNCHANGED <<policy, mode, listening, pc, attempt, try, sleep, status, result, opened,
                    delivered, dialled, refused>>
    OBVIOUS
  <2>3. stalled' \in BOOLEAN /\ ctxDone' \in BOOLEAN
    BY DEF ClientInv, TypeOK
  <2> QED BY ONLY ClientInv, <2>1, <2>2, <2>3 DEF ClientInv, TypeOK, sleep
<1>2. Counts' /\ Told' /\ Judged'
  BY DEF ClientInv, Counts, Told, Judged
<1>3. SleepsAsAsked'
  BY DEF ClientInv, SleepsAsAsked, Backoff, Jittered, CapDelay
<1> QED BY <1>1, <1>2, <1>3 DEF ClientInv

LEMMA StepInv == ClientInv /\ [Next]_vars => ClientInv'
<1> SUFFICES ASSUME ClientInv, [Next]_vars PROVE ClientInv'
  OBVIOUS
<1>1. CASE StreamBreaks
  BY <1>1, FailAttemptKeeps DEF StreamBreaks, ClientInv, Told
<1> QED BY <1>1, ConnectFailsKeeps, ServerIsBusyKeeps, ServerAnswersKeeps, WakeKeeps, ReadKeeps,
           StreamKeeps, ReceiveFragmentKeeps, QuietKeeps
        DEF Next, Connect, Returned

LEMMA ClientSafe == Spec => []ClientInv
  BY InitInv, StepInv, PTL DEF Spec

----------------------------------------------------------------------------

\* Every variable of a call keeps its type; a Reset only ever reaches a caller
\* that listens (client.go:129).
THEOREM CallTyped == Spec => []TypeOK
  BY ClientSafe, PTL DEF ClientInv

\* What a listening caller has built from the deltas is the stream being read
\* and in the end the reply, however many streams broke before it
\* (client.go:126-132).
THEOREM ShownAlwaysReply == Spec => []ShownIsReply
<1>1. ClientInv => ShownIsReply
  BY DEF ClientInv, Told, ShownIsReply
<1> QED BY <1>1, ClientSafe, PTL

\* The two nested retry loops never multiply their budgets, whatever the policy
\* (client.go:109-113).
THEOREM RequestsAlwaysBounded == Spec => []RequestsBounded
<1>1. ClientInv => RequestsBounded
  BY PolicyTypes DEF ClientInv, TypeOK, Counts, RequestsBounded
<1> QED BY <1>1, ClientSafe, PTL

\* Before a redial the client sleeps what the latest answer asked for, or its own
\* doubling, within MaxDelay, whatever a Retry-After says (retry.go:74-102).
THEOREM SleepsAlwaysAsAsked == Spec => []SleepsAsAsked
  BY ClientSafe, PTL DEF ClientInv

\* A status other than 200 that doWithRetry hands on ends a streamed call
\* (client.go:115-124).
THEOREM StreamedStatusAlwaysTerminal == Spec => []StreamedStatusTerminal
<1>1. ClientInv => StreamedStatusTerminal
  BY DEF ClientInv, Judged, StreamedStatusTerminal
<1> QED BY <1>1, ClientSafe, PTL
=============================================================================
