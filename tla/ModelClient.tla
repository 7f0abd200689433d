---------------------------- MODULE ModelClient ----------------------------
(***************************************************************************)
(* One call of llm.Client: SendStream ("stream") or Send ("plain").  The   *)
(* endpoint, the network, the caller's context and the stall timer are the *)
(* environment.  doWithRetry's loop is inlined: try counts its attempts,   *)
(* attempt those of the loop around it.                                    *)
(*                                                                         *)
(* Not modelled: request encoding, headers and the text of errors.  A      *)
(* stream is the fragments it delivers to the caller; how frames become    *)
(* fragments is StreamParser's subject.                                    *)
(***************************************************************************)
EXTENDS Integers, Sequences

CONSTANTS
  Policies,       \* the RetryPolicy values a client may be built with
  RetryAfters,    \* the delays a Retry-After header may ask for
  MaxFragments    \* bound: fragments of one stream

Policy == [retries : Nat, base : Int, max : Nat, jitter : BOOLEAN]

ASSUME PolicyAssumption  == Policies \subseteq Policy
ASSUME HeaderAssumption  == RetryAfters \subseteq Int
ASSUME FragmentAssumption == MaxFragments \in Nat

NoHeader == <<>>

\* "busy" stands for the statuses isRetryableStatus names, "refused" for every
\* other status that is not 200.
Statuses == {"ok", "busy", "refused"}

IsRetryable(s) == s = "busy"

VARIABLES
  policy, mode,
  listening,      \* onDelta is not nil
  pc, attempt, try,
  hint,           \* lastResp's Retry-After, NoHeader without one
  delay,          \* how long the current sleep takes
  status,         \* of the response doWithRetry returned
  stalled,        \* the stall timer closed the body
  delivered,      \* this attempt, or one before it, delivered and was not reset
  got,            \* the fragments of the stream being read
  result,         \* "pending" before the call returns
  ctxDone

\* What an observer records.
VARIABLES
  shown,          \* what the caller built from the deltas
  latest,         \* the Retry-After of the latest answer, NoHeader without one
  opened,         \* replies doWithRetry handed on
  dialled,        \* requests since the last one
  refused         \* some reply other than 200 was final for doWithRetry

stream == <<stalled, delivered, got, shown>>
sleep  == <<hint, delay, latest>>

vars == <<policy, mode, listening, pc, attempt, try, sleep, status, stream,
          result, ctxDone, opened, dialled, refused>>

----------------------------------------------------------------------------
(* backoff, capDelay.                                                      *)

CapDelay(d) ==
  IF d < 0 THEN 0 ELSE IF policy.max > 0 /\ d > policy.max THEN policy.max ELSE d

Jittered(d) ==
  IF policy.jitter /\ d > 1 THEN (d \div 2)..(2 * (d \div 2)) ELSE {d}

\* The delays before retry n: what the response asked for, or the doubled base.
Backoff(n, asked) ==
  IF asked # NoHeader THEN {CapDelay(asked[1])}
  ELSE Jittered(CapDelay(policy.base * 2^(n - 1)))

----------------------------------------------------------------------------
Finish(r) == pc' = "returned" /\ result' = r

\* Faulty: the outer loop dials again after the connect budget is spent.
RedialOuter ==
  IF attempt < policy.retries
  THEN /\ pc' = "retry" /\ delay' \in Backoff(attempt + 1, NoHeader)
       /\ UNCHANGED result
  ELSE Finish("transport") /\ UNCHANGED delay

\* doWithRetry is out of attempts without a response.
GiveUpConnecting == Finish("transport") /\ UNCHANGED delay

\* Faulty: a transport error keeps the response of the attempt before.
HintKept(asked) == IF asked = NoHeader THEN hint ELSE asked

\* lastResp is the latest answer, nil after a transport error.
HintOf(asked) == asked

\* c.do returns an error: transport, or the context.
ConnectFails ==
  /\ pc = "connect"
  /\ hint' = HintOf(NoHeader) /\ latest' = NoHeader
  /\ dialled' = dialled + 1
  /\ IF try < policy.retries
     THEN /\ pc' = "redial" /\ delay' \in Backoff(try + 1, HintOf(NoHeader))
          /\ UNCHANGED result
     ELSE GiveUpConnecting
  /\ UNCHANGED <<policy, mode, listening, attempt, try, status, stream, ctxDone,
                 opened, refused>>

\* A reply to retry before its body is read.
ServerIsBusy ==
  /\ pc = "connect" /\ ~ctxDone
  /\ IsRetryable("busy") /\ try < policy.retries
  /\ \E asked \in {NoHeader} \cup {<<d>> : d \in RetryAfters} :
       /\ latest' = asked
       /\ hint' = HintOf(asked)
       /\ delay' \in Backoff(try + 1, HintOf(asked))
  /\ dialled' = dialled + 1
  /\ pc' = "redial"
  /\ UNCHANGED <<policy, mode, listening, attempt, try, status, stream, result,
                 ctxDone, opened, refused>>

\* A reply doWithRetry returns.
ServerAnswers ==
  /\ pc = "connect" /\ ~ctxDone
  /\ \E s \in Statuses :
       /\ ~(IsRetryable(s) /\ try < policy.retries)
       /\ status' = s
       /\ refused' = (refused \/ s # "ok")
  /\ opened' = opened + 1 /\ dialled' = 0
  /\ pc' = "open"
  /\ UNCHANGED <<policy, mode, listening, attempt, try, sleep, stream, result,
                 ctxDone>>

RedialWakes ==
  /\ pc = "redial"
  /\ pc' = "connect" /\ try' = try + 1
  /\ UNCHANGED <<policy, mode, listening, attempt, sleep, status, stream, result,
                 ctxDone, opened, dialled, refused>>

----------------------------------------------------------------------------
(* The loop around doWithRetry.                                            *)

\* A failure after the reply was opened: retried unless the context is done.
FailAttempt(error) ==
  /\ hint' = NoHeader /\ latest' = NoHeader
  /\ IF ~ctxDone /\ attempt < policy.retries
     THEN /\ pc' = "retry" /\ delay' \in Backoff(attempt + 1, NoHeader)
          /\ UNCHANGED result
     ELSE Finish(error) /\ UNCHANGED delay

RetryWakes ==
  /\ pc = "retry"
  /\ pc' = "connect" /\ attempt' = attempt + 1 /\ try' = 0
  /\ UNCHANGED <<policy, mode, listening, sleep, status, stream, result, ctxDone,
                 opened, dialled, refused>>

SleepCanceled ==
  /\ pc \in {"redial", "retry"} /\ ctxDone
  /\ Finish("canceled")
  /\ UNCHANGED <<policy, mode, listening, attempt, try, sleep, status, stream,
                 ctxDone, opened, dialled, refused>>

----------------------------------------------------------------------------
(* SendStream.                                                             *)

\* Whatever reading its body gives, a reply other than 200 ends the call.
RejectStream ==
  /\ pc = "open" /\ mode = "stream" /\ status # "ok"
  /\ Finish("status")
  /\ UNCHANGED <<policy, mode, listening, attempt, try, sleep, status, stream,
                 ctxDone, opened, dialled, refused>>

\* Faulty: a replayed stream is not announced.
OpenStreamSilently ==
  /\ pc = "open" /\ mode = "stream" /\ status = "ok"
  /\ stalled' = FALSE /\ got' = <<>> /\ delivered' = FALSE
  /\ pc' = "reading"
  /\ UNCHANGED <<policy, mode, listening, attempt, try, sleep, status, shown,
                 result, ctxDone, opened, dialled, refused>>

\* A new stall reader, and a Reset when an earlier stream delivered anything.
OpenStream ==
  /\ pc = "open" /\ mode = "stream" /\ status = "ok"
  /\ stalled' = FALSE /\ got' = <<>> /\ delivered' = FALSE
  /\ shown' = IF delivered THEN <<>> ELSE shown
  /\ pc' = "reading"
  /\ UNCHANGED <<policy, mode, listening, attempt, try, sleep, status, result,
                 ctxDone, opened, dialled, refused>>

DeliveryNoted == delivered \/ listening

ReceiveFragment ==
  /\ pc = "reading"
  /\ Len(got) < MaxFragments
  /\ LET fragment == <<attempt, Len(got) + 1>>
     IN  /\ got' = Append(got, fragment)
         /\ shown' = IF listening THEN Append(shown, fragment) ELSE shown
         /\ delivered' = DeliveryNoted
  /\ UNCHANGED <<policy, mode, listening, pc, attempt, try, sleep, status, stalled,
                 result, ctxDone, opened, dialled, refused>>

\* [DONE] or a terminal finish_reason; lines already buffered are still
\* parsed after the timer closed the body.
StreamEnds ==
  /\ pc = "reading"
  /\ Finish("ok")
  /\ UNCHANGED <<policy, mode, listening, attempt, try, sleep, status, stream,
                 ctxDone, opened, dialled, refused>>

\* An error frame, a frame that does not decode, a line too long, a transport
\* error, a stream cut short, a body closed by the stall timer, the context.
StreamBreaks ==
  /\ pc = "reading"
  /\ FailAttempt("stream")
  /\ UNCHANGED <<policy, mode, listening, attempt, try, status, stream, ctxDone,
                 opened, dialled, refused>>

\* Faulty: the timer is never armed.
StallTimerUnarmed == FALSE

\* No byte for stallTimeout.
StallTimer ==
  /\ pc = "reading" /\ ~stalled
  /\ stalled' = TRUE
  /\ UNCHANGED <<policy, mode, listening, pc, attempt, try, sleep, status,
                 delivered, got, shown, result, ctxDone, opened, dialled, refused>>

----------------------------------------------------------------------------
(* Send: the body is read whole, then the status is looked at.             *)

\* Faulty: the request is made without the context.
ReadFailsUnaware ==
  /\ pc = "open" /\ mode = "plain" /\ ~ctxDone
  /\ FailAttempt("read")
  /\ UNCHANGED <<policy, mode, listening, attempt, try, status, stream, ctxDone,
                 opened, dialled, refused>>

ReadFails ==
  /\ pc = "open" /\ mode = "plain"
  /\ FailAttempt("read")
  /\ UNCHANGED <<policy, mode, listening, attempt, try, status, stream, ctxDone,
                 opened, dialled, refused>>

\* A body past maxResponseBody, or a status other than 200.
RejectReply ==
  /\ pc = "open" /\ mode = "plain"
  /\ \/ Finish("oversize")
     \/ status # "ok" /\ Finish("status")
  /\ UNCHANGED <<policy, mode, listening, attempt, try, sleep, status, stream,
                 ctxDone, opened, dialled, refused>>

DecodeFails ==
  /\ pc = "open" /\ mode = "plain" /\ status = "ok"
  /\ FailAttempt("decode")
  /\ UNCHANGED <<policy, mode, listening, attempt, try, status, stream, ctxDone,
                 opened, dialled, refused>>

AcceptReply ==
  /\ pc = "open" /\ mode = "plain" /\ status = "ok"
  /\ Finish("ok")
  /\ UNCHANGED <<policy, mode, listening, attempt, try, sleep, status, stream,
                 ctxDone, opened, dialled, refused>>

----------------------------------------------------------------------------
CancelContext ==
  /\ pc # "returned" /\ ~ctxDone
  /\ ctxDone' = TRUE
  /\ UNCHANGED <<policy, mode, listening, pc, attempt, try, sleep, status, stream,
                 result, opened, dialled, refused>>

Returned == pc = "returned" /\ UNCHANGED vars

Init ==
  /\ policy \in Policies /\ mode \in {"stream", "plain"} /\ listening \in BOOLEAN
  /\ mode = "plain" => ~listening
  /\ pc = "connect" /\ attempt = 0 /\ try = 0
  /\ hint = NoHeader /\ latest = NoHeader /\ delay = 0
  /\ status = "ok" /\ stalled = FALSE
  /\ delivered = FALSE /\ got = <<>> /\ shown = <<>>
  /\ result = "pending" /\ ctxDone = FALSE
  /\ opened = 0 /\ dialled = 0 /\ refused = FALSE

Connect == ConnectFails \/ ServerIsBusy \/ ServerAnswers
Wake    == RedialWakes \/ RetryWakes \/ SleepCanceled
Read    == ReadFails \/ RejectReply \/ DecodeFails \/ AcceptReply

Next ==
  \/ Connect \/ Wake \/ Read
  \/ RejectStream \/ OpenStream \/ ReceiveFragment \/ StreamEnds \/ StreamBreaks
  \/ StallTimer \/ CancelContext
  \/ Returned

Spec == Init /\ [][Next]_vars

\* A request gets its headers or fails, and a refusal's body ends (http.Client
\* has no timeout: the caller relies on the endpoint, or on its own context, for
\* both), sleeps end, the timer fires, and a body that was closed or whose
\* context is done fails to read.  That an open body delivers anything, or ends,
\* is not assumed, and a plain call has no stall timer; that a stream sends bytes
\* for ever is excluded by MaxFragments, since the code bounds silence and not
\* duration.
FairSpec ==
  /\ Spec
  /\ WF_vars(Connect) /\ WF_vars(Wake) /\ WF_vars(ctxDone /\ ReadFails)
  /\ WF_vars(RejectStream) /\ WF_vars(OpenStream)
  /\ WF_vars(StallTimer)
  /\ WF_vars((stalled \/ ctxDone) /\ StreamBreaks)

----------------------------------------------------------------------------
Fragments == Nat \X Nat

\* Every variable keeps its type, and only a caller that listens is ever told
\* of a Reset (onDelta is called without a nil check at client.go:129).
TypeOK ==
  /\ policy \in Policies /\ mode \in {"stream", "plain"} /\ listening \in BOOLEAN
  /\ pc \in {"connect", "redial", "open", "reading", "retry", "returned"}
  /\ attempt \in 0..policy.retries /\ try \in 0..policy.retries
  /\ hint \in {NoHeader} \cup {<<d>> : d \in RetryAfters}
  /\ latest \in {NoHeader} \cup {<<d>> : d \in RetryAfters}
  /\ delay \in Nat
  /\ status \in Statuses
  /\ stalled \in BOOLEAN /\ delivered \in BOOLEAN /\ (delivered => listening)
  /\ got \in Seq(Fragments) /\ shown \in Seq(Fragments)
  /\ result \in {"pending", "ok", "transport", "canceled", "status", "stream", "read",
                 "oversize", "decode"}
  /\ ctxDone \in BOOLEAN /\ refused \in BOOLEAN
  /\ opened \in Nat /\ dialled \in Nat

\* What a listening caller has built from the deltas is the stream being read,
\* and in the end the reply, however many streams broke before it
\* (Delta.Reset).
ShownIsReply ==
  listening /\ (pc = "reading" \/ result = "ok") => shown = got

\* Connecting is retried on one budget per reply to read, and reading on one
\* budget per call: an endpoint that is down does not multiply them
\* (client.go:109-113).
RequestsBounded ==
  /\ opened <= policy.retries + 1
  /\ dialled <= policy.retries + 1

\* Before a redial the client sleeps as the answer to the request just made
\* asked, or by its own doubling when that one asked nothing, never by what an
\* earlier answer asked, and never past MaxDelay (doWithRetry, client.go:226-246).
SleepsAsAsked ==
  pc = "redial" =>
    /\ delay \in Backoff(try + 1, latest)
    /\ policy.max > 0 => delay <= policy.max

\* A status other than 200 that doWithRetry hands on ends a streamed call, and
\* is what it reports: Run's handling of a 400 rests on it.
StreamedStatusTerminal ==
  mode = "stream" /\ refused =>
    \/ pc = "open"
    \/ pc = "returned" /\ result = "status"

\* "non-OK statuses stay terminal" in Send as well (client.go:159-162).
StatusTerminal == refused => pc \in {"open", "returned"}

\* An endpoint that goes silent in mid-stream, again and again, does not hang a
\* streamed call.
StreamedCallReturns == (mode = "stream") ~> (pc = "returned")

\* A done context ends the call, in whatever phase it is.
CancelReturns == ctxDone ~> (pc = "returned")
============================================================================
