----------------------------- MODULE Incapable ------------------------------
(***************************************************************************)
(* harness/incapable.go: what the failed tool-call arguments of a streak   *)
(* of unproductive turns say about the transport.  A payload is its text   *)
(* and the number of complete JSON values it decodes to, 0 when it does    *)
(* not decode to its end.                                                  *)
(***************************************************************************)
EXTENDS Integers, Sequences

Payload == [text : STRING, values : Nat]

\* isConcatenatedJSON
Concatenated(payload) == payload.values >= 2

\* What everyPayloadMatches looks at.
Retained(window) ==
  UNION {{window[t][k] : k \in DOMAIN window[t]} : t \in DOMAIN window}

\* A window without turns, or with a turn that kept no payload, says nothing.
Unclassifiable(window) == window = <<>> \/ \E t \in DOMAIN window : window[t] = <<>>

\* Every retained payload is the first one.
AllIdentical(window) == \A p \in Retained(window) : p = window[1][1]

\* classifyIncapable
ClassifyIncapable(window) ==
  IF Unclassifiable(window) THEN "none"
  ELSE IF \A p \in Retained(window) : Concatenated(p) THEN "concatenated"
  ELSE IF Len(window) >= 2 /\ AllIdentical(window) THEN "identical" ELSE "none"
=============================================================================
