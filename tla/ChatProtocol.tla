--------------------------- MODULE ChatProtocol ---------------------------
(***************************************************************************)
(* What a run promises the chat API, seen from the API's side: who may     *)
(* speak when, and how many tool results the conversation owes.  A reply   *)
(* with n calls runs up a debt of n, each tool result pays one of it, and  *)
(* while there is debt nobody else speaks, the model is not asked and the  *)
(* conversation is not ended or rewritten.                                 *)
(***************************************************************************)
EXTENDS Naturals

VARIABLES phase,    \* "open", "asking" (a request is out) or "over"
          owed,     \* tool calls without a result
          speaker   \* who spoke last

protocol == <<phase, owed, speaker>>

Init == phase = "open" /\ owed = 0 /\ speaker = "nobody"

\* The human, or the harness in the human's role, says something.
UserSpeaks ==
  /\ phase = "open" /\ owed = 0
  /\ speaker' = "user"
  /\ UNCHANGED <<phase, owed>>

\* The model is asked, possibly with last words of the user.
Ask ==
  /\ phase = "open" /\ owed = 0
  /\ speaker' \in {speaker, "user"}
  /\ speaker' \in {"user", "tool"}
  /\ phase' = "asking"
  /\ UNCHANGED owed

\* No usable reply came: nothing was said.
GiveUp ==
  /\ phase = "asking"
  /\ phase' = "open"
  /\ UNCHANGED <<owed, speaker>>

\* What was said so far is replaced by a summary in the user's name.
Summarize ==
  /\ phase = "asking"
  /\ speaker' \in {speaker, "user"}
  /\ UNCHANGED <<phase, owed>>

Answer ==
  /\ phase = "asking"
  /\ speaker' = "assistant"
  /\ owed' \in Nat
  /\ phase' = "open"

PayTool ==
  /\ phase = "open" /\ owed > 0
  /\ owed' = owed - 1
  /\ speaker' = "tool"
  /\ UNCHANGED phase

\* The conversation ends with no debt, perhaps on a last reply.
End ==
  /\ phase \in {"open", "asking"} /\ owed = 0
  /\ phase' = "over"
  /\ speaker' = speaker \/ (phase = "asking" /\ speaker' = "assistant")
  /\ UNCHANGED owed

Next == UserSpeaks \/ Ask \/ GiveUp \/ Summarize \/ Answer \/ PayTool \/ End

Spec == Init /\ [][Next]_protocol
============================================================================
