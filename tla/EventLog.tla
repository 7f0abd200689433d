------------------------------ MODULE EventLog ------------------------------
(***************************************************************************)
(* What an Emitter promises to the goroutines that share it: an event is   *)
(* recorded in one step.  It takes the next number, goes to the human's    *)
(* output, and to the transcript unless it cannot be written there.        *)
(***************************************************************************)
EXTENDS Naturals, Sequences

CONSTANT Actors     \* the goroutines that emit

VARIABLES
  count,    \* number of events recorded
  emitted,  \* how many of them each actor emitted
  log,      \* the lines of the transcript
  shown     \* the numbers the human was shown

vars == <<count, emitted, log, shown>>

Init ==
  /\ count = 0
  /\ emitted = [a \in Actors |-> 0]
  /\ log = <<>>
  /\ shown = <<>>

\* Actor a's next event is recorded; kept says whether the transcript has it.
Record(a, kept) ==
  /\ count' = count + 1
  /\ emitted' = [emitted EXCEPT ![a] = emitted[a] + 1]
  /\ log' = IF kept
            THEN Append(log, [seq |-> count + 1, by |-> a, nth |-> emitted[a] + 1])
            ELSE log
  /\ shown' = Append(shown, count + 1)

Next == \E a \in Actors, kept \in BOOLEAN : Record(a, kept)

Spec == Init /\ [][Next]_vars
=============================================================================
