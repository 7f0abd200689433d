------------------------------ MODULE Emitter -------------------------------
(***************************************************************************)
(* events.Emitter: goroutines that share one emitter call Emit, which      *)
(* numbers and writes an event under a mutex.  The content of an event is  *)
(* left out; a line of the transcript records who emitted it and which of  *)
(* that actor's events it is.                                              *)
(***************************************************************************)
EXTENDS Integers, Sequences

CONSTANT Actors     \* the goroutines that share the emitter

Nobody == -1

ASSUME ActorsAssumption == Actors \subseteq Nat

VARIABLES
  mutex,       \* who holds e.mu
  seq,         \* e.seq
  transcript,  \* the lines written to the transcript
  recorded,    \* there is a transcript and its envelope can be encoded
  human,       \* the numbers of the lines written to the human writer
  stage,       \* where an actor's call of Emit stands, "out" without one
  mine,        \* the number of the event an actor is writing
  begun        \* how many calls of Emit an actor has made

emitVars == <<mutex, seq, transcript, recorded, human, stage, mine, begun>>

Line == [seq : Nat, by : Actors, nth : Nat]

Stages == {"out", "wait", "locked", "numbered", "written"}

EmitterTypeOK ==
  /\ mutex \in Actors \cup {Nobody}
  /\ seq \in Nat
  /\ transcript \in Seq(Line)
  /\ recorded \in BOOLEAN
  /\ human \in Seq(Nat)
  /\ stage \in [Actors -> Stages]
  /\ mine \in [Actors -> Nat]
  /\ begun \in [Actors -> Nat]

EmitterInit ==
  /\ mutex = Nobody
  /\ seq = 0
  /\ transcript = <<>> /\ human = <<>>
  /\ recorded \in BOOLEAN
  /\ stage = [a \in Actors |-> "out"]
  /\ mine = [a \in Actors |-> 0]
  /\ begun = [a \in Actors |-> 0]

\* Actor a calls Emit.
Begin(a) ==
  /\ stage[a] = "out"
  /\ stage' = [stage EXCEPT ![a] = "wait"]
  /\ begun' = [begun EXCEPT ![a] = begun[a] + 1]
  /\ UNCHANGED <<mutex, seq, transcript, recorded, human, mine>>

\* Faulty: the emitter has no mutex.
LockFreely(a) ==
  /\ stage[a] = "wait"
  /\ mutex' = a
  /\ stage' = [stage EXCEPT ![a] = "locked"]
  /\ UNCHANGED <<seq, transcript, recorded, human, mine, begun>>

Lock(a) ==
  /\ stage[a] = "wait"
  /\ mutex = Nobody
  /\ mutex' = a
  /\ stage' = [stage EXCEPT ![a] = "locked"]
  /\ UNCHANGED <<seq, transcript, recorded, human, mine, begun>>

Number(a) ==
  /\ stage[a] = "locked"
  /\ seq' = seq + 1
  /\ mine' = [mine EXCEPT ![a] = seq + 1]
  /\ stage' = [stage EXCEPT ![a] = "numbered"]
  /\ UNCHANGED <<mutex, transcript, recorded, human, begun>>

\* The transcript gets its line, unless there is no transcript or a static
\* field of the caller cannot be encoded: what the harness itself puts into an
\* event always can.
WriteTranscript(a) ==
  /\ stage[a] = "numbered"
  /\ transcript' = IF recorded
                   THEN Append(transcript, [seq |-> mine[a], by |-> a, nth |-> begun[a]])
                   ELSE transcript
  /\ stage' = [stage EXCEPT ![a] = "written"]
  /\ UNCHANGED <<mutex, seq, recorded, human, mine, begun>>

\* The human's line, and the deferred unlock.
WriteHuman(a) ==
  /\ stage[a] = "written"
  /\ human' = Append(human, mine[a])
  /\ mutex' = Nobody
  /\ stage' = [stage EXCEPT ![a] = "out"]
  /\ UNCHANGED <<seq, transcript, recorded, mine, begun>>

Emit(a) == Lock(a) \/ Number(a) \/ WriteTranscript(a) \/ WriteHuman(a)

EmitterNext == \E a \in Actors : Begin(a) \/ Emit(a)

EmitterSpec == EmitterInit /\ [][EmitterNext]_emitVars

----------------------------------------------------------------------------
(* The emitter implements EventLog.  An event is recorded when its line is *)
(* written: until then its number is not counted, and from then on the     *)
(* human is as good as shown it.                                           *)

Numbered == {a \in Actors : stage[a] = "numbered"}
Written  == {a \in Actors : stage[a] = "written"}

Recorded == IF Numbered = {} THEN seq ELSE seq - 1

EmittedBy == [a \in Actors |->
                IF stage[a] \in {"wait", "locked", "numbered"} THEN begun[a] - 1 ELSE begun[a]]

Shown == IF Written = {} THEN human ELSE Append(human, mine[CHOOSE a \in Written : TRUE])

Log == INSTANCE EventLog WITH
         count <- Recorded, emitted <- EmittedBy, log <- transcript, shown <- Shown

\* Goroutines that emit at the same time record one event at a time: the
\* transcript is in number order without a number used twice, each actor's
\* events keep their order, and the human is shown every number once (the
\* mutex of events.go:107 spans the number and both writes).
EmitsAtomically == Log!Spec
=============================================================================
