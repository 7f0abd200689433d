---------------------------- MODULE FanoutProofs ----------------------------
(***************************************************************************)
(* What holds of the emitter for any number of goroutines, and of a        *)
(* fan-out for any number of specs, whatever the children come to and in   *)
(* whatever order they end.                                                *)
(***************************************************************************)
EXTENDS Fanout, FiniteSetTheorems, FunctionTheorems, TLAPS

----------------------------------------------------------------------------
(* The emitter records an event in one step: it implements EventLog.       *)


Critical(a) == stage[a] \in {"locked", "numbered", "written"}

\* Who is between Lock and the deferred unlock holds the mutex, and what it
\* writes carries the latest number.
Held ==
  /\ \A a \in Actors : Critical(a) => mutex = a
  /\ \A a \in Actors : stage[a] \in {"numbered", "written"} => mine[a] = seq

EmitterInv == EmitterTypeOK /\ Held

LEMMA SeqFacts ==
  ASSUME NEW S
  PROVE  /\ <<>> \in Seq(S)
         /\ \A s \in Seq(S), x \in S : Append(s, x) \in Seq(S)
  OBVIOUS

\* Nobody else is between Lock and the unlock.
LEMMA Alone ==
  ASSUME EmitterInv, NEW a \in Actors, Critical(a), NEW b \in Actors, b # a
  PROVE  stage[b] \in {"out", "wait"}
  BY DEF EmitterInv, EmitterTypeOK, Held, Critical, Stages

LEMMA Free ==
  ASSUME EmitterInv, mutex = Nobody, NEW b \in Actors
  PROVE  stage[b] \in {"out", "wait"}
  BY ActorsAssumption DEF EmitterInv, EmitterTypeOK, Held, Critical, Stages, Nobody

LEMMA InitHeld == EmitterInit => EmitterInv
  BY SeqFacts DEF EmitterInit, EmitterInv, EmitterTypeOK, Held, Critical, Stages

LEMMA BeginKeeps ==
  ASSUME EmitterInv, NEW a \in Actors, Begin(a)
  PROVE  EmitterInv'
  BY DEF Begin, EmitterInv, EmitterTypeOK, Held, Critical, Stages

LEMMA LockKeeps ==
  ASSUME EmitterInv, NEW a \in Actors, Lock(a)
  PROVE  EmitterInv'
<1>1. \A b \in Actors : stage[b] \in {"out", "wait"}
  BY Free DEF Lock
<1> QED BY <1>1 DEF Lock, EmitterInv, EmitterTypeOK, Held, Critical, Stages

LEMMA NumberKeeps ==
  ASSUME EmitterInv, NEW a \in Actors, Number(a)
  PROVE  EmitterInv'
<1>1. \A b \in Actors \ {a} : stage[b] \in {"out", "wait"}
  BY Alone DEF Number, Critical
<1> QED BY <1>1 DEF Number, EmitterInv, EmitterTypeOK, Held, Critical, Stages

LEMMA WriteTranscriptKeeps ==
  ASSUME EmitterInv, NEW a \in Actors, WriteTranscript(a)
  PROVE  EmitterInv'
<1>1. transcript' \in Seq(Line)
  <2>1. [seq |-> mine[a], by |-> a, nth |-> begun[a]] \in Line
    BY DEF EmitterInv, EmitterTypeOK, Line
  <2> QED BY <2>1, SeqFacts DEF WriteTranscript, EmitterInv, EmitterTypeOK
<1>2. Held'
  BY DEF WriteTranscript, EmitterInv, EmitterTypeOK, Held, Critical, Stages
<1> QED BY <1>1, <1>2 DEF WriteTranscript, EmitterInv, EmitterTypeOK, Stages

LEMMA WriteHumanKeeps ==
  ASSUME EmitterInv, NEW a \in Actors, WriteHuman(a)
  PROVE  EmitterInv'
<1>1. human' \in Seq(Nat)
  BY SeqFacts DEF WriteHuman, EmitterInv, EmitterTypeOK
<1>2. \A b \in Actors \ {a} : stage[b] \in {"out", "wait"}
  BY Alone DEF WriteHuman, Critical
<1>3. Held'
  BY <1>2 DEF WriteHuman, EmitterInv, EmitterTypeOK, Held, Critical, Stages
<1> QED BY <1>1, <1>3 DEF WriteHuman, EmitterInv, EmitterTypeOK, Stages

LEMMA StepHeld == EmitterInv /\ [EmitterNext]_emitVars => EmitterInv'
<1> SUFFICES ASSUME EmitterInv, [EmitterNext]_emitVars PROVE EmitterInv'
  OBVIOUS
<1>1. CASE UNCHANGED emitVars
  BY <1>1 DEF emitVars, EmitterInv, EmitterTypeOK, Held, Critical
<1>2. ASSUME NEW a \in Actors, Begin(a) \/ Emit(a) PROVE EmitterInv'
  BY <1>2, BeginKeeps, LockKeeps, NumberKeeps, WriteTranscriptKeeps, WriteHumanKeeps DEF Emit
<1> QED BY <1>1, <1>2 DEF EmitterNext

----------------------------------------------------------------------------

\* Every variable of the emitter keeps its type, and only who holds the mutex is
\* between the number and the two writes (events.go:106-122).
THEOREM MutexHeld == EmitterSpec => []EmitterInv
  BY InitHeld, StepHeld, PTL DEF EmitterSpec

----------------------------------------------------------------------------
(* The refinement.  Only WriteTranscript is a step of the log.             *)

LEMMA BeginStutters ==
  ASSUME EmitterInv, NEW a \in Actors, Begin(a)
  PROVE  UNCHANGED Log!vars
<1> USE DEF Begin, EmitterInv, EmitterTypeOK, Stages
<1>1. Numbered' = Numbered BY DEF Numbered
<1>2. Written' = Written BY DEF Written
<1>3. EmittedBy' = EmittedBy BY DEF EmittedBy
<1>4. Recorded' = Recorded BY <1>1 DEF Recorded
<1>5. Shown' = Shown BY <1>2 DEF Shown
<1> QED BY <1>3, <1>4, <1>5 DEF Log!vars

LEMMA LockStutters ==
  ASSUME EmitterInv, NEW a \in Actors, Lock(a)
  PROVE  UNCHANGED Log!vars
<1> USE DEF Lock, EmitterInv, EmitterTypeOK, Stages
<1>1. Numbered' = Numbered BY DEF Numbered
<1>2. Written' = Written BY DEF Written
<1>3. EmittedBy' = EmittedBy BY DEF EmittedBy
<1>4. Recorded' = Recorded BY <1>1 DEF Recorded
<1>5. Shown' = Shown BY <1>2 DEF Shown
<1> QED BY <1>3, <1>4, <1>5 DEF Log!vars

LEMMA NumberStutters ==
  ASSUME EmitterInv, NEW a \in Actors, Number(a)
  PROVE  UNCHANGED Log!vars
<1>1. \A b \in Actors \ {a} : stage[b] \in {"out", "wait"}
  BY Alone DEF Number, Critical
<1> USE DEF Number, EmitterInv, EmitterTypeOK, Stages
<1>2. Numbered = {} /\ Numbered' = {a} BY <1>1 DEF Numbered
<1>3. Written = {} /\ Written' = {} BY <1>1 DEF Written
<1>4. EmittedBy' = EmittedBy BY DEF EmittedBy
<1>5. Recorded = seq /\ Recorded' = seq' - 1 BY <1>2 DEF Recorded
<1>6. Recorded' = Recorded BY <1>5
<1>7. Shown' = Shown BY <1>3 DEF Shown
<1> QED BY <1>4, <1>6, <1>7 DEF Log!vars

LEMMA WriteTranscriptRecords ==
  ASSUME EmitterInv, NEW a \in Actors, WriteTranscript(a)
  PROVE  Log!Record(a, recorded)
<1>1. \A b \in Actors \ {a} : stage[b] \in {"out", "wait"}
  BY Alone DEF WriteTranscript, Critical
<1>2. mine[a] = seq /\ seq \in Nat /\ begun[a] \in Nat
  BY DEF WriteTranscript, EmitterInv, EmitterTypeOK, Held
<1>3. Numbered = {a} /\ Numbered' = {}
  BY <1>1 DEF Numbered, WriteTranscript, EmitterInv, EmitterTypeOK
<1>4. Written = {} /\ Written' = {a}
  BY <1>1 DEF Written, WriteTranscript, EmitterInv, EmitterTypeOK
<1>5. Recorded = seq - 1 /\ Recorded' = seq
  BY <1>3 DEF Recorded, WriteTranscript
<1>6. Recorded + 1 = seq
  BY <1>2, <1>5
<1>7. EmittedBy[a] + 1 = begun[a]
  BY <1>2 DEF EmittedBy, WriteTranscript
<1>8. EmittedBy' = [EmittedBy EXCEPT ![a] = EmittedBy[a] + 1]
  <2>1. EmittedBy'[a] = begun[a]
    BY DEF EmittedBy, WriteTranscript, EmitterInv, EmitterTypeOK
  <2>2. \A b \in Actors \ {a} : EmittedBy'[b] = EmittedBy[b]
    BY DEF EmittedBy, WriteTranscript, EmitterInv, EmitterTypeOK
  <2>3. DOMAIN EmittedBy = Actors /\ EmittedBy' = [b \in Actors |-> EmittedBy'[b]]
    BY DEF EmittedBy
  <2>4. [EmittedBy EXCEPT ![a] = EmittedBy[a] + 1]
          = [b \in Actors |-> IF b = a THEN EmittedBy[a] + 1 ELSE EmittedBy[b]]
    BY <2>3
  <2> QED BY <1>7, <2>1, <2>2, <2>3, <2>4
<1>9. Shown = human BY <1>4 DEF Shown
<1>10. Shown' = Append(human', mine'[a]) BY <1>4 DEF Shown
<1>11. Shown' = Append(Shown, Recorded + 1)
  BY <1>2, <1>6, <1>9, <1>10 DEF WriteTranscript
<1>12. Recorded' = Recorded + 1
  BY <1>5, <1>6
<1>13. transcript' = IF recorded
         THEN Append(transcript, [seq |-> Recorded + 1, by |-> a, nth |-> EmittedBy[a] + 1])
         ELSE transcript
  BY <1>2, <1>6, <1>7 DEF WriteTranscript
<1> QED BY <1>8, <1>11, <1>12, <1>13 DEF Log!Record

LEMMA WriteHumanStutters ==
  ASSUME EmitterInv, NEW a \in Actors, WriteHuman(a)
  PROVE  UNCHANGED Log!vars
<1>1. \A b \in Actors \ {a} : stage[b] \in {"out", "wait"}
  BY Alone DEF WriteHuman, Critical
<1> USE DEF WriteHuman, EmitterInv, EmitterTypeOK, Stages
<1>2. Numbered = {} /\ Numbered' = {} BY <1>1 DEF Numbered
<1>3. Written = {a} /\ Written' = {} BY <1>1 DEF Written
<1>4. EmittedBy' = EmittedBy BY DEF EmittedBy
<1>5. Recorded' = Recorded BY <1>2 DEF Recorded
<1>6. Shown = Append(human, mine[a]) BY <1>3 DEF Shown
<1>7. Shown' = human' BY <1>3 DEF Shown
<1>8. Shown' = Shown BY <1>6, <1>7
<1> QED BY <1>4, <1>5, <1>8 DEF Log!vars

LEMMA StepRecords ==
  EmitterInv /\ [EmitterNext]_emitVars => [Log!Next]_(Log!vars)
<1> SUFFICES ASSUME EmitterInv, [EmitterNext]_emitVars PROVE [Log!Next]_(Log!vars)
  OBVIOUS
<1>1. CASE UNCHANGED emitVars
  <2>1. Numbered' = Numbered /\ Written' = Written /\ EmittedBy' = EmittedBy
    BY <1>1 DEF emitVars, Numbered, Written, EmittedBy
  <2>2. Recorded' = Recorded /\ Shown' = Shown
    BY <1>1, <2>1 DEF emitVars, Recorded, Shown
  <2> QED BY <1>1, <2>1, <2>2 DEF emitVars, Log!vars
<1>2. ASSUME NEW a \in Actors, Begin(a) \/ Emit(a) PROVE [Log!Next]_(Log!vars)
  <2>1. CASE WriteTranscript(a)
    <3>1. recorded \in BOOLEAN
      BY DEF EmitterInv, EmitterTypeOK
    <3> QED BY <2>1, <3>1, WriteTranscriptRecords DEF Log!Next
  <2> QED BY <1>2, <2>1, BeginStutters, LockStutters, NumberStutters, WriteHumanStutters DEF Emit
<1> QED BY <1>1, <1>2 DEF EmitterNext

LEMMA InitEmpty == EmitterInit => Log!Init
<1> SUFFICES ASSUME EmitterInit PROVE Log!Init
  OBVIOUS
<1>1. Numbered = {} /\ Written = {}
  BY DEF EmitterInit, Numbered, Written
<1>2. EmittedBy = [a \in Actors |-> 0]
  BY DEF EmitterInit, EmittedBy
<1> QED BY <1>1, <1>2 DEF EmitterInit, Log!Init, Recorded, Shown

\* However many goroutines share an emitter, each event is recorded as if in one
\* step: no number is used twice or lost, and the transcript and the human see
\* one order (events.go:107).
THEOREM EmitterImplementsLog == EmitterSpec => EmitsAtomically
  BY InitEmpty, StepRecords, MutexHeld, PTL DEF EmitterSpec, EmitsAtomically, Log!Spec

----------------------------------------------------------------------------
(* The fan-out.                                                            *)

\* The goroutines the wait group counts.
Present == {c \in 1..started : child[c] # "gone"}

\* The human has been shown every number, up to the one being written.
AllShown ==
  \/ /\ \A a \in Actors : stage[a] \notin {"numbered", "written"}
     /\ human = [n \in 1..seq |-> n]
  \/ /\ \E a \in Actors : stage[a] \in {"numbered", "written"}
     /\ seq > 0 /\ human = [n \in 1..(seq - 1) |-> n]

\* The caller, the wait group and the goroutines agree.
Joining ==
  /\ wg = Cardinality(Present)
  /\ \A c \in Children : child[c] = "unborn" <=> c > started
  /\ parent = "start" => started = 0
  /\ parent = "returned" => started = specs /\ wg = 0

\* Who has nothing to emit is not in Emit.
Silent ==
  /\ \A c \in Children : child[c] \in {"unborn", "done", "gone"} => stage[c] = "out"
  /\ parent \in {"start", "returned"} => stage[Caller] = "out"

\* A result is stored once its run is over, and not before.
Stored ==
  \A c \in Children :
    /\ reason[c] # "running" <=> child[c] \in {"return", "done", "gone"}
    /\ results[c] = IF child[c] \in {"done", "gone"} THEN ResultOf(c) ELSE NoResult
    /\ reason[c] = "running" => unproductive[c] < Threshold

FanoutInv == TypeOK /\ Joining /\ Silent /\ Stored

LEMMA ActorFacts ==
  /\ Caller \in Actors /\ Children \subseteq Actors /\ Caller \notin Children
  /\ Cardinality(Children) \in Nat /\ Children = 1..Cardinality(Children)
  /\ Threshold \in Nat \ {0} /\ \A c \in Children : MaxTurns[c] \in Nat \ {0}
<1>1. Cardinality(Children) \in Nat
  BY ChildrenAssumption, FS_CardinalityType
<1>2. Children = 1..Cardinality(Children) /\ Actors = Children \cup {0}
  BY ChildrenAssumption
<1>3. 0 \notin 1..Cardinality(Children)
  BY <1>1
<1> QED BY <1>1, <1>2, <1>3, FanoutAssumption DEF Caller

----------------------------------------------------------------------------
(* The emitter of a fan-out is the emitter.                                *)

LEMMA StepEmits == [Next]_vars => [EmitterNext]_emitVars
<1> SUFFICES ASSUME [Next]_vars PROVE [EmitterNext]_emitVars
  OBVIOUS
<1>1. CASE CallerStep
  <2>1. Begin(Caller) \/ Emit(Caller) \/ UNCHANGED emitVars
    BY <1>1 DEF CallerStep, ReturnNothing, Announce, Spawn, Join, Emitting
  <2> QED BY <2>1, ActorFacts DEF EmitterNext
<1>2. ASSUME NEW c \in Children, ChildStep(c) PROVE [EmitterNext]_emitVars
  <2>1. Begin(c) \/ Emit(c) \/ UNCHANGED emitVars
    BY <1>2 DEF ChildStep, Request, RunOutOfTurns, RequestFails, FinalReply, CapableBatch,
                UnproductiveBatch, StoreResult, Done, Emitting, End
  <2> QED BY <2>1, ActorFacts DEF EmitterNext
<1>3. CASE CancelContext \/ Returned \/ UNCHANGED vars
  BY <1>3 DEF CancelContext, Returned, vars
<1> QED BY <1>1, <1>2, <1>3 DEF Next

LEMMA FanoutEmits == Spec => EmitterSpec
<1>1. Init => EmitterInit
  BY DEF Init
<1> QED BY <1>1, StepEmits, PTL DEF Spec, EmitterSpec

LEMMA InitShown == EmitterInit => AllShown
<1> SUFFICES ASSUME EmitterInit PROVE AllShown
  OBVIOUS
<1>1. seq = 0 /\ human = <<>> /\ \A a \in Actors : stage[a] = "out"
  BY DEF EmitterInit
<1>2. <<>> = [n \in 1..0 |-> n]
  OBVIOUS
<1> QED BY <1>1, <1>2 DEF AllShown

LEMMA StepShown == EmitterInv /\ AllShown /\ [EmitterNext]_emitVars => AllShown'
<1> SUFFICES ASSUME EmitterInv, AllShown, [EmitterNext]_emitVars PROVE AllShown'
  OBVIOUS
<1>0. seq \in Nat
  BY DEF EmitterInv, EmitterTypeOK
<1>1. CASE UNCHANGED emitVars
  BY <1>1 DEF emitVars, AllShown
<1>2. ASSUME NEW a \in Actors, Begin(a) \/ Lock(a) \/ WriteTranscript(a) PROVE AllShown'
  BY <1>2 DEF Begin, Lock, WriteTranscript, AllShown, EmitterInv, EmitterTypeOK, Stages
<1>3. ASSUME NEW a \in Actors, Number(a) PROVE AllShown'
  <2>1. \A b \in Actors : stage[b] \notin {"numbered", "written"}
    BY <1>3, Alone DEF Number, Critical
  <2>2. human' = [n \in 1..seq |-> n] /\ seq' = seq + 1
    BY <1>3, <2>1 DEF Number, AllShown
  <2>3. seq' > 0 /\ seq' - 1 = seq
    BY <1>0, <2>2
  <2>4. stage'[a] = "numbered"
    BY <1>3 DEF Number, EmitterInv, EmitterTypeOK
  <2> QED BY <2>2, <2>3, <2>4 DEF AllShown
<1>4. ASSUME NEW a \in Actors, WriteHuman(a) PROVE AllShown'
  <2>1. \A b \in Actors \ {a} : stage[b] \in {"out", "wait"}
    BY <1>4, Alone DEF WriteHuman, Critical
  <2>2. \A b \in Actors : stage'[b] \notin {"numbered", "written"}
    BY <1>4, <2>1 DEF WriteHuman, EmitterInv, EmitterTypeOK
  <2>3. seq > 0 /\ human = [n \in 1..(seq - 1) |-> n] /\ mine[a] = seq /\ seq' = seq
    BY <1>4 DEF WriteHuman, AllShown, EmitterInv, Held
  <2>4. human' = Append(human, seq)
    BY <1>4, <2>3 DEF WriteHuman
  <2>5. Append([n \in 1..(seq - 1) |-> n], seq) = [n \in 1..seq |-> n]
    BY <1>0, <2>3
  <2> QED BY <2>2, <2>3, <2>4, <2>5 DEF AllShown
<1> QED BY <1>1, <1>2, <1>3, <1>4 DEF EmitterNext, Emit

LEMMA EmitterHeld == Spec => [](EmitterInv /\ AllShown)
<1>1. EmitterSpec => []AllShown
  BY InitShown, StepShown, MutexHeld, PTL DEF EmitterSpec
<1> QED BY <1>1, FanoutEmits, MutexHeld, PTL

----------------------------------------------------------------------------
(* The wait group.                                                         *)

LEMMA PresentFinite ==
  ASSUME FanoutInv
  PROVE  IsFiniteSet(Present) /\ Cardinality(Present) \in Nat
         /\ Cardinality(Present) <= started /\ started \in Nat /\ specs \in Nat
<1>1. started \in Nat /\ specs \in Nat
  BY ActorFacts DEF FanoutInv, TypeOK
<1>2. IsFiniteSet(1..started) /\ Cardinality(1..started) = started
  BY <1>1, FS_Interval
<1>3. Present \in SUBSET (1..started)
  BY DEF Present
<1> QED BY <1>1, <1>2, <1>3, FS_Subset, FS_CardinalityType

LEMMA InitInv == Init => FanoutInv
<1> SUFFICES ASSUME Init PROVE FanoutInv
  OBVIOUS
<1>1. EmitterTypeOK
  BY InitHeld DEF Init, EmitterInv
<1>2. wg = Cardinality(Present)
  <2>1. Present = {}
    BY DEF Init, Present
  <2> QED BY <2>1, FS_EmptySet DEF Init
<1>3. TypeOK
  <2>1. <<>> \in Seq(Outcome) /\ <<>> \in Seq(Seq(Payload))
    BY SeqFacts
  <2>2. history \in [Children -> Seq(Outcome)] /\ window \in [Children -> Seq(Seq(Payload))]
    <3>1. /\ history = [c \in Children |-> <<>>]
          /\ window = [c \in Children |-> <<>>]
      BY DEF Init
    <3> QED BY <2>1, <3>1
  <2>3. turns \in [Children -> Nat] /\ \A c \in Children : turns[c] <= MaxTurns[c]
    BY ActorFacts DEF Init
  <2>4. unproductive \in [Children -> 0..Threshold]
    BY ActorFacts DEF Init
  <2>5. specs \in 0..Cardinality(Children) /\ started \in 0..specs /\ wg \in 0..specs
    BY ActorFacts DEF Init
  <2>6. /\ parent \in {"start", "spawn", "returned"} /\ ctxDone \in BOOLEAN
        /\ child \in [Children -> {"unborn", "top", "ask", "doomed", "return", "done", "gone"}]
        /\ reason \in [Children -> Reasons] /\ detail \in [Children -> Details]
        /\ results \in [Children -> Result \cup {NoResult}]
    BY DEF Init, Reasons, Details
  <2> QED BY <1>1, <2>2, <2>3, <2>4, <2>5, <2>6 DEF TypeOK
<1>4. Joining
  BY <1>2, ActorFacts DEF Init, Joining
<1>5. Silent
  BY ActorFacts DEF Init, EmitterInit, Silent
<1>6. Stored
  BY ActorFacts DEF Init, Stored
<1> QED BY <1>3, <1>4, <1>5, <1>6 DEF FanoutInv

\* A step that starts no goroutine and ends none leaves the wait group right.
LEMMA CountKept ==
  ASSUME FanoutInv, UNCHANGED <<specs, parent, started, wg>>,
         child' \in [Children -> {"unborn", "top", "ask", "doomed", "return", "done", "gone"}],
         \A c \in Children : /\ child'[c] = "gone" <=> child[c] = "gone"
                             /\ child'[c] = "unborn" <=> child[c] = "unborn"
  PROVE  Joining'
<1>1. 1..started \subseteq Children
  BY ActorFacts DEF FanoutInv, TypeOK
<1>2. Present' = Present
  BY <1>1 DEF Present
<1> QED BY <1>2 DEF FanoutInv, Joining

LEMMA ReturnNothingKeeps == FanoutInv /\ ReturnNothing => FanoutInv'
<1> SUFFICES ASSUME FanoutInv, ReturnNothing PROVE FanoutInv'
  OBVIOUS
<1>1. started = 0 /\ specs = 0 /\ parent = "start" /\ parent' = "returned"
      /\ UNCHANGED <<emitVars, specs, started, wg, child, runVars, results, ctxDone>>
  BY DEF ReturnNothing, FanoutInv, Joining
<1>2. wg = 0
  BY <1>1 DEF FanoutInv, TypeOK
<1>3. Present' = Present
  BY <1>1 DEF Present
<1>4. TypeOK'
  BY <1>1 DEF FanoutInv, TypeOK, EmitterTypeOK, emitVars, runVars, streakVars, endVars
<1>5. Joining'
  BY <1>1, <1>2, <1>3 DEF FanoutInv, Joining
<1>6. Silent'
  BY <1>1 DEF FanoutInv, Silent, emitVars
<1>7. Stored'
  BY <1>1 DEF FanoutInv, Stored, ResultOf, runVars, streakVars, endVars
<1> QED BY <1>4, <1>5, <1>6, <1>7 DEF FanoutInv

LEMMA BeginType ==
  ASSUME EmitterTypeOK, NEW a \in Actors, Begin(a)
  PROVE  EmitterTypeOK'
BY DEF EmitterTypeOK, Begin, Stages

LEMMA AnnounceKeeps == FanoutInv /\ Announce => FanoutInv'
<1> SUFFICES ASSUME FanoutInv, Announce PROVE FanoutInv'
  OBVIOUS
<1>1. parent = "start" /\ parent' = "spawn" /\ Begin(Caller)
      /\ UNCHANGED <<specs, started, wg, child, runVars, results, ctxDone>>
  BY DEF Announce
<1>2. EmitterTypeOK'
  BY <1>1, BeginType, ActorFacts DEF FanoutInv, TypeOK
<1>3. TypeOK'
  BY <1>1, <1>2 DEF FanoutInv, TypeOK, runVars, streakVars, endVars
<1>4. Present' = Present
  BY <1>1 DEF Present
<1>5. Joining'
  BY <1>1, <1>4 DEF FanoutInv, Joining
<1>6. \A c \in Children : stage'[c] = stage[c]
  BY <1>1, ActorFacts DEF Begin, FanoutInv, TypeOK, EmitterTypeOK
<1>7. Silent'
  BY <1>1, <1>6 DEF FanoutInv, Silent
<1>8. Stored'
  BY <1>1 DEF FanoutInv, Stored, ResultOf, runVars, streakVars, endVars
<1> QED BY <1>3, <1>5, <1>7, <1>8 DEF FanoutInv

LEMMA SpawnKeeps == FanoutInv /\ Spawn => FanoutInv'
<1> SUFFICES ASSUME FanoutInv, Spawn PROVE FanoutInv'
  OBVIOUS
<1> DEFINE n == started + 1
<1>1. /\ parent = "spawn" /\ started < specs
      /\ started' = n /\ wg' = wg + 1 /\ child' = [child EXCEPT ![n] = "top"]
      /\ UNCHANGED <<emitVars, specs, parent, runVars, results, ctxDone>>
  BY DEF Spawn, Started
<1>2. /\ started \in Nat /\ specs \in Nat /\ specs <= Cardinality(Children)
      /\ Cardinality(Children) \in Nat /\ Children = 1..Cardinality(Children)
  BY ActorFacts DEF FanoutInv, TypeOK
<1>3. n \in Children /\ n \in Nat /\ n > started
  BY <1>1, <1>2
<1>4. child \in [Children -> {"unborn", "top", "ask", "doomed", "return", "done", "gone"}]
  BY DEF FanoutInv, TypeOK
<1>5. child[n] = "unborn"
  BY <1>3 DEF FanoutInv, Joining
<1> HIDE DEF n
<1>6. child'[n] = "top" /\ \A c \in Children \ {n} : child'[c] = child[c]
  BY <1>1, <1>3, <1>4
<1>7. 1..started \subseteq Children /\ 1..n = (1..started) \cup {n} /\ n \notin 1..started
  BY <1>1, <1>2 DEF n
<1>8. Present' = Present \cup {n} /\ n \notin Present
  BY <1>1, <1>6, <1>7 DEF Present
<1>9. wg' = Cardinality(Present')
  BY <1>1, <1>8, PresentFinite, FS_AddElement DEF FanoutInv, Joining
<1>10. wg' \in 0..specs /\ started' \in 0..specs
  <2>1. Cardinality(Present) \in Nat /\ Cardinality(Present) <= started
    BY PresentFinite
  <2>2. wg = Cardinality(Present)
    BY DEF FanoutInv, Joining
  <2> QED BY <1>1, <1>2, <2>1, <2>2 DEF n
<1>11. child' \in [Children -> {"unborn", "top", "ask", "doomed", "return", "done", "gone"}]
  BY <1>1, <1>4
<1>12. TypeOK'
  BY <1>1, <1>10, <1>11
     DEF FanoutInv, TypeOK, EmitterTypeOK, emitVars, runVars, streakVars, endVars
<1>13. \A c \in Children : child'[c] = "unborn" <=> c > started'
  <2> SUFFICES ASSUME NEW c \in Children PROVE child'[c] = "unborn" <=> c > started'
    OBVIOUS
  <2>1. child[c] = "unborn" <=> c > started
    BY DEF FanoutInv, Joining
  <2>2. c \in Nat /\ (c # n => (c > started <=> c > n))
    BY <1>2 DEF n
  <2> QED BY <1>1, <1>3, <1>6, <2>1, <2>2
<1>14. Joining'
  BY <1>1, <1>9, <1>13 DEF Joining
<1>15. Silent'
  BY <1>1, <1>6 DEF FanoutInv, Silent, emitVars
<1>16. Stored'
  <2>1. \A c \in Children : ResultOf(c)' = ResultOf(c)
    BY <1>1 DEF ResultOf, runVars, streakVars, endVars
  <2> QED BY <1>1, <1>5, <1>6, <2>1 DEF FanoutInv, Stored, runVars, streakVars, endVars
<1> QED BY <1>12, <1>14, <1>15, <1>16 DEF FanoutInv

LEMMA JoinKeeps == FanoutInv /\ Join => FanoutInv'
<1> SUFFICES ASSUME FanoutInv, Join PROVE FanoutInv'
  OBVIOUS
<1>1. started = specs /\ wg = 0 /\ stage[Caller] = "out" /\ parent' = "returned"
      /\ UNCHANGED <<emitVars, specs, started, wg, child, runVars, results, ctxDone>>
  BY DEF Join, Started
<1>2. Present' = Present
  BY <1>1 DEF Present
<1>3. TypeOK'
  BY <1>1 DEF FanoutInv, TypeOK, EmitterTypeOK, emitVars, runVars, streakVars, endVars
<1>4. Joining'
  BY <1>1, <1>2 DEF FanoutInv, Joining
<1>5. Silent'
  BY <1>1 DEF FanoutInv, Silent, emitVars
<1>6. Stored'
  BY <1>1 DEF FanoutInv, Stored, ResultOf, runVars, streakVars, endVars
<1> QED BY <1>3, <1>4, <1>5, <1>6 DEF FanoutInv

LEMMA CancelKeeps == FanoutInv /\ CancelContext => FanoutInv'
<1> SUFFICES ASSUME FanoutInv, CancelContext PROVE FanoutInv'
  OBVIOUS
<1>1. ctxDone' = TRUE /\ UNCHANGED <<emitVars, spawnVars, child, runVars, results>>
  BY DEF CancelContext
<1>2. Present' = Present
  BY <1>1 DEF Present, spawnVars
<1>3. TypeOK'
  BY <1>1 DEF FanoutInv, TypeOK, EmitterTypeOK, emitVars, spawnVars, runVars, streakVars, endVars
<1>4. Joining'
  BY <1>1, <1>2 DEF FanoutInv, Joining, spawnVars
<1>5. Silent'
  BY <1>1 DEF FanoutInv, Silent, emitVars, spawnVars
<1>6. Stored'
  BY <1>1 DEF FanoutInv, Stored, ResultOf, runVars, streakVars, endVars
<1> QED BY <1>3, <1>4, <1>5, <1>6 DEF FanoutInv

\* A step inside Emit.
LEMMA EmittingKeeps ==
  ASSUME FanoutInv, EmitterInv, NEW a \in Actors, Emitting(a)
  PROVE  FanoutInv'
<1>1. Emit(a) /\ UNCHANGED <<spawnVars, child, runVars, results, ctxDone>>
  BY DEF Emitting
<1>2. EmitterTypeOK'
  BY <1>1, LockKeeps, NumberKeeps, WriteTranscriptKeeps, WriteHumanKeeps DEF Emit, EmitterInv
<1>3. stage[a] # "out" /\ \A b \in Actors \ {a} : stage'[b] = stage[b]
  BY <1>1 DEF Emit, Lock, Number, WriteTranscript, WriteHuman, EmitterInv, EmitterTypeOK
<1>4. TypeOK'
  BY <1>1, <1>2 DEF FanoutInv, TypeOK, spawnVars, runVars, streakVars, endVars
<1>5. Present' = Present
  BY <1>1 DEF Present, spawnVars
<1>6. Joining'
  BY <1>1, <1>5 DEF FanoutInv, Joining, spawnVars
<1>7. Silent'
  <2>1. \A c \in Children : child[c] \in {"unborn", "done", "gone"} => stage'[c] = "out"
    BY <1>3, ActorFacts DEF FanoutInv, Silent
  <2>2. parent \in {"start", "returned"} => stage'[Caller] = "out"
    BY <1>3, ActorFacts DEF FanoutInv, Silent
  <2> QED BY <1>1, <2>1, <2>2 DEF Silent, spawnVars
<1>8. Stored'
  BY <1>1 DEF FanoutInv, Stored, ResultOf, runVars, streakVars, endVars
<1> QED BY <1>4, <1>6, <1>7, <1>8 DEF FanoutInv

----------------------------------------------------------------------------
(* A child's run.                                                          *)

Places == {"unborn", "top", "ask", "doomed", "return", "done", "gone"}

Working == {"top", "ask", "doomed"}

\* A step of child c from a point of its run: it goes on, and the rest of the
\* fan-out does not see it.
LEMMA RunKeeps ==
  ASSUME FanoutInv, NEW c \in Children, child[c] \in Working,
         UNCHANGED <<spawnVars, results, ctxDone>>,
         EmitterTypeOK', \A a \in Actors \ {c} : stage'[a] = stage[a],
         NEW p \in Working \cup {"return"}, child' = [child EXCEPT ![c] = p],
         turns' \in [Children -> Nat], \A d \in Children : turns'[d] <= MaxTurns[d],
         unproductive' \in [Children -> 0..Threshold],
         window' \in [Children -> Seq(Seq(Payload))],
         history' \in [Children -> Seq(Outcome)],
         NEW why \in Reasons, reason' = [reason EXCEPT ![c] = why],
         NEW what \in Details, detail' = [detail EXCEPT ![c] = what],
         \A d \in Children \ {c} :
           turns'[d] = turns[d] /\ unproductive'[d] = unproductive[d],
         why # "running" <=> p = "return",
         why = "running" => unproductive'[c] < Threshold
  PROVE  FanoutInv'
<1>1. /\ child \in [Children -> Places] /\ reason \in [Children -> Reasons]
      /\ detail \in [Children -> Details]
  BY DEF FanoutInv, TypeOK, Places
<1>2. child'[c] = p /\ \A d \in Children \ {c} : child'[d] = child[d]
  BY <1>1
<1>3. p \in Places /\ p \notin {"unborn", "done", "gone"}
      /\ child[c] \notin {"unborn", "return", "done", "gone"}
  BY DEF Places, Working
<1>4. child' \in [Children -> Places]
  BY <1>1, <1>3
<1>5. TypeOK'
  BY <1>1, <1>4 DEF FanoutInv, TypeOK, Places, spawnVars
<1>6. Joining'
  BY <1>2, <1>3, <1>4, CountKept DEF Places, spawnVars
<1>7. Silent'
  BY <1>2, <1>3, ActorFacts DEF FanoutInv, Silent, spawnVars
<1>8. Stored'
  <2>1. \A d \in Children \ {c} : reason'[d] = reason[d] /\ detail'[d] = detail[d]
    BY <1>1
  <2>2. reason'[c] = why
    BY <1>1
  <2>3. \A d \in Children \ {c} : ResultOf(d)' = ResultOf(d)
    BY <2>1 DEF ResultOf
  <2>4. results[c] = NoResult
    BY <1>3 DEF FanoutInv, Stored
  <2> SUFFICES ASSUME NEW d \in Children
               PROVE  /\ reason'[d] # "running" <=> child'[d] \in {"return", "done", "gone"}
                      /\ results'[d] = IF child'[d] \in {"done", "gone"}
                                       THEN ResultOf(d)' ELSE NoResult
                      /\ reason'[d] = "running" => unproductive'[d] < Threshold
    BY DEF Stored
  <2>5. results' = results
    OBVIOUS
  <2>6. CASE d = c
    <3>1. p = "return" <=> p \in {"return", "done", "gone"}
      BY <1>3
    <3> QED BY <1>2, <1>3, <2>2, <2>4, <2>5, <2>6, <3>1
  <2>7. CASE d # c
    <3>1. /\ reason[d] # "running" <=> child[d] \in {"return", "done", "gone"}
          /\ results[d] = IF child[d] \in {"done", "gone"} THEN ResultOf(d) ELSE NoResult
          /\ reason[d] = "running" => unproductive[d] < Threshold
      BY DEF FanoutInv, Stored
    <3> QED BY <1>2, <2>1, <2>3, <2>5, <2>7, <3>1
  <2> QED BY <2>6, <2>7
<1> QED BY <1>5, <1>6, <1>7, <1>8 DEF FanoutInv

\* What is known of a child that is at a point of its run.
LEMMA AtPoint ==
  ASSUME FanoutInv, NEW c \in Children, child[c] \in Working
  PROVE  /\ reason[c] = "running" /\ detail[c] \in Details
         /\ unproductive[c] \in 0..Threshold /\ unproductive[c] < Threshold
         /\ turns[c] \in Nat /\ turns[c] <= MaxTurns[c]
         /\ window[c] \in Seq(Seq(Payload)) /\ history[c] \in Seq(Outcome)
         /\ window \in [Children -> Seq(Seq(Payload))] /\ history \in [Children -> Seq(Outcome)]
         /\ reason = [reason EXCEPT ![c] = "running"] /\ detail = [detail EXCEPT ![c] = detail[c]]
         /\ turns \in [Children -> Nat] /\ unproductive \in [Children -> 0..Threshold]
         /\ \A d \in Children : turns[d] <= MaxTurns[d]
<1>1. reason[c] = "running" /\ unproductive[c] < Threshold
  BY DEF FanoutInv, Stored, Working
<1> QED BY <1>1 DEF FanoutInv, TypeOK

LEMMA BeginEffect ==
  ASSUME FanoutInv, NEW c \in Children, Begin(c)
  PROVE  EmitterTypeOK' /\ \A a \in Actors \ {c} : stage'[a] = stage[a]
<1>1. EmitterTypeOK /\ c \in Actors
  BY ActorFacts DEF FanoutInv, TypeOK
<1>2. EmitterTypeOK'
  BY <1>1, BeginType
<1> QED BY <1>1, <1>2 DEF Begin, EmitterTypeOK

LEMMA RequestKeeps ==
  ASSUME FanoutInv, NEW c \in Children, Request(c)
  PROVE  FanoutInv'
<1>1. /\ child[c] \in Working /\ turns[c] < MaxTurns[c] /\ Begin(c)
      /\ turns' = [turns EXCEPT ![c] = turns[c] + 1]
      /\ \E p \in {"ask", "doomed"} : child' = [child EXCEPT ![c] = p]
      /\ UNCHANGED <<spawnVars, unproductive, window, endVars, history, results, ctxDone>>
  BY DEF Request, At, Working
<1>2. PICK p \in {"ask", "doomed"} : child' = [child EXCEPT ![c] = p]
  BY <1>1
<1>3. EmitterTypeOK' /\ \A a \in Actors \ {c} : stage'[a] = stage[a]
  BY <1>1, BeginEffect
<1>4. /\ turns' \in [Children -> Nat] /\ \A d \in Children : turns'[d] <= MaxTurns[d]
      /\ \A d \in Children \ {c} : turns'[d] = turns[d]
  <2>1. /\ turns \in [Children -> Nat] /\ \A d \in Children : turns[d] <= MaxTurns[d]
    BY <1>1, AtPoint
  <2>2. \A d \in Children \ {c} : turns'[d] = turns[d]
    BY <1>1, <2>1
  <2>3. turns'[c] = turns[c] + 1
    BY <1>1, <2>1
  <2>4. turns[c] + 1 <= MaxTurns[c] /\ turns[c] + 1 \in Nat
    BY <1>1, <2>1, ActorFacts
  <2> QED BY <1>1, <2>1, <2>2, <2>3, <2>4
<1>5. UNCHANGED <<spawnVars, results, ctxDone>> /\ unproductive' = unproductive
      /\ window' = window /\ history' = history /\ reason' = reason /\ detail' = detail
  BY <1>1 DEF endVars
<1>6. reason' = [reason EXCEPT ![c] = "running"] /\ detail' = [detail EXCEPT ![c] = detail[c]]
      /\ detail[c] \in Details
  BY <1>1, <1>5, AtPoint
<1>7. p \in Working \cup {"return"} /\ p # "return" /\ "running" \in Reasons
  BY DEF Working, Reasons
<1>8. unproductive'[c] < Threshold /\ unproductive' \in [Children -> 0..Threshold]
      /\ window' \in [Children -> Seq(Seq(Payload))] /\ history' \in [Children -> Seq(Outcome)]
  BY <1>1, <1>5, AtPoint
<1> QED BY <1>1, <1>2, <1>3, <1>4, <1>5, <1>6, <1>7, <1>8, RunKeeps

\* A run that ends without a diagnosis.
LEMMA EndKeeps ==
  ASSUME FanoutInv, NEW c \in Children, child[c] \in Working,
         NEW why \in {"done", "error", "max_turns"}, End(c, why),
         UNCHANGED <<spawnVars, streakVars, detail, history, results, ctxDone>>
  PROVE  FanoutInv'
<1>1. Begin(c) /\ reason' = [reason EXCEPT ![c] = why] /\ child' = [child EXCEPT ![c] = "return"]
  BY DEF End
<1>2. EmitterTypeOK' /\ \A a \in Actors \ {c} : stage'[a] = stage[a]
  BY <1>1, BeginEffect
<1>3. UNCHANGED <<spawnVars, results, ctxDone>> /\ turns' = turns /\ unproductive' = unproductive
      /\ window' = window /\ history' = history /\ detail' = detail
  BY DEF streakVars
<1>4. detail' = [detail EXCEPT ![c] = detail[c]] /\ detail[c] \in Details
  BY <1>3, AtPoint
<1>5. why \in Reasons /\ why # "running" /\ "return" \in Working \cup {"return"}
  BY DEF Reasons
<1>6. /\ turns' \in [Children -> Nat] /\ \A d \in Children : turns'[d] <= MaxTurns[d]
      /\ unproductive' \in [Children -> 0..Threshold]
      /\ window' \in [Children -> Seq(Seq(Payload))] /\ history' \in [Children -> Seq(Outcome)]
  BY <1>3, AtPoint
<1> QED BY <1>1, <1>2, <1>3, <1>4, <1>5, <1>6, RunKeeps

LEMMA EndingsKeep ==
  ASSUME FanoutInv, NEW c \in Children, RunOutOfTurns(c) \/ RequestFails(c) \/ FinalReply(c)
  PROVE  FanoutInv'
<1>1. child[c] \in Working
  BY DEF RunOutOfTurns, RequestFails, FinalReply, At, Working
<1>2. \E why \in {"done", "error", "max_turns"} :
        End(c, why) /\ UNCHANGED <<spawnVars, streakVars, detail, history, results, ctxDone>>
  BY DEF RunOutOfTurns, RequestFails, FinalReply
<1> QED BY <1>1, <1>2, EndKeeps

LEMMA OutcomeType ==
  ASSUME NEW c \in Children, NEW o \in Outcomes[c]
  PROVE  o \in Outcome /\ o.failed \in Seq(Payload)
BY FanoutAssumption DEF Outcome

LEMMA CapableKeeps ==
  ASSUME FanoutInv, NEW c \in Children, CapableBatch(c)
  PROVE  FanoutInv'
<1>1. PICK o \in Outcomes[c] : history' = [history EXCEPT ![c] = Append(history[c], o)]
  BY DEF CapableBatch
<1>2. /\ child[c] \in Working
      /\ unproductive' = [unproductive EXCEPT ![c] = 0]
      /\ window' = [window EXCEPT ![c] = <<>>]
      /\ child' = [child EXCEPT ![c] = "top"]
      /\ UNCHANGED <<emitVars, spawnVars, turns, endVars, results, ctxDone>>
  BY DEF CapableBatch, At, Working
<1>3. Append(history[c], o) \in Seq(Outcome) /\ <<>> \in Seq(Seq(Payload))
  <2>1. o \in Outcome /\ history[c] \in Seq(Outcome)
    BY <1>2, OutcomeType, AtPoint
  <2> QED BY <2>1, SeqFacts
<1>4. history' \in [Children -> Seq(Outcome)] /\ window' \in [Children -> Seq(Seq(Payload))]
  BY <1>1, <1>2, <1>3, AtPoint
<1>5. /\ turns' = turns
      /\ turns' \in [Children -> Nat] /\ \A d \in Children : turns'[d] <= MaxTurns[d]
  BY <1>2, AtPoint
<1>6. /\ unproductive' \in [Children -> 0..Threshold] /\ unproductive'[c] < Threshold
      /\ \A d \in Children \ {c} : unproductive'[d] = unproductive[d]
  BY <1>2, AtPoint, ActorFacts
<1>7. reason' = [reason EXCEPT ![c] = "running"] /\ detail' = [detail EXCEPT ![c] = detail[c]]
      /\ detail[c] \in Details
  BY <1>2, AtPoint DEF endVars
<1>8. EmitterTypeOK' /\ stage' = stage
  BY <1>2 DEF FanoutInv, TypeOK, EmitterTypeOK, emitVars
<1>9. "top" \in Working \cup {"return"} /\ "running" \in Reasons
  BY DEF Working, Reasons
<1> QED BY <1>2, <1>4, <1>5, <1>6, <1>7, <1>8, <1>9, RunKeeps

LEMMA UnproductiveKeeps ==
  ASSUME FanoutInv, NEW c \in Children, UnproductiveBatch(c)
  PROVE  FanoutInv'
<1>1. PICK o \in Outcomes[c] :
        /\ history' = [history EXCEPT ![c] = Append(history[c], o)]
        /\ window' = [window EXCEPT ![c] = Append(window[c], o.failed)]
  BY DEF UnproductiveBatch
<1>2. /\ child[c] \in Working
      /\ unproductive' = [unproductive EXCEPT ![c] = unproductive[c] + 1]
      /\ UNCHANGED <<spawnVars, turns, results, ctxDone>>
  BY DEF UnproductiveBatch, At, Working
<1>3. Append(history[c], o) \in Seq(Outcome) /\ Append(window[c], o.failed) \in Seq(Seq(Payload))
  <2>1. o \in Outcome /\ o.failed \in Seq(Payload)
    BY OutcomeType
  <2>2. history[c] \in Seq(Outcome) /\ window[c] \in Seq(Seq(Payload))
    BY <1>2, AtPoint
  <2> QED BY <2>1, <2>2, SeqFacts
<1>4. history' \in [Children -> Seq(Outcome)] /\ window' \in [Children -> Seq(Seq(Payload))]
  BY <1>1, <1>2, <1>3, AtPoint
<1>5. /\ turns' = turns
      /\ turns' \in [Children -> Nat] /\ \A d \in Children : turns'[d] <= MaxTurns[d]
  BY <1>2, AtPoint
<1>6. /\ unproductive' \in [Children -> 0..Threshold]
      /\ unproductive'[c] = unproductive[c] + 1
      /\ \A d \in Children \ {c} : unproductive'[d] = unproductive[d]
  <2>1. unproductive[c] + 1 \in 0..Threshold
    BY <1>2, AtPoint, ActorFacts
  <2> QED BY <1>2, <2>1, AtPoint
<1>7. CASE unproductive[c] + 1 >= Threshold
  <2>1. detail' = [detail EXCEPT ![c] = ClassifyIncapable(window'[c])] /\ End(c, "incapable")
    BY <1>7 DEF UnproductiveBatch
  <2>2. ClassifyIncapable(window'[c]) \in Details
    BY DEF ClassifyIncapable, Details
  <2>3. EmitterTypeOK' /\ \A a \in Actors \ {c} : stage'[a] = stage[a]
    BY <2>1, BeginEffect DEF End
  <2>4. reason' = [reason EXCEPT ![c] = "incapable"] /\ child' = [child EXCEPT ![c] = "return"]
    BY <2>1 DEF End
  <2>5. "return" \in Working \cup {"return"} /\ "incapable" \in Reasons
    BY DEF Reasons
  <2> QED BY <1>2, <1>4, <1>5, <1>6, <2>1, <2>2, <2>3, <2>4, <2>5, RunKeeps
<1>8. CASE ~(unproductive[c] + 1 >= Threshold)
  <2>1. child' = [child EXCEPT ![c] = "top"] /\ UNCHANGED <<emitVars, endVars>>
    BY <1>8 DEF UnproductiveBatch
  <2>2. EmitterTypeOK' /\ stage' = stage
    BY <2>1 DEF FanoutInv, TypeOK, EmitterTypeOK, emitVars
  <2>3. reason' = [reason EXCEPT ![c] = "running"] /\ detail' = [detail EXCEPT ![c] = detail[c]]
        /\ detail[c] \in Details
    BY <1>2, <2>1, AtPoint DEF endVars
  <2>4. unproductive'[c] < Threshold
    <3>1. unproductive[c] \in 0..Threshold
      BY <1>2, AtPoint
    <3> QED BY <1>6, <1>8, <3>1, ActorFacts
  <2>5. "top" \in Working \cup {"return"} /\ "running" \in Reasons
    BY DEF Working, Reasons
  <2> QED BY <1>2, <1>4, <1>5, <1>6, <2>1, <2>2, <2>3, <2>4, <2>5, RunKeeps
<1> QED BY <1>7, <1>8

LEMMA StoreKeeps ==
  ASSUME FanoutInv, NEW c \in Children, StoreResult(c)
  PROVE  FanoutInv'
<1>1. /\ child[c] = "return" /\ stage[c] = "out"
      /\ results' = [results EXCEPT ![c] = ResultOf(c)]
      /\ child' = [child EXCEPT ![c] = "done"]
      /\ UNCHANGED <<emitVars, spawnVars, runVars, ctxDone>>
  BY DEF StoreResult, At
<1>2. /\ child \in [Children -> Places] /\ results \in [Children -> Result \cup {NoResult}]
      /\ reason[c] \in Reasons /\ detail[c] \in Details /\ turns[c] \in Nat
  BY DEF FanoutInv, TypeOK, Places
<1>3. ResultOf(c) \in Result
  BY <1>2 DEF ResultOf, Result
<1>4. child' \in [Children -> Places] /\ results' \in [Children -> Result \cup {NoResult}]
  BY <1>1, <1>2, <1>3 DEF Places
<1>5. TypeOK'
  BY <1>1, <1>4 DEF FanoutInv, TypeOK, EmitterTypeOK, Places, emitVars, spawnVars, runVars,
                    streakVars, endVars
<1>6. child'[c] = "done" /\ results'[c] = ResultOf(c)
      /\ \A d \in Children \ {c} : child'[d] = child[d] /\ results'[d] = results[d]
  BY <1>1, <1>2
<1>7. Joining'
  BY <1>1, <1>4, <1>6, CountKept DEF Places, spawnVars
<1>8. Silent'
  BY <1>1, <1>6 DEF FanoutInv, Silent, emitVars, spawnVars
<1>9. Stored'
  <2>1. \A d \in Children : ResultOf(d)' = ResultOf(d)
    BY <1>1 DEF ResultOf, runVars, streakVars, endVars
  <2>2. reason' = reason /\ unproductive' = unproductive
    BY <1>1 DEF runVars, streakVars, endVars
  <2> QED BY <1>1, <1>6, <2>1, <2>2 DEF FanoutInv, Stored
<1> QED BY <1>5, <1>7, <1>8, <1>9 DEF FanoutInv

LEMMA DoneKeeps ==
  ASSUME FanoutInv, NEW c \in Children, Done(c)
  PROVE  FanoutInv'
<1>1. /\ child[c] = "done" /\ wg' = wg - 1 /\ child' = [child EXCEPT ![c] = "gone"]
      /\ UNCHANGED <<emitVars, specs, parent, started, runVars, results, ctxDone>>
  BY DEF Done
<1>2. /\ child \in [Children -> Places] /\ started \in 0..specs /\ specs \in Nat
      /\ wg \in 0..specs /\ Children \subseteq Nat
  BY ActorFacts DEF FanoutInv, TypeOK, Places
<1>3. child'[c] = "gone" /\ \A d \in Children \ {c} : child'[d] = child[d]
  BY <1>1, <1>2
<1>4. c \in 1..started
  <2>1. ~(c > started) /\ c \in Children
    BY <1>1 DEF FanoutInv, Joining
  <2>2. c >= 1 /\ c \in Nat
    BY ActorFacts
  <2> QED BY <1>2, <2>1, <2>2
<1>5. Present' = Present \ {c} /\ c \in Present
  <2>1. 1..started \subseteq Children
    BY ActorFacts DEF FanoutInv, TypeOK
  <2> QED BY <1>1, <1>3, <1>4, <2>1 DEF Present
<1>6. wg' = Cardinality(Present') /\ wg > 0
  <2>1. wg = Cardinality(Present) /\ IsFiniteSet(Present) /\ Cardinality(Present) \in Nat
    BY PresentFinite DEF FanoutInv, Joining
  <2>2. Cardinality(Present') = Cardinality(Present) - 1
    BY <1>5, <2>1, FS_RemoveElement
  <2>3. Cardinality(Present) # 0
    BY <1>5, <2>1, FS_EmptySet
  <2> QED BY <1>1, <2>1, <2>2, <2>3
<1>7. wg' \in 0..specs
  BY <1>1, <1>2, <1>6
<1>8. child' \in [Children -> Places]
  BY <1>1, <1>2 DEF Places
<1>9. TypeOK'
  BY <1>1, <1>7, <1>8 DEF FanoutInv, TypeOK, EmitterTypeOK, Places, emitVars, runVars,
                          streakVars, endVars
<1>10. Joining'
  <2>1. \A d \in Children : child'[d] = "unborn" <=> d > started'
    BY <1>1, <1>3 DEF FanoutInv, Joining
  <2>2. parent # "returned"
    BY <1>6 DEF FanoutInv, Joining
  <2> QED BY <1>1, <1>6, <2>1, <2>2 DEF FanoutInv, Joining
<1>11. Silent'
  BY <1>1, <1>3 DEF FanoutInv, Silent, emitVars
<1>12. Stored'
  <2>1. \A d \in Children : ResultOf(d)' = ResultOf(d)
    BY <1>1 DEF ResultOf, runVars, streakVars, endVars
  <2>2. reason' = reason /\ unproductive' = unproductive /\ results' = results
    BY <1>1 DEF runVars, streakVars, endVars
  <2> QED BY <1>1, <1>3, <2>1, <2>2 DEF FanoutInv, Stored
<1> QED BY <1>9, <1>10, <1>11, <1>12 DEF FanoutInv

LEMMA NextKeeps == FanoutInv /\ EmitterInv /\ [Next]_vars => FanoutInv'
<1> SUFFICES ASSUME FanoutInv, EmitterInv, [Next]_vars PROVE FanoutInv'
  OBVIOUS
<1>1. CASE CallerStep
  BY <1>1, ActorFacts, ReturnNothingKeeps, AnnounceKeeps, SpawnKeeps, JoinKeeps, EmittingKeeps
     DEF CallerStep
<1>2. ASSUME NEW c \in Children, ChildStep(c) PROVE FanoutInv'
  <2>1. CASE Request(c)
    BY <2>1, RequestKeeps
  <2>2. CASE RunOutOfTurns(c) \/ RequestFails(c) \/ FinalReply(c)
    BY <2>2, EndingsKeep
  <2>3. CASE CapableBatch(c)
    BY <2>3, CapableKeeps
  <2>4. CASE UnproductiveBatch(c)
    BY <2>4, UnproductiveKeeps
  <2>5. CASE StoreResult(c)
    BY <2>5, StoreKeeps
  <2>6. CASE Done(c)
    BY <2>6, DoneKeeps
  <2>7. CASE Emitting(c)
    BY <2>7, ActorFacts, EmittingKeeps
  <2> QED BY <1>2, <2>1, <2>2, <2>3, <2>4, <2>5, <2>6, <2>7 DEF ChildStep
<1>3. CASE CancelContext
  BY <1>3, CancelKeeps
<1>4. CASE Returned \/ UNCHANGED vars
  <2>1. UNCHANGED vars
    BY <1>4 DEF Returned
  <2>2. Present' = Present
    BY <2>1 DEF Present, vars, spawnVars
  <2>3. TypeOK'
    BY <2>1 DEF FanoutInv, TypeOK, EmitterTypeOK, vars, emitVars, spawnVars, runVars, streakVars,
                endVars
  <2>4. Joining' /\ Silent'
    BY <2>1, <2>2 DEF FanoutInv, Joining, Silent, vars, emitVars, spawnVars
  <2>5. Stored'
    BY <2>1 DEF FanoutInv, Stored, ResultOf, vars, runVars, streakVars, endVars
  <2> QED BY <2>3, <2>4, <2>5 DEF FanoutInv
<1> QED BY <1>1, <1>2, <1>3, <1>4 DEF Next

LEMMA Always == Spec => [](FanoutInv /\ EmitterInv /\ AllShown)
BY InitInv, NextKeeps, EmitterHeld, PTL DEF Spec

----------------------------------------------------------------------------
(* The diagnosis.                                                          *)

\* The streak that is counted is the current one: u turns, whose failed payloads
\* are kept, since the last that could drive a tool.
Tracks(h, w, u) ==
  /\ u = Len(w) /\ u <= Len(h)
  /\ \A t \in 1..u : ~h[Len(h) - u + t].capable /\ h[Len(h) - u + t].failed = w[t]
  /\ u = Len(h) \/ h[Len(h) - u].capable

DiagnosisInv ==
  \A c \in Children :
    /\ Tracks(history[c], window[c], unproductive[c])
    /\ reason[c] = "incapable" <=> unproductive[c] = Threshold
    /\ detail[c] = IF reason[c] = "incapable" THEN ClassifyIncapable(window[c]) ELSE "none"

LEMMA TracksCapable ==
  ASSUME NEW h \in Seq(Outcome), NEW o \in Outcome, o.capable
  PROVE  Tracks(Append(h, o), <<>>, 0)
<1>1. Len(Append(h, o)) = Len(h) + 1 /\ Append(h, o)[Len(h) + 1] = o /\ Len(h) \in Nat
  OBVIOUS
<1>2. Append(h, o)[Len(Append(h, o)) - 0].capable
  BY <1>1
<1> QED BY <1>1, <1>2 DEF Tracks

LEMMA TracksFailing ==
  ASSUME NEW h \in Seq(Outcome), NEW w \in Seq(Seq(Payload)), NEW u \in Nat, Tracks(h, w, u),
         NEW o \in Outcome, ~o.capable
  PROVE  Tracks(Append(h, o), Append(w, o.failed), u + 1)
<1> DEFINE g == Append(h, o)
           v == Append(w, o.failed)
<1>1. /\ Len(h) \in Nat /\ Len(g) = Len(h) + 1 /\ g[Len(h) + 1] = o
      /\ \A m \in 1..Len(h) : g[m] = h[m]
  OBVIOUS
<1>2. Len(w) = u /\ u <= Len(h)
  BY DEF Tracks
<1>3. Len(v) = u + 1 /\ v[u + 1] = o.failed /\ \A t \in 1..u : v[t] = w[t]
  BY <1>2
<1> HIDE DEF g, v
<1>4. Len(g) - (u + 1) = Len(h) - u
  BY <1>1
<1>5. ASSUME NEW t \in 1..(u + 1)
      PROVE  ~g[Len(h) - u + t].capable /\ g[Len(h) - u + t].failed = v[t]
  <2>1. CASE t = u + 1
    <3>1. Len(h) - u + t = Len(h) + 1
      BY <1>1, <2>1
    <3> QED BY <1>1, <1>3, <2>1, <3>1
  <2>2. CASE t \in 1..u
    <3>1. Len(h) - u + t \in 1..Len(h)
      BY <1>1, <1>2, <2>2
    <3>2. ~h[Len(h) - u + t].capable /\ h[Len(h) - u + t].failed = w[t]
      BY <2>2 DEF Tracks
    <3> QED BY <1>1, <1>3, <2>2, <3>1, <3>2
  <2> QED BY <2>1, <2>2
<1>6. u + 1 = Len(g) \/ g[Len(h) - u].capable
  <2>1. CASE u = Len(h)
    BY <1>1, <2>1
  <2>2. CASE u # Len(h)
    <3>1. Len(h) - u \in 1..Len(h)
      BY <1>1, <1>2, <2>2
    <3>2. h[Len(h) - u].capable
      BY <2>2 DEF Tracks
    <3> QED BY <1>1, <3>1, <3>2
  <2> QED BY <2>1, <2>2
<1>7. u + 1 <= Len(g)
  BY <1>1, <1>2
<1>8. Tracks(g, v, u + 1)
  BY <1>3, <1>4, <1>5, <1>6, <1>7 DEF Tracks
<1> QED BY <1>8 DEF g, v

LEMMA InitDiagnosis == Init => DiagnosisInv
<1> SUFFICES ASSUME Init, NEW c \in Children
             PROVE  /\ Tracks(history[c], window[c], unproductive[c])
                    /\ reason[c] = "incapable" <=> unproductive[c] = Threshold
                    /\ detail[c] = IF reason[c] = "incapable"
                                   THEN ClassifyIncapable(window[c]) ELSE "none"
  BY DEF DiagnosisInv
<1>1. /\ history[c] = <<>> /\ window[c] = <<>> /\ unproductive[c] = 0
      /\ reason[c] = "running" /\ detail[c] = "none"
  BY DEF Init
<1>2. Tracks(<<>>, <<>>, 0)
  BY DEF Tracks
<1> QED BY <1>1, <1>2, ActorFacts

\* A step that leaves the streaks and the diagnoses alone, and makes no run
\* incapable.
LEMMA DiagnosisKept ==
  ASSUME DiagnosisInv, UNCHANGED <<history, window, unproductive, detail>>,
         \A c \in Children : reason'[c] = "incapable" <=> reason[c] = "incapable"
  PROVE  DiagnosisInv'
BY DEF DiagnosisInv

LEMMA CapableDiagnosis ==
  ASSUME FanoutInv, DiagnosisInv, NEW c \in Children, CapableBatch(c)
  PROVE  DiagnosisInv'
<1>1. PICK o \in Outcomes[c] :
        o.capable /\ history' = [history EXCEPT ![c] = Append(history[c], o)]
  BY DEF CapableBatch
<1>2. /\ child[c] \in Working
      /\ unproductive' = [unproductive EXCEPT ![c] = 0]
      /\ window' = [window EXCEPT ![c] = <<>>]
      /\ reason' = reason /\ detail' = detail
  BY DEF CapableBatch, At, Working, endVars
<1>3. /\ reason[c] = "running" /\ history[c] \in Seq(Outcome)
      /\ window \in [Children -> Seq(Seq(Payload))] /\ history \in [Children -> Seq(Outcome)]
      /\ unproductive \in [Children -> 0..Threshold]
  BY <1>2, AtPoint
<1>4. Tracks(history'[c], window'[c], unproductive'[c])
  <2>1. Tracks(Append(history[c], o), <<>>, 0)
    BY <1>1, <1>3, OutcomeType, TracksCapable
  <2> QED BY <1>1, <1>2, <1>3, <2>1
<1>5. \A d \in Children \ {c} :
        history'[d] = history[d] /\ window'[d] = window[d] /\ unproductive'[d] = unproductive[d]
  BY <1>1, <1>2, <1>3
<1>6. unproductive'[c] # Threshold /\ detail[c] = "none"
  BY <1>2, <1>3, ActorFacts DEF DiagnosisInv
<1> SUFFICES ASSUME NEW d \in Children
             PROVE  /\ Tracks(history'[d], window'[d], unproductive'[d])
                    /\ reason'[d] = "incapable" <=> unproductive'[d] = Threshold
                    /\ detail'[d] = IF reason'[d] = "incapable"
                                    THEN ClassifyIncapable(window'[d]) ELSE "none"
  BY DEF DiagnosisInv
<1>7. CASE d = c
  BY <1>2, <1>3, <1>4, <1>6, <1>7
<1>8. CASE d # c
  BY <1>2, <1>5, <1>8 DEF DiagnosisInv
<1> QED BY <1>7, <1>8

LEMMA UnproductiveDiagnosis ==
  ASSUME FanoutInv, DiagnosisInv, NEW c \in Children, UnproductiveBatch(c)
  PROVE  DiagnosisInv'
<1>1. PICK o \in Outcomes[c] :
        /\ ~o.capable
        /\ history' = [history EXCEPT ![c] = Append(history[c], o)]
        /\ window' = [window EXCEPT ![c] = Append(window[c], o.failed)]
  BY DEF UnproductiveBatch
<1>2. child[c] \in Working /\ unproductive' = [unproductive EXCEPT ![c] = unproductive[c] + 1]
  BY DEF UnproductiveBatch, At, Working
<1>3. /\ reason[c] = "running" /\ history[c] \in Seq(Outcome) /\ window[c] \in Seq(Seq(Payload))
      /\ window \in [Children -> Seq(Seq(Payload))] /\ history \in [Children -> Seq(Outcome)]
      /\ unproductive \in [Children -> 0..Threshold]
      /\ unproductive[c] \in 0..Threshold /\ unproductive[c] < Threshold
  BY <1>2, AtPoint
<1>4. reason \in [Children -> Reasons] /\ detail \in [Children -> Details]
  BY DEF FanoutInv, TypeOK
<1>5. Tracks(history'[c], window'[c], unproductive'[c])
  <2>1. Tracks(history[c], window[c], unproductive[c])
    BY DEF DiagnosisInv
  <2>2. Tracks(Append(history[c], o), Append(window[c], o.failed), unproductive[c] + 1)
    BY <1>1, <1>3, <2>1, OutcomeType, ActorFacts, TracksFailing
  <2> QED BY <1>1, <1>2, <1>3, <2>2
<1>6. \A d \in Children \ {c} :
        history'[d] = history[d] /\ window'[d] = window[d] /\ unproductive'[d] = unproductive[d]
  BY <1>1, <1>2, <1>3
<1>7. unproductive'[c] = unproductive[c] + 1 /\ detail[c] = "none"
  BY <1>2, <1>3 DEF DiagnosisInv
<1>8. /\ reason'[c] = "incapable" <=> unproductive'[c] = Threshold
      /\ detail'[c] = IF reason'[c] = "incapable" THEN ClassifyIncapable(window'[c]) ELSE "none"
      /\ \A d \in Children \ {c} : reason'[d] = reason[d] /\ detail'[d] = detail[d]
  <2>1. CASE unproductive[c] + 1 >= Threshold
    <3>1. /\ detail' = [detail EXCEPT ![c] = ClassifyIncapable(window'[c])]
          /\ reason' = [reason EXCEPT ![c] = "incapable"]
      BY <2>1 DEF UnproductiveBatch, End
    <3>2. unproductive'[c] = Threshold
      BY <1>3, <1>7, <2>1, ActorFacts
    <3> QED BY <1>4, <3>1, <3>2
  <2>2. CASE ~(unproductive[c] + 1 >= Threshold)
    <3>1. reason' = reason /\ detail' = detail
      BY <2>2 DEF UnproductiveBatch, endVars
    <3>2. unproductive'[c] # Threshold
      BY <1>3, <1>7, <2>2, ActorFacts
    <3> QED BY <1>3, <1>7, <3>1, <3>2
  <2> QED BY <2>1, <2>2
<1> SUFFICES ASSUME NEW d \in Children
             PROVE  /\ Tracks(history'[d], window'[d], unproductive'[d])
                    /\ reason'[d] = "incapable" <=> unproductive'[d] = Threshold
                    /\ detail'[d] = IF reason'[d] = "incapable"
                                    THEN ClassifyIncapable(window'[d]) ELSE "none"
  BY DEF DiagnosisInv
<1>9. CASE d = c
  BY <1>5, <1>8, <1>9
<1>10. CASE d # c
  BY <1>6, <1>8, <1>10 DEF DiagnosisInv
<1> QED BY <1>9, <1>10

LEMMA NextDiagnosis == FanoutInv /\ DiagnosisInv /\ [Next]_vars => DiagnosisInv'
<1> SUFFICES ASSUME FanoutInv, DiagnosisInv, [Next]_vars PROVE DiagnosisInv'
  OBVIOUS
<1>1. ASSUME NEW c \in Children,
             RunOutOfTurns(c) \/ RequestFails(c) \/ FinalReply(c)
      PROVE  DiagnosisInv'
  <2>1. child[c] \in Working
    BY <1>1 DEF RunOutOfTurns, RequestFails, FinalReply, At, Working
  <2>2. PICK why \in {"done", "error", "max_turns"} : reason' = [reason EXCEPT ![c] = why]
    BY <1>1 DEF RunOutOfTurns, RequestFails, FinalReply, End
  <2>3. UNCHANGED <<history, window, unproductive, detail>>
    BY <1>1 DEF RunOutOfTurns, RequestFails, FinalReply, streakVars
  <2>4. reason \in [Children -> Reasons] /\ reason[c] = "running"
    BY <2>1, AtPoint DEF FanoutInv, TypeOK
  <2>5. \A d \in Children : reason'[d] = "incapable" <=> reason[d] = "incapable"
    BY <2>2, <2>4
  <2> QED BY <2>3, <2>5, DiagnosisKept
<1>2. ASSUME NEW c \in Children,
             Request(c) \/ StoreResult(c) \/ Done(c) \/ Emitting(c)
      PROVE  DiagnosisInv'
  <2>1. UNCHANGED <<history, window, unproductive, reason, detail>>
    BY <1>2 DEF Request, StoreResult, Done, Emitting, runVars, streakVars, endVars
  <2> QED BY <2>1, DiagnosisKept
<1>3. CASE CallerStep \/ CancelContext \/ Returned \/ UNCHANGED vars
  <2>1. UNCHANGED <<history, window, unproductive, reason, detail>>
    BY <1>3 DEF CallerStep, ReturnNothing, Announce, Spawn, Join, Emitting, CancelContext,
                Returned, vars, runVars, streakVars, endVars
  <2> QED BY <2>1, DiagnosisKept
<1> QED BY <1>1, <1>2, <1>3, CapableDiagnosis, UnproductiveDiagnosis DEF Next, ChildStep

LEMMA DiagnosisAlways == Spec => [](FanoutInv /\ DiagnosisInv)
BY InitDiagnosis, NextDiagnosis, Always, PTL DEF Spec

\* The turns that are counted are the ones since the last that could drive a
\* tool.
LEMMA StreakTracked ==
  ASSUME NEW c \in Children, history[c] \in Seq(Outcome), NEW w, NEW u \in Nat,
         Tracks(history[c], w, u)
  PROVE  /\ CurrentStreak(c) \in Seq(Outcome) /\ Len(CurrentStreak(c)) = u
         /\ \A t \in 1..u : CurrentStreak(c)[t].failed = w[t]
<1> DEFINE h == history[c]
           k == Len(h) - u
           From(n) == /\ n = 0 \/ h[n].capable
                      /\ \A m \in (n + 1)..Len(h) : ~h[m].capable
<1>1. Len(h) \in Nat /\ u <= Len(h) /\ k \in 0..Len(h) /\ k + u = Len(h)
  BY DEF Tracks
<1>2. /\ k = 0 \/ h[k].capable
      /\ \A t \in 1..u : ~h[k + t].capable /\ h[k + t].failed = w[t]
  <2>1. u = Len(h) \/ h[Len(h) - u].capable
    BY DEF Tracks
  <2>2. \A t \in 1..u :
          ~h[Len(h) - u + t].capable /\ h[Len(h) - u + t].failed = w[t]
    BY DEF Tracks
  <2>3. u = Len(h) => k = 0
    BY <1>1
  <2>4. k = 0 \/ h[k].capable
    BY <2>1, <2>3
  <2>5. \A t \in 1..u : ~h[k + t].capable /\ h[k + t].failed = w[t]
    BY ONLY <2>2
  <2> QED BY <2>4, <2>5
<1> HIDE DEF k
<1>3. From(k)
  <2> SUFFICES ASSUME NEW m \in (k + 1)..Len(h) PROVE ~h[m].capable
    BY <1>2
  <2>1. m - k \in 1..u /\ k + (m - k) = m
    BY <1>1
  <2>2. ~h[k + (m - k)].capable
    BY <1>2, <2>1
  <2> QED BY <2>1, <2>2
<1>4. ASSUME NEW n \in 0..Len(h), From(n) PROVE n = k
  <2>1. CASE n < k
    <3>1. k \in (n + 1)..Len(h) /\ k # 0
      BY <1>1, <2>1
    <3> QED BY <1>3, <1>4, <3>1
  <2>2. CASE n > k
    <3>1. n \in (k + 1)..Len(h) /\ n # 0
      BY <1>1, <2>2
    <3> QED BY <1>3, <1>4, <3>1
  <2> QED BY <1>1, <2>1, <2>2
<1>5. (CHOOSE n \in 0..Len(h) : From(n)) = k
  BY <1>1, <1>3, <1>4
<1>6. CurrentStreak(c) = SubSeq(h, k + 1, Len(h))
  BY <1>5 DEF CurrentStreak
<1> HIDE DEF From
<1>7. /\ Len(SubSeq(h, k + 1, Len(h))) = u
      /\ SubSeq(h, k + 1, Len(h)) \in Seq(Outcome)
  BY <1>1
<1>8. ASSUME NEW t \in 1..u PROVE SubSeq(h, k + 1, Len(h))[t].failed = w[t]
  <2>1. SubSeq(h, k + 1, Len(h))[t] = h[k + t]
    BY <1>1
  <2>2. h[k + t].failed = w[t]
    BY <1>2
  <2> QED BY <2>1, <2>2
<1> QED BY <1>6, <1>7, <1>8

\* The payloads a sequence holds are finitely many.
LEMMA FinitePayloads ==
  ASSUME NEW p \in Seq(Payload)
  PROVE  IsFiniteSet({p[k] : k \in DOMAIN p})
<1> DEFINE f == [k \in DOMAIN p |-> p[k]]
           T == {p[k] : k \in DOMAIN p}
<1>1. f \in [DOMAIN p -> T] /\ \A x \in T : \E k \in DOMAIN p : f[k] = x
  OBVIOUS
<1> HIDE DEF f, T
<1>2. f \in Surjection(DOMAIN p, T)
  BY <1>1, Fun_IsSurj
<1>3. IsFiniteSet(DOMAIN p)
  <2>1. DOMAIN p = 1..Len(p) /\ 1 \in Int /\ Len(p) \in Int
    OBVIOUS
  <2> QED BY <2>1, FS_Interval
<1>4. IsFiniteSet(T)
  BY <1>2, <1>3, FS_Surjection
<1> QED BY <1>4 DEF T

LEMMA FiniteRetained ==
  ASSUME NEW w \in Seq(Seq(Payload))
  PROVE  IsFiniteSet(Retained(w))
<1> DEFINE S == {{w[t][k] : k \in DOMAIN w[t]} : t \in DOMAIN w}
           f == [t \in DOMAIN w |-> {w[t][k] : k \in DOMAIN w[t]}]
<1>1. \A T \in S : IsFiniteSet(T)
  <2> SUFFICES ASSUME NEW t \in DOMAIN w PROVE IsFiniteSet({w[t][k] : k \in DOMAIN w[t]})
    OBVIOUS
  <2>1. w[t] \in Seq(Payload)
    OBVIOUS
  <2> QED BY <2>1, FinitePayloads
<1>2. f \in [DOMAIN w -> S] /\ \A T \in S : \E t \in DOMAIN w : f[t] = T
  OBVIOUS
<1>3. IsFiniteSet(DOMAIN w)
  <2>1. DOMAIN w = 1..Len(w) /\ 1 \in Int /\ Len(w) \in Int
    OBVIOUS
  <2> QED BY <2>1, FS_Interval
<1>4. Retained(w) = UNION S
  BY DEF Retained
<1> HIDE DEF f, S
<1>5. f \in Surjection(DOMAIN w, S)
  BY <1>2, Fun_IsSurj
<1>6. IsFiniteSet(S)
  BY <1>3, <1>5, FS_Surjection
<1> QED BY <1>1, <1>4, <1>6, FS_UNION

\* When every turn kept payloads, they are the first one over and over exactly
\* when there is one.
LEMMA OnePayload ==
  ASSUME NEW w \in Seq(Seq(Payload)), ~Unclassifiable(w)
  PROVE  AllIdentical(w) <=> Cardinality(Retained(w)) = 1
<1>1. w # <<>> /\ \A t \in DOMAIN w : w[t] # <<>>
  BY DEF Unclassifiable
<1>2. 1 \in DOMAIN w /\ 1 \in DOMAIN w[1]
  <2>1. 1 \in DOMAIN w
    BY <1>1
  <2>2. w[1] \in Seq(Payload) /\ w[1] # <<>>
    BY <1>1, <2>1
  <2> QED BY <2>1, <2>2
<1>3. w[1][1] \in Retained(w)
  BY <1>2 DEF Retained
<1>4. AllIdentical(w) <=> \E x : Retained(w) = {x}
  <2>1. ASSUME AllIdentical(w) PROVE Retained(w) = {w[1][1]}
    BY <1>3, <2>1 DEF AllIdentical
  <2>2. ASSUME NEW x, Retained(w) = {x} PROVE AllIdentical(w)
    BY <1>3, <2>2 DEF AllIdentical
  <2> QED BY <2>1, <2>2
<1> QED BY <1>4, FiniteRetained, FS_Singleton

\* What the classifier says of the kept payloads is what the turns themselves
\* support.
LEMMA ClassifiedAsFailed ==
  ASSUME NEW w \in Seq(Seq(Payload)), NEW s \in Seq(Outcome), Len(s) = Len(w),
         \A t \in 1..Len(w) : s[t].failed = w[t],
         NEW payloads, payloads = UNION {PayloadsOf(s[t]) : t \in DOMAIN s}
  PROVE  LET speaking == s # <<>> /\ \A t \in DOMAIN s : PayloadsOf(s[t]) # {}
             joined   == \A p \in payloads : p.values > 1
             same     == Len(s) > 1 /\ Cardinality(payloads) = 1
         IN  /\ ClassifyIncapable(w) = "concatenated" <=> speaking /\ joined
             /\ ClassifyIncapable(w) = "identical" <=> speaking /\ ~joined /\ same
<1>1. DOMAIN s = DOMAIN w /\ DOMAIN w = 1..Len(w) /\ Len(w) \in Nat
  OBVIOUS
<1>2. \A t \in DOMAIN w : PayloadsOf(s[t]) = {w[t][k] : k \in DOMAIN w[t]}
  BY <1>1 DEF PayloadsOf
<1>3. payloads = Retained(w)
  BY <1>1, <1>2 DEF Retained
<1>4. \A t \in DOMAIN w : PayloadsOf(s[t]) = {} <=> w[t] = <<>>
  <2> SUFFICES ASSUME NEW t \in DOMAIN w PROVE PayloadsOf(s[t]) = {} <=> w[t] = <<>>
    OBVIOUS
  <2>1. w[t] \in Seq(Payload)
    OBVIOUS
  <2>2. {w[t][k] : k \in DOMAIN w[t]} = {} <=> DOMAIN w[t] = {}
    OBVIOUS
  <2>3. DOMAIN w[t] = {} <=> w[t] = <<>>
    BY <2>1
  <2> QED BY <1>2, <2>2, <2>3
<1>5. s = <<>> <=> w = <<>>
  OBVIOUS
<1>6. (s # <<>> /\ \A t \in DOMAIN s : PayloadsOf(s[t]) # {}) <=> ~Unclassifiable(w)
  BY <1>1, <1>4, <1>5 DEF Unclassifiable
<1>7. \A p \in payloads : p.values > 1 <=> Concatenated(p)
  <2> SUFFICES ASSUME NEW t \in DOMAIN w, NEW k \in DOMAIN w[t]
               PROVE  w[t][k].values > 1 <=> Concatenated(w[t][k])
    BY <1>3 DEF Retained
  <2>1. w[t] \in Seq(Payload)
    OBVIOUS
  <2>2. w[t][k] \in Payload
    BY <2>1
  <2>3. w[t][k].values \in Nat
    BY <2>2 DEF Payload
  <2> QED BY <2>3 DEF Concatenated
<1>8. (\A p \in payloads : p.values > 1) <=> \A p \in Retained(w) : Concatenated(p)
  BY <1>3, <1>7
<1>9. ~Unclassifiable(w) =>
        ((Len(s) > 1 /\ Cardinality(payloads) = 1) <=> (Len(w) >= 2 /\ AllIdentical(w)))
  <2>1. Len(s) > 1 <=> Len(w) >= 2
    OBVIOUS
  <2> QED BY <1>3, <2>1, OnePayload
<1> QED BY <1>6, <1>8, <1>9 DEF ClassifyIncapable

LEMMA CurrentlyDiagnosed == FanoutInv /\ DiagnosisInv => DiagnosisCurrent
<1> SUFFICES ASSUME FanoutInv, DiagnosisInv, NEW c \in Children
             PROVE
    LET streak   == CurrentStreak(c)
        payloads == UNION {PayloadsOf(streak[t]) : t \in DOMAIN streak}
        speaking == streak # <<>> /\ \A t \in DOMAIN streak : PayloadsOf(streak[t]) # {}
        joined   == \A p \in payloads : p.values > 1
        same     == Len(streak) > 1 /\ Cardinality(payloads) = 1
    IN  /\ reason[c] = "incapable" <=> Len(streak) = Threshold
        /\ reason[c] = "incapable" =>
             /\ detail[c] = "concatenated" <=> speaking /\ joined
             /\ detail[c] = "identical" <=> speaking /\ ~joined /\ same
        /\ reason[c] # "incapable" => detail[c] = "none"
  BY DEF DiagnosisCurrent
<1>1. /\ Tracks(history[c], window[c], unproductive[c])
      /\ reason[c] = "incapable" <=> unproductive[c] = Threshold
      /\ detail[c] = IF reason[c] = "incapable" THEN ClassifyIncapable(window[c]) ELSE "none"
  BY DEF DiagnosisInv
<1>2. /\ history[c] \in Seq(Outcome) /\ window[c] \in Seq(Seq(Payload))
      /\ unproductive[c] \in Nat
  BY ActorFacts DEF FanoutInv, TypeOK
<1>3. Len(window[c]) = unproductive[c]
  BY <1>1 DEF Tracks
<1>4. /\ CurrentStreak(c) \in Seq(Outcome) /\ Len(CurrentStreak(c)) = unproductive[c]
      /\ \A t \in 1..unproductive[c] : CurrentStreak(c)[t].failed = window[c][t]
  BY <1>1, <1>2, StreakTracked
<1> DEFINE streak   == CurrentStreak(c)
           payloads == UNION {PayloadsOf(streak[t]) : t \in DOMAIN streak}
           speaking == streak # <<>> /\ \A t \in DOMAIN streak : PayloadsOf(streak[t]) # {}
           joined   == \A p \in payloads : p.values > 1
           same     == Len(streak) > 1 /\ Cardinality(payloads) = 1
<1>5. /\ ClassifyIncapable(window[c]) = "concatenated" <=> speaking /\ joined
      /\ ClassifyIncapable(window[c]) = "identical" <=> speaking /\ ~joined /\ same
  <2>1. streak \in Seq(Outcome) /\ Len(streak) = Len(window[c])
        /\ \A t \in 1..Len(window[c]) : streak[t].failed = window[c][t]
    BY <1>3, <1>4
  <2> QED BY <1>2, <2>1, ClassifiedAsFailed
<1>6. reason[c] = "incapable" <=> Len(streak) = Threshold
  BY <1>1, <1>4
<1> HIDE DEF streak, payloads, speaking, joined, same
<1>7. /\ reason[c] = "incapable" <=> Len(streak) = Threshold
      /\ reason[c] = "incapable" =>
           /\ detail[c] = "concatenated" <=> speaking /\ joined
           /\ detail[c] = "identical" <=> speaking /\ ~joined /\ same
      /\ reason[c] # "incapable" => detail[c] = "none"
  BY <1>1, <1>5, <1>6
<1> QED BY <1>7 DEF streak, payloads, speaking, joined, same

----------------------------------------------------------------------------
(* The theorems.                                                           *)

\* Every variable of a fan-out keeps its type: the wait group never goes below
\* zero, and no streak or turn count passes its limit.
THEOREM FanoutTyped == Spec => []TypeOK
<1>1. FanoutInv => TypeOK
  BY DEF FanoutInv
<1> QED BY <1>1, Always, PTL

LEMMA JoinedWhenReturned == FanoutInv /\ AllShown => JoinedComplete
<1> SUFFICES ASSUME FanoutInv, AllShown, parent = "returned" PROVE JoinedComplete
  BY DEF JoinedComplete
<1>1. started = specs /\ wg = 0 /\ Present = {}
  <2>1. started = specs /\ Cardinality(Present) = 0
    BY DEF FanoutInv, Joining
  <2> QED BY <2>1, PresentFinite, FS_EmptySet DEF FanoutInv, Joining
<1>2. /\ specs \in Nat /\ Cardinality(Children) \in Nat /\ specs <= Cardinality(Children)
      /\ Children = 1..Cardinality(Children)
  BY ActorFacts DEF FanoutInv, TypeOK
<1>3. \A c \in 1..specs : child[c] = "gone"
  BY <1>1 DEF Present
<1>4. \A c \in Children \ 1..specs : child[c] = "unborn"
  <2> SUFFICES ASSUME NEW c \in Children, c \notin 1..specs PROVE child[c] = "unborn"
    OBVIOUS
  <2>1. c > started
    BY <1>1, <1>2
  <2> QED BY <2>1 DEF FanoutInv, Joining
<1>5. \A c \in 1..specs : results[c] = ResultOf(c) /\ reason[c] # "running"
  BY <1>2, <1>3 DEF FanoutInv, Stored
<1>6. \A c \in Children \ 1..specs : results[c] = NoResult
  BY <1>4 DEF FanoutInv, Stored
<1>7. \A a \in Actors : stage[a] = "out"
  <2>1. \A c \in Children : child[c] \in {"unborn", "gone"}
    BY <1>3, <1>4
  <2>2. \A c \in Children : stage[c] = "out"
    BY <2>1 DEF FanoutInv, Silent
  <2>3. stage[0] = "out"
    BY DEF FanoutInv, Silent, Caller
  <2> QED BY <2>2, <2>3, ChildrenAssumption
<1>8. human = [n \in 1..seq |-> n]
  BY <1>7 DEF AllShown
<1> QED BY <1>3, <1>5, <1>6, <1>7, <1>8 DEF JoinedComplete

\* For any number of specs: when SpawnSubagents returns, each slot holds its own
\* child's result, no goroutine is left, and every event was shown once and in
\* order.
THEOREM AlwaysJoinedComplete == Spec => []JoinedComplete
BY JoinedWhenReturned, Always, PTL

\* The emitter the children and the caller share records each event in one step.
THEOREM FanoutEmitsAtomically == Spec => EmitsAtomically
BY FanoutEmits, EmitterImplementsLog

\* However the turns of a child come out and whatever its failed arguments hold,
\* it is given up exactly when its current streak reaches the threshold, with
\* the diagnosis that the turns of that streak support and no turn before it.
THEOREM DiagnosisAlwaysCurrent == Spec => []DiagnosisCurrent
BY CurrentlyDiagnosed, DiagnosisAlways, PTL
=============================================================================
