------------------------------ MODULE MCFanout ------------------------------
(***************************************************************************)
(* A small instance of Fanout.                                             *)
(***************************************************************************)
EXTENDS Fanout

TwoChildren == 1..2
ThreeActors == 0..2

\* Pretty-printed and compact copies of one object, one after the other, and
\* plain garbage.
Twice   == [text |-> "twice", values |-> 2]
Garbage == [text |-> "garbage", values |-> 0]

Capable         == [capable |-> TRUE, failed |-> <<>>]
Failing(failed) == [capable |-> FALSE, failed |-> failed]

\* The first child meets every kind of evidence, the second only keeps time.
SomeOutcomes ==
  << {Capable} \cup {Failing(f) : f \in {<<>>, <<Twice>>, <<Garbage>>, <<Twice, Garbage>>}},
     {Capable} >>

SomeTurns == <<4, 1>>
=============================================================================
