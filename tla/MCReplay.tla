------------------------------ MODULE MCReplay ------------------------------
(***************************************************************************)
(* A small instance of Replay: two providers, routing values that admit    *)
(* both, one or none of them, and histories of earlier runs.               *)
(***************************************************************************)
EXTENDS Replay

NoRouting == [object |-> TRUE, only |-> Absent, ignore |-> Absent, order |-> Absent]
Bad       == [kind |-> "bad", names |-> <<>>]

SomeRoutings ==
  { NoRouting,
    [NoRouting EXCEPT !.object = FALSE],
    [NoRouting EXCEPT !.order = ListOf(<<"Azure", "Wafer", "Azure">>)],
    [NoRouting EXCEPT !.only = ListOf(<<>>)],
    [NoRouting EXCEPT !.only = ListOf(<<"Azure">>)],
    [NoRouting EXCEPT !.only = ListOf(<<"Wafer", "Azure">>),
                      !.ignore = ListOf(<<"Wafer">>)],
    [NoRouting EXCEPT !.only = Bad],
    [NoRouting EXCEPT !.ignore = Bad],
    [NoRouting EXCEPT !.order = Bad] }

Signed(p) == [details |-> TRUE, provider |-> p, origin |-> p]

SomeHistories ==
  { <<>>,
    <<Signed("Azure"), Plain, Signed("Wafer")>>,
    <<[Signed("Wafer") EXCEPT !.provider = Unreported]>> }
=============================================================================
