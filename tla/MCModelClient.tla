--------------------------- MODULE MCModelClient ---------------------------
(***************************************************************************)
(* Small instances of ModelClient.                                         *)
(***************************************************************************)
EXTENDS ModelClient

ThreePolicies ==
  { [retries |-> 2, base |-> 3, max |-> 5, jitter |-> FALSE],
    [retries |-> 1, base |-> 4, max |-> 0, jitter |-> TRUE],
    [retries |-> 0, base |-> 0, max |-> 0, jitter |-> FALSE] }

OneRetry == { [retries |-> 1, base |-> 1, max |-> 0, jitter |-> FALSE] }

\* A negative number of seconds, a short wait, and one past the cap.
SomeHeaders == {-1, 1, 9}
============================================================================
