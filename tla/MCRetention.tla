----------------------------- MODULE MCRetention -----------------------------
(***************************************************************************)
(* Small instances of Retention for TLC.                                   *)
(***************************************************************************)
EXTENDS RetentionProperties

CONSTANTS worker, p1

OnePrune == {p1}

\* A quiet gate and one past the cap.
Outputs == {1, 5}

Everything == [event \in Event |-> 1]
OnlyFaults == [event \in Event |-> IF event = "fault" THEN 1 ELSE 0]
=============================================================================
