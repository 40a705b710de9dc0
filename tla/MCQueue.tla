------------------------------- MODULE MCQueue -------------------------------
(***************************************************************************)
(* Small instances of MergeQueue for TLC.  Requests, pushes, workers and   *)
(* checkouts are model values; budgets say how often each event may        *)
(* happen.                                                                 *)
(***************************************************************************)
EXTENDS Claims, TLC

CONSTANTS a, b, c, d, p, w1, w2

Nothing == {}
OnlyW1 == {w1}
BothWorkers == {w1, w2}
OnlyA == {a}
AB == {a, b}
ABC == {a, b, c}
ABCD == {a, b, c, d}
OnlyP == {p}

\* Each worker was given an integration checkout of its own.
OwnCheckout == [w \in Worker |-> w]

\* Workers are interchangeable when each has its own checkout.
Symmetry == Permutations(Worker)

\* What is wrong with the requests: sets that break the build together, or
\* conflict with one another.
ABreaks == {{a}}
CAndPairs == {{c}, {a, b}, {a, p}}
OnlyC == {{c}}
OnlyD == {{d}}
ABTogether == {{a, b}}

\* Budgets.
Budget(events) == [event \in Event |-> IF event \in events THEN 1 ELSE 0]
Pushes == Budget({"push"})
Deaths == Budget({"crash", "push"})
Mishaps == Budget({"crash", "stop", "fault"})
Overruns == Budget({"overrun"})
Stops == Budget({"stop"})
CommandsAndCheckout == Budget({"dequeue", "promote", "checkout"})
Dequeues == Budget({"dequeue"})
=============================================================================
