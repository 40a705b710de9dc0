---------------------------- MODULE RocketScience ----------------------------
(***************************************************************************)
(* What the merge queue promises, without saying how: no workers, leases,  *)
(* candidates, batches or databases (README.md, "not rocket science").     *)
(*                                                                         *)
(* Requests are submitted, the base branch moves, and in the end each      *)
(* submission is merged, rejected, or withdrawn by an operator.  The queue *)
(* puts nothing on the base but requests that are waiting, each of them    *)
(* once, and only when the build passes with them; what is on the base     *)
(* stays there; a submission is said to be merged only once its request is *)
(* on the base; and it has one fate, for good.  A withdrawal may come too  *)
(* late: what is waiting may be merged whoever has asked for it to go.     *)
(***************************************************************************)
EXTENDS Naturals, Sequences, SequencesExt

CONSTANTS
    EntryId,  \* submissions
    Request,  \* what may be submitted
    Push,     \* what others may put on the base branch themselves
    Broken    \* sets of changes the build fails on together

VARIABLES
    base,  \* the changes on the base branch, oldest first
    want,  \* want[e]: the request submission e is about
    fate   \* fate[e]: what has become of it

promise == <<base, want, fate>>

Init ==
    /\ base = <<>>
    /\ want \in [EntryId -> Request]
    /\ fate = [e \in EntryId |-> "none"]

Green(commit) == \A changes \in Broken : ~(changes \subseteq ToSet(commit))

Waiting == {e \in EntryId : fate[e] = "waiting"}

Submit ==
    /\ \E e \in EntryId, request \in Request :
          /\ fate[e] = "none"
          /\ fate' = [fate EXCEPT ![e] = "waiting"]
          /\ want' = [want EXCEPT ![e] = request]
    /\ UNCHANGED base

\* The changes a step puts on top of the base.
Added == (Len(base) + 1)..Len(base')

\* One or more waiting requests go on the base together.
Integrate ==
    /\ IsStrictPrefix(base, base')
    /\ \A i \in Added :
          /\ \E e \in Waiting : base'[i] = want[e]
          /\ ~Contains(SubSeq(base', 1, i - 1), base'[i])
    /\ Green(base')
    /\ UNCHANGED <<want, fate>>

\* What was waiting is settled, and nothing else: several at a time.
Settle ==
    /\ fate' \in [EntryId -> {"none", "waiting", "merged", "rejected", "withdrawn"}]
    /\ \A e \in EntryId : fate'[e] # fate[e] =>
          /\ e \in Waiting
          /\ \/ fate'[e] = "merged" /\ Contains(base, want[e])
             \/ fate'[e] \in {"rejected", "withdrawn"}
    /\ UNCHANGED <<base, want>>

\* Somebody pushes; nothing is promised about what that does to the build.
Outside ==
    /\ \E change \in Push : base' = Append(base, change)
    /\ UNCHANGED <<want, fate>>

Next == Submit \/ Integrate \/ Settle \/ Outside

Spec == Init /\ [][Next]_promise
=============================================================================
