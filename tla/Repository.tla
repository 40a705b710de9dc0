----------------------------- MODULE Repository -----------------------------
(***************************************************************************)
(* The git operations the worker uses (src/git/).                          *)
(*                                                                         *)
(* A commit is the sequence of changes integrated into it, oldest first,   *)
(* which is what its ancestry amounts to here: two commits are the same    *)
(* exactly when they integrate the same changes in the same order.  A      *)
(* change is a queued request (a branch at a sha) or a push somebody else  *)
(* made to the base branch.                                                *)
(***************************************************************************)
EXTENDS Naturals, Sequences, SequencesExt

CONSTANTS
    Request,    \* requests that may be queued: a branch at a sha
    Push,       \* changes other people put on the base branch themselves
    Conflicts,  \* sets of changes git cannot merge together
    Checkout    \* integration checkouts

Change == Request \cup Push
Commit == Seq(Change)

ASSUME ChangeAssumption ==
    /\ Request \cap Push = {}
    /\ Conflicts \subseteq SUBSET Change

VARIABLES
    base,       \* the commit the base branch points at
    checkedOut, \* some worktree has the base branch checked out
    head        \* head[k]: the commit integration checkout k is on

gitVars == <<base, checkedOut, head>>

GitTypeOK ==
    /\ base \in Commit
    /\ checkedOut \in BOOLEAN
    /\ head \in [Checkout -> Commit]

GitInit ==
    /\ base = <<>>
    /\ checkedOut = FALSE
    /\ head = [k \in Checkout |-> <<>>]

\* git merge --no-ff: a commit that already contains the change is reported
\* up to date and stays where it is.
Merged(change, commit) ==
    IF Contains(commit, change) THEN commit ELSE Append(commit, change)

\* git merge leaves MERGE_HEAD behind, and the worker aborts the merge.
Conflicted(change, commit) ==
    /\ ~Contains(commit, change)
    /\ \E changes \in Conflicts :
          /\ change \in changes
          /\ changes \ {change} \subseteq ToSet(commit)

\* Mutant: git update-ref without the expected old value.
RefIsAnywhere(from) == TRUE

\* git update-ref <ref> <new> <old>, the atomic compare-and-set.
RefIsAt(from) == base = from
MoveRef(to) == base' = to

\* Somebody pushes to the base branch without going through the queue.
PushToBase ==
    /\ \E change \in Push :
          /\ ~Contains(base, change)
          /\ base' = Append(base, change)
    /\ UNCHANGED <<checkedOut, head>>

\* A developer checks the base branch out.
CheckOutBase ==
    /\ ~checkedOut
    /\ checkedOut' = TRUE
    /\ UNCHANGED <<base, head>>

\* The developer goes back to a feature branch.
LeaveBase ==
    /\ checkedOut
    /\ checkedOut' = FALSE
    /\ UNCHANGED <<base, head>>
=============================================================================
