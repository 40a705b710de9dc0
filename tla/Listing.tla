------------------------------- MODULE Listing -------------------------------
(***************************************************************************)
(* sasse status (src/main.rs; snapshot and branch_summaries of             *)
(* src/queue/store.rs): the queue is listed, or counted, by statements     *)
(* that no transaction holds together, while workers and other commands go *)
(* on.                                                                     *)
(*                                                                         *)
(* What is kept of a listing is the entries it still has to account for:   *)
(* those it has neither listed nor seen sent back since it began.  How     *)
(* many settled entries are asked for (--settled) is taken to be enough.   *)
(***************************************************************************)
EXTENDS QueueProperties

VARIABLE view

listingVars == <<vars, view>>

\* read: how many of a snapshot's statements have been run, all of them being
\* 3; or that the branches of an overview have been listed.
BranchesListed == 4

View == [read : 0..3 \cup {BranchesListed}, missing : SUBSET EntryId]

Unread == [read |-> 0, missing |-> {}]

ListingInit == Init /\ view = Unread

\* Mutant: the settled entries are read first, and the queued ones last.
BackwardStatement == <<{"merged", "evicted"}, {"batched"}, {"queued"}>>

\* snapshot: the predicates of its statements, in order.
Statement == <<{"queued"}, {"batched"}, {"merged", "evicted"}>>

Rows(n) == {e \in EntryId : entry[e].state \in Statement[n]}

Known == {e \in EntryId : entry[e].state # "absent"}

\* Only what is in the queue when the listing begins is asked of it.
Reads ==
    /\ view.read \in 0..2
    /\ LET asked == IF view.read = 0 THEN Known ELSE view.missing
       IN  view' = [read |-> view.read + 1,
                    missing |-> asked \ Rows(view.read + 1)]
    /\ UNCHANGED vars

\* base_branches: what has entries, candidates or a lease has a queue.
HasQueue ==
    \/ Known # {}
    \/ \E c \in CandidateId : candidate[c].state # "absent"
    \/ lease # NoLease

\* branch_summaries: first the branches that have a queue.
ReadsBranches ==
    /\ view.read = 0
    /\ HasQueue
    /\ view' = [read |-> BranchesListed, missing |-> Known]
    /\ UNCHANGED vars

\* Then the entries of each state, merged and evicted ones together, are
\* counted, all in one statement.
Counted == {e \in EntryId : entry[e].state \in EntryState}

Counts ==
    /\ view.read = BranchesListed
    /\ view' = [read |-> 3, missing |-> view.missing \ Counted]
    /\ UNCHANGED vars

\* print_status, print_overview.  The active candidate and the lease, read
\* after the rest, are shown beside it.
Prints ==
    /\ view.read = 3
    /\ view' = Unread
    /\ UNCHANGED vars

\* How far an entry has come on its way through the queue.
Stage == [absent |-> 0, queued |-> 1, batched |-> 2, merged |-> 3, evicted |-> 3]

\* Back in line, or, dequeued after a batch with it had been selected, from
\* its eviction into the candidate.
SentBack ==
    {e \in Known : Stage[entry'[e].state] < Stage[entry[e].state]}

\* What everyone else does meanwhile.  A snapshot is not blamed for what was
\* sent back past it; an overview counts at once, and has no such excuse.
Meanwhile ==
    /\ Next
    /\ view' = [view EXCEPT
          !.missing = IF view.read = BranchesListed THEN @ ELSE @ \ SentBack]

ListingNext == Reads \/ ReadsBranches \/ Counts \/ Prints \/ Meanwhile

ListingSpec == ListingInit /\ [][ListingNext]_listingVars

-----------------------------------------------------------------------------
\* src/queue/store.rs, "The queue as it stands": a listing put together while
\* the queue moves leaves out nothing but entries that were sent back
\* in the meantime; whatever goes forward, into a candidate, onto the base or
\* out, is in one of its parts.  The overview's counts leave out nothing.
ListsAllThatStayed ==
    /\ view \in View
    /\ view.read = 3 => view.missing = {}
=============================================================================
