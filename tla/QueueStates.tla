---------------------------- MODULE QueueStates ----------------------------
(***************************************************************************)
(* The lifecycles the queue declares (src/queue/state.rs, outcome.rs) and  *)
(* the bisection decision (src/queue/model.rs).                            *)
(*                                                                         *)
(* The tables are what the crate promises: store.rs writes state columns   *)
(* with plain UPDATE statements and never consults them.  Whether every    *)
(* write nevertheless follows an edge is therefore a question for the      *)
(* modules that EXTEND this one.                                           *)
(***************************************************************************)
EXTENDS Naturals, Sequences

EntryState == {"queued", "batched", "merged", "evicted"}
CandidateState == {"building", "testing", "passed", "failed", "superseded"}
Outcome == {"pending", "passed", "culprit", "skipped"}

\* EntryState::can_transition_to.  Batched -> queued is the requeue edge.
EntryEdges ==
    { <<"queued", "batched">>, <<"queued", "evicted">>,
      <<"batched", "queued">>, <<"batched", "merged">>,
      <<"batched", "evicted">> }

\* CandidateState::can_transition_to.
CandidateEdges ==
    { <<"building", "testing">>, <<"building", "superseded">>,
      <<"testing", "passed">>, <<"testing", "failed">>,
      <<"testing", "superseded">> }

\* Outcome::can_transition_to: one verdict per entry and candidate.
OutcomeEdges == {"pending"} \X {"passed", "culprit", "skipped"}

\* The states the partial unique index of the schema constrains.
LiveEntry == {"queued", "batched"}

\* The states active_candidate and supersede_orphans look for.
UnfinishedCandidate == {"building", "testing"}

\* bisect: the half of a failed batch that is tried next.  The other half
\* goes back in the queue; merge order is kept.
LeftHalf(batch) == SubSeq(batch, 1, Len(batch) \div 2)
=============================================================================
