-------------------------------- MODULE Store --------------------------------
(***************************************************************************)
(* The queue database (src/queue/store.rs, migrations/): the entry,        *)
(* candidate and candidate_entry tables of one repository and base branch. *)
(*                                                                         *)
(* Each operator below is one transaction, or one statement outside a      *)
(* transaction.  SQLite in WAL mode makes each of them atomic; what is     *)
(* read by one and used by the next is what the worker and the operators'  *)
(* commands are exposed to.  A row no INSERT has made yet is "absent".     *)
(***************************************************************************)
EXTENDS Repository, QueueStates, FiniteSets

CONSTANTS
    MaxEntries,     \* bound: rows of entry
    MaxCandidates,  \* bound: rows of candidate
    NoCommit        \* candidate_sha IS NULL

EntryId == 1..MaxEntries
CandidateId == 1..MaxCandidates

ASSUME StoreAssumption ==
    /\ MaxEntries \in Nat /\ MaxCandidates \in Nat
    /\ NoCommit \notin Commit
    /\ Request # {}

VARIABLES entry, candidate

storeVars == <<entry, candidate>>

EvictReason == {"none", "by hand", "conflict", "gate"}

\* The conflict fault is described as "conflicts with the base branch", the
\* gate fault as "failed the gate on its own".
EntryRow ==
    [state : EntryState \cup {"absent"}, request : Request,
     attempts : Nat, priority : Nat, reason : EvictReason]

CandidateRow ==
    [state : CandidateState \cup {"absent"}, base : Commit,
     sha : Commit \cup {NoCommit}, entries : Seq(EntryId),
     outcome : [EntryId -> Outcome \cup {"none"}]]

StoreTypeOK ==
    /\ entry \in [EntryId -> EntryRow]
    /\ candidate \in [CandidateId -> CandidateRow]

StoreInit ==
    /\ entry = [e \in EntryId |->
                  [state |-> "absent", request |-> CHOOSE r \in Request : TRUE,
                   attempts |-> 0, priority |-> 0, reason |-> "none"]]
    /\ candidate = [c \in CandidateId |->
                     [state |-> "absent", base |-> <<>>, sha |-> NoCommit,
                      entries |-> <<>>, outcome |-> [e \in EntryId |-> "none"]]]

-----------------------------------------------------------------------------
(* Queries.                                                                *)

Queued == {e \in EntryId : entry[e].state = "queued"}
Unfinished == {c \in CandidateId : candidate[c].state \in UnfinishedCandidate}
Members(c) == ToSet(candidate[c].entries)

\* ORDER BY priority DESC, id ASC.
Ahead(e, f) ==
    \/ entry[e].priority > entry[f].priority
    \/ entry[e].priority = entry[f].priority /\ e < f

\* queued_entries: LIMIT comes before the rule about retries.
FirstQueued(limit) ==
    {e \in Queued : Cardinality({f \in Queued : Ahead(f, e)}) < limit}

\* Mutant: retries passed over instead of ending the batch.
BatchWithoutRetries(limit) == {e \in FirstQueued(limit) : entry[e].attempts = 0}

\* Mutant: a retry is batched like any other entry.
BatchMixingRetries(limit) == FirstQueued(limit)

\* select_batch: the run of never-failed entries at the front, or, if the
\* front is a retry, that entry alone.
BatchMembers(limit) ==
    LET front == FirstQueued(limit)
        fresh == {e \in front : \A f \in front :
                    (f = e \/ Ahead(f, e)) => entry[f].attempts = 0}
    IN  IF fresh # {}
        THEN fresh
        ELSE {e \in front : \A f \in front \ {e} : Ahead(e, f)}

InOrder(batch) ==
    \A i, j \in DOMAIN batch : i < j => Ahead(batch[i], batch[j])

Batches(limit) ==
    LET members == BatchMembers(limit)
    IN  {batch \in [1..Cardinality(members) -> members] : InOrder(batch)}

\* active_candidate: ORDER BY id ASC LIMIT 1.
IsActive(c) == c \in Unfinished /\ \A d \in Unfinished : c <= d

\* The partial unique index entry_live_identity would refuse to make e live.
IdentityTaken(e, request) ==
    \E f \in EntryId \ {e} :
        entry[f].state \in LiveEntry /\ entry[f].request = request

-----------------------------------------------------------------------------
(* Statements and transactions.                                            *)

\* enqueue.  The index refuses a request that is already waiting.
InsertEntry(request) ==
    /\ \E e \in EntryId :
          /\ entry[e].state = "absent"
          /\ \A f \in EntryId : f < e => entry[f].state # "absent"
          /\ ~IdentityTaken(e, request)
          /\ entry' = [entry EXCEPT ![e] =
                         [state |-> "queued", request |-> request,
                          attempts |-> 0, priority |-> 0, reason |-> "none"]]
    /\ UNCHANGED candidate

\* dequeue: the UPDATE that follows the check of the state.  Its WHERE clause
\* names the id and nothing else; promote's is the same.
EvictByHand(e) ==
    /\ entry' = [entry EXCEPT ![e].state = "evicted", ![e].reason = "by hand"]
    /\ UNCHANGED candidate

\* Mutant: promote also puts the entry back in line.
RaiseAndRequeue(e) ==
    /\ \E top \in {0} \cup {entry[f].priority : f \in Queued} :
          /\ \A f \in Queued : entry[f].priority <= top
          /\ entry' = [entry EXCEPT ![e].priority = top + 1, ![e].state = "queued"]
    /\ UNCHANGED candidate

\* promote: COALESCE(MAX(priority), 0) + 1 over the entries that are waiting.
RaisePriority(e) ==
    /\ \E top \in {0} \cup {entry[f].priority : f \in Queued} :
          /\ \A f \in Queued : entry[f].priority <= top
          /\ entry' = [entry EXCEPT ![e].priority = top + 1]
    /\ UNCHANGED candidate

\* open_candidate: every entry is moved to batched, whatever it was.
CanOpen(batch) ==
    \A e \in ToSet(batch) : ~IdentityTaken(e, entry[e].request)

\* Mutant: the entries are not moved out of the queue.
OpenWithoutMoving(c, from, batch) ==
    /\ candidate[c].state = "absent"
    /\ \A d \in CandidateId : d < c => candidate[d].state # "absent"
    /\ CanOpen(batch)
    /\ candidate' = [candidate EXCEPT ![c] =
          [state |-> "building", base |-> from, sha |-> NoCommit,
           entries |-> batch,
           outcome |-> [e \in EntryId |->
                          IF e \in ToSet(batch) THEN "pending" ELSE "none"]]]
    /\ UNCHANGED entry

OpenCandidate(c, from, batch) ==
    /\ candidate[c].state = "absent"
    /\ \A d \in CandidateId : d < c => candidate[d].state # "absent"
    /\ CanOpen(batch)
    /\ candidate' = [candidate EXCEPT ![c] =
          [state |-> "building", base |-> from, sha |-> NoCommit,
           entries |-> batch,
           outcome |-> [e \in EntryId |->
                          IF e \in ToSet(batch) THEN "pending" ELSE "none"]]]
    /\ entry' = [e \in EntryId |->
                   IF e \in ToSet(batch)
                   THEN [entry[e] EXCEPT !.state = "batched"] ELSE entry[e]]

\* mark_testing
MarkTesting(c, commit) ==
    /\ candidate' = [candidate EXCEPT ![c].state = "testing", ![c].sha = commit]
    /\ UNCHANGED entry

\* land: everything in the candidate merged.
LandCandidate(c) ==
    /\ candidate' = [candidate EXCEPT
          ![c].state = "passed",
          ![c].outcome = [e \in EntryId |->
                            IF e \in Members(c) THEN "passed"
                            ELSE candidate[c].outcome[e]]]
    /\ entry' = [e \in EntryId |->
                   IF e \in Members(c)
                   THEN [entry[e] EXCEPT !.state = "merged"] ELSE entry[e]]

\* What abandon, blame and supersede_orphans do with the entries of the
\* candidates they finish: only those still batched go back in line.
Requeue(es) ==
    [e \in EntryId |-> IF e \in es /\ entry[e].state = "batched"
                       THEN [entry[e] EXCEPT !.state = "queued"]
                       ELSE entry[e]]

\* Mutant: the entries stay batched.
AbandonWithoutRequeue(c, state) ==
    /\ candidate' = [candidate EXCEPT ![c].state = state]
    /\ UNCHANGED entry

\* abandon: no verdict, so no outcome is written and nobody pays.
AbandonCandidate(c, state) ==
    /\ candidate' = [candidate EXCEPT ![c].state = state]
    /\ entry' = Requeue(Members(c))

\* blame: the culprit pays one attempt and is out once its budget is spent;
\* the others are skipped and go back in line for free.
\* Mutants: attempts counted down, and an entry evicted one attempt late.
SpentDown(culprit) == entry[culprit].attempts - 1
SpentBy(culprit) == entry[culprit].attempts + 1
EvictsLate(culprit, max) == SpentBy(culprit) > max
Evicts(culprit, max) == SpentBy(culprit) >= max
CanBlame(culprit, max) ==
    Evicts(culprit, max) \/ ~IdentityTaken(culprit, entry[culprit].request)

\* Mutant: the attempt is recorded only once the entry is evicted.
PunishedAtTheEnd(culprit, max, reason) ==
    IF Evicts(culprit, max)
    THEN [entry[culprit] EXCEPT !.state = "evicted",
             !.attempts = SpentBy(culprit), !.reason = reason]
    ELSE [entry[culprit] EXCEPT !.state = "queued"]

Punished(culprit, max, reason) ==
    IF Evicts(culprit, max)
    THEN [entry[culprit] EXCEPT !.state = "evicted",
             !.attempts = SpentBy(culprit), !.reason = reason]
    ELSE [entry[culprit] EXCEPT !.state = "queued",
             !.attempts = SpentBy(culprit)]

BlameEntry(c, culprit, max, reason) ==
    /\ CanBlame(culprit, max)
    /\ candidate' = [candidate EXCEPT
          ![c].state = "failed",
          ![c].outcome = [e \in EntryId |->
                            IF e = culprit THEN "culprit"
                            ELSE IF e \in Members(c) THEN "skipped"
                            ELSE candidate[c].outcome[e]]]
    /\ entry' = [Requeue(Members(c) \ {culprit}) EXCEPT
                   ![culprit] = Punished(culprit, max, reason)]

\* Mutant: the candidates are superseded first, so no entry is found by way
\* of an unfinished one.
SupersedeCandidatesFirst ==
    /\ candidate' = [c \in CandidateId |->
                       IF c \in Unfinished
                       THEN [candidate[c] EXCEPT !.state = "superseded"]
                       ELSE candidate[c]]
    /\ UNCHANGED entry

\* supersede_orphans, inside the transaction that reclaims a lease.
SupersedeOrphans ==
    /\ entry' = Requeue(UNION {Members(c) : c \in Unfinished})
    /\ candidate' = [c \in CandidateId |->
                       IF c \in Unfinished
                       THEN [candidate[c] EXCEPT !.state = "superseded"]
                       ELSE candidate[c]]
=============================================================================
