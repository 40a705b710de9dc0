----------------------------- MODULE FlightProof -----------------------------
(***************************************************************************)
(* Proof of what the lease buys, for any number of workers, requests,      *)
(* entries, candidates and mishaps: until a tick outlives its lease there  *)
(* is one unfinished candidate at most, its members are batched and nobody *)
(* else is, each entry has paid one attempt for each candidate pinned on   *)
(* it and is evicted when its budget is spent, every write of a state      *)
(* follows the lifecycles, and what on_settle is told is what became of    *)
(* the entry.                                                              *)
(***************************************************************************)
EXTENDS BaseProof

-----------------------------------------------------------------------------
(* The invariant.                                                          *)

\* An entry that may go into a candidate, or is in the one in flight: it has
\* attempts left, nobody was told of it, and it is in the given state unless
\* it was taken out by hand.
Pending(e, state) ==
    /\ entry[e].attempts < MaxAttempts
    /\ told[e] = <<>>
    /\ entry[e].state = state \/ ByHand(entry[e])

\* The candidates an entry was found guilty in.
Convicting(e) ==
    {c \in CandidateId : candidate[c].outcome[e] = "culprit"}

EntryFlight(e) ==
    /\ entry[e].state = "batched" => \E c \in Unfinished : e \in Members(c)
    /\ entry[e].state = "absent" => entry[e].attempts = 0
    /\ entry[e].attempts = Cardinality(Convicting(e))
    /\ entry[e].attempts <= MaxAttempts
    /\ entry[e].attempts = MaxAttempts => entry[e].state = "evicted"
    /\ entry[e].state = "evicted" /\ ~ByHand(entry[e]) =>
          entry[e].attempts = MaxAttempts
    /\ told[e] # <<>> =>
          /\ Len(told[e]) = 1
          /\ told[e] = <<entry[e].state>> \/ ByHand(entry[e])

\* Verdicts are reached when a candidate is finished, never before.
CandidateFlight(c) ==
    /\ IsInjective(candidate[c].entries)
    /\ candidate[c].state = "absent" =>
          \A e \in EntryId : candidate[c].outcome[e] = "none"
    /\ c \in Unfinished =>
          /\ \A e \in EntryId :
                candidate[c].outcome[e] =
                    IF e \in Members(c) THEN "pending" ELSE "none"
          /\ \A e \in Members(c) : Pending(e, "batched")

\* The worker inside a tick works on the candidate in flight, or knows that
\* there is none.
WorkerFlight(w) ==
    /\ wk[w].pc \in {"select", "open", "reopen", "announce"} => Unfinished = {}
    /\ wk[w].pc \in Working =>
          /\ wk[w].cand \in Unfinished
          /\ wk[w].batch = candidate[wk[w].cand].entries
    /\ wk[w].pc \in Complete => candidate[wk[w].cand].state = "testing"
    /\ wk[w].pc \in {"open", "reopen"} =>
          /\ IsInjective(wk[w].batch)
          /\ \A e \in ToSet(wk[w].batch) : Pending(e, "queued")
    /\ wk[w].pc = "announce" =>
          /\ \A i, j \in DOMAIN wk[w].tell :
                wk[w].tell[i][1] = wk[w].tell[j][1] => i = j
          /\ \A i \in DOMAIN wk[w].tell :
                LET event == wk[w].tell[i]
                IN  /\ told[event[1]] = <<>>
                    /\ \/ entry[event[1]].state = event[2]
                       \/ ByHand(entry[event[1]])

\* What holds of the tables and of what was announced.
TablesFlight ==
    /\ \A c, d \in Unfinished : c = d
    /\ \A c \in CandidateId : CandidateFlight(c)
    /\ \A e \in EntryId : EntryFlight(e)

Flight == TablesFlight /\ \A w \in Worker : WorkerFlight(w)

\* The inductive invariant.
FlightInv == NoOverrun => Flight

-----------------------------------------------------------------------------
(* One row at a time.                                                      *)

\* The facts about types the proof needs.
LEMMA RowTypes ==
    ASSUME TypeInv
    PROVE  /\ MaxAttempts \in Nat /\ MaxAttempts # 0
           /\ \A e \in EntryId : entry[e] \in EntryRow
           /\ \A c \in CandidateId : /\ candidate[c].entries \in Seq(EntryId)
                                     /\ candidate[c].state \in CandidateState \cup {"absent"}
                                     /\ Members(c) \subseteq EntryId
           /\ Unfinished \subseteq CandidateId
  <1>1. \A c \in CandidateId : /\ candidate[c].entries \in Seq(EntryId)
                               /\ candidate[c].state \in CandidateState \cup {"absent"}
    BY DEF TypeInv, StoreTypeOK, CandidateRow
  <1>2. \A c \in CandidateId : Members(c) \subseteq EntryId
    BY <1>1 DEF Members, ToSet
  <1> QED BY <1>1, <1>2, QueueAssumption DEF TypeInv, StoreTypeOK, Unfinished

\* What is batched is in the candidate in flight, and pending.
LEMMA BatchedIsPending ==
    ASSUME TypeInv, TablesFlight, NEW e \in EntryId, entry[e].state = "batched"
    PROVE  Pending(e, "batched")
  <1>1. PICK c \in Unfinished : e \in Members(c)
    BY DEF TablesFlight, EntryFlight
  <1> QED BY <1>1, RowTypes DEF TablesFlight, CandidateFlight

\* An entry that stays what it is, or is taken out by hand.
LEMMA EntryFlies ==
    ASSUME NEW e \in EntryId, EntryFlight(e),
           entry'[e].attempts = entry[e].attempts,
           \/ /\ entry'[e].state = entry[e].state
              /\ entry'[e].reason = entry[e].reason
           \/ ByHand(entry'[e]),
           Convicting(e)' = Convicting(e), told'[e] = told[e],
           entry'[e].state = "batched" =>
              \E c \in Unfinished' : e \in Members(c)'
    PROVE  EntryFlight(e)'
  BY DEF EntryFlight, ByHand

\* An entry that is moved in or out of the queue, or onto the base.
LEMMA EntryMoves ==
    ASSUME TypeInv, NEW e \in EntryId, EntryFlight(e),
           entry[e].attempts < MaxAttempts, told[e] = <<>>,
           entry'[e].attempts = entry[e].attempts,
           entry'[e].state \in {"queued", "batched", "merged"},
           Convicting(e)' = Convicting(e), told'[e] = told[e],
           entry'[e].state = "batched" =>
              \E c \in Unfinished' : e \in Members(c)'
    PROVE  EntryFlight(e)'
  <1>1. entry[e].attempts \in Nat /\ MaxAttempts \in Nat
    BY RowTypes DEF EntryRow
  <1>2. entry'[e].attempts <= MaxAttempts /\ entry'[e].attempts # MaxAttempts
    BY <1>1
  <1> QED BY <1>2 DEF EntryFlight

\* A candidate that is not written to.
LEMMA CandidateFlies ==
    ASSUME TypeInv, NEW c \in CandidateId, CandidateFlight(c),
           candidate'[c] = candidate[c],
           c \in Unfinished =>
              \A e \in Members(c) : Pending(e, "batched")'
    PROVE  CandidateFlight(c)'
  BY DEF CandidateFlight, Unfinished, Members

-----------------------------------------------------------------------------
(* Transactions, whoever runs them.                                        *)

\* The candidate in flight is finished, whichever way.
LEMMA Finishing ==
    ASSUME TypeInv, TypeInv', TablesFlight,
           \A c \in CandidateId :
              /\ candidate'[c].entries = candidate[c].entries
              /\ c \in Unfinished =>
                    candidate'[c].state \in {"passed", "failed", "superseded"}
              /\ c \notin Unfinished => candidate'[c] = candidate[c]
    PROVE  /\ Unfinished' = {}
           /\ \A c \in CandidateId : CandidateFlight(c)'
  <1>1. Unfinished' = {}
    BY DEF Unfinished, UnfinishedCandidate
  <1>2. ASSUME NEW c \in CandidateId PROVE CandidateFlight(c)'
    <2>1. CandidateFlight(c)
      BY DEF TablesFlight
    <2>2. CASE c \in Unfinished
      BY <1>1, <2>1, <2>2 DEF CandidateFlight
    <2>3. CASE c \notin Unfinished
      BY <2>1, <2>3, CandidateFlies
    <2> QED BY <2>2, <2>3
  <1> QED BY <1>1, <1>2

\* Whoever is batched goes back in line, with nothing to answer for.
LEMMA Requeueing ==
    ASSUME TypeInv, TypeInv', TablesFlight, NEW es, entry' = Requeue(es),
           \A e \in EntryId : entry[e].state = "batched" => e \in es,
           \A c \in CandidateId :
              candidate'[c].outcome = candidate[c].outcome,
           UNCHANGED told
    PROVE  \A e \in EntryId : EntryFlight(e)'
  <1> SUFFICES ASSUME NEW e \in EntryId PROVE EntryFlight(e)'
    OBVIOUS
  <1>1. EntryFlight(e) /\ Convicting(e)' = Convicting(e)
    BY DEF TablesFlight, Convicting
  <1>2. CASE entry[e].state = "batched"
    <2>1. entry'[e].state = "queued" /\ entry'[e].attempts = entry[e].attempts
      BY <1>2, RowTypes DEF Requeue, EntryRow
    <2>2. Pending(e, "batched")
      BY <1>2, BatchedIsPending
    <2> QED BY <1>1, <2>1, <2>2, EntryMoves DEF Pending
  <1>3. CASE entry[e].state # "batched"
    <2>1. entry'[e] = entry[e]
      BY <1>3 DEF Requeue
    <2> QED BY <1>1, <1>3, <2>1, EntryFlies
  <1> QED BY <1>2, <1>3

\* abandon
LEMMA AbandonFlies ==
    ASSUME TypeInv, TypeInv', TablesFlight, NEW c \in Unfinished,
           NEW state \in {"superseded", "failed"}, AbandonCandidate(c, state),
           UNCHANGED told
    PROVE  Unfinished' = {} /\ TablesFlight'
  <1>1. c \in CandidateId /\ \A d \in Unfinished : d = c
    BY RowTypes DEF TablesFlight
  <1>2. \A d \in CandidateId :
           /\ candidate'[d].entries = candidate[d].entries
           /\ candidate'[d].outcome = candidate[d].outcome
           /\ d = c => candidate'[d].state = state
           /\ d # c => candidate'[d] = candidate[d]
    BY <1>1 DEF AbandonCandidate, TypeInv, StoreTypeOK, CandidateRow
  <1>3. Unfinished' = {} /\ \A d \in CandidateId : CandidateFlight(d)'
    BY <1>1, <1>2, Finishing
  <1>4. \A e \in EntryId : entry[e].state = "batched" => e \in Members(c)
    BY <1>1 DEF TablesFlight, EntryFlight
  <1>5. \A e \in EntryId : EntryFlight(e)'
    BY <1>2, <1>4, Requeueing DEF AbandonCandidate
  <1> QED BY <1>3, <1>5 DEF TablesFlight

\* supersede_orphans
LEMMA SupersedeFlies ==
    ASSUME TypeInv, TypeInv', TablesFlight, SupersedeOrphans, UNCHANGED told
    PROVE  Unfinished' = {} /\ TablesFlight'
  <1>1. \A d \in CandidateId :
           /\ candidate'[d].entries = candidate[d].entries
           /\ candidate'[d].outcome = candidate[d].outcome
           /\ d \in Unfinished => candidate'[d].state = "superseded"
           /\ d \notin Unfinished => candidate'[d] = candidate[d]
    BY DEF SupersedeOrphans, TypeInv, StoreTypeOK, CandidateRow
  <1>2. Unfinished' = {} /\ \A d \in CandidateId : CandidateFlight(d)'
    BY <1>1, Finishing
  <1>3. PICK es : /\ es = UNION {Members(c) : c \in Unfinished}
                  /\ entry' = Requeue(es)
    BY DEF SupersedeOrphans
  <1>4. \A e \in EntryId : entry[e].state = "batched" => e \in es
    BY <1>3 DEF TablesFlight, EntryFlight
  <1>5. \A e \in EntryId : EntryFlight(e)'
    BY <1>1, <1>3, <1>4, Requeueing
  <1> QED BY <1>2, <1>5 DEF TablesFlight

\* mark_testing
LEMMA MarkFlies ==
    ASSUME TypeInv, TypeInv', TablesFlight, NEW c \in Unfinished,
           NEW commit, MarkTesting(c, commit), UNCHANGED told
    PROVE  /\ Unfinished' = Unfinished /\ TablesFlight'
           /\ candidate'[c].state = "testing"
           /\ candidate'[c].entries = candidate[c].entries
  <1>1. /\ c \in CandidateId
        /\ \A d \in CandidateId :
              /\ candidate'[d].entries = candidate[d].entries
              /\ candidate'[d].outcome = candidate[d].outcome
              /\ d = c => candidate'[d].state = "testing"
              /\ d # c => candidate'[d] = candidate[d]
        /\ entry' = entry
    BY RowTypes DEF MarkTesting, TypeInv, StoreTypeOK, CandidateRow
  <1>2. Unfinished' = Unfinished
    BY <1>1 DEF Unfinished, UnfinishedCandidate
  <1>3. ASSUME NEW d \in CandidateId PROVE CandidateFlight(d)'
    <2>1. CandidateFlight(d)
      BY DEF TablesFlight
    <2>2. Members(d)' = Members(d)
      BY <1>1 DEF Members
    <2>3. candidate'[d].state = "absent" => candidate[d].state = "absent"
      BY <1>1
    <2>4. \A e \in Members(d) : Pending(e, "batched") => Pending(e, "batched")'
      BY <1>1 DEF Pending
    <2>5. d \in Unfinished' => d \in Unfinished
      BY <1>2
    <2> QED BY <1>1, <2>1, <2>2, <2>3, <2>4, <2>5 DEF CandidateFlight
  <1>4. ASSUME NEW e \in EntryId PROVE EntryFlight(e)'
    <2>1. EntryFlight(e) /\ Convicting(e)' = Convicting(e)
      BY <1>1 DEF TablesFlight, Convicting
    <2>2. \A d \in Unfinished : Members(d)' = Members(d)
      BY <1>1, RowTypes DEF Members
    <2>3. entry[e].state = "batched" => \E d \in Unfinished : e \in Members(d)
      BY <2>1 DEF EntryFlight
    <2> QED BY <1>1, <1>2, <2>1, <2>2, <2>3, EntryFlies
  <1> QED BY <1>1, <1>2, <1>3, <1>4 DEF TablesFlight

\* open_candidate
LEMMA OpenFlies ==
    ASSUME TypeInv, TypeInv', TablesFlight, Unfinished = {},
           NEW c \in CandidateId, NEW from, NEW batch \in Seq(EntryId),
           IsInjective(batch), \A e \in ToSet(batch) : Pending(e, "queued"),
           OpenCandidate(c, from, batch), UNCHANGED told
    PROVE  /\ Unfinished' = {c} /\ TablesFlight'
           /\ candidate'[c].entries = batch
  <1>1. /\ candidate[c].state = "absent"
        /\ candidate'[c].state = "building" /\ candidate'[c].entries = batch
        /\ \A e \in EntryId : candidate'[c].outcome[e] =
              IF e \in ToSet(batch) THEN "pending" ELSE "none"
        /\ \A d \in CandidateId \ {c} : candidate'[d] = candidate[d]
    BY DEF OpenCandidate, TypeInv, StoreTypeOK
  <1>2. \A e \in EntryId :
           /\ entry'[e].attempts = entry[e].attempts
           /\ entry'[e].reason = entry[e].reason
           /\ entry'[e].state = IF e \in ToSet(batch) THEN "batched"
                                ELSE entry[e].state
    BY DEF OpenCandidate, TypeInv, StoreTypeOK, EntryRow
  <1>3. Unfinished' = {c} /\ Members(c)' = ToSet(batch)
    BY <1>1 DEF Unfinished, UnfinishedCandidate, Members
  <1>4. ToSet(batch) \subseteq EntryId
    BY DEF ToSet
  <1>5. CandidateFlight(c)'
    <2>1. \A e \in ToSet(batch) : Pending(e, "batched")'
      BY <1>2, <1>4 DEF Pending
    <2> QED BY <1>1, <1>3, <2>1 DEF CandidateFlight
  <1>6. ASSUME NEW d \in CandidateId PROVE CandidateFlight(d)'
    <2>1. CandidateFlight(d)
      BY DEF TablesFlight
    <2> QED BY <1>1, <1>5, <2>1, CandidateFlies
  <1>7. ASSUME NEW e \in EntryId PROVE EntryFlight(e)'
    <2>1. EntryFlight(e) /\ CandidateFlight(c)
      BY DEF TablesFlight
    <2>2. Convicting(e)' = Convicting(e)
      BY <1>1, <2>1 DEF CandidateFlight, Convicting
    <2>3. CASE e \in ToSet(batch)
      <3>1. Pending(e, "queued")
        BY <2>3
      <3> QED BY <1>2, <1>3, <2>1, <2>2, <2>3, <3>1, EntryMoves DEF Pending
    <2>4. CASE e \notin ToSet(batch)
      <3>1. entry[e].state # "batched"
        BY <2>1 DEF EntryFlight
      <3> QED BY <1>2, <2>1, <2>2, <2>4, <3>1, EntryFlies
    <2> QED BY <2>3, <2>4
  <1> QED BY <1>1, <1>3, <1>6, <1>7 DEF TablesFlight

\* land
LEMMA LandFlies ==
    ASSUME TypeInv, TypeInv', TablesFlight, NEW c \in Unfinished,
           LandCandidate(c), UNCHANGED told
    PROVE  /\ Unfinished' = {} /\ TablesFlight'
           /\ \A e \in Members(c) : entry'[e].state = "merged" /\ told[e] = <<>>
  <1>1. /\ c \in CandidateId /\ CandidateFlight(c)
        /\ \A d \in Unfinished : d = c
    BY RowTypes DEF TablesFlight
  <1>2. \A d \in CandidateId :
           /\ candidate'[d].entries = candidate[d].entries
           /\ d = c => candidate'[d].state = "passed"
           /\ d # c => candidate'[d] = candidate[d]
    BY <1>1 DEF LandCandidate, TypeInv, StoreTypeOK, CandidateRow
  <1>3. \A e \in EntryId :
           candidate'[c].outcome[e] = IF e \in Members(c) THEN "passed"
                                      ELSE candidate[c].outcome[e]
    BY <1>1 DEF LandCandidate, TypeInv, StoreTypeOK, CandidateRow
  <1>4. \A e \in EntryId :
           /\ entry'[e].attempts = entry[e].attempts
           /\ entry'[e].reason = entry[e].reason
           /\ entry'[e].state = IF e \in Members(c) THEN "merged"
                                ELSE entry[e].state
    BY DEF LandCandidate, TypeInv, StoreTypeOK, EntryRow
  <1>5. Unfinished' = {} /\ \A d \in CandidateId : CandidateFlight(d)'
    BY <1>1, <1>2, Finishing
  <1>6. ASSUME NEW e \in EntryId PROVE EntryFlight(e)'
    <2>1. EntryFlight(e)
      BY DEF TablesFlight
    <2>2. Convicting(e)' = Convicting(e)
      BY <1>1, <1>2, <1>3 DEF CandidateFlight, Convicting
    <2>3. CASE e \in Members(c)
      <3>1. Pending(e, "batched")
        BY <1>1, <2>3 DEF CandidateFlight
      <3> QED BY <1>4, <2>1, <2>2, <2>3, <3>1, EntryMoves DEF Pending
    <2>4. CASE e \notin Members(c)
      <3>1. entry[e].state # "batched"
        BY <1>1, <2>1, <2>4 DEF EntryFlight
      <3> QED BY <1>4, <2>1, <2>2, <2>4, <3>1, EntryFlies
    <2> QED BY <2>3, <2>4
  <1>7. \A e \in Members(c) : entry'[e].state = "merged" /\ told[e] = <<>>
    BY <1>1, <1>4, RowTypes DEF CandidateFlight, Pending
  <1> QED BY <1>5, <1>6, <1>7 DEF TablesFlight

\* blame: one attempt for one conviction, and out when there are none left.
LEMMA BlameFlies ==
    ASSUME TypeInv, TypeInv', TablesFlight, NEW c \in Unfinished,
           NEW culprit \in Members(c), NEW reason \in {"conflict", "gate"},
           BlameEntry(c, culprit, MaxAttempts, reason), UNCHANGED told
    PROVE  /\ Unfinished' = {} /\ TablesFlight'
           /\ Evicts(culprit, MaxAttempts) =>
                 entry'[culprit].state = "evicted" /\ told[culprit] = <<>>
  <1>1. /\ c \in CandidateId /\ CandidateFlight(c) /\ culprit \in EntryId
        /\ \A d \in Unfinished : d = c
    BY RowTypes DEF TablesFlight
  <1>2. \A d \in CandidateId :
           /\ candidate'[d].entries = candidate[d].entries
           /\ d = c => candidate'[d].state = "failed"
           /\ d # c => candidate'[d] = candidate[d]
    <2>1. PICK outcome : candidate' = [candidate EXCEPT ![c].state = "failed",
                                                        ![c].outcome = outcome]
      BY DEF BlameEntry
    <2> QED BY <1>1, <2>1 DEF TypeInv, StoreTypeOK, CandidateRow
  <1>3. \A e \in EntryId :
           candidate'[c].outcome[e] = IF e = culprit THEN "culprit"
                                      ELSE IF e \in Members(c) THEN "skipped"
                                      ELSE candidate[c].outcome[e]
    <2>1. candidate' = [candidate EXCEPT
             ![c].state = "failed",
             ![c].outcome = [e \in EntryId |->
                               IF e = culprit THEN "culprit"
                               ELSE IF e \in Members(c) THEN "skipped"
                               ELSE candidate[c].outcome[e]]]
      BY DEF BlameEntry
    <2> QED BY <1>1, <2>1 DEF TypeInv, StoreTypeOK, CandidateRow
  <1>4. /\ entry'[culprit] = Punished(culprit, MaxAttempts, reason)
        /\ \A e \in EntryId \ {culprit} :
              entry'[e] = Requeue(Members(c) \ {culprit})[e]
    BY <1>1, RequeueType DEF BlameEntry, TypeInv
  <1>5. Unfinished' = {} /\ \A d \in CandidateId : CandidateFlight(d)'
    BY <1>1, <1>2, Finishing
  <1>6. ASSUME NEW e \in EntryId \ {culprit} PROVE EntryFlight(e)'
    <2>1. EntryFlight(e)
      BY DEF TablesFlight
    <2>2. Convicting(e)' = Convicting(e)
      BY <1>1, <1>2, <1>3 DEF CandidateFlight, Convicting
    <2>3. CASE entry[e].state = "batched"
      <3>1. Pending(e, "batched") /\ e \in Members(c)
        BY <1>1, <2>1, <2>3, BatchedIsPending DEF EntryFlight
      <3>2. entry'[e].state = "queued" /\ entry'[e].attempts = entry[e].attempts
        BY <1>4, <2>3, <3>1, RowTypes DEF Requeue, EntryRow
      <3> QED BY <2>1, <2>2, <3>1, <3>2, EntryMoves DEF Pending
    <2>4. CASE entry[e].state # "batched"
      <3>1. entry'[e] = entry[e]
        BY <1>4, <2>4 DEF Requeue
      <3> QED BY <2>1, <2>2, <2>4, <3>1, EntryFlies
    <2> QED BY <2>3, <2>4
  <1>7. EntryFlight(culprit)'
    <2>1. EntryFlight(culprit) /\ Pending(culprit, "batched")
      BY <1>1 DEF TablesFlight, CandidateFlight
    <2>2. Cardinality(Convicting(culprit)') = Cardinality(Convicting(culprit)) + 1
      <3>1. /\ Convicting(culprit)' = Convicting(culprit) \cup {c}
            /\ c \notin Convicting(culprit)
        BY <1>1, <1>2, <1>3 DEF CandidateFlight, Convicting
      <3>2. IsFiniteSet(Convicting(culprit))
        <4>1. IsFiniteSet(CandidateId) /\ Convicting(culprit) \subseteq CandidateId
          BY FS_Interval, StoreAssumption DEF CandidateId, Convicting
        <4> QED BY <4>1, FS_Subset
      <3> QED BY <3>1, <3>2, FS_AddElement
    <2>3. /\ entry[culprit] \in EntryRow
          /\ entry[culprit].attempts \in Nat /\ MaxAttempts \in Nat
          /\ entry[culprit].attempts < MaxAttempts /\ told[culprit] = <<>>
      BY <1>1, <2>1, RowTypes DEF EntryRow, Pending
    <2>4. CASE Evicts(culprit, MaxAttempts)
      <3>1. /\ entry'[culprit].state = "evicted"
            /\ entry'[culprit].attempts = entry[culprit].attempts + 1
            /\ entry'[culprit].reason = reason
        BY <1>4, <2>3, <2>4 DEF Punished, SpentBy, EntryRow
      <3>2. entry'[culprit].attempts = MaxAttempts
        BY <2>3, <2>4, <3>1 DEF Evicts, SpentBy
      <3> QED BY <2>1, <2>2, <2>3, <3>1, <3>2 DEF EntryFlight
    <2>5. CASE ~Evicts(culprit, MaxAttempts)
      <3>1. /\ entry'[culprit].state = "queued"
            /\ entry'[culprit].attempts = entry[culprit].attempts + 1
        BY <1>4, <2>3, <2>5 DEF Punished, SpentBy, EntryRow
      <3>2. entry'[culprit].attempts < MaxAttempts
        BY <2>3, <2>5, <3>1 DEF Evicts, SpentBy
      <3>3. /\ entry'[culprit].attempts <= MaxAttempts
            /\ entry'[culprit].attempts # MaxAttempts
        BY <2>3, <3>1, <3>2
      <3> QED BY <2>1, <2>2, <2>3, <3>1, <3>3 DEF EntryFlight
    <2> QED BY <2>4, <2>5
  <1>8. Evicts(culprit, MaxAttempts) =>
           entry'[culprit].state = "evicted" /\ told[culprit] = <<>>
    BY <1>1, <1>4, RowTypes DEF Punished, CandidateFlight, Pending, EntryRow
  <1> QED BY <1>5, <1>6, <1>7, <1>8 DEF TablesFlight

-----------------------------------------------------------------------------
(* Workers.                                                                *)

\* An entry that is neither merged nor evicted has attempts left, and nobody
\* has been told anything of it.
LEMMA WaitingIsUntold ==
    ASSUME TypeInv, NEW e \in EntryId, EntryFlight(e),
           entry[e].state \notin {"merged", "evicted"}
    PROVE  entry[e].attempts < MaxAttempts /\ told[e] = <<>>
  <1>1. entry[e].attempts \in Nat /\ MaxAttempts \in Nat
    BY RowTypes DEF EntryRow
  <1>2. entry[e].attempts < MaxAttempts
    BY <1>1 DEF EntryFlight
  <1>3. ASSUME told[e] # <<>> PROVE FALSE
    <2>1. Len(told[e]) = 1 /\ told[e] = <<entry[e].state>>
      BY <1>3 DEF EntryFlight, ByHand
    <2>2. told[e] \in Seq({"merged", "evicted"})
      BY DEF TypeInv, AuxOK
    <2>3. 1 \in 1..Len(told[e])
      BY <2>1
    <2>4. told[e][1] \in {"merged", "evicted"}
      BY <2>2, <2>3, ElementOfSeq
    <2> QED BY <2>1, <2>4
  <1> QED BY <1>2, <1>3

\* The one worker inside a tick leaves nobody to contradict it.
LEMMA OthersAside ==
    ASSUME LeaseInv, LeaseInv', NoOverrun, NoOverrun', NEW w \in Worker,
           \A v \in Worker \ {w} : wk'[v] = wk[v],
           Ticking(w) \/ Ticking(w)'
    PROVE  \A v \in Worker \ {w} : WorkerFlight(v)'
  <1> SUFFICES ASSUME NEW v \in Worker \ {w} PROVE WorkerFlight(v)'
    OBVIOUS
  <1>1. ~Ticking(v)'
    <2>1. CASE Ticking(w)
      BY <2>1, OthersOut DEF Ticking
    <2>2. CASE Ticking(w)'
      BY <2>2 DEF LeaseInv, Holds
    <2> QED BY <2>1, <2>2
  <1> QED BY <1>1 DEF WorkerFlight, Ticking, InTick, Working, Complete

\* Places where a worker relies on nothing.
LEMMA AtEase ==
    ASSUME NEW w, wk'[w].pc \in {"down", "idle", "guard", "look", "release"}
    PROVE  WorkerFlight(w)'
  BY DEF WorkerFlight, Working, Complete

\* Tables that are not written to say what they said before.
LEMMA SameTables ==
    ASSUME NoStore, UNCHANGED told
    PROVE  /\ Unfinished' = Unfinished
           /\ \A c : Members(c)' = Members(c)
           /\ \A e : Convicting(e)' = Convicting(e)
           /\ \A e, state : Pending(e, state)' <=> Pending(e, state)
  BY DEF NoStore, Unfinished, Members, Convicting, Pending, ByHand

\* A worker in the same place, with the same things in hand.
LEMMA SameWorker ==
    ASSUME NoStore, UNCHANGED told, NEW w, WorkerFlight(w),
           wk'[w].pc = wk[w].pc, wk'[w].cand = wk[w].cand,
           wk'[w].batch = wk[w].batch, wk'[w].tell = wk[w].tell
    PROVE  WorkerFlight(w)'
  <1>1. /\ wk'[w].pc \in {"select", "open", "reopen", "announce"} => Unfinished' = {}
        /\ wk'[w].pc \in Working =>
              /\ wk'[w].cand \in Unfinished'
              /\ wk'[w].batch = candidate'[wk'[w].cand].entries
        /\ wk'[w].pc \in Complete => candidate'[wk'[w].cand].state = "testing"
    BY SameTables DEF WorkerFlight, NoStore
  <1>2. wk'[w].pc \in {"open", "reopen"} =>
           /\ IsInjective(wk'[w].batch)
           /\ \A e \in ToSet(wk'[w].batch) : Pending(e, "queued")'
    BY SameTables DEF WorkerFlight
  <1>3. wk'[w].pc = "announce" =>
           /\ \A i, j \in DOMAIN wk'[w].tell :
                 wk'[w].tell[i][1] = wk'[w].tell[j][1] => i = j
           /\ \A i \in DOMAIN wk'[w].tell :
                 LET event == wk'[w].tell[i]
                 IN  /\ told'[event[1]] = <<>>
                     /\ \/ entry'[event[1]].state = event[2]
                        \/ ByHand(entry'[event[1]])
    BY DEF WorkerFlight, NoStore
  <1> QED BY <1>1, <1>2, <1>3 DEF WorkerFlight

\* A step that writes to no table and announces nothing.
LEMMA QuietFlight ==
    ASSUME Flight, NEW w \in Worker, NoStore, UNCHANGED told,
           \A v \in Worker \ {w} : wk'[v] = wk[v],
           WorkerFlight(w)'
    PROVE  Flight'
  <1>1. TablesFlight'
    <2>1. ASSUME NEW c \in CandidateId PROVE CandidateFlight(c)'
      <3>1. CandidateFlight(c)
        BY DEF Flight, TablesFlight
      <3> QED BY <3>1, SameTables DEF CandidateFlight, NoStore
    <2>2. ASSUME NEW e \in EntryId PROVE EntryFlight(e)'
      <3>1. EntryFlight(e)
        BY DEF Flight, TablesFlight
      <3> QED BY <3>1, SameTables DEF EntryFlight, NoStore
    <2> QED BY <2>1, <2>2, SameTables DEF Flight, TablesFlight
  <1>2. ASSUME NEW v \in Worker \ {w} PROVE WorkerFlight(v)'
    BY <1>2, SameWorker DEF Flight
  <1> QED BY <1>1, <1>2 DEF Flight

\* Steps that end where nothing is relied on.
LEMMA EasyFlight ==
    ASSUME TypeInv, Flight, NEW w \in Worker,
           \/ AcquireFree(w) \/ FindBaseCheckedOut(w) \/ ReadBase(w)
           \/ OpenRefused(w) \/ BlameRefused(w) \/ StepFails(w)
           \/ Release(w) \/ ReleaseFails(w) \/ Start(w) \/ Exit(w) \/ Crash(w)
    PROVE  Flight'
  <1>1. NoStore /\ UNCHANGED told
    BY DEF AcquireFree, FindBaseCheckedOut, ReadBase, OpenRefused,
           BlameRefused, StepFails, Release, ReleaseFails, Start, Exit, Crash
  <1>2. /\ wk'[w].pc \in {"down", "idle", "guard", "look", "release"}
        /\ \A v \in Worker \ {w} : wk'[v] = wk[v]
    <2>1. CASE AcquireFree(w) \/ ReadBase(w)
      BY <2>1 DEF AcquireFree, Acquired, ReadBase, TypeInv, WorkersOK, WorkerState
    <2>2. CASE \/ FindBaseCheckedOut(w) \/ OpenRefused(w) \/ BlameRefused(w)
               \/ StepFails(w)
      BY <2>2, GotoKeeps
      DEF FindBaseCheckedOut, OpenRefused, BlameRefused, StepFails
    <2>3. CASE Release(w) \/ ReleaseFails(w) \/ Start(w) \/ Exit(w) \/ Crash(w)
      <3>1. PICK pc \in {"idle", "down"} : \E stop :
               wk' = [wk EXCEPT ![w] = Resting(w, pc, stop)]
        BY <2>3 DEF Release, ReleaseFails, Start, Exit, Crash
      <3> QED BY <3>1 DEF Resting, TypeInv, WorkersOK
    <2> QED BY <2>1, <2>2, <2>3
  <1>3. WorkerFlight(w)'
    BY <1>2, AtEase
  <1> QED BY <1>1, <1>2, <1>3, QuietFlight

\* A signal only marks the worker as stopping.
LEMMA SignalFlight ==
    ASSUME TypeInv, Flight, NEW w \in Worker, Signal(w)
    PROVE  Flight'
  <1>1. NoStore /\ UNCHANGED told
    BY DEF Signal
  <1>2. /\ wk'[w].pc = wk[w].pc /\ wk'[w].cand = wk[w].cand
        /\ wk'[w].batch = wk[w].batch /\ wk'[w].tell = wk[w].tell
        /\ \A v \in Worker \ {w} : wk'[v] = wk[v]
    BY DEF Signal, TypeInv, WorkersOK, WorkerState
  <1>3. WorkerFlight(w)'
    BY <1>1, <1>2, SameWorker DEF Flight
  <1> QED BY <1>1, <1>2, <1>3, QuietFlight

\* Finding the candidate in flight, or that there is none.
LEMMA LookingFlight ==
    ASSUME TypeInv, Flight, NEW w \in Worker,
           ResumeCandidate(w) \/ FindNothingUnfinished(w)
    PROVE  Flight'
  <1>1. NoStore /\ UNCHANGED told
    BY DEF ResumeCandidate, FindNothingUnfinished
  <1>2. CASE ResumeCandidate(w)
    <2>1. PICK c \in Unfinished :
             wk' = [wk EXCEPT
                      ![w].pc = IF candidate[c].base = wk[w].base
                                THEN "checkout" ELSE "moved",
                      ![w].cand = c, ![w].batch = candidate[c].entries]
      BY <1>2 DEF ResumeCandidate, IsActive
    <2>2. /\ wk'[w].pc \in {"checkout", "moved"} /\ wk'[w].cand = c
          /\ wk'[w].batch = candidate[c].entries
          /\ \A v \in Worker \ {w} : wk'[v] = wk[v]
      BY <2>1 DEF TypeInv, WorkersOK, WorkerState
    <2>3. WorkerFlight(w)'
      BY <1>1, <2>2 DEF WorkerFlight, Working, Complete, Unfinished, NoStore
    <2> QED BY <1>1, <2>2, <2>3, QuietFlight
  <1>3. CASE FindNothingUnfinished(w)
    <2>1. wk'[w].pc = "select" /\ \A v \in Worker \ {w} : wk'[v] = wk[v]
      BY <1>3, GotoKeeps DEF FindNothingUnfinished
    <2>2. Unfinished' = {}
      BY <1>1, <1>3 DEF FindNothingUnfinished, Unfinished, NoStore
    <2>3. WorkerFlight(w)'
      BY <2>1, <2>2 DEF WorkerFlight, Working, Complete
    <2> QED BY <1>1, <2>1, <2>3, QuietFlight
  <1> QED BY <1>2, <1>3

\* Assembling, gating, and landing the commit: the candidate stays in flight.
LEMMA WorkingFlight ==
    ASSUME TypeInv, Flight, NEW w \in Worker,
           \/ CheckOutDetached(w) \/ MergeNext(w) \/ MergeConflicts(w)
           \/ GatePasses(w) \/ GateFails(w) \/ FastForward(w)
           \/ FindBaseMoved(w) \/ FastForwardKilled(w) \/ MergeCutShort(w)
    PROVE  Flight'
  <1>1. NoStore /\ UNCHANGED told
    BY DEF CheckOutDetached, MergeNext, MergeConflicts, GatePasses, GateFails,
           FastForward, FindBaseMoved, FastForwardKilled, MergeCutShort
  <1>2. /\ wk[w].pc \in Working /\ wk'[w].pc \in Working
        /\ wk'[w].pc \in Complete => wk[w].pc \in Complete
        /\ wk'[w].cand = wk[w].cand /\ wk'[w].batch = wk[w].batch
        /\ \A v \in Worker \ {w} : wk'[v] = wk[v]
    <2>1. CASE \/ MergeConflicts(w) \/ GateFails(w) \/ FastForward(w)
               \/ FindBaseMoved(w) \/ FastForwardKilled(w) \/ MergeCutShort(w)
      BY <2>1, GotoKeeps
      DEF MergeConflicts, GateFails, FastForward, FindBaseMoved,
          FastForwardKilled, MergeCutShort, Working, Complete
    <2>2. CASE CheckOutDetached(w)
      <3>1. PICK tip : wk' = [wk EXCEPT ![w].pc = "merge", ![w].tip = tip]
        BY <2>2 DEF CheckOutDetached
      <3> QED BY <2>2, <3>1
          DEF CheckOutDetached, Working, Complete, TypeInv, WorkersOK, WorkerState
    <2>3. CASE MergeNext(w)
      <3>1. PICK n, tip : wk' = [wk EXCEPT ![w].merged = n, ![w].tip = tip]
        BY <2>3 DEF MergeNext
      <3> QED BY <2>3, <3>1
          DEF MergeNext, Working, Complete, TypeInv, WorkersOK, WorkerState
    <2>4. CASE GatePasses(w)
      <3>1. PICK passed : wk' = [wk EXCEPT ![w].pc = "ff", ![w].passed = passed]
        BY <2>4 DEF GatePasses
      <3> QED BY <2>4, <3>1
          DEF GatePasses, Working, Complete, TypeInv, WorkersOK, WorkerState
    <2> QED BY <2>1, <2>2, <2>3, <2>4
  <1>3. WorkerFlight(w)'
    <2>1. wk'[w].pc \notin {"select", "open", "reopen", "announce"}
      BY <1>2 DEF Working
    <2> QED BY <1>1, <1>2, <2>1 DEF Flight, WorkerFlight, Unfinished, NoStore
  <1> QED BY <1>1, <1>2, <1>3, QuietFlight

\* What is selected is waiting, and each entry once.
LEMMA SelectFlight ==
    ASSUME TypeInv, Flight, NEW w \in Worker, SelectBatch(w)
    PROVE  Flight'
  <1>1. NoStore /\ UNCHANGED told
    BY DEF SelectBatch
  <1>2. PICK batch \in Batches(MaxBatch) :
           wk' = [wk EXCEPT ![w].batch = batch,
                    ![w].pc = IF batch = <<>> THEN "release" ELSE "open"]
    BY DEF SelectBatch
  <1>3. /\ wk'[w].pc \in {"release", "open"} /\ wk'[w].batch = batch
        /\ \A v \in Worker \ {w} : wk'[v] = wk[v]
    BY <1>2 DEF TypeInv, WorkersOK, WorkerState
  <1>4. /\ batch \in [1..Cardinality(BatchMembers(MaxBatch)) ->
                         BatchMembers(MaxBatch)]
        /\ InOrder(batch)
    BY DEF Batches
  <1>5. BatchMembers(MaxBatch) \subseteq Queued
    BY DEF BatchMembers, FirstQueued
  <1>6. ToSet(batch) \subseteq Queued /\ Queued \subseteq EntryId
    BY <1>4, <1>5 DEF ToSet, Queued
  <1>7. \A e \in ToSet(batch) : Pending(e, "queued")
    BY <1>6, WaitingIsUntold DEF Queued, Pending, Flight, TablesFlight
  <1>8. IsInjective(batch)
    <2> SUFFICES ASSUME NEW i \in DOMAIN batch, NEW j \in DOMAIN batch,
                        batch[i] = batch[j]
                 PROVE  i = j
      BY DEF IsInjective
    <2>1. ASSUME NEW e \in EntryId, Ahead(e, e) PROVE FALSE
      <3>1. entry[e].priority \in Nat /\ e \in Nat
        BY RowTypes, StoreAssumption DEF EntryRow, EntryId
      <3> QED BY <2>1, <3>1 DEF Ahead
    <2>2. batch[i] \in EntryId
      BY <1>4, <1>5, <1>6
    <2>3. ~(i < j) /\ ~(j < i)
      BY <1>4, <2>1, <2>2 DEF InOrder
    <2>4. i \in Nat /\ j \in Nat
      <3>1. DOMAIN batch = 1..Cardinality(BatchMembers(MaxBatch))
        BY <1>4
      <3> QED BY <3>1
    <2> QED BY <2>3, <2>4
  <1>9. Unfinished' = {}
    BY <1>1 DEF SelectBatch, Flight, WorkerFlight, Unfinished, NoStore
  <1>10. WorkerFlight(w)'
    <2>1. \A e \in ToSet(batch) : Pending(e, "queued")'
      BY <1>1, <1>7 DEF Pending, ByHand, NoStore
    <2> QED BY <1>3, <1>8, <1>9, <2>1 DEF WorkerFlight, Working, Complete
  <1> QED BY <1>1, <1>3, <1>10, QuietFlight

-----------------------------------------------------------------------------
(* Workers: the transactions, and what is announced of them.               *)

\* The worker inside the tick writes to the tables.
LEMMA TableFlight ==
    ASSUME LeaseInv, LeaseInv', NoOverrun, NoOverrun', NEW w \in Worker,
           \A v \in Worker \ {w} : wk'[v] = wk[v],
           Ticking(w) \/ Ticking(w)', TablesFlight', WorkerFlight(w)'
    PROVE  Flight'
  BY OthersAside DEF Flight

\* Whoever reclaims the lease starts from nothing in flight.
LEMMA ReclaimFlight ==
    ASSUME TypeInv, TypeInv', LeaseInv, LeaseInv', NoOverrun, NoOverrun',
           Flight, NEW w \in Worker, AcquireReclaim(w)
    PROVE  Flight'
  <1>1. TablesFlight'
    BY SupersedeFlies DEF AcquireReclaim, Flight
  <1>2. wk'[w].pc = "guard" /\ \A v \in Worker \ {w} : wk'[v] = wk[v]
    BY DEF AcquireReclaim, Acquired, TypeInv, WorkersOK, WorkerState
  <1>3. WorkerFlight(w)' /\ Ticking(w)'
    BY <1>2, AtEase DEF Ticking, InTick
  <1> QED BY <1>1, <1>2, <1>3, TableFlight

\* The facts about a worker at a place where it works on the candidate in
\* flight.
LEMMA AtWork ==
    ASSUME TypeInv, Flight, NEW w \in Worker, wk[w].pc \in Working
    PROVE  /\ Ticking(w) /\ wk[w].cand \in Unfinished
           /\ wk[w].cand \in CandidateId
           /\ wk[w].batch = candidate[wk[w].cand].entries
           /\ CandidateFlight(wk[w].cand)
           /\ TablesFlight /\ WorkerFlight(w)
  <1>1. wk[w].cand \in Unfinished /\ WorkerFlight(w) /\ TablesFlight
    BY DEF Flight, WorkerFlight
  <1>2. wk[w].cand \in CandidateId
    BY <1>1 DEF Unfinished
  <1> QED BY <1>1, <1>2
      DEF WorkerFlight, TablesFlight, Ticking, InTick, Working

\* A candidate is opened when none is in flight, by select or after a split.
LEMMA OpeningFlight ==
    ASSUME TypeInv, TypeInv', LeaseInv, LeaseInv', NoOverrun, NoOverrun',
           Flight, NEW w \in Worker, Open(w) \/ ReopenHalf(w)
    PROVE  Flight'
  <1>1. Ticking(w) /\ Unfinished = {} /\ IsInjective(wk[w].batch)
    BY DEF Open, ReopenHalf, Flight, WorkerFlight, Ticking, InTick
  <1>2. /\ wk[w].batch \in Seq(EntryId)
        /\ \A e \in ToSet(wk[w].batch) : Pending(e, "queued")
    BY WorkerTypes DEF Open, ReopenHalf, Flight, WorkerFlight
  <1>3. CASE Open(w)
    <2>1. PICK c \in CandidateId :
             /\ OpenCandidate(c, wk[w].base, wk[w].batch)
             /\ wk' = [wk EXCEPT ![w].pc = "checkout", ![w].cand = c]
      BY <1>3 DEF Open
    <2>2. /\ wk'[w].pc = "checkout" /\ wk'[w].cand = c
          /\ wk'[w].batch = wk[w].batch
          /\ \A v \in Worker \ {w} : wk'[v] = wk[v]
      BY <2>1 DEF TypeInv, WorkersOK, WorkerState
    <2>3. /\ Unfinished' = {c} /\ TablesFlight'
          /\ candidate'[c].entries = wk[w].batch
      BY <1>1, <1>2, <1>3, <2>1, OpenFlies DEF Open, Flight
    <2>4. WorkerFlight(w)'
      BY <2>2, <2>3 DEF WorkerFlight, Working, Complete
    <2> QED BY <1>1, <2>2, <2>3, <2>4, TableFlight
  <1>4. CASE ReopenHalf(w)
    <2>1. PICK c \in CandidateId :
             OpenCandidate(c, candidate[wk[w].cand].base, wk[w].batch)
      BY <1>4 DEF ReopenHalf
    <2>2. wk'[w].pc = "release" /\ \A v \in Worker \ {w} : wk'[v] = wk[v]
      BY <1>4, GotoKeeps DEF ReopenHalf
    <2>3. TablesFlight'
      BY <1>1, <1>2, <1>4, <2>1, OpenFlies DEF ReopenHalf, Flight
    <2> QED BY <1>1, <2>2, <2>3, AtEase, TableFlight
  <1> QED BY <1>3, <1>4

\* Marked as testing, and still in flight.
LEMMA MarkingFlight ==
    ASSUME TypeInv, TypeInv', LeaseInv, LeaseInv', NoOverrun, NoOverrun',
           Flight, NEW w \in Worker, StartTesting(w)
    PROVE  Flight'
  <1>1. wk[w].pc \in Working
    BY DEF StartTesting, Working
  <1>2. PICK c \in Unfinished : c = wk[w].cand /\ MarkTesting(c, wk[w].tip)
    BY <1>1, AtWork DEF StartTesting
  <1>3. /\ wk'[w].pc = "gate" /\ wk'[w].cand = c
        /\ wk'[w].batch = wk[w].batch
        /\ \A v \in Worker \ {w} : wk'[v] = wk[v]
    BY <1>2, GotoKeeps DEF StartTesting
  <1>4. /\ Unfinished' = Unfinished /\ TablesFlight'
        /\ candidate'[c].state = "testing"
        /\ candidate'[c].entries = candidate[c].entries
    BY <1>1, <1>2, AtWork, MarkFlies DEF StartTesting
  <1>5. wk[w].batch = candidate[c].entries /\ Ticking(w)
    BY <1>1, <1>2, AtWork
  <1>6. WorkerFlight(w)'
    BY <1>3, <1>4, <1>5 DEF WorkerFlight, Working, Complete
  <1> QED BY <1>3, <1>4, <1>5, <1>6, TableFlight

\* Back in line, and fit to be selected.
LEMMA Requeued ==
    ASSUME TypeInv, NEW es, entry' = Requeue(es), NEW e \in EntryId, e \in es,
           Pending(e, "batched"), UNCHANGED told
    PROVE  Pending(e, "queued")'
  <1>1. CASE entry[e].state = "batched"
    <2>1. entry'[e].state = "queued" /\ entry'[e].attempts = entry[e].attempts
      BY <1>1, RowTypes DEF Requeue, EntryRow
    <2> QED BY <2>1 DEF Pending
  <1>2. CASE entry[e].state # "batched"
    <2>1. entry'[e] = entry[e]
      BY <1>2 DEF Requeue
    <2> QED BY <1>2, <2>1 DEF Pending
  <1> QED BY <1>1, <1>2

\* The half of a batch is a batch of the same entries.
LEMMA HalfIsPart ==
    ASSUME NEW batch \in Seq(EntryId), IsInjective(batch)
    PROVE  /\ IsInjective(LeftHalf(batch))
           /\ ToSet(LeftHalf(batch)) \subseteq ToSet(batch)
  <1> DEFINE half == LeftHalf(batch)
  <1>1. Len(batch) \in Nat /\ DOMAIN batch = 1..Len(batch)
    BY LenProperties
  <1>2. PICK n \in Nat : n = Len(batch) \div 2 /\ n <= Len(batch)
    BY <1>1
  <1>3. \A i \in 1..n : i \in 1..Len(batch) /\ batch[i] \in EntryId
    BY <1>1, <1>2, ElementOfSeq
  <1>4. /\ half \in Seq(EntryId) /\ Len(half) = n
        /\ \A i \in 1..n : half[i] = batch[i]
    <2>1. half = SubSeq(batch, 1, n)
      BY <1>2 DEF LeftHalf
    <2>2. /\ half \in Seq(EntryId)
          /\ Len(half) = IF 1 <= n THEN n - 1 + 1 ELSE 0
          /\ \A i \in 1..(n - 1 + 1) : half[i] = batch[1 + i - 1]
      BY <1>2, <1>3, <2>1, SubSeqProperties
    <2>3. n - 1 + 1 = n /\ \A i \in 1..n : 1 + i - 1 = i
      BY <1>2
    <2> HIDE DEF half
    <2> QED BY <1>2, <2>2, <2>3
  <1> HIDE DEF half
  <1>5. DOMAIN half = 1..n
    BY <1>4, LenProperties
  <1>6. IsInjective(half)
    BY <1>1, <1>3, <1>4, <1>5 DEF IsInjective
  <1>7. ToSet(half) \subseteq ToSet(batch)
    BY <1>1, <1>3, <1>4, <1>5 DEF ToSet
  <1> QED BY <1>6, <1>7 DEF half

\* Abandoned: nothing is in flight, and what a split will try next is in
\* line.
LEMMA AbandoningFlight ==
    ASSUME TypeInv, TypeInv', LeaseInv, LeaseInv', NoOverrun, NoOverrun',
           Flight, NEW w \in Worker,
           AbandonInterrupted(w) \/ AbandonMoved(w) \/ Split(w)
    PROVE  Flight'
  <1>1. wk[w].pc \in Working
    BY DEF AbandonInterrupted, AbandonMoved, Split, Working
  <1>2. PICK c \in Unfinished, state \in {"superseded", "failed"} :
           c = wk[w].cand /\ AbandonCandidate(c, state)
    BY <1>1, AtWork DEF AbandonInterrupted, AbandonMoved, Split
  <1>3. /\ Ticking(w) /\ c \in CandidateId /\ TablesFlight
        /\ wk[w].batch = candidate[c].entries /\ CandidateFlight(c)
        /\ UNCHANGED told
    BY <1>1, <1>2, AtWork DEF AbandonInterrupted, AbandonMoved, Split
  <1>4. Unfinished' = {} /\ TablesFlight'
    BY <1>2, <1>3, AbandonFlies
  <1>5. CASE AbandonInterrupted(w) \/ AbandonMoved(w)
    <2>1. wk'[w].pc = "release" /\ \A v \in Worker \ {w} : wk'[v] = wk[v]
      BY <1>5, GotoKeeps DEF AbandonInterrupted, AbandonMoved
    <2> QED BY <1>3, <1>4, <2>1, AtEase, TableFlight
  <1>6. CASE Split(w)
    <2>1. PICK half : /\ half = LeftHalf(wk[w].batch)
                      /\ wk' = [wk EXCEPT ![w].pc = "reopen", ![w].batch = half]
      BY <1>6 DEF Split
    <2>2. /\ wk'[w].pc = "reopen" /\ wk'[w].batch = half
          /\ \A v \in Worker \ {w} : wk'[v] = wk[v]
      BY <2>1 DEF TypeInv, WorkersOK, WorkerState
    <2>3. /\ wk[w].batch \in Seq(EntryId) /\ IsInjective(wk[w].batch)
          /\ ToSet(wk[w].batch) = Members(c)
      BY <1>3, WorkerTypes DEF CandidateFlight, Members
    <2>4. IsInjective(half) /\ ToSet(half) \subseteq Members(c)
      BY <2>1, <2>3, HalfIsPart
    <2>5. \A e \in Members(c) : Pending(e, "queued")'
      <3>1. entry' = Requeue(Members(c))
        BY <1>2 DEF AbandonCandidate
      <3>2. Members(c) \subseteq EntryId
        BY <1>3, RowTypes
      <3> QED BY <1>2, <1>3, <3>1, <3>2, Requeued DEF CandidateFlight
    <2>6. WorkerFlight(w)'
      BY <1>4, <2>2, <2>4, <2>5 DEF WorkerFlight, Working, Complete
    <2> QED BY <1>3, <1>4, <2>2, <2>6, TableFlight
  <1> QED BY <1>5, <1>6

\* Everyone in the candidate is merged, and will be told so.
LEMMA RecordingFlight ==
    ASSUME TypeInv, TypeInv', LeaseInv, LeaseInv', NoOverrun, NoOverrun',
           Flight, NEW w \in Worker, RecordLanding(w)
    PROVE  Flight'
  <1>1. wk[w].pc \in Working
    BY DEF RecordLanding, Working
  <1>2. PICK c \in Unfinished : c = wk[w].cand /\ LandCandidate(c)
    BY <1>1, AtWork DEF RecordLanding
  <1>3. PICK landed \in Seq(EntryId) : landed = candidate[c].entries
    BY RowTypes, <1>2
  <1>4. PICK tell :
           /\ tell = [i \in DOMAIN landed |-> <<landed[i], "merged">>]
           /\ wk' = [wk EXCEPT ![w].pc = "announce", ![w].tell = tell]
    BY <1>2, <1>3 DEF RecordLanding
  <1>5. /\ wk'[w].pc = "announce" /\ wk'[w].tell = tell
        /\ \A v \in Worker \ {w} : wk'[v] = wk[v]
    BY <1>4 DEF TypeInv, WorkersOK, WorkerState
  <1>6. /\ Ticking(w) /\ TablesFlight /\ UNCHANGED told
        /\ IsInjective(landed)
    BY <1>1, <1>2, <1>3, AtWork DEF RecordLanding, CandidateFlight
  <1>7. /\ Unfinished' = {} /\ TablesFlight'
        /\ \A e \in Members(c) : entry'[e].state = "merged" /\ told[e] = <<>>
    BY <1>2, <1>6, LandFlies
  <1>8. WorkerFlight(w)'
    <2>1. \A i, j \in DOMAIN tell : tell[i][1] = tell[j][1] => i = j
      BY <1>4, <1>6 DEF IsInjective
    <2>2. ASSUME NEW i \in DOMAIN tell
          PROVE  /\ told'[tell[i][1]] = <<>>
                 /\ entry'[tell[i][1]].state = tell[i][2]
      <3>1. tell[i][1] = landed[i] /\ tell[i][2] = "merged"
        BY <1>4, <2>2
      <3>2. landed[i] \in Members(c)
        BY <1>3, <1>4, <2>2 DEF Members, ToSet
      <3> QED BY <1>6, <1>7, <3>1, <3>2
    <2> QED BY <1>5, <1>7, <2>1, <2>2 DEF WorkerFlight, Working, Complete
  <1> QED BY <1>5, <1>6, <1>7, <1>8, TableFlight

\* Whoever is blamed is in the candidate.
LEMMA BlamedIsMember ==
    ASSUME TypeInv, Flight, NEW w \in Worker, BlameConflict(w) \/ BlameLone(w)
    PROVE  \E culprit \in Members(wk[w].cand), reason \in {"conflict", "gate"} :
              Blame(w, culprit, reason)
  <1>1. wk[w].pc \in Working
    BY DEF BlameConflict, BlameLone, Working, Conflicting
  <1>2. PICK c \in Unfinished :
           /\ c = wk[w].cand /\ wk[w].batch = candidate[c].entries
           /\ candidate[c].entries \in Seq(EntryId)
    BY <1>1, AtWork, RowTypes
  <1>3. \A i \in 1..Len(wk[w].batch) : wk[w].batch[i] \in Members(c)
    BY <1>2, LenProperties DEF Members, ToSet
  <1>4. CASE BlameConflict(w)
    <2>1. wk[w].merged < Len(wk[w].batch)
      BY <1>4 DEF BlameConflict, TypeInv, WorkersOK, WorkerOK
    <2>2. wk[w].merged + 1 \in 1..Len(wk[w].batch)
      BY <2>1, WorkerTypes
    <2> QED BY <1>2, <1>3, <1>4, <2>2 DEF BlameConflict, NextToMerge
  <1>5. CASE BlameLone(w)
    <2>1. 1 \in 1..Len(wk[w].batch) /\ Head(wk[w].batch) = wk[w].batch[1]
      BY <1>2, <1>5 DEF BlameLone
    <2> QED BY <1>2, <1>3, <1>5, <2>1 DEF BlameLone
  <1> QED BY <1>4, <1>5

\* The culprit pays, and is told only if that was its last attempt.
LEMMA BlamingFlight ==
    ASSUME TypeInv, TypeInv', LeaseInv, LeaseInv', NoOverrun, NoOverrun',
           Flight, NEW w \in Worker, BlameConflict(w) \/ BlameLone(w)
    PROVE  Flight'
  <1>1. wk[w].pc \in Working
    BY DEF BlameConflict, BlameLone, Working, Conflicting
  <1>2. PICK c \in Unfinished : c = wk[w].cand
    BY <1>1, AtWork
  <1>3. /\ Ticking(w) /\ TablesFlight /\ WorkerFlight(w)
        /\ wk[w].batch = candidate[c].entries
        /\ candidate[c].entries \in Seq(EntryId)
    BY <1>1, <1>2, AtWork, RowTypes
  <1>4. PICK culprit \in Members(c), reason \in {"conflict", "gate"} :
           Blame(w, culprit, reason)
    BY <1>2, BlamedIsMember
  <1>5. BlameEntry(c, culprit, MaxAttempts, reason) /\ UNCHANGED told
    BY <1>2, <1>4 DEF Blame
  <1>6. /\ Unfinished' = {} /\ TablesFlight'
        /\ Evicts(culprit, MaxAttempts) =>
              entry'[culprit].state = "evicted" /\ told[culprit] = <<>>
    BY <1>3, <1>5, BlameFlies
  <1>7. CASE Evicts(culprit, MaxAttempts)
    <2>1. PICK tell : /\ tell = <<<<culprit, "evicted">>>>
                      /\ wk' = [wk EXCEPT ![w].pc = "announce", ![w].tell = tell]
      BY <1>4, <1>7 DEF Blame
    <2>2. /\ wk'[w].pc = "announce" /\ wk'[w].tell = tell
          /\ \A v \in Worker \ {w} : wk'[v] = wk[v]
      BY <2>1 DEF TypeInv, WorkersOK, WorkerState
    <2>3. /\ DOMAIN tell = {1}
          /\ tell[1][1] = culprit /\ tell[1][2] = "evicted"
      BY <2>1
    <2>4. WorkerFlight(w)'
      BY <1>5, <1>6, <1>7, <2>2, <2>3 DEF WorkerFlight, Working, Complete
    <2> QED BY <1>3, <1>6, <2>2, <2>4, TableFlight
  <1>8. CASE ~Evicts(culprit, MaxAttempts)
    <2>1. wk'[w].pc = "release" /\ \A v \in Worker \ {w} : wk'[v] = wk[v]
      BY <1>4, <1>8 DEF Blame, TypeInv, WorkersOK, WorkerState
    <2> QED BY <1>3, <1>6, <2>1, AtEase, TableFlight
  <1> QED BY <1>7, <1>8

\* on_settle is run for an entry nobody was told of, with what became of it.
LEMMA AnnounceFlight ==
    ASSUME TypeInv, TypeInv', LeaseInv, LeaseInv', NoOverrun, NoOverrun',
           Flight, NEW w \in Worker, Announce(w)
    PROVE  Flight'
  <1>1. /\ wk[w].pc = "announce" /\ Ticking(w) /\ WorkerFlight(w)
        /\ Unfinished = {} /\ NoStore
    BY DEF Announce, Flight, WorkerFlight, Ticking, InTick
  <1>2. PICK tell \in Seq(Settled) : tell = wk[w].tell /\ tell # <<>>
    BY DEF Announce, TypeInv, WorkersOK, WorkerState
  <1>3. PICK rest \in Seq(Settled) :
           /\ rest = Tail(tell) /\ Len(rest) = Len(tell) - 1
           /\ \A i \in 1..Len(rest) : rest[i] = tell[i + 1]
    BY <1>2, HeadTailProperties
  <1>4. /\ Len(tell) \in Nat /\ Len(tell) # 0 /\ DOMAIN tell = 1..Len(tell)
        /\ DOMAIN rest = 1..Len(rest)
        /\ Head(tell) = tell[1] /\ tell[1] \in Settled
    <2>1. Len(tell) \in Nat /\ Len(tell) # 0
      BY <1>2, LenProperties, EmptySeq
    <2> QED BY <1>2, <1>3, <2>1, LenProperties, ElementOfSeq
  <1>5. PICK e \in EntryId, what \in {"merged", "evicted"} :
           /\ tell[1][1] = e /\ tell[1][2] = what
           /\ told' = [told EXCEPT ![e] = Append(told[e], what)]
    BY <1>2, <1>4 DEF Announce, Settled
  <1>6. /\ wk'[w].pc = "announce" /\ wk'[w].tell = rest
        /\ \A v \in Worker \ {w} : wk'[v] = wk[v]
    BY <1>1, <1>2, <1>3 DEF Announce, TypeInv, WorkersOK, WorkerState
  <1>7. /\ told[e] = <<>>
        /\ entry[e].state = what \/ ByHand(entry[e])
    <2>1. 1 \in DOMAIN tell
      BY <1>4
    <2> QED BY <1>1, <1>2, <1>5, <2>1 DEF WorkerFlight
  <1>8. /\ told'[e] = <<what>>
        /\ \A f \in EntryId \ {e} : told'[f] = told[f]
    <2>1. Append(<<>>, what) = <<what>>
      OBVIOUS
    <2> QED BY <1>5, <1>7, <2>1 DEF TypeInv, AuxOK
  <1>9. /\ Unfinished' = {}
        /\ \A f : Convicting(f)' = Convicting(f)
    BY <1>1 DEF NoStore, Unfinished, Convicting
  <1>10. TablesFlight'
    <2>1. ASSUME NEW c \in CandidateId PROVE CandidateFlight(c)'
      <3>1. CandidateFlight(c)
        BY DEF Flight, TablesFlight
      <3> QED BY <1>1, <1>9, <3>1 DEF CandidateFlight, NoStore
    <2>2. ASSUME NEW f \in EntryId PROVE EntryFlight(f)'
      <3>1. EntryFlight(f)
        BY DEF Flight, TablesFlight
      <3>2. entry[f].state # "batched"
        BY <1>1, <3>1 DEF EntryFlight
      <3>3. CASE f = e
        <4>1. Len(<<what>>) = 1
          OBVIOUS
        <4>2. told'[e] = <<entry'[e].state>> \/ ByHand(entry'[e])
          BY <1>1, <1>7, <1>8 DEF NoStore
        <4> QED BY <1>1, <1>8, <1>9, <3>1, <3>2, <3>3, <4>1, <4>2
            DEF EntryFlight, NoStore
      <3>4. CASE f # e
        BY <1>1, <1>8, <1>9, <3>1, <3>2, <3>4 DEF EntryFlight, NoStore
      <3> QED BY <3>3, <3>4
    <2> QED BY <1>9, <2>1, <2>2 DEF TablesFlight
  <1>11. WorkerFlight(w)'
    <2>1. \A i \in DOMAIN rest : /\ i + 1 \in DOMAIN tell /\ i + 1 # 1
                                 /\ rest[i] = tell[i + 1]
                                 /\ tell[i + 1] \in Settled
      BY <1>2, <1>3, <1>4, ElementOfSeq
    <2>2. \A i, j \in DOMAIN rest : rest[i][1] = rest[j][1] => i = j
      <3> SUFFICES ASSUME NEW i \in DOMAIN rest, NEW j \in DOMAIN rest,
                          rest[i][1] = rest[j][1]
                   PROVE  i = j
        OBVIOUS
      <3>1. i + 1 = j + 1
        BY <1>1, <1>2, <2>1 DEF WorkerFlight
      <3>2. i \in Nat /\ j \in Nat
        BY <1>4
      <3> QED BY <3>1, <3>2
    <2>3. ASSUME NEW i \in DOMAIN rest
          PROVE  /\ told'[rest[i][1]] = <<>>
                 /\ \/ entry'[rest[i][1]].state = rest[i][2]
                    \/ ByHand(entry'[rest[i][1]])
      <3>1. PICK f \in EntryId : f = tell[i + 1][1]
        BY <2>1 DEF Settled
      <3>2. /\ told[f] = <<>>
            /\ entry[f].state = tell[i + 1][2] \/ ByHand(entry[f])
        BY <1>1, <1>2, <2>1, <3>1 DEF WorkerFlight
      <3>3. f # e
        <4>1. 1 \in DOMAIN tell
          BY <1>4
        <4> QED BY <1>1, <1>2, <1>5, <2>1, <3>1, <4>1 DEF WorkerFlight
      <3> QED BY <1>1, <1>8, <2>1, <3>1, <3>2, <3>3 DEF NoStore
    <2> QED BY <1>6, <1>9, <2>2, <2>3 DEF WorkerFlight, Working, Complete
  <1> QED BY <1>1, <1>6, <1>10, <1>11, TableFlight

-----------------------------------------------------------------------------
(* Time, the operators' commands, and the people around the repository.    *)

\* Steps no worker takes: an entry is new, is what it was, or is taken out by
\* hand.
LEMMA OutsideFlight ==
    ASSUME TypeInv, TypeInv', Flight, UNCHANGED <<candidate, told, wk>>,
           \A e \in EntryId :
              \/ /\ entry'[e].attempts = entry[e].attempts
                 /\ \/ /\ entry'[e].state = entry[e].state
                       /\ entry'[e].reason = entry[e].reason
                    \/ ByHand(entry'[e])
              \/ /\ entry[e].state = "absent" /\ entry'[e].state = "queued"
                 /\ entry'[e].attempts = 0
    PROVE  Flight'
  <1>1. /\ Unfinished' = Unfinished
        /\ \A c : Members(c)' = Members(c)
        /\ \A e : Convicting(e)' = Convicting(e)
    BY DEF Unfinished, Members, Convicting
  <1>2. ASSUME NEW e \in EntryId, NEW state \in {"queued", "batched"},
               Pending(e, state)
        PROVE  Pending(e, state)'
    BY <1>2 DEF Pending, ByHand
  <1>3. ASSUME NEW e \in EntryId PROVE EntryFlight(e)'
    <2>1. EntryFlight(e)
      BY DEF Flight, TablesFlight
    <2>2. CASE /\ entry[e].state = "absent" /\ entry'[e].state = "queued"
               /\ entry'[e].attempts = 0
      <3>1. /\ entry[e].attempts = 0 /\ entry[e].attempts < MaxAttempts
            /\ told[e] = <<>>
        BY <2>1, <2>2, WaitingIsUntold DEF EntryFlight
      <3> QED BY <1>1, <2>1, <2>2, <3>1, EntryMoves
    <2>3. CASE /\ entry'[e].attempts = entry[e].attempts
               /\ \/ /\ entry'[e].state = entry[e].state
                     /\ entry'[e].reason = entry[e].reason
                  \/ ByHand(entry'[e])
      <3>1. entry'[e].state = "batched" =>
               \E c \in Unfinished' : e \in Members(c)'
        BY <1>1, <2>1, <2>3 DEF EntryFlight, ByHand
      <3> QED BY <1>1, <2>1, <2>3, <3>1, EntryFlies
    <2> QED BY <2>2, <2>3
  <1>4. ASSUME NEW c \in CandidateId PROVE CandidateFlight(c)'
    <2>1. CandidateFlight(c)
      BY DEF Flight, TablesFlight
    <2>2. c \in Unfinished => \A e \in Members(c) : Pending(e, "batched")'
      BY <1>2, <2>1, RowTypes DEF CandidateFlight
    <2> QED BY <2>1, <2>2, CandidateFlies
  <1>5. ASSUME NEW w \in Worker PROVE WorkerFlight(w)'
    <2>1. WorkerFlight(w)
      BY DEF Flight
    <2>2. ASSUME wk[w].pc \in {"open", "reopen"}, NEW e \in ToSet(wk[w].batch)
          PROVE  Pending(e, "queued")'
      <3>1. e \in EntryId
        BY <2>2, WorkerTypes DEF ToSet
      <3> QED BY <1>2, <2>1, <2>2, <3>1 DEF WorkerFlight
    <2>3. ASSUME wk[w].pc = "announce", NEW i \in DOMAIN wk[w].tell
          PROVE  \/ entry'[wk[w].tell[i][1]].state = wk[w].tell[i][2]
                 \/ ByHand(entry'[wk[w].tell[i][1]])
      <3>1. wk[w].tell \in Seq(Settled)
        BY DEF TypeInv, WorkersOK, WorkerState
      <3>2. wk[w].tell[i] \in Settled
        BY <2>3, <3>1, LenProperties, ElementOfSeq
      <3>3. PICK e \in EntryId, what \in {"merged", "evicted"} :
               wk[w].tell[i][1] = e /\ wk[w].tell[i][2] = what
        BY <3>2 DEF Settled
      <3>4. entry[e].state = what \/ ByHand(entry[e])
        BY <2>1, <2>3, <3>3 DEF WorkerFlight
      <3> QED BY <3>3, <3>4 DEF ByHand
    <2> QED BY <1>1, <2>1, <2>2, <2>3 DEF WorkerFlight
  <1> QED BY <1>1, <1>3, <1>4, <1>5 DEF Flight, TablesFlight

LEMMA OutsidersFlight ==
    ASSUME TypeInv, TypeInv', Flight,
           LeaseLapses \/ Operator \/ Developer \/ UNCHANGED vars
    PROVE  Flight'
  <1>1. CASE LeaseLapses \/ Developer \/ UNCHANGED vars
    <2>1. UNCHANGED <<entry, candidate, told, wk>>
      BY <1>1 DEF LeaseLapses, Developer, vars, NoStore
    <2> QED BY <2>1, OutsideFlight
  <1>2. ASSUME NEW kind, NEW e, CheckCommand(kind, e)
        PROVE  Flight'
    <2>1. UNCHANGED <<entry, candidate, told, wk>>
      BY <1>2 DEF CheckCommand, NoStore
    <2> QED BY <2>1, OutsideFlight
  <1>3. CASE Enqueue
    <2>1. UNCHANGED <<candidate, told, wk>>
      BY <1>3 DEF Enqueue, InsertEntry
    <2>2. PICK new, row :
             /\ new \in EntryId /\ entry[new].state = "absent"
             /\ row.state = "queued" /\ row.attempts = 0
             /\ entry' = [entry EXCEPT ![new] = row]
      BY <1>3 DEF Enqueue, InsertEntry
    <2>3. /\ entry'[new] = row
          /\ \A e \in EntryId \ {new} : entry'[e] = entry[e]
      BY <2>2 DEF TypeInv, StoreTypeOK
    <2> QED BY <2>1, <2>2, <2>3, OutsideFlight
  <1>4. ASSUME NEW e \in EntryId, DequeueWrite(e) \/ PromoteWrite(e)
        PROVE  Flight'
    <2>1. UNCHANGED <<candidate, told, wk>>
      BY <1>4 DEF DequeueWrite, EvictByHand, PromoteWrite, RaisePriority
    <2>2. CASE DequeueWrite(e)
      <3>1. EvictByHand(e)
        BY <2>2 DEF DequeueWrite
      <3>2. \A f \in EntryId : /\ entry'[f].attempts = entry[f].attempts
                               /\ \/ entry'[f] = entry[f]
                                  \/ ByHand(entry'[f])
        BY <3>1 DEF EvictByHand, ByHand, TypeInv, StoreTypeOK, EntryRow
      <3> QED BY <2>1, <3>2, OutsideFlight
    <2>3. CASE PromoteWrite(e)
      <3>1. PICK priority : entry' = [entry EXCEPT ![e].priority = priority]
        BY <2>3 DEF PromoteWrite, RaisePriority
      <3>2. \A f \in EntryId : /\ entry'[f].attempts = entry[f].attempts
                               /\ entry'[f].state = entry[f].state
                               /\ entry'[f].reason = entry[f].reason
        BY <3>1 DEF TypeInv, StoreTypeOK, EntryRow
      <3> QED BY <2>1, <3>2, OutsideFlight
    <2> QED BY <1>4, <2>2, <2>3
  <1> QED BY <1>1, <1>2, <1>3, <1>4 DEF Operator

-----------------------------------------------------------------------------
(* The invariant holds.                                                    *)

\* Every step of a worker, whatever happens to it, while no tick outlives its
\* lease.
LEMMA WorkersFlight ==
    ASSUME TypeInv, TypeInv', LeaseInv, LeaseInv', NoOverrun, NoOverrun',
           Flight, NEW w \in Worker,
           TickStep(w) \/ Start(w) \/ Exit(w) \/ Mishap(w)
    PROVE  Flight'
  <1>1. CASE \/ AcquireFree(w) \/ FindBaseCheckedOut(w) \/ ReadBase(w)
             \/ OpenRefused(w) \/ BlameRefused(w) \/ StepFails(w)
             \/ Release(w) \/ ReleaseFails(w) \/ Start(w) \/ Exit(w)
             \/ Crash(w) \/ Signal(w)
    BY <1>1, EasyFlight, SignalFlight
  <1>2. CASE \/ ResumeCandidate(w) \/ FindNothingUnfinished(w)
             \/ SelectBatch(w) \/ CheckOutDetached(w) \/ MergeNext(w)
             \/ MergeConflicts(w) \/ GatePasses(w) \/ GateFails(w)
             \/ FastForward(w) \/ FindBaseMoved(w) \/ FastForwardKilled(w)
             \/ MergeCutShort(w)
    BY <1>2, LookingFlight, SelectFlight, WorkingFlight
  <1>3. CASE \/ AcquireReclaim(w) \/ Open(w) \/ ReopenHalf(w)
             \/ StartTesting(w) \/ AbandonInterrupted(w) \/ AbandonMoved(w)
             \/ Split(w)
    BY <1>3, ReclaimFlight, OpeningFlight, MarkingFlight, AbandoningFlight
  <1>4. CASE \/ RecordLanding(w) \/ Announce(w) \/ BlameConflict(w)
             \/ BlameLone(w)
    BY <1>4, RecordingFlight, AnnounceFlight, BlamingFlight
  <1> QED BY <1>1, <1>2, <1>3, <1>4 DEF TickStep, Mishap

\* Nothing is in the tables, nothing was announced, and nobody is at work.
LEMMA InitFlight == Init => FlightInv
  <1> SUFFICES ASSUME Init PROVE Flight
    BY DEF FlightInv
  <1>1. /\ \A e \in EntryId : /\ entry[e].state = "absent"
                              /\ entry[e].attempts = 0 /\ told[e] = <<>>
        /\ \A c \in CandidateId :
              /\ candidate[c].state = "absent" /\ candidate[c].entries = <<>>
              /\ \A e \in EntryId : candidate[c].outcome[e] = "none"
        /\ \A w \in Worker : wk[w].pc = "idle"
    BY DEF Init, StoreInit, Resting
  <1>2. Unfinished = {} /\ \A e \in EntryId : Convicting(e) = {}
    BY <1>1 DEF Unfinished, UnfinishedCandidate, Convicting
  <1>3. ASSUME NEW e \in EntryId PROVE EntryFlight(e)
    <2>1. MaxAttempts \in Nat /\ MaxAttempts # 0 /\ 0 <= MaxAttempts
      BY QueueAssumption
    <2> QED BY <1>1, <1>2, <2>1, FS_EmptySet DEF EntryFlight
  <1>4. ASSUME NEW c \in CandidateId PROVE CandidateFlight(c)
    BY <1>1, <1>2 DEF CandidateFlight, IsInjective
  <1>5. ASSUME NEW w \in Worker PROVE WorkerFlight(w)
    BY <1>1 DEF WorkerFlight, Working, Complete
  <1> QED BY <1>2, <1>3, <1>4, <1>5 DEF Flight, TablesFlight

LEMMA NextFlight ==
    TypeInv /\ LeaseInv /\ FlightInv /\ [Next]_vars => FlightInv'
  <1> SUFFICES ASSUME TypeInv, LeaseInv, FlightInv, [Next]_vars, NoOverrun'
               PROVE  Flight'
    BY DEF FlightInv
  <1>1. TypeInv' /\ LeaseInv' /\ NoOverrun /\ Flight
    BY NextType, NextLease, ApartBefore DEF FlightInv
  <1> QED BY <1>1, WorkersFlight, OutsidersFlight DEF Next

\* What the lease buys, in one invariant.
THEOREM FlightIsSound == Spec => []FlightInv
  BY InitFlight, NextFlight, TypeInvariant, LeaseIsHeld, PTL DEF Spec

\* One candidate is in flight at most.
THEOREM OneInFlight == Spec => []AtMostOneUnfinished
  <1>1. FlightInv => AtMostOneUnfinished
    BY DEF FlightInv, Flight, TablesFlight, AtMostOneUnfinished
  <1> QED BY <1>1, FlightIsSound, PTL

\* Nobody is stuck in a batch, or waits while being gated.
THEOREM NobodyIsStuck == Spec => []BatchedIsInFlight
  <1>1. TypeInv /\ FlightInv => BatchedIsInFlight
    <2> SUFFICES ASSUME TypeInv, Flight, NEW e \in EntryId
                 PROVE  LET inFlight == \E c \in Unfinished : e \in Members(c)
                        IN  /\ entry[e].state = "batched" => inFlight
                            /\ inFlight =>
                                  entry[e].state = "batched" \/ ByHand(entry[e])
      BY DEF FlightInv, BatchedIsInFlight
    <2>1. EntryFlight(e)
      BY DEF Flight, TablesFlight
    <2>2. ASSUME NEW c \in Unfinished, e \in Members(c)
          PROVE  entry[e].state = "batched" \/ ByHand(entry[e])
      BY <2>2, RowTypes DEF Flight, TablesFlight, CandidateFlight, Pending
    <2> QED BY <2>1, <2>2 DEF EntryFlight
  <1> QED BY <1>1, FlightIsSound, TypeInvariant, PTL

\* An attempt for each verdict against the entry, and for nothing else.
THEOREM AttemptsAreCounted == Spec => []AttemptsAreVerdicts
  <1>1. FlightInv => AttemptsAreVerdicts
    BY DEF FlightInv, Flight, TablesFlight, EntryFlight, Convicting,
           AttemptsAreVerdicts
  <1> QED BY <1>1, FlightIsSound, PTL

\* Evicted when the budget is spent, and not before.
THEOREM BudgetIsSpentInFull == Spec => []RetryBudget
  <1>1. FlightInv => RetryBudget
    BY DEF FlightInv, Flight, TablesFlight, EntryFlight, ByHand, RetryBudget
  <1> QED BY <1>1, FlightIsSound, PTL

\* Told once, and told what became of it.
THEOREM ToldOnceAndTruly == Spec => []ToldTheTruth
  <1>1. FlightInv => ToldTheTruth
    BY DEF FlightInv, Flight, TablesFlight, EntryFlight, ByHand, ToldTheTruth
  <1> QED BY <1>1, FlightIsSound, PTL

-----------------------------------------------------------------------------
(* What a step may do to the tables.                                       *)

\* The transactions but enqueue's, and in which state each finds the rows it
\* writes to.
Rewrites ==
    \/ NoStore
    \/ \E e \in EntryId : \/ <<"dequeue", e>> \in cli /\ EvictByHand(e)
                          \/ RaisePriority(e)
    \/ \E c \in CandidateId, batch \in Seq(EntryId) : \E from :
          /\ OpenCandidate(c, from, batch)
          /\ \A e \in ToSet(batch) : Pending(e, "queued") /\ InHand(e)
    \/ \E c \in Unfinished : \E commit : MarkTesting(c, commit)
    \/ \E c \in Unfinished :
          candidate[c].state = "testing" /\ LandCandidate(c)
    \/ \E c \in Unfinished, state \in {"superseded", "failed"} :
          /\ AbandonCandidate(c, state)
          /\ state = "failed" => candidate[c].state = "testing"
    \/ \E c \in Unfinished :
          /\ \E culprit \in Members(c), reason \in {"conflict", "gate"} :
                BlameEntry(c, culprit, MaxAttempts, reason)
          /\ \/ candidate[c].state = "testing"
             \/ \E w \in Worker : wk[w].pc \in Conflicting /\ wk[w].cand = c
    \/ SupersedeOrphans

Writes == Rewrites \/ \E request \in Request : InsertEntry(request)

LEMMA WorkerWrites ==
    ASSUME TypeInv, Flight, NEW w \in Worker,
           TickStep(w) \/ Start(w) \/ Exit(w) \/ Mishap(w)
    PROVE  Rewrites
  <1>1. CASE Start(w) \/ Exit(w) \/ Mishap(w)
    BY <1>1 DEF Start, Exit, Mishap, MergeCutShort, FastForwardKilled,
                StepFails, ReleaseFails, Signal, Crash, Rewrites
  <1>2. CASE Open(w) \/ ReopenHalf(w)
    <2>1. /\ wk[w].batch \in Seq(EntryId)
          /\ \A e \in ToSet(wk[w].batch) : Pending(e, "queued") /\ InHand(e)
      BY <1>2, WorkerTypes DEF Open, ReopenHalf, Flight, WorkerFlight, InHand
    <2>2. \E c \in CandidateId : \E from : OpenCandidate(c, from, wk[w].batch)
      BY <1>2 DEF Open, ReopenHalf
    <2> QED BY <2>1, <2>2 DEF Rewrites
  <1>3. ASSUME wk[w].pc \in Working
        PROVE  /\ wk[w].cand \in Unfinished
               /\ wk[w].pc \in Complete => candidate[wk[w].cand].state = "testing"
    BY <1>3 DEF Flight, WorkerFlight
  <1>4. CASE StartTesting(w) \/ RecordLanding(w)
    <2>1. wk[w].pc \in Working /\ (RecordLanding(w) => wk[w].pc \in Complete)
      BY <1>4 DEF StartTesting, RecordLanding, Working, Complete
    <2> QED BY <1>3, <1>4, <2>1 DEF StartTesting, RecordLanding, Rewrites
  <1>5. CASE AbandonInterrupted(w) \/ AbandonMoved(w) \/ Split(w)
    <2>1. wk[w].pc \in Working /\ (Split(w) => wk[w].pc \in Complete)
      BY <1>5 DEF AbandonInterrupted, AbandonMoved, Split, Working, Complete
    <2> QED BY <1>3, <1>5, <2>1
        DEF AbandonInterrupted, AbandonMoved, Split, Rewrites
  <1>6. CASE BlameConflict(w) \/ BlameLone(w)
    <2>1. /\ wk[w].pc \in Working
          /\ wk[w].pc \in Complete \/ wk[w].pc \in Conflicting
      BY <1>6 DEF BlameConflict, BlameLone, Working, Complete, Conflicting
    <2>2. PICK culprit \in Members(wk[w].cand), reason \in {"conflict", "gate"} :
             BlameEntry(wk[w].cand, culprit, MaxAttempts, reason)
      BY <1>6, BlamedIsMember DEF Blame
    <2> QED BY <1>3, <2>1, <2>2 DEF Rewrites
  <1>7. CASE AcquireReclaim(w)
    BY <1>7 DEF AcquireReclaim, Rewrites
  <1>8. CASE \/ AcquireFree(w) \/ FindBaseCheckedOut(w) \/ ReadBase(w)
             \/ ResumeCandidate(w) \/ FindNothingUnfinished(w)
             \/ SelectBatch(w) \/ OpenRefused(w) \/ CheckOutDetached(w)
             \/ MergeNext(w) \/ MergeConflicts(w) \/ GatePasses(w)
             \/ GateFails(w) \/ FastForward(w) \/ FindBaseMoved(w)
             \/ Announce(w) \/ BlameRefused(w) \/ Release(w)
    BY <1>8 DEF AcquireFree, FindBaseCheckedOut, ReadBase, ResumeCandidate,
        FindNothingUnfinished, SelectBatch, OpenRefused, CheckOutDetached,
        MergeNext, MergeConflicts, GatePasses, GateFails, FastForward,
        FindBaseMoved, Announce, BlameRefused, Release, Rewrites
  <1> QED BY <1>1, <1>2, <1>4, <1>5, <1>6, <1>7, <1>8 DEF TickStep

LEMMA NextRewrites ==
    ASSUME TypeInv, FlightInv, NoOverrun, [Next]_vars
    PROVE  Rewrites \/ Enqueue
  <1>1. Flight
    BY DEF FlightInv
  <1>2. CASE LeaseLapses \/ Developer \/ UNCHANGED vars
    BY <1>2 DEF LeaseLapses, Developer, vars, NoStore, Rewrites
  <1>3. CASE Operator
    BY <1>3 DEF Operator, CheckCommand, DequeueWrite, PromoteWrite, Rewrites
  <1> QED BY <1>1, <1>2, <1>3, WorkerWrites DEF Next

LEMMA NextWrites ==
    ASSUME TypeInv, FlightInv, NoOverrun, [Next]_vars
    PROVE  Writes
  BY NextRewrites DEF Enqueue, Writes

\* What each of them leaves of an entry and of a candidate.
EntryFollows(e) ==
    \/ entry[e].state \in {"absent", entry'[e].state}
    \/ <<entry[e].state, entry'[e].state>> \in EntryEdges
    \/ ByHand(entry[e]) \/ ByHand(entry'[e])

CandidateFollows(c) ==
    LET step == <<candidate[c].state, candidate'[c].state>>
    IN  step[1] \notin {"absent", step[2]} =>
            \/ step \in CandidateEdges
            \/ /\ step = <<"building", "failed">>
               /\ \E w \in Worker : wk[w].pc \in Conflicting /\ wk[w].cand = c

OutcomeFollows(c, e) ==
    candidate[c].outcome[e] \notin {"none", candidate'[c].outcome[e]} =>
        <<candidate[c].outcome[e], candidate'[c].outcome[e]>> \in OutcomeEdges

\* What is batched goes back in line.
LEMMA RequeueFollows ==
    ASSUME TypeInv, NEW es, NEW e \in EntryId,
           entry'[e] = Requeue(es)[e]
    PROVE  EntryFollows(e)
  BY RowTypes DEF Requeue, EntryRow, EntryFollows, EntryEdges

LEMMA EntriesFollow ==
    ASSUME TypeInv, FlightInv, NoOverrun, Writes, NEW e \in EntryId
    PROVE  EntryFollows(e)
  <1>1. TablesFlight /\ EntryFlight(e)
    BY DEF FlightInv, Flight, TablesFlight
  <1>2. ASSUME NEW c \in Unfinished, e \in Members(c)
        PROVE  entry[e].state = "batched" \/ ByHand(entry[e])
    BY <1>1, <1>2, RowTypes DEF TablesFlight, CandidateFlight, Pending
  <1>3. CASE NoStore \/ \E c \in Unfinished : \E commit : MarkTesting(c, commit)
    BY <1>3 DEF NoStore, MarkTesting, EntryFollows
  <1>4. CASE \E request \in Request : InsertEntry(request)
    <2>1. PICK new, row : /\ new \in EntryId /\ entry[new].state = "absent"
                          /\ entry' = [entry EXCEPT ![new] = row]
      BY <1>4 DEF InsertEntry
    <2> QED BY <2>1 DEF TypeInv, StoreTypeOK, EntryFollows
  <1>5. ASSUME NEW f \in EntryId, EvictByHand(f) \/ RaisePriority(f)
        PROVE  EntryFollows(e)
    <2>1. CASE EvictByHand(f)
      BY <2>1 DEF EvictByHand, ByHand, TypeInv, StoreTypeOK, EntryRow,
                  EntryFollows
    <2>2. CASE RaisePriority(f)
      <3>1. PICK priority : entry' = [entry EXCEPT ![f].priority = priority]
        BY <2>2 DEF RaisePriority
      <3> QED BY <3>1 DEF TypeInv, StoreTypeOK, EntryRow, EntryFollows
    <2> QED BY <1>5, <2>1, <2>2
  <1>6. ASSUME NEW c \in CandidateId, NEW from, NEW batch \in Seq(EntryId),
               OpenCandidate(c, from, batch),
               \A f \in ToSet(batch) : Pending(f, "queued")
        PROVE  EntryFollows(e)
    <2>1. entry'[e].state = IF e \in ToSet(batch) THEN "batched"
                            ELSE entry[e].state
      BY <1>6 DEF OpenCandidate, TypeInv, StoreTypeOK, EntryRow
    <2> QED BY <1>6, <2>1 DEF Pending, EntryFollows, EntryEdges
  <1>7. ASSUME NEW c \in Unfinished, LandCandidate(c)
        PROVE  EntryFollows(e)
    <2>1. entry'[e].state = IF e \in Members(c) THEN "merged"
                            ELSE entry[e].state
      BY <1>7 DEF LandCandidate, TypeInv, StoreTypeOK, EntryRow
    <2> QED BY <1>2, <2>1 DEF EntryFollows, EntryEdges
  <1>8. ASSUME NEW c \in Unfinished, NEW state, AbandonCandidate(c, state)
        PROVE  EntryFollows(e)
    BY <1>8, RequeueFollows DEF AbandonCandidate
  <1>9. ASSUME NEW c \in Unfinished, NEW culprit \in Members(c), NEW reason,
               BlameEntry(c, culprit, MaxAttempts, reason)
        PROVE  EntryFollows(e)
    <2>1. entry'[e] = IF e = culprit THEN Punished(e, MaxAttempts, reason)
                      ELSE Requeue(Members(c) \ {culprit})[e]
      BY <1>9, RequeueType DEF BlameEntry, TypeInv
    <2>2. CASE e = culprit
      <3>1. entry'[e].state \in {"queued", "evicted"}
        BY <2>1, <2>2, RowTypes DEF Punished, EntryRow
      <3> QED BY <1>2, <2>2, <3>1 DEF EntryFollows, EntryEdges
    <2>3. CASE e # culprit
      BY <2>1, <2>3, RequeueFollows
    <2> QED BY <2>2, <2>3
  <1>10. CASE SupersedeOrphans
    BY <1>10, RequeueFollows DEF SupersedeOrphans
  <1> QED BY <1>3, <1>4, <1>5, <1>6, <1>7, <1>8, <1>9, <1>10 DEF Writes, Rewrites

LEMMA CandidatesFollow ==
    ASSUME TypeInv, FlightInv, NoOverrun, Writes, NEW c \in CandidateId
    PROVE  /\ CandidateFollows(c)
           /\ \A e \in EntryId : OutcomeFollows(c, e)
  <1>1. ASSUME candidate'[c] = candidate[c]
        PROVE  CandidateFollows(c) /\ \A e \in EntryId : OutcomeFollows(c, e)
    BY <1>1 DEF CandidateFollows, OutcomeFollows
  <1>2. ASSUME c \in Unfinished
        PROVE  /\ candidate[c].state \in {"building", "testing"}
               /\ \A e \in EntryId :
                     candidate[c].outcome[e] =
                        IF e \in Members(c) THEN "pending" ELSE "none"
    BY <1>2 DEF FlightInv, Flight, TablesFlight, CandidateFlight, Unfinished,
                UnfinishedCandidate
  <1>3. CASE \/ NoStore \/ \E request \in Request : InsertEntry(request)
             \/ \E e \in EntryId : EvictByHand(e) \/ RaisePriority(e)
    BY <1>1, <1>3 DEF NoStore, InsertEntry, EvictByHand, RaisePriority
  <1>4. ASSUME NEW d \in CandidateId, NEW from, NEW batch,
               OpenCandidate(d, from, batch)
        PROVE  CandidateFollows(c) /\ \A e \in EntryId : OutcomeFollows(c, e)
    <2>1. CASE c = d
      BY <1>4, <2>1 DEF OpenCandidate, FlightInv, Flight, TablesFlight,
         CandidateFlight, CandidateFollows, OutcomeFollows
    <2>2. CASE c # d
      BY <1>1, <1>4, <2>2 DEF OpenCandidate, TypeInv, StoreTypeOK
    <2> QED BY <2>1, <2>2
  <1>5. ASSUME NEW d \in Unfinished, NEW state,
               \/ \E commit : state = "testing" /\ MarkTesting(d, commit)
               \/ /\ AbandonCandidate(d, state)
                  /\ \/ state = "superseded"
                     \/ state = "failed" /\ candidate[d].state = "testing"
        PROVE  CandidateFollows(c) /\ \A e \in EntryId : OutcomeFollows(c, e)
    <2>1. /\ c # d => candidate'[c] = candidate[c]
          /\ c = d => /\ candidate'[c].state = state
                      /\ candidate'[c].outcome = candidate[c].outcome
      <3>1. ASSUME NEW commit, state = "testing", MarkTesting(d, commit)
            PROVE  /\ c # d => candidate'[c] = candidate[c]
                   /\ c = d => /\ candidate'[c].state = state
                               /\ candidate'[c].outcome = candidate[c].outcome
        BY <3>1 DEF MarkTesting, TypeInv, StoreTypeOK, CandidateRow
      <3>2. CASE AbandonCandidate(d, state)
        BY <3>2 DEF AbandonCandidate, TypeInv, StoreTypeOK, CandidateRow
      <3> QED BY <1>5, <3>1, <3>2
    <2>2. CASE c = d
      BY <1>2, <1>5, <2>1, <2>2
      DEF CandidateFollows, CandidateEdges, OutcomeFollows
    <2> QED BY <1>1, <2>1, <2>2
  <1>6. ASSUME NEW d \in Unfinished, NEW state,
               \/ /\ state = "passed" /\ LandCandidate(d)
                  /\ candidate[d].state = "testing"
               \/ /\ state = "failed"
                  /\ \E culprit \in Members(d), reason \in {"conflict", "gate"} :
                        BlameEntry(d, culprit, MaxAttempts, reason)
                  /\ \/ candidate[d].state = "testing"
                     \/ \E w \in Worker : wk[w].pc \in Conflicting /\ wk[w].cand = d
        PROVE  CandidateFollows(c) /\ \A e \in EntryId : OutcomeFollows(c, e)
    <2>1. PICK outcome :
             /\ candidate' = [candidate EXCEPT ![d].state = state,
                                               ![d].outcome = outcome]
             /\ \A e \in EntryId :
                   outcome[e] \in {"passed", "culprit", "skipped"}
                   \/ e \notin Members(d)
      <3>1. ASSUME state = "passed", LandCandidate(d)
            PROVE  \E outcome :
                      /\ candidate' = [candidate EXCEPT
                            ![d].state = state, ![d].outcome = outcome]
                      /\ \A e \in EntryId :
                            outcome[e] \in {"passed", "culprit", "skipped"}
                            \/ e \notin Members(d)
        <4> DEFINE outcome == [e \in EntryId |->
                                  IF e \in Members(d) THEN "passed"
                                  ELSE candidate[d].outcome[e]]
        <4>1. candidate' = [candidate EXCEPT ![d].state = state,
                                             ![d].outcome = outcome]
          BY <3>1 DEF LandCandidate
        <4>2. \A e \in EntryId : outcome[e] \in {"passed", "culprit", "skipped"}
                                 \/ e \notin Members(d)
          OBVIOUS
        <4> QED BY <4>1, <4>2
      <3>2. ASSUME state = "failed", NEW culprit \in Members(d),
                   NEW reason, BlameEntry(d, culprit, MaxAttempts, reason)
            PROVE  \E outcome :
                      /\ candidate' = [candidate EXCEPT
                            ![d].state = state, ![d].outcome = outcome]
                      /\ \A e \in EntryId :
                            outcome[e] \in {"passed", "culprit", "skipped"}
                            \/ e \notin Members(d)
        <4> DEFINE outcome == [e \in EntryId |->
                                  IF e = culprit THEN "culprit"
                                  ELSE IF e \in Members(d) THEN "skipped"
                                  ELSE candidate[d].outcome[e]]
        <4>1. candidate' = [candidate EXCEPT ![d].state = state,
                                             ![d].outcome = outcome]
          BY <3>2 DEF BlameEntry
        <4>2. \A e \in EntryId : outcome[e] \in {"passed", "culprit", "skipped"}
                                 \/ e \notin Members(d)
          OBVIOUS
        <4> QED BY <4>1, <4>2
      <3> QED BY <1>6, <3>1, <3>2
    <2>2. /\ c # d => candidate'[c] = candidate[c]
          /\ c = d => /\ candidate'[c].state = state
                      /\ candidate'[c].outcome = outcome
      BY <2>1, RowTypes DEF TypeInv, StoreTypeOK, CandidateRow
    <2>3. CASE c = d
      <3>1. CandidateFollows(c)
        BY <1>2, <1>6, <2>2, <2>3 DEF CandidateFollows, CandidateEdges
      <3>2. \A e \in EntryId : OutcomeFollows(c, e)
        BY <1>2, <2>1, <2>2, <2>3 DEF OutcomeFollows, OutcomeEdges
      <3> QED BY <3>1, <3>2
    <2> QED BY <1>1, <2>2, <2>3
  <1>7. CASE SupersedeOrphans
    <2>1. candidate'[c] = IF c \in Unfinished
                          THEN [candidate[c] EXCEPT !.state = "superseded"]
                          ELSE candidate[c]
      BY <1>7 DEF SupersedeOrphans
    <2>2. CASE c \in Unfinished
      <3>1. /\ candidate'[c].state = "superseded"
            /\ candidate'[c].outcome = candidate[c].outcome
        BY <2>1, <2>2 DEF TypeInv, StoreTypeOK, CandidateRow
      <3> QED BY <1>2, <2>2, <3>1
          DEF CandidateFollows, CandidateEdges, OutcomeFollows
    <2> QED BY <1>1, <2>1, <2>2
  <1> QED BY <1>3, <1>4, <1>5, <1>6, <1>7 DEF Writes, Rewrites

\* Every write of an entry's state follows an edge of state.rs, or is a
\* dequeue's.
THEOREM EntriesFollowTheTable == Spec => EntryLifecycle
  <1>1. TypeInv /\ FlightInv /\ [Next]_vars =>
           [NoOverrun =>
               \A e \in EntryId :
                   \/ entry[e].state \in {"absent", entry'[e].state}
                   \/ <<entry[e].state, entry'[e].state>> \in EntryEdges
                   \/ ByHand(entry[e]) \/ ByHand(entry'[e])]_vars
    BY NextWrites, EntriesFollow DEF EntryFollows
  <1> QED BY <1>1, FlightIsSound, TypeInvariant, PTL DEF Spec, EntryLifecycle

\* And of a candidate's, but for the conflict found while assembling.
THEOREM CandidatesFollowTheTable == Spec => CandidateLifecycle
  <1>1. TypeInv /\ FlightInv /\ [Next]_vars =>
           [NoOverrun =>
               \A c \in CandidateId :
                   LET step == <<candidate[c].state, candidate'[c].state>>
                   IN  step[1] \notin {"absent", step[2]} =>
                          \/ step \in CandidateEdges
                          \/ /\ step = <<"building", "failed">>
                             /\ \E w \in Worker :
                                   wk[w].pc \in Conflicting /\ wk[w].cand = c]_vars
    BY NextWrites, CandidatesFollow DEF CandidateFollows
  <1> QED BY <1>1, FlightIsSound, TypeInvariant, PTL
      DEF Spec, CandidateLifecycle

\* A verdict is reached once.
THEOREM VerdictsStand == Spec => VerdictsAreFinal
  <1>1. TypeInv /\ FlightInv /\ [Next]_vars =>
           [NoOverrun =>
               \A c \in CandidateId, e \in EntryId :
                   candidate[c].outcome[e]
                      \notin {"none", candidate'[c].outcome[e]} =>
                   <<candidate[c].outcome[e], candidate'[c].outcome[e]>>
                      \in OutcomeEdges]_vars
    BY NextWrites, CandidatesFollow DEF OutcomeFollows
  <1> QED BY <1>1, FlightIsSound, TypeInvariant, PTL DEF Spec, VerdictsAreFinal
=============================================================================
