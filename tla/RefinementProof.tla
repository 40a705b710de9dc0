-------------------------- MODULE RefinementProof --------------------------
(***************************************************************************)
(* Proof that the merge queue implements RocketScience, for any number of  *)
(* workers, requests, entries, candidates and mishaps: whatever is crashed,*)
(* reclaimed, bisected, retried, promoted, dequeued or pushed in between,  *)
(* each step is one of the abstract queue's, or changes nothing it speaks  *)
(* of.  It is the queue's promise as long as no tick outlives its lease.   *)
(***************************************************************************)
EXTENDS FlightProof

-----------------------------------------------------------------------------
(* What is left of an entry's fate where a dequeue wrote over it.          *)

\* A row agrees with whether the queue is at work on it, and has landed it.
Agrees(row, inHand, landed) ==
    /\ inHand => /\ row.state \in LiveEntry \/ ByHand(row)
                 /\ row.attempts < MaxAttempts
    /\ row.state = "merged" => landed
    /\ landed => /\ row.state = "merged" \/ ByHand(row)
                 /\ ~inHand
                 /\ row.attempts < MaxAttempts
    /\ row.attempts = MaxAttempts => row.state = "evicted"
    /\ row.state = "evicted" /\ ~ByHand(row) => row.attempts = MaxAttempts

\* What a dequeue command looked at is there.
EntryHistory(e) ==
    /\ Agrees(entry[e], InHand(e), Landed(e))
    /\ <<"dequeue", e>> \in cli => entry[e].state # "absent"

History == \A e \in EntryId : EntryHistory(e)

\* Inductive, given what FlightProof proves.
HistoryInv == NoOverrun => History

\* Each fate, told apart by what neither a dequeue nor a crash can change.
LEMMA FateIs ==
    ASSUME NEW row \in EntryRow, NEW inHand \in BOOLEAN, NEW landed \in BOOLEAN,
           Agrees(row, inHand, landed)
    PROVE  /\ Fate(row, inHand, landed) \in
                 {"none", "waiting", "merged", "rejected", "withdrawn"}
           /\ Fate(row, inHand, landed) = "none" <=> row.state = "absent"
           /\ Fate(row, inHand, landed) = "waiting" <=>
                 row.state \in LiveEntry \/ inHand
           /\ Fate(row, inHand, landed) = "merged" <=> landed
           /\ Fate(row, inHand, landed) = "rejected" <=>
                 row.attempts = MaxAttempts
  <1>1. MaxAttempts \in Nat /\ MaxAttempts # 0 /\ row.attempts \in Nat
    BY QueueAssumption DEF EntryRow
  <1>2. ByHand(row) => row.state = "evicted"
    BY DEF ByHand
  <1>3. CASE row.state = "absent"
    <2>1. Fate(row, inHand, landed) = "none"
      BY <1>2, <1>3 DEF Fate, LiveEntry
    <2> QED BY <1>2, <1>3, <2>1 DEF Agrees, LiveEntry
  <1>4. CASE row.state \in LiveEntry
    <2>1. Fate(row, inHand, landed) = "waiting"
      BY <1>2, <1>4 DEF Fate, LiveEntry
    <2> QED BY <1>2, <1>4, <2>1 DEF Agrees, LiveEntry
  <1>5. CASE row.state = "merged"
    <2>1. Fate(row, inHand, landed) = "merged"
      BY <1>2, <1>5 DEF Fate, LiveEntry
    <2> QED BY <1>1, <1>2, <1>5, <2>1 DEF Agrees, LiveEntry
  <1>6. CASE row.state = "evicted" /\ ~ByHand(row)
    <2>1. Fate(row, inHand, landed) = "rejected"
      BY <1>6 DEF Fate, LiveEntry
    <2> QED BY <1>1, <1>6, <2>1 DEF Agrees, LiveEntry
  <1>7. CASE ByHand(row)
    <2>1. Fate(row, inHand, landed) =
             IF inHand THEN "waiting" ELSE IF landed THEN "merged"
             ELSE IF row.attempts = MaxAttempts THEN "rejected" ELSE "withdrawn"
      BY <1>2, <1>7 DEF Fate, LiveEntry
    <2> QED BY <1>1, <1>2, <1>7, <2>1 DEF Agrees, LiveEntry
  <1>8. row.state \in {"absent", "merged", "evicted"} \cup LiveEntry
    BY DEF EntryRow, EntryState, LiveEntry
  <1> QED BY <1>3, <1>4, <1>5, <1>6, <1>7, <1>8

\* What this says of an entry.
LEMMA FateOf ==
    ASSUME TypeInv, NEW e \in EntryId, EntryHistory(e)
    PROVE  LET fate == Fate(entry[e], InHand(e), Landed(e))
           IN  /\ fate \in {"none", "waiting", "merged", "rejected", "withdrawn"}
               /\ fate = "none" <=> entry[e].state = "absent"
               /\ fate = "waiting" <=> entry[e].state \in LiveEntry \/ InHand(e)
               /\ fate = "merged" <=> Landed(e)
               /\ fate = "rejected" <=> entry[e].attempts = MaxAttempts
  <1>1. InHand(e) \in BOOLEAN /\ Landed(e) \in BOOLEAN
    BY DEF InHand, Landed
  <1>2. entry[e] \in EntryRow
    BY RowTypes
  <1> QED BY <1>1, <1>2, FateIs DEF EntryHistory

\* A step of the merge queue seen from an entry that the queue is done with:
\* out, and neither in line nor in hand.
Done(e) ==
    /\ entry[e].state \notin LiveEntry \cup {"absent"}
    /\ ~InHand(e)

-----------------------------------------------------------------------------
(* Steps.                                                                  *)

\* Only the selection and a split put a batch together.
LEMMA WhoTakes ==
    ASSUME TypeInv, [Next]_vars, NEW w \in Worker,
           wk'[w].pc \in {"open", "reopen"}
    PROVE  \/ wk[w].pc \in {"open", "reopen"} /\ wk'[w].batch = wk[w].batch
           \/ SelectBatch(w) \/ Split(w)
  <1>1. wk \in [Worker -> WorkerState]
    BY DEF TypeInv, WorkersOK
  <1>2. SUFFICES ASSUME wk'[w] # wk[w]
                 PROVE  \/ wk[w].pc \in {"open", "reopen"} /\ wk'[w].batch = wk[w].batch
                        \/ SelectBatch(w) \/ Split(w)
    OBVIOUS
  <1>3. PICK v \in Worker : TickStep(v) \/ Start(v) \/ Exit(v) \/ Mishap(v)
    BY <1>2 DEF Next, vars, LeaseLapses, Operator, Enqueue, CheckCommand,
                DequeueWrite, PromoteWrite, Developer
  <1>4. v = w
    BY <1>2, <1>3, OneWorkerSteps
  <1>5. CASE Signal(w)
    BY <1>1, <1>5 DEF Signal, WorkerState
  <1>6. ~(Start(w) \/ Exit(w) \/ ReleaseFails(w) \/ Crash(w) \/ Release(w))
    <2>1. ASSUME NEW pc \in {"down", "idle"}, NEW stop,
                 wk' = [wk EXCEPT ![w] = Resting(w, pc, stop)]
          PROVE  FALSE
      <3>1. wk'[w] = Resting(w, pc, stop)
        BY <1>1, <2>1
      <3> QED BY <3>1 DEF Resting
    <2> QED BY <2>1 DEF Start, Exit, ReleaseFails, Crash, Release
  <1>7. ~(StepFails(w) \/ FastForwardKilled(w) \/ MergeCutShort(w))
    BY <1>1 DEF StepFails, FastForwardKilled, MergeCutShort, Goto, WorkerState
  <1>8. CASE \/ AcquireFree(w) \/ AcquireReclaim(w) \/ FindBaseCheckedOut(w)
             \/ ReadBase(w) \/ FindNothingUnfinished(w) \/ Open(w)
             \/ OpenRefused(w) \/ CheckOutDetached(w)
    BY <1>1, <1>8 DEF AcquireFree, AcquireReclaim, Acquired,
       FindBaseCheckedOut, ReadBase, FindNothingUnfinished, Open, OpenRefused,
       CheckOutDetached, Goto, WorkerState
  <1>9. CASE \/ MergeConflicts(w) \/ StartTesting(w) \/ GatePasses(w)
             \/ GateFails(w) \/ FastForward(w) \/ FindBaseMoved(w)
    BY <1>1, <1>9 DEF MergeConflicts, StartTesting, GatePasses, GateFails,
       FastForward, FindBaseMoved, Goto, WorkerState
  <1>10. CASE RecordLanding(w) \/ Announce(w) \/ ResumeCandidate(w) \/ MergeNext(w)
    <2>1. ASSUME RecordLanding(w) PROVE FALSE
      <3>1. PICK tell : wk' = [wk EXCEPT ![w].pc = "announce", ![w].tell = tell]
        BY <2>1 DEF RecordLanding
      <3> QED BY <1>1, <3>1 DEF WorkerState
    <2>2. ASSUME Announce(w) PROVE FALSE
      <3>1. PICK tell : wk' = [wk EXCEPT ![w].tell = tell]
        BY <2>2 DEF Announce
      <3>2. wk[w].pc = "announce" /\ wk'[w].pc = wk[w].pc
        BY <1>1, <2>2, <3>1 DEF Announce, WorkerState
      <3> QED BY <3>2
    <2>3. ASSUME ResumeCandidate(w) PROVE FALSE
      <3>1. PICK c : wk' = [wk EXCEPT
                ![w].pc = IF candidate[c].base = wk[w].base
                          THEN "checkout" ELSE "moved",
                ![w].cand = c, ![w].batch = candidate[c].entries]
        BY <2>3 DEF ResumeCandidate
      <3>2. wk'[w].pc = IF candidate[c].base = wk[w].base
                        THEN "checkout" ELSE "moved"
        BY <1>1, <3>1 DEF WorkerState
      <3> QED BY <3>2
    <2>4. ASSUME MergeNext(w) PROVE FALSE
      <3>1. PICK n, tip : wk' = [wk EXCEPT ![w].merged = n, ![w].tip = tip]
        BY <2>4 DEF MergeNext
      <3>2. wk[w].pc = "merge" /\ wk'[w].pc = wk[w].pc
        BY <1>1, <2>4, <3>1 DEF MergeNext, WorkerState
      <3> QED BY <3>2
    <2> QED BY <1>10, <2>1, <2>2, <2>3, <2>4
  <1>11. CASE BlameConflict(w) \/ BlameLone(w)
    BY <1>1, <1>11 DEF BlameConflict, BlameLone, Blame, WorkerState
  <1>12. CASE \/ BlameRefused(w) \/ AbandonInterrupted(w) \/ AbandonMoved(w)
              \/ ReopenHalf(w)
    BY <1>1, <1>12 DEF BlameRefused, AbandonInterrupted, AbandonMoved,
       ReopenHalf, Goto, WorkerState
  <1> QED BY <1>3, <1>4, <1>5, <1>6, <1>7, <1>8, <1>9, <1>10, <1>11, <1>12
      DEF TickStep, Mishap

\* Whatever is in a batch about to be opened was in line or in hand before.
LEMMA TakenFromLine ==
    ASSUME TypeInv, Flight, [Next]_vars, NEW w \in Worker,
           wk'[w].pc \in {"open", "reopen"}, NEW e \in ToSet(wk'[w].batch)
    PROVE  entry[e].state = "queued" \/ InHand(e)
  <1>1. CASE wk[w].pc \in {"open", "reopen"} /\ wk'[w].batch = wk[w].batch
    BY <1>1 DEF InHand
  <1>2. CASE SelectBatch(w)
    <2>1. PICK batch \in Batches(MaxBatch) : wk'[w].batch = batch
      BY <1>2 DEF SelectBatch, TypeInv, WorkersOK, WorkerState
    <2> QED BY <2>1 DEF Batches, BatchMembers, FirstQueued, Queued, ToSet
  <1>3. CASE Split(w)
    <2>1. PICK c \in Unfinished :
             c = wk[w].cand /\ wk[w].batch = candidate[c].entries
      BY <1>3 DEF Split, Flight, WorkerFlight, Working
    <2>2. wk[w].batch \in Seq(EntryId) /\ IsInjective(wk[w].batch)
      BY <2>1, WorkerTypes, RowTypes DEF Flight, TablesFlight, CandidateFlight
    <2>3. wk'[w].batch = LeftHalf(wk[w].batch)
      BY <1>3 DEF Split, TypeInv, WorkersOK, WorkerState
    <2>4. e \in Members(c)
      BY <2>1, <2>2, <2>3, HalfIsPart DEF Members
    <2> QED BY <2>1, <2>4 DEF InHand
  <1> QED BY <1>1, <1>2, <1>3, WhoTakes

\* A step seen from a row: what was submitted stays, and what the queue is done
\* with is only written to by a dequeue or a promote.
RowFollows(e) ==
    /\ entry[e].state # "absent" =>
          /\ entry'[e].state # "absent"
          /\ entry'[e].request = entry[e].request
    /\ Done(e) =>
          /\ entry'[e].attempts = entry[e].attempts
          /\ \/ /\ entry'[e].state = entry[e].state
                /\ entry'[e].reason = entry[e].reason
             \/ ByHand(entry'[e])
    /\ entry'[e].state = "merged" => entry[e].state = "merged" \/ Landed(e)'

\* It is not new, either.
RowStays(e) ==
    /\ entry[e].state = "absent" => entry'[e].state = "absent"
    /\ entry'[e].request = entry[e].request

\* A write that leaves these columns alone does neither.
LEMMA SameRow ==
    ASSUME NEW e \in EntryId,
           entry'[e].state = entry[e].state, entry'[e].reason = entry[e].reason,
           entry'[e].request = entry[e].request,
           entry'[e].attempts = entry[e].attempts
    PROVE  RowFollows(e) /\ RowStays(e)
  BY DEF RowFollows, RowStays

\* Nor does sending members back in line: only a batched one is written to.
LEMMA RequeuedRow ==
    ASSUME TypeInv, NEW es, NEW e \in EntryId, entry'[e] = Requeue(es)[e]
    PROVE  RowFollows(e) /\ RowStays(e)
  <1>1. entry'[e] = IF e \in es /\ entry[e].state = "batched"
                    THEN [entry[e] EXCEPT !.state = "queued"] ELSE entry[e]
    BY DEF Requeue
  <1>2. CASE e \in es /\ entry[e].state = "batched"
    <2>1. entry'[e].state = "queued" /\ entry'[e].request = entry[e].request
      BY <1>1, <1>2, RowTypes DEF EntryRow
    <2> QED BY <1>2, <2>1 DEF RowFollows, RowStays, Done, LiveEntry
  <1>3. CASE ~(e \in es /\ entry[e].state = "batched")
    BY <1>1, <1>3, SameRow
  <1> QED BY <1>2, <1>3

\* The members of the candidate in flight are in hand.
LEMMA MembersInHand ==
    ASSUME TypeInv, Flight, NEW c \in Unfinished, NEW e \in Members(c)
    PROVE  e \in EntryId /\ InHand(e) /\ Pending(e, "batched")
  BY RowTypes DEF Flight, TablesFlight, CandidateFlight, InHand

\* Every transaction but a new submission's, seen from a row.
LEMMA RowsRewritten ==
    ASSUME TypeInv, Flight, History, Rewrites, NEW e \in EntryId
    PROVE  RowFollows(e) /\ RowStays(e)
  <1>1. CASE NoStore \/ \E c \in Unfinished : \E commit : MarkTesting(c, commit)
    BY <1>1, SameRow DEF NoStore, MarkTesting
  <1>2. ASSUME NEW f \in EntryId, <<"dequeue", f>> \in cli, EvictByHand(f)
        PROVE  RowFollows(e) /\ RowStays(e)
    <2>1. CASE f = e
      <3>1. /\ entry'[e].state = "evicted" /\ entry'[e].reason = "by hand"
            /\ entry'[e].request = entry[e].request
            /\ entry'[e].attempts = entry[e].attempts
        BY <1>2, <2>1 DEF EvictByHand, TypeInv, StoreTypeOK, EntryRow
      <3>2. entry[e].state # "absent"
        BY <1>2, <2>1 DEF History, EntryHistory
      <3> QED BY <3>1, <3>2 DEF RowFollows, RowStays, ByHand
    <2>2. CASE f # e
      <3>1. entry'[e] = entry[e]
        BY <1>2, <2>2 DEF EvictByHand, TypeInv, StoreTypeOK
      <3> QED BY <3>1, SameRow
    <2> QED BY <2>1, <2>2
  <1>3. ASSUME NEW f \in EntryId, RaisePriority(f)
        PROVE  RowFollows(e) /\ RowStays(e)
    <2>1. PICK priority : entry' = [entry EXCEPT ![f].priority = priority]
      BY <1>3 DEF RaisePriority
    <2>2. /\ entry'[e].state = entry[e].state /\ entry'[e].reason = entry[e].reason
          /\ entry'[e].request = entry[e].request
          /\ entry'[e].attempts = entry[e].attempts
      BY <2>1 DEF TypeInv, StoreTypeOK, EntryRow
    <2> QED BY <2>2, SameRow
  <1>4. ASSUME NEW c \in CandidateId, NEW from, NEW batch \in Seq(EntryId),
               OpenCandidate(c, from, batch),
               \A f \in ToSet(batch) : Pending(f, "queued") /\ InHand(f)
        PROVE  RowFollows(e) /\ RowStays(e)
    <2>1. CASE e \in ToSet(batch)
      <3>1. entry'[e].state = "batched" /\ entry'[e].request = entry[e].request
        BY <1>4, <2>1 DEF OpenCandidate, TypeInv, StoreTypeOK, EntryRow
      <3>2. entry[e].state # "absent" /\ ~Done(e)
        BY <1>4, <2>1 DEF Pending, ByHand, Done
      <3> QED BY <3>1, <3>2 DEF RowFollows, RowStays
    <2>2. CASE e \notin ToSet(batch)
      <3>1. entry'[e] = entry[e]
        BY <1>4, <2>2 DEF OpenCandidate
      <3> QED BY <3>1, SameRow
    <2> QED BY <2>1, <2>2
  <1>5. ASSUME NEW c \in Unfinished, LandCandidate(c)
        PROVE  RowFollows(e) /\ RowStays(e)
    <2>1. CASE e \in Members(c)
      <3>1. entry'[e].state = "merged" /\ entry'[e].request = entry[e].request
        BY <1>5, <2>1 DEF LandCandidate, TypeInv, StoreTypeOK, EntryRow
      <3>2. entry[e].state # "absent" /\ ~Done(e)
        BY <2>1, MembersInHand DEF Pending, ByHand, Done
      <3>3. Landed(e)'
        <4>1. c \in CandidateId /\ candidate'[c].outcome[e] = "passed"
          BY <1>5, <2>1, RowTypes
          DEF LandCandidate, TypeInv, StoreTypeOK, CandidateRow
        <4> QED BY <4>1 DEF Landed
      <3> QED BY <3>1, <3>2, <3>3 DEF RowFollows, RowStays
    <2>2. CASE e \notin Members(c)
      <3>1. entry'[e] = entry[e]
        BY <1>5, <2>2 DEF LandCandidate
      <3> QED BY <3>1, SameRow
    <2> QED BY <2>1, <2>2
  <1>6. ASSUME NEW c \in Unfinished, NEW state, AbandonCandidate(c, state)
        PROVE  RowFollows(e) /\ RowStays(e)
    BY <1>6, RequeuedRow DEF AbandonCandidate
  <1>7. ASSUME NEW c \in Unfinished, NEW culprit \in Members(c), NEW reason,
               BlameEntry(c, culprit, MaxAttempts, reason)
        PROVE  RowFollows(e) /\ RowStays(e)
    <2>1. entry'[e] = IF e = culprit THEN Punished(e, MaxAttempts, reason)
                      ELSE Requeue(Members(c) \ {culprit})[e]
      BY <1>7, RequeueType DEF BlameEntry, TypeInv
    <2>2. CASE e = culprit
      <3>1. /\ entry'[e].state \in {"queued", "evicted"}
            /\ entry'[e].request = entry[e].request
        BY <2>1, <2>2, RowTypes DEF Punished, EntryRow
      <3>2. entry[e].state # "absent" /\ ~Done(e)
        BY <2>2, MembersInHand DEF Pending, ByHand, Done
      <3> QED BY <3>1, <3>2 DEF RowFollows, RowStays
    <2>3. CASE e # culprit
      BY <2>1, <2>3, RequeuedRow
    <2> QED BY <2>2, <2>3
  <1>8. CASE SupersedeOrphans
    BY <1>8, RequeuedRow DEF SupersedeOrphans
  <1> QED BY <1>1, <1>2, <1>3, <1>4, <1>5, <1>6, <1>7, <1>8 DEF Rewrites

\* A new submission's, too: it takes a row nobody has.
LEMMA RowsWritten ==
    ASSUME TypeInv, Flight, History, Writes, NEW e \in EntryId
    PROVE  RowFollows(e)
  <1>1. ASSUME NEW request \in Request, InsertEntry(request)
        PROVE  RowFollows(e)
    <2>1. PICK new, row :
             /\ new \in EntryId /\ entry[new].state = "absent"
             /\ row.state = "queued"
             /\ entry' = [entry EXCEPT ![new] = row]
      BY <1>1 DEF InsertEntry
    <2>2. CASE e = new
      <3>1. entry'[e].state = "queued" /\ ~Done(e)
        BY <2>1, <2>2 DEF TypeInv, StoreTypeOK, Done
      <3> QED BY <2>1, <2>2, <3>1 DEF RowFollows
    <2>3. CASE e # new
      <3>1. entry'[e] = entry[e]
        BY <2>1, <2>3 DEF TypeInv, StoreTypeOK
      <3> QED BY <3>1, SameRow
    <2> QED BY <2>2, <2>3
  <1> QED BY <1>1, RowsRewritten DEF Writes

-----------------------------------------------------------------------------
(* What is landed, and what is in hand.                                    *)

\* An outcome is never rewritten, so what is landed stays so.
LEMMA LandedStays ==
    ASSUME TypeInv, FlightInv, NoOverrun, Writes, NEW e \in EntryId, Landed(e)
    PROVE  Landed(e)'
  <1>1. PICK c \in CandidateId : candidate[c].outcome[e] = "passed"
    BY DEF Landed
  <1>2. OutcomeFollows(c, e)
    BY CandidatesFollow
  <1>3. candidate'[c].outcome[e] = "passed"
    BY <1>1, <1>2 DEF OutcomeFollows, OutcomeEdges
  <1> QED BY <1>3 DEF Landed

\* Only landing a candidate lands an entry, and it has the entry in hand.
LEMMA NewlyLanded ==
    ASSUME TypeInv, Flight, Writes, NEW e \in EntryId, ~Landed(e), Landed(e)'
    PROVE  InHand(e) /\ entry'[e].state = "merged" /\ entry[e].attempts < MaxAttempts
           /\ entry'[e].attempts = entry[e].attempts
  <1>1. PICK d \in CandidateId : candidate'[d].outcome[e] = "passed"
    BY DEF Landed
  <1>2. candidate[d].outcome[e] # "passed"
    BY DEF Landed
  <1>3. candidate'[d].outcome # candidate[d].outcome
    BY <1>1, <1>2
  <1>4. CASE \/ NoStore \/ \E request \in Request : InsertEntry(request)
             \/ \E f \in EntryId : EvictByHand(f) \/ RaisePriority(f)
    BY <1>3, <1>4 DEF NoStore, InsertEntry, EvictByHand, RaisePriority
  <1>5. ASSUME NEW c \in CandidateId, NEW from, NEW batch,
               OpenCandidate(c, from, batch)
        PROVE  FALSE
    <2>1. candidate'[d].outcome[e] \in {"pending", "none", candidate[d].outcome[e]}
      BY <1>5 DEF OpenCandidate, TypeInv, StoreTypeOK, CandidateRow
    <2> QED BY <1>1, <1>2, <2>1
  <1>6. ASSUME NEW c \in Unfinished,
               \/ \E commit : MarkTesting(c, commit)
               \/ \E state : AbandonCandidate(c, state)
        PROVE  FALSE
    <2>1. ASSUME NEW commit, MarkTesting(c, commit) PROVE FALSE
      BY <1>3, <2>1 DEF MarkTesting, TypeInv, StoreTypeOK, CandidateRow
    <2>2. ASSUME NEW state, AbandonCandidate(c, state) PROVE FALSE
      BY <1>3, <2>2 DEF AbandonCandidate, TypeInv, StoreTypeOK, CandidateRow
    <2> QED BY <1>6, <2>1, <2>2
  <1>7. ASSUME NEW c \in Unfinished, NEW culprit, NEW reason,
               BlameEntry(c, culprit, MaxAttempts, reason)
        PROVE  FALSE
    <2>1. candidate'[d].outcome[e] \in
             {"culprit", "skipped", candidate[d].outcome[e]}
      BY <1>7 DEF BlameEntry, TypeInv, StoreTypeOK, CandidateRow
    <2> QED BY <1>1, <1>2, <2>1
  <1>8. CASE SupersedeOrphans
    BY <1>3, <1>8 DEF SupersedeOrphans, TypeInv, StoreTypeOK, CandidateRow
  <1>9. ASSUME NEW c \in Unfinished, LandCandidate(c)
        PROVE  /\ InHand(e) /\ entry'[e].state = "merged"
               /\ entry[e].attempts < MaxAttempts
               /\ entry'[e].attempts = entry[e].attempts
    <2>1. candidate'[d].outcome[e] = IF d = c /\ e \in Members(c) THEN "passed"
                                     ELSE candidate[d].outcome[e]
      BY <1>9 DEF LandCandidate, TypeInv, StoreTypeOK, CandidateRow
    <2>2. e \in Members(c)
      BY <1>1, <1>2, <2>1
    <2>3. entry'[e].state = "merged" /\ entry'[e].attempts = entry[e].attempts
      BY <1>9, <2>2 DEF LandCandidate, TypeInv, StoreTypeOK, EntryRow
    <2> QED BY <2>2, <2>3, MembersInHand DEF Pending
  <1> QED BY <1>4, <1>5, <1>6, <1>7, <1>8, <1>9 DEF Writes, Rewrites

\* An unfinished candidate was unfinished before, or has just been opened with
\* entries that were in hand.
LEMMA InFlightBefore ==
    ASSUME TypeInv, Writes, NEW c \in Unfinished', NEW e \in Members(c)'
    PROVE  InHand(e)
  <1>1. c \in CandidateId
    BY DEF Unfinished
  <1>2. CASE /\ candidate'[c].entries = candidate[c].entries
             /\ candidate[c].state \in UnfinishedCandidate
    BY <1>1, <1>2 DEF InHand, Unfinished, Members
  <1>3. candidate'[c].state \in UnfinishedCandidate
    BY DEF Unfinished
  <1>4. CASE \/ NoStore \/ \E request \in Request : InsertEntry(request)
             \/ \E f \in EntryId : EvictByHand(f) \/ RaisePriority(f)
    BY <1>2, <1>3, <1>4 DEF NoStore, InsertEntry, EvictByHand, RaisePriority
  <1>5. ASSUME NEW d \in CandidateId, NEW from, NEW batch \in Seq(EntryId),
               OpenCandidate(d, from, batch),
               \A f \in ToSet(batch) : InHand(f)
        PROVE  InHand(e)
    <2>1. CASE c = d
      <3>1. candidate'[c].entries = batch
        BY <1>1, <1>5, <2>1 DEF OpenCandidate, TypeInv, StoreTypeOK, CandidateRow
      <3> QED BY <1>5, <3>1 DEF Members
    <2>2. CASE c # d
      <3>1. candidate'[c] = candidate[c]
        BY <1>1, <1>5, <2>2 DEF OpenCandidate, TypeInv, StoreTypeOK
      <3> QED BY <1>2, <1>3, <3>1
    <2> QED BY <2>1, <2>2
  <1>6. ASSUME NEW d \in Unfinished,
               \/ \E commit : MarkTesting(d, commit)
               \/ LandCandidate(d)
               \/ \E state : AbandonCandidate(d, state)
               \/ \E culprit, reason : BlameEntry(d, culprit, MaxAttempts, reason)
        PROVE  InHand(e)
    <2>1. candidate'[c].entries = candidate[c].entries
      <3>1. ASSUME NEW commit, MarkTesting(d, commit)
            PROVE  candidate'[c].entries = candidate[c].entries
        BY <1>1, <3>1 DEF MarkTesting, TypeInv, StoreTypeOK, CandidateRow
      <3>2. ASSUME NEW state, AbandonCandidate(d, state)
            PROVE  candidate'[c].entries = candidate[c].entries
        BY <1>1, <3>2 DEF AbandonCandidate, TypeInv, StoreTypeOK, CandidateRow
      <3>3. ASSUME NEW culprit, NEW reason,
                   BlameEntry(d, culprit, MaxAttempts, reason)
            PROVE  candidate'[c].entries = candidate[c].entries
        BY <1>1, <3>3 DEF BlameEntry, TypeInv, StoreTypeOK, CandidateRow
      <3>4. CASE LandCandidate(d)
        BY <1>1, <3>4 DEF LandCandidate, TypeInv, StoreTypeOK, CandidateRow
      <3> QED BY <1>6, <3>1, <3>2, <3>3, <3>4
    <2>2. candidate[c].state \in UnfinishedCandidate
      <3>1. CASE c = d
        BY <3>1 DEF Unfinished
      <3>2. CASE c # d
        <4>1. candidate'[c] = candidate[c]
          BY <1>1, <1>6, <3>2 DEF MarkTesting, LandCandidate, AbandonCandidate,
                                  BlameEntry, TypeInv, StoreTypeOK
        <4> QED BY <1>3, <4>1
      <3> QED BY <3>1, <3>2
    <2> QED BY <1>2, <2>1, <2>2
  <1>7. CASE SupersedeOrphans
    <2>1. candidate'[c] = IF c \in Unfinished
                          THEN [candidate[c] EXCEPT !.state = "superseded"]
                          ELSE candidate[c]
      BY <1>1, <1>7 DEF SupersedeOrphans
    <2>2. c \in Unfinished => candidate'[c].state = "superseded"
      BY <1>1, <2>1 DEF TypeInv, StoreTypeOK, CandidateRow
    <2>3. c \notin Unfinished => candidate'[c] = candidate[c]
      BY <2>1
    <2> QED BY <1>1, <1>3, <2>2, <2>3 DEF Unfinished, UnfinishedCandidate
  <1> QED BY <1>4, <1>5, <1>6, <1>7 DEF Writes, Rewrites

\* What the queue is done with, it does not take up again.
LEMMA DoneStaysOut ==
    ASSUME TypeInv, Flight, Writes, [Next]_vars, NEW e \in EntryId, Done(e)
    PROVE  ~InHand(e)'
  <1>1. ASSUME NEW c \in Unfinished', e \in Members(c)'
        PROVE  FALSE
    BY <1>1, InFlightBefore DEF Done
  <1>2. ASSUME NEW w \in Worker, wk'[w].pc \in {"open", "reopen"},
               e \in ToSet(wk'[w].batch)
        PROVE  FALSE
    BY <1>2, TakenFromLine DEF Done, LiveEntry
  <1> QED BY <1>1, <1>2 DEF InHand

\* A dequeue goes on with an entry that it found in line.
LEMMA CommandsLook ==
    ASSUME [Next]_vars, NEW e, <<"dequeue", e>> \in cli'
    PROVE  <<"dequeue", e>> \in cli \/ e \in Queued
  <1>1. ASSUME NEW w \in Worker, TickStep(w) \/ Start(w) \/ Exit(w)
        PROVE  UNCHANGED cli
    BY <1>1 DEF TickFrame,
          TickStep, AcquireFree, AcquireReclaim, FindBaseCheckedOut,
          ReadBase, ResumeCandidate, FindNothingUnfinished, SelectBatch,
          Open, OpenRefused, CheckOutDetached, MergeNext, MergeConflicts,
          StartTesting, GatePasses, GateFails, FastForward, FindBaseMoved,
          RecordLanding, Announce, BlameConflict, BlameLone, Blame,
          BlameRefused, AbandonInterrupted, AbandonMoved, Split, ReopenHalf,
          Release, Start, Exit
  <1>2. ASSUME NEW w \in Worker, Mishap(w)
        PROVE  UNCHANGED cli
    BY <1>2 DEF Mishap, MergeCutShort, FastForwardKilled, StepFails,
                ReleaseFails, Signal, Crash, TickFrame
  <1>3. CASE LeaseLapses \/ Developer \/ UNCHANGED vars
    BY <1>3 DEF LeaseLapses, Developer, vars
  <1>4. ASSUME NEW kind, NEW f \in EntryId, CheckCommand(kind, f)
        PROVE  <<"dequeue", e>> \in cli \/ e \in Queued
    BY <1>4 DEF CheckCommand
  <1>5. CASE Operator
    BY <1>4, <1>5 DEF Operator, Enqueue, TickFrame, DequeueWrite, PromoteWrite
  <1> QED BY <1>1, <1>2, <1>3, <1>5 DEF Next

\* Every step leaves each row in agreement with its history.
LEMMA NextHistory ==
    TypeInv /\ FlightInv /\ FlightInv' /\ HistoryInv /\ [Next]_vars => HistoryInv'
  <1> SUFFICES ASSUME TypeInv, FlightInv, FlightInv', HistoryInv, [Next]_vars,
                      NoOverrun', NEW e \in EntryId
               PROVE  EntryHistory(e)'
    BY DEF HistoryInv, History
  <1>1. NoOverrun
    BY ApartBefore
  <1>2. Flight /\ Flight' /\ History /\ Writes
    BY <1>1, NextWrites DEF FlightInv, HistoryInv
  <1>3. Agrees(entry[e], InHand(e), Landed(e)) /\ EntryFlight(e)' /\ RowFollows(e)
    BY <1>2, RowsWritten DEF History, EntryHistory, Flight, TablesFlight
  <1>4. ASSUME InHand(e)'
        PROVE  /\ entry'[e].state \in LiveEntry \/ ByHand(entry'[e])
               /\ entry'[e].attempts < MaxAttempts
    <2>1. Pending(e, "batched")' \/ Pending(e, "queued")'
      <3>1. ASSUME NEW c \in Unfinished', e \in Members(c)'
            PROVE  Pending(e, "batched")'
        <4>1. c \in CandidateId
          BY DEF Unfinished
        <4> QED BY <1>2, <3>1, <4>1 DEF Flight, TablesFlight, CandidateFlight
      <3>2. ASSUME NEW w \in Worker, wk'[w].pc \in {"open", "reopen"},
                   e \in ToSet(wk'[w].batch)
            PROVE  Pending(e, "queued")'
        BY <1>2, <3>2 DEF Flight, WorkerFlight
      <3> QED BY <1>4, <3>1, <3>2 DEF InHand
    <2> QED BY <2>1 DEF Pending, LiveEntry
  <1>5. ASSUME Landed(e)'
        PROVE  /\ entry'[e].state = "merged" \/ ByHand(entry'[e])
               /\ ~InHand(e)'
               /\ entry'[e].attempts < MaxAttempts
    <2>1. CASE Landed(e)
      <3>1. /\ entry[e].state = "merged" \/ ByHand(entry[e])
            /\ ~InHand(e) /\ entry[e].attempts < MaxAttempts
        BY <1>3, <2>1 DEF Agrees
      <3>2. Done(e)
        BY <3>1 DEF Done, ByHand, LiveEntry
      <3>3. ~InHand(e)'
        BY <1>2, <3>2, DoneStaysOut
      <3> QED BY <1>3, <3>1, <3>2, <3>3 DEF RowFollows, ByHand
    <2>2. CASE ~Landed(e)
      <3>1. /\ entry'[e].state = "merged" /\ entry[e].attempts < MaxAttempts
            /\ entry'[e].attempts = entry[e].attempts
        BY <1>2, <1>5, <2>2, NewlyLanded
      <3> QED BY <1>4, <3>1 DEF LiveEntry, ByHand
    <2> QED BY <2>1, <2>2
  <1>6. entry'[e].state = "merged" => Landed(e)'
    BY <1>1, <1>2, <1>3, LandedStays DEF RowFollows, Agrees
  <1>7. Agrees(entry[e], InHand(e), Landed(e))'
    BY <1>3, <1>4, <1>5, <1>6 DEF Agrees, EntryFlight
  <1>8. ASSUME <<"dequeue", e>> \in cli'
        PROVE  entry'[e].state # "absent"
    <2>1. <<"dequeue", e>> \in cli \/ entry[e].state = "queued"
      BY <1>8, CommandsLook DEF Queued
    <2>2. entry[e].state # "absent"
      BY <1>2, <2>1 DEF History, EntryHistory
    <2> QED BY <1>3, <2>2 DEF RowFollows
  <1> QED BY <1>7, <1>8 DEF EntryHistory

\* The rows of every reachable state agree with their histories, while no tick
\* outlives its lease.
LEMMA HistoryIsKept == Spec => []HistoryInv
  <1>1. Init => HistoryInv
    <2> SUFFICES ASSUME Init, NEW e \in EntryId
                 PROVE  EntryHistory(e)
      BY DEF HistoryInv, History
    <2>1. /\ cli = {} /\ entry[e].state = "absent" /\ entry[e].attempts = 0
          /\ \A c \in CandidateId : /\ candidate[c].state = "absent"
                                    /\ candidate[c].outcome[e] = "none"
          /\ \A w \in Worker : wk[w].pc = "idle"
      BY DEF Init, StoreInit, Resting
    <2>2. ~InHand(e) /\ ~Landed(e)
      BY <2>1 DEF InHand, Landed, Unfinished, UnfinishedCandidate
    <2> QED BY <2>1, <2>2, QueueAssumption DEF EntryHistory, Agrees
  <1> QED BY <1>1, NextHistory, TypeInvariant, FlightIsSound, PTL DEF Spec

-----------------------------------------------------------------------------
(* What a landing puts on the base.                                        *)

\* What assembling adds to the base of a candidate is wanted by a member,
\* and was not there before.
LEMMA BuildAdds ==
    ASSUME NEW c, NEW n \in Nat, NEW commit, Buildable(c, n),
           Built(commit, c, n)
    PROVE  \A i \in (Len(candidate[c].base) + 1)..Len(commit) :
              /\ \E k \in 1..n : commit[i] = Wanted(c, k)
              /\ \A m \in 1..(i - 1) : commit[m] # commit[i]
  <1>1. PICK trail \in [0..n -> Commit] : IsTrail(trail, c, n) /\ trail[n] = commit
    BY DEF Built
  <1>2. PICK start \in Nat : start = Len(candidate[c].base)
    BY LenProperties DEF Buildable, Commit
  <1> DEFINE Adds(s) ==
                \A i \in (start + 1)..Len(s) :
                   /\ \E k \in 1..n : s[i] = Wanted(c, k)
                   /\ \A m \in 1..(i - 1) : s[m] # s[i]
             S == {j \in 0..n : Adds(trail[j])}
  <1>3. 0 \in S
    <2>1. Len(trail[0]) = start
      BY <1>1, <1>2 DEF IsTrail
    <2>2. (start + 1)..start = {}
      OBVIOUS
    <2> QED BY <2>1, <2>2
  <1>4. ASSUME NEW j \in 1..n, j - 1 \in S
        PROVE  j \in S
    <2>1. PICK s \in Commit, change \in Change :
             /\ s = trail[j - 1] /\ change = Wanted(c, j)
             /\ trail[j] = Merged(change, s)
      BY <1>1 DEF IsTrail, Buildable
    <2>2. Adds(s)
      BY <1>4, <2>1
    <2>3. CASE Contains(s, change)
      BY <2>1, <2>2, <2>3 DEF Merged
    <2>4. CASE ~Contains(s, change)
      <3>1. PICK t \in Commit : t = trail[j] /\ t = Append(s, change)
        BY <1>1, <2>1, <2>4 DEF Merged
      <3>2. Len(s) \in Nat
        BY LenProperties DEF Commit
      <3>3. /\ Len(t) = Len(s) + 1 /\ t[Len(s) + 1] = change
            /\ \A i \in 1..Len(s) : t[i] = s[i] /\ s[i] # change
        BY <2>4, <3>1 DEF Commit, Contains
      <3>4. ASSUME NEW i \in (start + 1)..Len(t)
            PROVE  /\ \E k \in 1..n : t[i] = Wanted(c, k)
                   /\ \A m \in 1..(i - 1) : t[m] # t[i]
        <4>1. CASE i = Len(s) + 1
          <5>1. \A m \in 1..(i - 1) : m \in 1..Len(s)
            BY <3>2, <4>1
          <5> QED BY <2>1, <3>3, <4>1, <5>1
        <4>2. CASE i # Len(s) + 1
          <5>1. /\ i \in (start + 1)..Len(s) /\ i \in 1..Len(s)
                /\ \A m \in 1..(i - 1) : m \in 1..Len(s)
            BY <3>2, <3>3, <4>2
          <5> QED BY <2>2, <3>3, <5>1
        <4> QED BY <4>1, <4>2
      <3>5. Adds(t)
        BY <3>4
      <3> HIDE DEF Adds
      <3> QED BY <3>1, <3>5
    <2> QED BY <2>3, <2>4
  <1> HIDE DEF S
  <1>5. \A j \in 0..n : j \in S
    BY <1>3, <1>4, AlongTheTrail
  <1>6. n \in 0..n
    OBVIOUS
  <1> QED BY <1>1, <1>2, <1>5, <1>6 DEF S

-----------------------------------------------------------------------------
(* The refinement mapping.                                                 *)

\* Nobody's fate changes while no table is written to and nobody comes to open a
\* batch, or leaves one.
LEMMA SameFates ==
    ASSUME NoStore,
           \A w \in Worker :
              \/ wk'[w] = wk[w]
              \/ {wk[w].pc, wk'[w].pc} \cap {"open", "reopen"} = {}
    PROVE  UNCHANGED <<[e \in EntryId |-> entry[e].request],
                       [e \in EntryId |-> Fate(entry[e], InHand(e), Landed(e))]>>
  <1> SUFFICES ASSUME NEW e \in EntryId
               PROVE  /\ entry'[e] = entry[e]
                      /\ Fate(entry[e], InHand(e), Landed(e))' =
                            Fate(entry[e], InHand(e), Landed(e))
    OBVIOUS
  <1>1. entry'[e] = entry[e] /\ (InHand(e)' <=> InHand(e)) /\ (Landed(e)' <=> Landed(e))
    BY DEF NoStore, InHand, Landed, Unfinished, Members
  <1> QED BY <1>1 DEF Fate

\* The two queues begin alike.
LEMMA InitPromise == Init => Promise!Init
  <1> SUFFICES ASSUME Init PROVE Promise!Init
    OBVIOUS
  <1>1. base = <<>>
    BY DEF Init, GitInit
  <1>2. \A e \in EntryId : entry[e].state = "absent" /\ entry[e].request \in Request
    BY InitType DEF TypeInv, Init, StoreInit, StoreTypeOK, EntryRow
  <1>3. \A e \in EntryId : Fate(entry[e], InHand(e), Landed(e)) = "none"
    BY <1>2 DEF Fate, LiveEntry, ByHand
  <1> QED BY <1>1, <1>2, <1>3 DEF Promise!Init

\* The members of the candidate in flight are waiting.
LEMMA MembersWait ==
    ASSUME TypeInv, Flight, History, NEW c \in Unfinished
    PROVE  Members(c) \subseteq Promise!Waiting
  <1> SUFFICES ASSUME NEW e \in Members(c) PROVE e \in Promise!Waiting
    OBVIOUS
  <1>1. e \in EntryId /\ InHand(e)
    BY MembersInHand
  <1>2. Fate(entry[e], InHand(e), Landed(e)) = "waiting"
    BY <1>1, FateOf DEF History
  <1> QED BY <1>1, <1>2 DEF Promise!Waiting

\* Landing the commit of a candidate is an Integrate, unless everything it
\* was to add was on the base already.
LEMMA LandingIntegrates ==
    ASSUME TypeInv, TypeInv', Flight, History, Sound, NEW w \in Worker,
           FastForward(w) \/ FastForwardKilled(w), base' # base
    PROVE  Promise!Integrate
  <1>1. /\ base' = wk[w].tip /\ IsPrefix(base, base') /\ GateCanPass(base')
        /\ NoStore
    BY Landing
  <1>2. /\ wk[w].pc \in Working /\ wk[w].pc \in Assembling
        /\ base = candidate[wk[w].cand].base
    BY DEF FastForward, FastForwardKilled, Working, Assembling, RefIsAt
  <1>3. PICK c \in Unfinished : c = wk[w].cand /\ c \in CandidateId
    BY <1>2, AtWork
  <1>4. PICK n \in Nat : /\ n <= Len(candidate[c].entries)
                         /\ Built(base', c, n)
    BY <1>1, <1>2, <1>3, WorkerTypes DEF Sound, WorkerSound
  <1>5. ASSUME NEW i \in Promise!Added
        PROVE  /\ \E e \in Promise!Waiting : base'[i] = entry[e].request
               /\ ~Contains(SubSeq(base', 1, i - 1), base'[i])
    <2>1. i \in (Len(candidate[c].base) + 1)..Len(base')
      BY <1>2, <1>3 DEF Promise!Added
    <2>2. PICK k \in 1..n : base'[i] = Wanted(c, k)
      BY <1>3, <1>4, <2>1, CanBuild, BuildAdds
    <2>3. \A m \in 1..(i - 1) : base'[m] # base'[i]
      BY <1>3, <1>4, <2>1, CanBuild, BuildAdds
    <2>4. \E e \in Promise!Waiting : base'[i] = entry[e].request
      <3>1. k \in 1..Len(candidate[c].entries)
        <4>1. Len(candidate[c].entries) \in Nat
          BY <1>3, RowTypes, LenProperties
        <4> QED BY <1>4, <4>1
      <3> QED BY <1>3, <2>2, <3>1, MembersWant, MembersWait DEF Wanted
    <2>5. ~Contains(SubSeq(base', 1, i - 1), base'[i])
      <3>1. /\ base' \in Seq(Change) /\ Len(base') \in Nat
            /\ Len(base) \in Nat
        BY LenProperties DEF TypeInv, GitTypeOK, Commit
      <3>2. PICK m \in Nat : m = i - 1 /\ m <= Len(base')
        BY <1>2, <1>3, <2>1, <3>1
      <3>3. \A j \in 1..m : j \in 1..Len(base') /\ base'[j] \in Change
        BY <3>1, <3>2, ElementOfSeq
      <3>4. /\ Len(SubSeq(base', 1, m)) = IF 1 <= m THEN m - 1 + 1 ELSE 0
            /\ \A j \in 1..(m - 1 + 1) : SubSeq(base', 1, m)[j] = base'[1 + j - 1]
        BY <3>1, <3>2, <3>3, SubSeqProperties
      <3>5. m - 1 + 1 = m /\ \A j \in 1..m : 1 + j - 1 = j
        BY <3>2
      <3>6. Len(SubSeq(base', 1, m)) = m
        BY <3>2, <3>4, <3>5
      <3> QED BY <2>3, <3>2, <3>4, <3>5, <3>6 DEF Contains
    <2> QED BY <2>4, <2>5
  <1>6. UNCHANGED <<[e \in EntryId |-> entry[e].request],
                    [e \in EntryId |-> Fate(entry[e], InHand(e), Landed(e))]>>
    <2>1. /\ \A v \in Worker \ {w} : wk'[v] = wk[v]
          /\ wk[w].pc = "ff" /\ wk'[w].pc \in {"land", "moved"}
      BY GotoKeeps DEF FastForward, FastForwardKilled
    <2>2. \A v \in Worker :
             \/ wk'[v] = wk[v]
             \/ {wk[v].pc, wk'[v].pc} \cap {"open", "reopen"} = {}
      BY <2>1
    <2> QED BY <1>1, <2>2, SameFates
  <1>7. \A i \in Promise!Added :
           \E e \in Promise!Waiting :
              base'[i] = [f \in EntryId |-> entry[f].request][e]
    BY <1>5 DEF Promise!Waiting
  <1> QED BY <1>1, <1>5, <1>6, <1>7
      DEF Promise!Integrate, Promise!IsStrictPrefix, Promise!IsPrefix, IsPrefix,
          Promise!Contains, Contains, Promise!Green, GateCanPass, Promise!ToSet,
          ToSet


\* A new submission.
LEMMA EnqueueSubmits ==
    ASSUME TypeInv, History, NEW request \in Request, InsertEntry(request),
           UNCHANGED <<base, wk>>
    PROVE  Promise!Submit
  <1>1. PICK new, row :
           /\ new \in EntryId /\ entry[new].state = "absent"
           /\ row.state = "queued" /\ row.request = request
           /\ entry' = [entry EXCEPT ![new] = row]
    BY DEF InsertEntry
  <1>2. \A e \in EntryId : entry'[e] = IF e = new THEN row ELSE entry[e]
    BY <1>1 DEF TypeInv, StoreTypeOK
  <1> DEFINE want == [e \in EntryId |-> entry[e].request]
             fate == [e \in EntryId |-> Fate(entry[e], InHand(e), Landed(e))]
             want2 == [e \in EntryId |-> entry'[e].request]
             fate2 == [e \in EntryId |-> Fate(entry[e], InHand(e), Landed(e))']
  <1>3. fate[new] = "none"
    BY <1>1, FateOf DEF History
  <1>4. fate2 = [fate EXCEPT ![new] = "waiting"]
    <2>1. \A e \in EntryId : fate2[e] = IF e = new THEN "waiting" ELSE fate[e]
      <3> SUFFICES ASSUME NEW e \in EntryId
                   PROVE  fate2[e] = IF e = new THEN "waiting" ELSE fate[e]
        OBVIOUS
      <3>1. CASE e = new
        <4>1. entry'[e].state = "queued"
          BY <1>1, <1>2, <3>1
        <4>2. ~ByHand(entry'[e])
          BY <4>1 DEF ByHand
        <4>3. Fate(entry'[e], InHand(e)', Landed(e)') = "waiting"
          BY <4>1, <4>2 DEF Fate, LiveEntry
        <4>4. fate2[e] = "waiting"
          BY <4>3
        <4> HIDE DEF fate, fate2
        <4> QED BY <3>1, <4>4
      <3>2. CASE e # new
        <4>1. /\ entry'[e] = entry[e]
              /\ (InHand(e)' <=> InHand(e)) /\ (Landed(e)' <=> Landed(e))
          BY <1>2, <3>2 DEF InsertEntry, InHand, Landed, Unfinished, Members
        <4>2. Fate(entry'[e], InHand(e)', Landed(e)')
                 = Fate(entry[e], InHand(e), Landed(e))
          BY <4>1 DEF Fate
        <4>3. fate2[e] = fate[e]
          BY <4>2
        <4> HIDE DEF fate, fate2
        <4> QED BY <3>2, <4>3
      <3> QED BY <3>1, <3>2
    <2>2. /\ fate2 = [e \in EntryId |-> fate2[e]]
          /\ [fate EXCEPT ![new] = "waiting"] =
                [e \in EntryId |-> IF e = new THEN "waiting" ELSE fate[e]]
      OBVIOUS
    <2> HIDE DEF fate, fate2
    <2> QED BY <2>1, <2>2
  <1>5. want2 = [want EXCEPT ![new] = request]
    <2>1. \A e \in EntryId : want2[e] = IF e = new THEN request ELSE want[e]
      BY <1>1, <1>2
    <2>2. /\ want2 = [e \in EntryId |-> want2[e]]
          /\ [want EXCEPT ![new] = request] =
                [e \in EntryId |-> IF e = new THEN request ELSE want[e]]
      OBVIOUS
    <2> HIDE DEF want, want2
    <2> QED BY <2>1, <2>2
  <1> QED BY <1>1, <1>3, <1>4, <1>5 DEF Promise!Submit

\* A transaction changes the fate of none but what is waiting, and what it makes
\* merged is on the base.
LEMMA FateSettles ==
    ASSUME TypeInv, TypeInv', FlightInv, NoOverrun, History, History', Sound',
           Rewrites, [Next]_vars, UNCHANGED base, NEW e \in EntryId,
           NEW fate, fate = Fate(entry[e], InHand(e), Landed(e)),
           NEW fate2, fate2 = Fate(entry[e], InHand(e), Landed(e))'
    PROVE  /\ fate2 \in {"none", "waiting", "merged", "rejected", "withdrawn"}
           /\ fate2 # fate =>
                 /\ fate = "waiting"
                 /\ \/ fate2 = "merged" /\ Contains(base, entry[e].request)
                    \/ fate2 \in {"rejected", "withdrawn"}
  <1>1. Flight /\ Writes
    BY DEF FlightInv, Writes
  <1>2. RowFollows(e) /\ RowStays(e)
    BY <1>1, RowsRewritten
  <1>3. /\ fate \in {"none", "waiting", "merged", "rejected", "withdrawn"}
        /\ fate = "none" <=> entry[e].state = "absent"
        /\ fate = "waiting" <=> entry[e].state \in LiveEntry \/ InHand(e)
        /\ fate = "merged" <=> Landed(e)
        /\ fate = "rejected" <=> entry[e].attempts = MaxAttempts
    BY FateOf DEF History
  <1>4. /\ fate2 \in {"none", "waiting", "merged", "rejected", "withdrawn"}
        /\ fate2 = "none" <=> entry'[e].state = "absent"
        /\ fate2 = "waiting" <=> entry'[e].state \in LiveEntry \/ InHand(e)'
        /\ fate2 = "merged" <=> Landed(e)'
        /\ fate2 = "rejected" <=> entry'[e].attempts = MaxAttempts
    <2>1. InHand(e)' \in BOOLEAN /\ Landed(e)' \in BOOLEAN
      BY DEF InHand, Landed
    <2>2. entry'[e] \in EntryRow
      BY DEF TypeInv, StoreTypeOK
    <2>3. Agrees(entry'[e], InHand(e)', Landed(e)')
      BY DEF History, EntryHistory
    <2> QED BY <2>1, <2>2, <2>3, FateIs
  <1>5. CASE fate = "none"
    BY <1>2, <1>3, <1>4, <1>5 DEF RowStays
  <1>6. CASE fate = "waiting"
    <2>1. fate2 # "none"
      <3>1. entry[e].state # "absent"
        BY <1>3, <1>6
      <3> QED BY <1>2, <1>4, <3>1 DEF RowFollows
    <2>2. ASSUME fate2 = "merged"
          PROVE  Contains(base, entry[e].request)
      <3>1. ~Landed(e) /\ Landed(e)'
        BY <1>3, <1>4, <1>6, <2>2
      <3>2. entry'[e].state = "merged"
        BY <1>1, <3>1, NewlyLanded
      <3>3. Contains(base', entry'[e].request)
        BY <3>2 DEF Sound, EntrySound
      <3> QED BY <1>2, <3>3 DEF RowStays
    <2> QED BY <1>4, <1>6, <2>1, <2>2
  <1>7. CASE fate \notin {"none", "waiting"}
    <2>1. Done(e)
      BY <1>3, <1>7 DEF Done
    <2>2. ~InHand(e)' /\ (Landed(e)' <=> Landed(e))
      <3>1. Landed(e)' => Landed(e)
        BY <1>1, <2>1, NewlyLanded DEF Done
      <3> QED BY <1>1, <2>1, <3>1, DoneStaysOut, LandedStays
    <2>3. /\ entry'[e].attempts = entry[e].attempts
          /\ entry'[e].state \notin LiveEntry \cup {"absent"}
      BY <1>2, <2>1 DEF RowFollows, Done, ByHand, LiveEntry
    <2> QED BY <1>3, <1>4, <1>7, <2>2, <2>3
  <1> QED BY <1>5, <1>6, <1>7

\* All the fates such a transaction changes make one step of the abstract queue.
LEMMA WritingSettles ==
    ASSUME TypeInv, TypeInv', FlightInv, NoOverrun, History, History', Sound',
           Rewrites, [Next]_vars, UNCHANGED base
    PROVE  Promise!Settle
  <1> DEFINE want == [e \in EntryId |-> entry[e].request]
             fate == [e \in EntryId |-> Fate(entry[e], InHand(e), Landed(e))]
             fate2 == [e \in EntryId |-> Fate(entry[e], InHand(e), Landed(e))']
  <1>1. \A e \in EntryId :
           /\ fate2[e] \in {"none", "waiting", "merged", "rejected", "withdrawn"}
           /\ fate2[e] # fate[e] =>
                 /\ fate[e] = "waiting"
                 /\ \/ fate2[e] = "merged" /\ Contains(base, entry[e].request)
                    \/ fate2[e] \in {"rejected", "withdrawn"}
    BY FateSettles
  <1>2. UNCHANGED want
    <2>1. Flight
      BY DEF FlightInv
    <2> QED BY <2>1, RowsRewritten DEF RowStays
  <1>3. fate2 \in [EntryId -> {"none", "waiting", "merged", "rejected", "withdrawn"}]
    BY <1>1
  <1>4. \A e \in EntryId : fate2[e] # fate[e] =>
           /\ e \in {f \in EntryId : fate[f] = "waiting"}
           /\ \/ fate2[e] = "merged" /\ Contains(base, want[e])
              \/ fate2[e] \in {"rejected", "withdrawn"}
    BY <1>1
  <1> QED BY <1>2, <1>3, <1>4
      DEF Promise!Settle, Promise!Waiting, Promise!Contains, Contains

\* Every step is one of the abstract queue's.
LEMMA StepKeeps ==
    ASSUME TypeInv, TypeInv', FlightInv, BaseInv, BaseInv', HistoryInv, HistoryInv',
           NoOverrun, NoOverrun', [Next]_vars
    PROVE  Promise!Next \/ UNCHANGED Promise!promise
  <1>1. Flight /\ Sound /\ Sound' /\ History /\ History'
    BY DEF FlightInv, BaseInv, HistoryInv, Apart
  <1>2. CASE Enqueue
    <2>1. UNCHANGED <<base, wk>> /\ \E request \in Request : InsertEntry(request)
      BY <1>2 DEF Enqueue, NoGit
    <2> QED BY <1>1, <2>1, EnqueueSubmits DEF Promise!Next
  <1>3. CASE UNCHANGED base /\ ~Enqueue
    <2>1. Rewrites
      BY <1>3, NextRewrites
    <2> QED BY <1>1, <1>3, <2>1, WritingSettles DEF Promise!Next
  <1>4. ASSUME NEW w \in Worker, FastForward(w) \/ FastForwardKilled(w),
               base' # base
        PROVE  Promise!Next
    BY <1>1, <1>4, LandingIntegrates DEF Promise!Next
  <1>5. CASE /\ NoStore /\ UNCHANGED wk
             /\ \E change \in Push : base' = Append(base, change)
    <2>1. UNCHANGED <<[e \in EntryId |-> entry[e].request],
                      [e \in EntryId |-> Fate(entry[e], InHand(e), Landed(e))]>>
      BY <1>5, SameFates
    <2> QED BY <1>5, <2>1 DEF Promise!Next, Promise!Outside
  <1> QED BY <1>2, <1>3, <1>4, <1>5, WhoMovesBase

\* As long as no tick outlives its lease (src/src/queue/lease.rs), every step of
\* every worker, whoever dies, pushes, dequeues or promotes in between, is a step
\* of the abstract queue, or changes nothing it speaks of.
THEOREM QueueKeepsItsPromise == Spec /\ []NoOverrun => KeepsItsPromise
  <1>1. /\ TypeInv /\ TypeInv' /\ FlightInv /\ BaseInv /\ BaseInv' /\ HistoryInv
        /\ HistoryInv' /\ NoOverrun /\ NoOverrun' /\ [Next]_vars
        => [Promise!Next]_(Promise!promise)
    BY StepKeeps
  <1> QED BY <1>1, InitPromise, TypeInvariant, FlightIsSound, BaseIsSound,
             HistoryIsKept, PTL DEF Spec, KeepsItsPromise, Promise!Spec
=============================================================================
