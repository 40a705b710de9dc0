--------------------------- MODULE MergeQueueProof ---------------------------
(***************************************************************************)
(* Proofs about MergeQueue: type correctness, and that at most one worker  *)
(* integrates at a time, for any number of workers, requests, entries,     *)
(* candidates and mishaps.                                                 *)
(***************************************************************************)
EXTENDS QueueProperties, TLAPS, SequenceTheorems, FiniteSetTheorems

USE DEF Commit, Change

-----------------------------------------------------------------------------
(* The repository.                                                         *)

\* A merge produces a commit, whether or not there was anything to merge.
LEMMA MergedIsCommit ==
    ASSUME NEW change \in Change, NEW commit \in Commit
    PROVE  Merged(change, commit) \in Commit
  BY DEF Merged

\* Whatever people do to the repository leaves it a repository.
LEMMA DeveloperGit ==
    ASSUME GitTypeOK, PushToBase \/ CheckOutBase \/ LeaveBase
    PROVE  GitTypeOK'
  <1>1. CASE PushToBase
    <2>1. PICK change \in Push : base' = Append(base, change)
      BY <1>1 DEF PushToBase
    <2>2. base' \in Commit
      BY <2>1 DEF GitTypeOK
    <2> QED BY <1>1, <2>2 DEF PushToBase, GitTypeOK
  <1>2. CASE CheckOutBase \/ LeaveBase
    BY <1>2 DEF GitTypeOK, CheckOutBase, LeaveBase
  <1> QED BY <1>1, <1>2

-----------------------------------------------------------------------------
(* The database: every transaction leaves the tables well typed.           *)

\* enqueue adds one row, queued and unspent.
LEMMA InsertEntryType ==
    ASSUME StoreTypeOK, NEW request \in Request, InsertEntry(request)
    PROVE  StoreTypeOK'
  <1> DEFINE row == [state |-> "queued", request |-> request,
                     attempts |-> 0, priority |-> 0, reason |-> "none"]
  <1>1. row \in EntryRow
    BY DEF EntryRow, EntryState, EvictReason
  <1>2. PICK e \in EntryId : entry' = [entry EXCEPT ![e] = row]
    BY DEF InsertEntry
  <1> HIDE DEF row
  <1> QED BY <1>1, <1>2 DEF StoreTypeOK, InsertEntry

\* dequeue writes a state and a reason of the schema, whatever was there.
LEMMA EvictByHandType ==
    ASSUME StoreTypeOK, NEW e \in EntryId, EvictByHand(e)
    PROVE  StoreTypeOK'
  BY DEF StoreTypeOK, EvictByHand, EntryRow, EntryState, EvictReason

\* promote writes a priority that is still a number.
LEMMA RaisePriorityType ==
    ASSUME StoreTypeOK, NEW e \in EntryId, RaisePriority(e)
    PROVE  StoreTypeOK'
  <1>1. PICK top \in {0} \cup {entry[f].priority : f \in Queued} :
           entry' = [entry EXCEPT ![e].priority = top + 1]
    BY DEF RaisePriority
  <1>2. top \in Nat
    BY <1>1 DEF StoreTypeOK, EntryRow, Queued
  <1> DEFINE row == [entry[e] EXCEPT !.priority = top + 1]
  <1>3. row \in EntryRow
    BY <1>2 DEF StoreTypeOK, EntryRow
  <1>4. entry' = [entry EXCEPT ![e] = row]
    BY <1>1
  <1> HIDE DEF row
  <1> QED BY <1>3, <1>4 DEF StoreTypeOK, RaisePriority

\* mark_testing writes a state and the assembled commit.
LEMMA MarkTestingType ==
    ASSUME StoreTypeOK, NEW c \in CandidateId, NEW commit \in Commit,
           MarkTesting(c, commit)
    PROVE  StoreTypeOK'
  BY DEF StoreTypeOK, MarkTesting, CandidateRow, CandidateState

\* Putting entries back in line leaves every row an entry.
LEMMA RequeueType ==
    ASSUME StoreTypeOK, NEW es
    PROVE  Requeue(es) \in [EntryId -> EntryRow]
  BY DEF StoreTypeOK, Requeue, EntryRow, EntryState

\* abandon finishes one candidate and requeues its members.
LEMMA AbandonType ==
    ASSUME StoreTypeOK, NEW c \in CandidateId, NEW state \in CandidateState,
           AbandonCandidate(c, state)
    PROVE  StoreTypeOK'
  <1>1. entry' \in [EntryId -> EntryRow]
    BY RequeueType DEF AbandonCandidate
  <1>2. candidate' \in [CandidateId -> CandidateRow]
    BY DEF StoreTypeOK, AbandonCandidate, CandidateRow
  <1> QED BY <1>1, <1>2 DEF StoreTypeOK

\* A reclaim finishes every orphaned candidate and requeues their members.
LEMMA SupersedeType ==
    ASSUME StoreTypeOK, SupersedeOrphans
    PROVE  StoreTypeOK'
  <1>1. entry' \in [EntryId -> EntryRow]
    BY RequeueType DEF SupersedeOrphans
  <1>2. candidate' \in [CandidateId -> CandidateRow]
    BY DEF StoreTypeOK, SupersedeOrphans, CandidateRow, CandidateState
  <1> QED BY <1>1, <1>2 DEF StoreTypeOK

\* A candidate given a state and outcomes is still a candidate.
LEMMA JudgedType ==
    ASSUME StoreTypeOK, NEW c \in CandidateId, NEW state \in CandidateState,
           NEW outcome \in [EntryId -> Outcome \cup {"none"}]
    PROVE  [candidate EXCEPT ![c].state = state, ![c].outcome = outcome]
             \in [CandidateId -> CandidateRow]
  <1> DEFINE row == [candidate[c] EXCEPT !.state = state, !.outcome = outcome]
  <1>1. candidate[c] \in CandidateRow
    BY DEF StoreTypeOK
  <1>2. row \in CandidateRow
    BY <1>1 DEF CandidateRow
  <1>3. [candidate EXCEPT ![c].state = state, ![c].outcome = outcome]
          = [candidate EXCEPT ![c] = row]
    BY DEF StoreTypeOK
  <1> HIDE DEF row
  <1> QED BY <1>2, <1>3 DEF StoreTypeOK

\* land writes merged, passed and one outcome for each member.
LEMMA LandType ==
    ASSUME StoreTypeOK, NEW c \in CandidateId, LandCandidate(c)
    PROVE  StoreTypeOK'
  <1>1. entry' \in [EntryId -> EntryRow]
    BY DEF StoreTypeOK, LandCandidate, EntryRow, EntryState
  <1> DEFINE outcome == [e \in EntryId |->
                           IF e \in Members(c) THEN "passed"
                           ELSE candidate[c].outcome[e]]
  <1>2. outcome \in [EntryId -> Outcome \cup {"none"}]
    BY DEF StoreTypeOK, CandidateRow, Outcome
  <1>3. candidate' = [candidate EXCEPT ![c].state = "passed",
                                       ![c].outcome = outcome]
    BY DEF LandCandidate
  <1> HIDE DEF outcome
  <1>4. candidate' \in [CandidateId -> CandidateRow]
    BY <1>2, <1>3, JudgedType DEF CandidateState
  <1> QED BY <1>1, <1>4 DEF StoreTypeOK

\* blame charges one member, requeues the rest, and counts the attempt.
LEMMA BlameType ==
    ASSUME StoreTypeOK, NEW c \in CandidateId, NEW culprit \in EntryId,
           NEW max \in Nat, NEW reason \in EvictReason,
           BlameEntry(c, culprit, max, reason)
    PROVE  StoreTypeOK'
  <1>1. Punished(culprit, max, reason) \in EntryRow
    <2>1. entry[culprit] \in EntryRow /\ SpentBy(culprit) \in Nat
      BY DEF StoreTypeOK, EntryRow, SpentBy
    <2>2. CASE Evicts(culprit, max)
      BY <2>1, <2>2 DEF Punished, EntryRow, EntryState
    <2>3. CASE ~Evicts(culprit, max)
      BY <2>1, <2>3 DEF Punished, EntryRow, EntryState
    <2> QED BY <2>2, <2>3
  <1>2. entry' \in [EntryId -> EntryRow]
    BY <1>1, RequeueType DEF BlameEntry
  <1> DEFINE outcome == [e \in EntryId |->
                           IF e = culprit THEN "culprit"
                           ELSE IF e \in Members(c) THEN "skipped"
                           ELSE candidate[c].outcome[e]]
  <1>3. outcome \in [EntryId -> Outcome \cup {"none"}]
    BY DEF StoreTypeOK, CandidateRow, Outcome
  <1>4. candidate' = [candidate EXCEPT ![c].state = "failed",
                                       ![c].outcome = outcome]
    BY DEF BlameEntry
  <1> HIDE DEF outcome
  <1>5. candidate' \in [CandidateId -> CandidateRow]
    BY <1>3, <1>4, JudgedType DEF CandidateState
  <1> QED BY <1>2, <1>5 DEF StoreTypeOK

\* open_candidate writes a candidate over a batch of entries and batches them.
LEMMA OpenType ==
    ASSUME StoreTypeOK, NEW c \in CandidateId, NEW from \in Commit,
           NEW batch \in Seq(EntryId), OpenCandidate(c, from, batch)
    PROVE  StoreTypeOK'
  <1>1. entry' \in [EntryId -> EntryRow]
    BY DEF StoreTypeOK, OpenCandidate, EntryRow, EntryState
  <1>2. candidate' \in [CandidateId -> CandidateRow]
    BY DEF StoreTypeOK, OpenCandidate, CandidateRow, CandidateState, Outcome
  <1> QED BY <1>1, <1>2 DEF StoreTypeOK

-----------------------------------------------------------------------------
(* The lease row.                                                          *)

\* A worker that takes the lease writes a row that names its token.
LEMMA MintType ==
    ASSUME NEW w \in Worker
    PROVE  /\ Mint(w) \in Token
           /\ Mint(w).pid = w
           /\ NewLease(w) \in LeaseRow
  BY DEF Mint, NewLease, Token, LeaseRow

\* A release leaves the row it found, or none.
LEMMA ReleasedType ==
    ASSUME LeaseTypeOK, NEW token
    PROVE  Released(token) \in LeaseRow \cup {NoLease}
  BY DEF LeaseTypeOK, Released

\* A death leaves the row there, its pid gone or reused.
LEMMA AfterDeathType ==
    ASSUME LeaseTypeOK, NEW w \in Worker, NEW reused \in BOOLEAN
    PROVE  AfterDeathOf(w, reused) \in LeaseRow \cup {NoLease}
  BY DEF LeaseTypeOK, AfterDeathOf, LeaseRow

\* Time passing only marks the row as lapsed.
LEMMA LapseType ==
    ASSUME LeaseTypeOK, Lapse
    PROVE  LeaseTypeOK'
  BY DEF LeaseTypeOK, Lapse, LeaseRow

-----------------------------------------------------------------------------
(* The workers.  Besides its type, the record of a worker holds what its   *)
(* place in the tick relies on.                                            *)

\* Places where a candidate has been chosen.
Engaged == InTick \ {"guard", "look", "select", "open", "release"}

WorkerOK(w) ==
    /\ wk[w].pc \in Engaged => wk[w].cand \in CandidateId
    /\ wk[w].pc \in Conflicting => wk[w].merged < Len(wk[w].batch)

WorkersOK ==
    /\ wk \in [Worker -> WorkerState]
    /\ \A w \in Worker : WorkerOK(w)

AuxOK ==
    /\ cli \subseteq Command
    /\ told \in [EntryId -> Seq({"merged", "evicted"})]
    /\ spent \in [Event -> Nat]

\* TypeOK alone is not inductive: a tick indexes its batch and reads and
\* writes the row of its candidate.
TypeInv == GitTypeOK /\ StoreTypeOK /\ LeaseTypeOK /\ WorkersOK /\ AuxOK

\* A worker between ticks holds nothing that could be ill typed.
LEMMA RestingType ==
    ASSUME NEW w \in Worker, NEW pc \in {"down", "idle"}, NEW stop \in BOOLEAN
    PROVE  Resting(w, pc, stop) \in WorkerState
  BY DEF Resting, WorkerState, Token, InTick

\* Replacing one worker's record by a good one leaves all of them good.
LEMMA WorkerStep ==
    ASSUME WorkersOK, NEW w \in Worker, NEW row \in WorkerState,
           row.pc \in Engaged => row.cand \in CandidateId,
           row.pc \in {"conflict", "cut"} => row.merged < Len(row.batch),
           wk' = [wk EXCEPT ![w] = row]
    PROVE  WorkersOK'
  <1>1. wk' \in [Worker -> WorkerState]
    BY DEF WorkersOK
  <1>2. \A v \in Worker : wk'[v] = IF v = w THEN row ELSE wk[v]
    BY DEF WorkersOK
  <1>3. \A v \in Worker : WorkerOK(v)'
    BY <1>2 DEF WorkersOK, WorkerOK, Conflicting
  <1> QED BY <1>1, <1>3 DEF WorkersOK

\* Counting an event leaves the counters counters.
LEMMA SpendType ==
    ASSUME spent \in [Event -> Nat], NEW event \in Event, Spend(event)
    PROVE  spent' \in [Event -> Nat]
  <1>1. spent[event] + 1 \in Nat
    OBVIOUS
  <1>2. spent' = [spent EXCEPT ![event] = spent[event] + 1]
    BY DEF Spend
  <1> QED BY <1>1, <1>2

\* A worker that comes to rest is good whatever it was doing.
LEMMA RestStep ==
    ASSUME WorkersOK, NEW w \in Worker, NEW pc \in {"down", "idle"},
           NEW stop \in BOOLEAN,
           wk' = [wk EXCEPT ![w] = Resting(w, pc, stop)]
    PROVE  WorkersOK'
  <1> DEFINE row == Resting(w, pc, stop)
  <1>1. row \in WorkerState
    BY RestingType
  <1>2. row.pc \notin Engaged /\ row.pc \notin {"conflict", "cut"}
    BY DEF Resting, Engaged, InTick
  <1> HIDE DEF row
  <1> QED BY <1>1, <1>2, WorkerStep DEF row

\* A worker that only moves on keeps what it holds.
LEMMA GotoStep ==
    ASSUME WorkersOK, NEW w \in Worker, NEW pc \in InTick, Goto(w, pc),
           pc \in Engaged => wk[w].pc \in Engaged,
           pc \in {"conflict", "cut"} => wk[w].merged < Len(wk[w].batch)
    PROVE  WorkersOK'
  <1> DEFINE row == [wk[w] EXCEPT !.pc = pc]
  <1>1. wk[w] \in WorkerState /\ WorkerOK(w)
    BY DEF WorkersOK
  <1>2. /\ row \in WorkerState /\ row.pc = pc /\ row.cand = wk[w].cand
        /\ row.merged = wk[w].merged /\ row.batch = wk[w].batch
    BY <1>1 DEF WorkerState
  <1>3. wk' = [wk EXCEPT ![w] = row]
    BY DEF Goto
  <1> HIDE DEF row
  <1> QED BY <1>1, <1>2, <1>3, WorkerStep DEF WorkerOK, Conflicting

\* What is in the queue in front of a worker is a batch of entries.
LEMMA BatchesType ==
    ASSUME NEW limit \in Nat, NEW batch \in Batches(limit)
    PROVE  batch \in Seq(EntryId)
  <1>1. IsFiniteSet(EntryId)
    BY FS_Interval, StoreAssumption DEF EntryId
  <1>2. BatchMembers(limit) \subseteq EntryId
    BY DEF BatchMembers, FirstQueued, Queued
  <1>3. Cardinality(BatchMembers(limit)) \in Nat
    BY <1>1, <1>2, FS_Subset, FS_CardinalityType
  <1>4. batch \in [1..Cardinality(BatchMembers(limit)) -> BatchMembers(limit)]
    BY DEF Batches
  <1> QED BY <1>2, <1>3, <1>4

\* Bisection cuts a batch of entries out of a batch of entries.
LEMMA LeftHalfType ==
    ASSUME NEW batch \in Seq(EntryId)
    PROVE  LeftHalf(batch) \in Seq(EntryId)
  <1>1. Len(batch) \in Nat
    BY LenProperties
  <1>2. Len(batch) \div 2 \in Nat /\ Len(batch) \div 2 <= Len(batch)
    BY <1>1
  <1>3. \A i \in 1..(Len(batch) \div 2) : batch[i] \in EntryId
    BY <1>1, <1>2, ElementOfSeq
  <1> QED BY <1>2, <1>3, SubSeqProperties DEF LeftHalf

-----------------------------------------------------------------------------
(* Every step of a tick, by the part of the state it changes.              *)

\* Taking the lease, free or reclaimed.
LEMMA AcquireType ==
    ASSUME TypeInv, NEW w \in Worker, AcquireFree(w) \/ AcquireReclaim(w)
    PROVE  TypeInv'
  <1> DEFINE row == [wk[w] EXCEPT !.pc = "guard", !.token = Mint(w)]
  <1>1. row \in WorkerState /\ row.pc = "guard"
    <2>1. wk[w] \in WorkerState /\ Mint(w) \in Token
      BY MintType DEF TypeInv, WorkersOK
    <2> QED BY <2>1 DEF WorkerState, InTick
  <1>2. wk' = [wk EXCEPT ![w] = row] /\ lease' = NewLease(w)
    BY DEF AcquireFree, AcquireReclaim, Acquired
  <1> HIDE DEF row
  <1>3. WorkersOK'
    BY <1>1, <1>2, WorkerStep DEF TypeInv, Engaged
  <1>4. LeaseTypeOK'
    BY <1>2, MintType DEF LeaseTypeOK
  <1>5. StoreTypeOK'
    <2>1. CASE AcquireFree(w)
      BY <2>1 DEF AcquireFree, NoStore, TypeInv, StoreTypeOK
    <2>2. CASE AcquireReclaim(w)
      BY <2>2, SupersedeType DEF AcquireReclaim, TypeInv
    <2> QED BY <2>1, <2>2
  <1>6. GitTypeOK' /\ AuxOK'
    BY DEF TypeInv, AcquireFree, AcquireReclaim, NoGit, TickFrame, GitTypeOK, AuxOK
  <1> QED BY <1>3, <1>4, <1>5, <1>6 DEF TypeInv

\* A step that changes nothing but its worker's record.
OnlyWorker ==
    NoStore /\ NoGit /\ TickFrame /\ UNCHANGED <<lease, told>>

\* A step that changes one worker's record leaves everything else typed.
LEMMA OnlyWorkerType ==
    ASSUME TypeInv, OnlyWorker
    PROVE  GitTypeOK' /\ StoreTypeOK' /\ LeaseTypeOK' /\ AuxOK'
  BY DEF TypeInv, OnlyWorker, NoStore, NoGit, TickFrame, GitTypeOK,
         StoreTypeOK, LeaseTypeOK, AuxOK

\* Finding the candidate to work on.
LEMMA LookType ==
    ASSUME TypeInv, NEW w \in Worker,
           \/ FindBaseCheckedOut(w) \/ ReadBase(w) \/ ResumeCandidate(w)
           \/ FindNothingUnfinished(w) \/ SelectBatch(w)
    PROVE  TypeInv'
  <1>1. OnlyWorker
    BY DEF OnlyWorker, FindBaseCheckedOut, ReadBase, ResumeCandidate,
           FindNothingUnfinished, SelectBatch
  <1>2. CASE FindBaseCheckedOut(w) \/ FindNothingUnfinished(w)
    BY <1>1, <1>2, OnlyWorkerType, GotoStep
    DEF TypeInv, FindBaseCheckedOut, FindNothingUnfinished, Engaged, InTick
  <1>3. CASE ReadBase(w)
    <2> DEFINE row == [wk[w] EXCEPT !.pc = "look", !.base = base]
    <2>1. row \in WorkerState /\ row.pc = "look"
      BY DEF TypeInv, WorkersOK, WorkerState, InTick, GitTypeOK
    <2>2. wk' = [wk EXCEPT ![w] = row]
      BY <1>3 DEF ReadBase
    <2> HIDE DEF row
    <2> QED BY <1>1, <2>1, <2>2, OnlyWorkerType, WorkerStep DEF TypeInv, Engaged
  <1>4. CASE ResumeCandidate(w)
    <2>1. PICK c \in CandidateId :
             wk' = [wk EXCEPT
                      ![w].pc = IF candidate[c].base = wk[w].base
                                THEN "checkout" ELSE "moved",
                      ![w].cand = c, ![w].batch = candidate[c].entries]
      BY <1>4 DEF ResumeCandidate
    <2> DEFINE place == IF candidate[c].base = wk[w].base
                        THEN "checkout" ELSE "moved"
               row == [wk[w] EXCEPT !.pc = place, !.cand = c,
                                    !.batch = candidate[c].entries]
    <2>2. /\ candidate[c].entries \in Seq(EntryId)
          /\ wk[w] \in WorkerState
          /\ place \in {"checkout", "moved"}
      BY DEF TypeInv, StoreTypeOK, CandidateRow, WorkersOK
    <2>4. wk' = [wk EXCEPT ![w] = row]
      BY <2>1
    <2> HIDE DEF place
    <2>3. row \in WorkerState /\ row.cand = c /\ row.pc \notin {"conflict", "cut"}
      BY <2>2 DEF WorkerState, InTick
    <2> HIDE DEF row
    <2> QED BY <1>1, <2>3, <2>4, OnlyWorkerType, WorkerStep DEF TypeInv
  <1>5. CASE SelectBatch(w)
    <2>1. PICK batch \in Batches(MaxBatch) :
             wk' = [wk EXCEPT ![w].batch = batch,
                      ![w].pc = IF batch = <<>> THEN "release" ELSE "open"]
      BY <1>5 DEF SelectBatch
    <2> DEFINE place == IF batch = <<>> THEN "release" ELSE "open"
               row == [wk[w] EXCEPT !.batch = batch, !.pc = place]
    <2>2. /\ batch \in Seq(EntryId)
          /\ place \in {"release", "open"}
      BY BatchesType, QueueAssumption
    <2>5. wk[w] \in WorkerState
      BY DEF TypeInv, WorkersOK
    <2>4. wk' = [wk EXCEPT ![w] = row]
      BY <2>1
    <2> HIDE DEF place
    <2>3. row \in WorkerState /\ row.pc \in {"release", "open"}
      BY <2>2, <2>5 DEF WorkerState, InTick
    <2> HIDE DEF row
    <2> QED BY <1>1, <2>3, <2>4, OnlyWorkerType, WorkerStep DEF TypeInv, Engaged
  <1> QED BY <1>2, <1>3, <1>4, <1>5

\* Steps that only find out where the tick goes next.
LEMMA FindingType ==
    ASSUME TypeInv, NEW w \in Worker,
           \/ OpenRefused(w) \/ MergeConflicts(w) \/ GatePasses(w)
           \/ GateFails(w) \/ FindBaseMoved(w) \/ BlameRefused(w)
    PROVE  TypeInv'
  <1>1. OnlyWorker
    BY DEF OnlyWorker, OpenRefused, MergeConflicts, GatePasses, GateFails,
           FindBaseMoved, BlameRefused
  <1>2. CASE OpenRefused(w) \/ BlameRefused(w)
    BY <1>1, <1>2, OnlyWorkerType, GotoStep
    DEF TypeInv, OpenRefused, BlameRefused, Engaged, InTick, Conflicting
  <1>3. CASE MergeConflicts(w)
    BY <1>1, <1>3, OnlyWorkerType, GotoStep
    DEF TypeInv, MergeConflicts, Engaged, InTick
  <1>4. CASE GateFails(w) \/ FindBaseMoved(w)
    BY <1>1, <1>4, OnlyWorkerType, GotoStep
    DEF TypeInv, GateFails, FindBaseMoved, Engaged, InTick
  <1>5. CASE GatePasses(w)
    <2> DEFINE row == [wk[w] EXCEPT !.pc = "ff", !.passed = head[CheckoutOf[w]]]
    <2>1. wk[w] \in WorkerState /\ head[CheckoutOf[w]] \in Commit
      BY QueueAssumption DEF TypeInv, WorkersOK, GitTypeOK
    <2>2. row \in WorkerState /\ row.pc = "ff" /\ row.cand = wk[w].cand
      BY <2>1 DEF WorkerState, InTick
    <2>3. wk[w].cand \in CandidateId
      BY <1>5 DEF GatePasses, TypeInv, WorkersOK, WorkerOK, Engaged, InTick
    <2>4. wk' = [wk EXCEPT ![w] = row]
      BY <1>5 DEF GatePasses
    <2> HIDE DEF row
    <2> QED BY <1>1, <2>2, <2>3, <2>4, OnlyWorkerType, WorkerStep DEF TypeInv
  <1> QED BY <1>2, <1>3, <1>4, <1>5

\* Assembling the commit: the checkout moves with the worker.
LEMMA AssembleType ==
    ASSUME TypeInv, NEW w \in Worker, CheckOutDetached(w) \/ MergeNext(w)
    PROVE  TypeInv'
  <1>1. StoreTypeOK' /\ LeaseTypeOK' /\ AuxOK'
    BY DEF TypeInv, CheckOutDetached, MergeNext, NoStore, TickFrame,
           StoreTypeOK, LeaseTypeOK, AuxOK
  <1>2. /\ wk[w] \in WorkerState /\ wk[w].cand \in CandidateId
        /\ CheckoutOf[w] \in Checkout
    BY QueueAssumption
    DEF TypeInv, WorkersOK, WorkerOK, Engaged, InTick, CheckOutDetached, MergeNext
  <1>3. CASE CheckOutDetached(w)
    <2> DEFINE from == candidate[wk[w].cand].base
               row == [wk[w] EXCEPT !.pc = "merge", !.tip = from]
    <2>1. from \in Commit
      BY <1>2 DEF TypeInv, StoreTypeOK, CandidateRow
    <2>2. GitTypeOK'
      BY <1>2, <1>3, <2>1 DEF CheckOutDetached, TypeInv, GitTypeOK, TickFrame
    <2>3. wk' = [wk EXCEPT ![w] = row]
      BY <1>3 DEF CheckOutDetached
    <2> HIDE DEF from
    <2>4. row \in WorkerState /\ row.pc = "merge" /\ row.cand = wk[w].cand
      BY <1>2, <2>1 DEF WorkerState, InTick
    <2> HIDE DEF row
    <2>5. WorkersOK'
      BY <1>2, <2>3, <2>4, WorkerStep DEF TypeInv
    <2> QED BY <1>1, <2>2, <2>5 DEF TypeInv
  <1>4. CASE MergeNext(w)
    <2> DEFINE change == entry[NextToMerge(w)].request
               result == Merged(change, head[CheckoutOf[w]])
               next == wk[w].merged + 1
               row == [wk[w] EXCEPT !.merged = next, !.tip = result]
    <2>1. wk[w].batch \in Seq(EntryId) /\ wk[w].merged \in Nat
      BY <1>2 DEF WorkerState
    <2>2. wk[w].merged < Len(wk[w].batch) /\ wk[w].pc = "merge"
      BY <1>4 DEF MergeNext
    <2>3. next \in Nat /\ next \in 1..Len(wk[w].batch)
      BY <2>1, <2>2, LenProperties
    <2>4. NextToMerge(w) \in EntryId
      BY <2>1, <2>3, ElementOfSeq DEF NextToMerge
    <2>5. change \in Change /\ head[CheckoutOf[w]] \in Commit
      BY <1>2, <2>4 DEF TypeInv, StoreTypeOK, EntryRow, GitTypeOK
    <2>6. result \in Commit
      BY <2>5, MergedIsCommit
    <2>7. /\ head' = [head EXCEPT ![CheckoutOf[w]] = result]
          /\ wk' = [wk EXCEPT ![w] = row]
      BY <1>4 DEF MergeNext
    <2> HIDE DEF result, next
    <2>8. GitTypeOK'
      BY <1>2, <1>4, <2>6, <2>7 DEF MergeNext, TypeInv, GitTypeOK, TickFrame
    <2>9. row \in WorkerState
      BY <1>2, <2>3, <2>6 DEF WorkerState
    <2>10. row.pc = "merge" /\ row.cand = wk[w].cand
      BY <1>2, <2>2 DEF WorkerState
    <2> HIDE DEF row
    <2>11. WorkersOK'
      BY <1>2, <2>7, <2>9, <2>10, WorkerStep DEF TypeInv
    <2> QED BY <1>1, <2>8, <2>11 DEF TypeInv
  <1> QED BY <1>3, <1>4

\* A merge that is cut short leaves HEAD on one commit or another.
LEMMA MergeCutShortType ==
    ASSUME TypeInv, NEW w \in Worker, MergeCutShort(w)
    PROVE  TypeInv'
  <1>1. StoreTypeOK' /\ LeaseTypeOK'
    BY DEF TypeInv, MergeCutShort, NoStore, StoreTypeOK, LeaseTypeOK
  <1>2. spent' \in [Event -> Nat]
    BY SpendType DEF TypeInv, AuxOK, MergeCutShort, GitFails, Event
  <1>3. AuxOK'
    BY <1>2 DEF TypeInv, AuxOK, MergeCutShort
  <1> DEFINE k == CheckoutOf[w]
             change == entry[NextToMerge(w)].request
  <1>4. NextToMerge(w) \in EntryId
    <2>1. /\ wk[w].batch \in Seq(EntryId) /\ wk[w].merged \in Nat
          /\ wk[w].merged < Len(wk[w].batch)
      BY DEF TypeInv, WorkersOK, WorkerState, MergeCutShort
    <2>2. wk[w].merged + 1 \in 1..Len(wk[w].batch)
      BY <2>1, LenProperties
    <2> QED BY <2>1, <2>2, ElementOfSeq DEF NextToMerge
  <1>5. k \in Checkout /\ head[k] \in Commit /\ change \in Change
    BY <1>4, QueueAssumption
    DEF TypeInv, GitTypeOK, StoreTypeOK, EntryRow, Change
  <1>6. PICK result \in {head[k], Merged(change, head[k])} :
           head' = [head EXCEPT ![k] = result]
    BY DEF MergeCutShort
  <1>7. result \in Commit
    BY <1>5, <1>6, MergedIsCommit
  <1> HIDE DEF k, change
  <1>8. GitTypeOK'
    BY <1>6, <1>7 DEF TypeInv, GitTypeOK, MergeCutShort
  <1>9. WorkersOK'
    BY GotoStep DEF TypeInv, MergeCutShort, Engaged, InTick
  <1> QED BY <1>1, <1>3, <1>8, <1>9 DEF TypeInv

\* Landing: the base moves to the commit the worker holds.
LEMMA FastForwardType ==
    ASSUME TypeInv, NEW w \in Worker, FastForward(w) \/ FastForwardKilled(w)
    PROVE  TypeInv'
  <1>1. StoreTypeOK' /\ LeaseTypeOK' /\ AuxOK'
    BY DEF TypeInv, FastForward, FastForwardKilled, NoStore, TickFrame,
           StoreTypeOK, LeaseTypeOK, AuxOK
  <1>2. wk[w].tip \in Commit
    BY DEF TypeInv, WorkersOK, WorkerState
  <1>3. GitTypeOK'
    BY <1>2 DEF TypeInv, FastForward, FastForwardKilled, MoveRef, TickFrame,
                GitTypeOK
  <1>4. WorkersOK'
    BY GotoStep DEF TypeInv, FastForward, FastForwardKilled, Engaged, InTick
  <1> QED BY <1>1, <1>3, <1>4 DEF TypeInv

\* Transactions that finish or start a candidate.
LEMMA OpeningType ==
    ASSUME TypeInv, NEW w \in Worker, Open(w) \/ ReopenHalf(w)
    PROVE  TypeInv'
  <1>1. GitTypeOK' /\ LeaseTypeOK' /\ AuxOK'
    BY DEF TypeInv, Open, ReopenHalf, NoGit, TickFrame, GitTypeOK, LeaseTypeOK,
           AuxOK
  <1>2. wk[w] \in WorkerState /\ wk[w].base \in Commit /\ wk[w].batch \in Seq(EntryId)
    BY DEF TypeInv, WorkersOK, WorkerState
  <1>3. CASE Open(w)
    <2>1. PICK c \in CandidateId :
             /\ OpenCandidate(c, wk[w].base, wk[w].batch)
             /\ wk' = [wk EXCEPT ![w].pc = "checkout", ![w].cand = c]
      BY <1>3 DEF Open
    <2>2. StoreTypeOK'
      BY <1>2, <2>1, OpenType DEF TypeInv
    <2> DEFINE row == [wk[w] EXCEPT !.pc = "checkout", !.cand = c]
    <2>3. row \in WorkerState /\ row.pc = "checkout" /\ row.cand = c
      BY <1>2 DEF WorkerState, InTick
    <2>4. wk' = [wk EXCEPT ![w] = row]
      BY <2>1
    <2> HIDE DEF row
    <2>5. WorkersOK'
      BY <2>3, <2>4, WorkerStep DEF TypeInv
    <2> QED BY <1>1, <2>2, <2>5 DEF TypeInv
  <1>4. CASE ReopenHalf(w)
    <2>1. wk[w].cand \in CandidateId
      BY <1>4 DEF ReopenHalf, TypeInv, WorkersOK, WorkerOK, Engaged, InTick
    <2>2. candidate[wk[w].cand].base \in Commit
      BY <2>1 DEF TypeInv, StoreTypeOK, CandidateRow
    <2>3. StoreTypeOK'
      BY <1>2, <1>4, <2>2, OpenType DEF TypeInv, ReopenHalf
    <2>4. WorkersOK'
      BY <1>4, GotoStep DEF TypeInv, ReopenHalf, Engaged, InTick
    <2> QED BY <1>1, <2>3, <2>4 DEF TypeInv
  <1> QED BY <1>3, <1>4

\* Marking a candidate as testing, abandoning it, or cutting it in half.
LEMMA FinishingType ==
    ASSUME TypeInv, NEW w \in Worker,
           StartTesting(w) \/ AbandonInterrupted(w) \/ AbandonMoved(w) \/ Split(w)
    PROVE  TypeInv'
  <1>1. GitTypeOK' /\ LeaseTypeOK' /\ AuxOK'
    BY DEF TypeInv, StartTesting, AbandonInterrupted, AbandonMoved, Split,
           NoGit, TickFrame, GitTypeOK, LeaseTypeOK, AuxOK
  <1>2. wk[w] \in WorkerState /\ wk[w].tip \in Commit /\ wk[w].batch \in Seq(EntryId)
    BY DEF TypeInv, WorkersOK, WorkerState
  <1>3. wk[w].pc \in Engaged /\ wk[w].cand \in CandidateId
    BY DEF TypeInv, WorkersOK, WorkerOK, Engaged, InTick, StartTesting,
           AbandonInterrupted, AbandonMoved, Split
  <1>4. StoreTypeOK'
    <2>1. CASE StartTesting(w)
      BY <1>2, <1>3, <2>1, MarkTestingType DEF TypeInv, StartTesting
    <2>2. CASE AbandonInterrupted(w) \/ AbandonMoved(w) \/ Split(w)
      BY <1>3, <2>2, AbandonType
      DEF TypeInv, AbandonInterrupted, AbandonMoved, Split, CandidateState
    <2> QED BY <2>1, <2>2
  <1>5. WorkersOK'
    <2>1. CASE StartTesting(w) \/ AbandonInterrupted(w) \/ AbandonMoved(w)
      BY <1>3, <2>1, GotoStep
      DEF TypeInv, StartTesting, AbandonInterrupted, AbandonMoved, InTick
    <2>2. CASE Split(w)
      <3> DEFINE row == [wk[w] EXCEPT !.pc = "reopen", !.batch = LeftHalf(wk[w].batch)]
      <3>1. LeftHalf(wk[w].batch) \in Seq(EntryId)
        BY <1>2, LeftHalfType
      <3>2. row \in WorkerState /\ row.pc = "reopen" /\ row.cand = wk[w].cand
        BY <1>2, <3>1 DEF WorkerState, InTick
      <3>3. wk' = [wk EXCEPT ![w] = row]
        BY <2>2 DEF Split
      <3> HIDE DEF row
      <3> QED BY <1>3, <3>2, <3>3, WorkerStep DEF TypeInv
    <2> QED BY <2>1, <2>2
  <1> QED BY <1>1, <1>4, <1>5 DEF TypeInv

\* Verdicts: what is left to announce is a sequence of settlements.
LEMMA VerdictType ==
    ASSUME TypeInv, NEW w \in Worker,
           NEW culprit \in EntryId, NEW reason \in EvictReason,
           wk[w].pc \in Engaged, Blame(w, culprit, reason)
    PROVE  TypeInv'
  <1>1. GitTypeOK' /\ LeaseTypeOK' /\ AuxOK'
    BY DEF TypeInv, Blame, NoGit, TickFrame, GitTypeOK, LeaseTypeOK, AuxOK
  <1>2. wk[w] \in WorkerState /\ wk[w].cand \in CandidateId
    BY DEF TypeInv, WorkersOK, WorkerOK
  <1>3. StoreTypeOK'
    BY <1>2, BlameType, QueueAssumption DEF TypeInv, Blame
  <1>4. WorkersOK'
    <2>1. CASE Evicts(culprit, MaxAttempts)
      <3> DEFINE tell == <<<<culprit, "evicted">>>>
                 row == [wk[w] EXCEPT !.pc = "announce", !.tell = tell]
      <3>1. tell \in Seq(Settled)
        BY DEF Settled
      <3> HIDE DEF tell
      <3>2. row \in WorkerState /\ row.pc = "announce" /\ row.cand = wk[w].cand
        BY <1>2, <3>1 DEF WorkerState, InTick
      <3>3. wk' = [wk EXCEPT ![w] = row]
        BY <2>1 DEF Blame, tell
      <3> HIDE DEF row
      <3> QED BY <1>2, <3>2, <3>3, WorkerStep DEF TypeInv
    <2>2. CASE ~Evicts(culprit, MaxAttempts)
      <3>1. Goto(w, "release")
        BY <2>2 DEF Blame, Goto
      <3> QED BY <3>1, GotoStep DEF TypeInv, Engaged, InTick
    <2> QED BY <2>1, <2>2
  <1> QED BY <1>1, <1>3, <1>4 DEF TypeInv

\* Both ways a candidate is pinned on one of its entries.
LEMMA BlamingType ==
    ASSUME TypeInv, NEW w \in Worker, BlameConflict(w) \/ BlameLone(w)
    PROVE  TypeInv'
  <1>1. wk[w].batch \in Seq(EntryId) /\ wk[w].merged \in Nat
    BY DEF TypeInv, WorkersOK, WorkerState
  <1>2. wk[w].pc \in Engaged
    BY DEF BlameConflict, BlameLone, Engaged, InTick, Conflicting
  <1>3. CASE BlameConflict(w)
    <2>1. wk[w].merged < Len(wk[w].batch)
      BY <1>3 DEF BlameConflict, TypeInv, WorkersOK, WorkerOK
    <2>2. wk[w].merged + 1 \in 1..Len(wk[w].batch)
      BY <1>1, <2>1, LenProperties
    <2>3. NextToMerge(w) \in EntryId
      BY <1>1, <2>2, ElementOfSeq DEF NextToMerge
    <2> QED BY <1>2, <1>3, <2>3, VerdictType DEF BlameConflict, EvictReason
  <1>4. CASE BlameLone(w)
    <2>1. Head(wk[w].batch) \in EntryId
      BY <1>1, <1>4 DEF BlameLone
    <2> QED BY <1>2, <1>4, <2>1, VerdictType DEF BlameLone, EvictReason
  <1> QED BY <1>3, <1>4

\* Recording the landing: every member is to be announced as merged.
LEMMA LandingType ==
    ASSUME TypeInv, NEW w \in Worker, RecordLanding(w)
    PROVE  TypeInv'
  <1>1. GitTypeOK' /\ LeaseTypeOK' /\ AuxOK'
    BY DEF TypeInv, RecordLanding, NoGit, TickFrame, GitTypeOK, LeaseTypeOK, AuxOK
  <1>2. wk[w] \in WorkerState /\ wk[w].cand \in CandidateId
    BY DEF TypeInv, WorkersOK, WorkerOK, RecordLanding, Engaged, InTick
  <1>3. StoreTypeOK'
    BY <1>2, LandType DEF TypeInv, RecordLanding
  <1> DEFINE landed == candidate[wk[w].cand].entries
             tell == [i \in DOMAIN landed |-> <<landed[i], "merged">>]
             row == [wk[w] EXCEPT !.pc = "announce", !.tell = tell]
  <1>4. landed \in Seq(EntryId)
    BY <1>2 DEF TypeInv, StoreTypeOK, CandidateRow
  <1>5. wk' = [wk EXCEPT ![w] = row]
    BY DEF RecordLanding
  <1> HIDE DEF landed
  <1>6. tell \in Seq(Settled)
    <2>1. Len(landed) \in Nat /\ DOMAIN landed = 1..Len(landed)
      BY <1>4, LenProperties
    <2>2. \A i \in 1..Len(landed) : <<landed[i], "merged">> \in Settled
      BY <1>4, ElementOfSeq DEF Settled
    <2> QED BY <2>1, <2>2
  <1> HIDE DEF tell
  <1>7. row \in WorkerState /\ row.pc = "announce" /\ row.cand = wk[w].cand
    BY <1>2, <1>6 DEF WorkerState, InTick
  <1> HIDE DEF row
  <1>8. WorkersOK'
    BY <1>2, <1>5, <1>7, WorkerStep DEF TypeInv
  <1> QED BY <1>1, <1>3, <1>8 DEF TypeInv

\* Announcing one settled entry takes it off what is left to tell.
LEMMA AnnounceType ==
    ASSUME TypeInv, NEW w \in Worker, Announce(w)
    PROVE  TypeInv'
  <1>1. GitTypeOK' /\ StoreTypeOK' /\ LeaseTypeOK'
    BY DEF TypeInv, Announce, NoGit, NoStore, TickFrame, GitTypeOK,
           StoreTypeOK, LeaseTypeOK
  <1>2. wk[w] \in WorkerState /\ wk[w].cand \in CandidateId
    BY DEF TypeInv, WorkersOK, WorkerOK, Announce, Engaged, InTick
  <1>3. wk[w].tell \in Seq(Settled) /\ wk[w].tell # <<>>
    BY <1>2 DEF Announce, WorkerState
  <1>4. Head(wk[w].tell) \in Settled /\ Tail(wk[w].tell) \in Seq(Settled)
    BY <1>3, HeadTailProperties
  <1>5. AuxOK'
    <2>1. PICK e \in EntryId, what \in {"merged", "evicted"} :
             told' = [told EXCEPT ![e] = Append(told[e], what)]
      <3>1. /\ Head(wk[w].tell)[1] \in EntryId
            /\ Head(wk[w].tell)[2] \in {"merged", "evicted"}
        BY <1>4 DEF Settled
      <3> QED BY <3>1 DEF Announce
    <2>2. told[e] \in Seq({"merged", "evicted"})
      BY DEF TypeInv, AuxOK
    <2>3. Append(told[e], what) \in Seq({"merged", "evicted"})
      BY <2>2
    <2>4. told' \in [EntryId -> Seq({"merged", "evicted"})]
      BY <2>1, <2>3 DEF TypeInv, AuxOK
    <2> QED BY <2>4 DEF TypeInv, AuxOK, Announce, TickFrame
  <1>6. WorkersOK'
    <2> DEFINE row == [wk[w] EXCEPT !.tell = Tail(wk[w].tell)]
    <2>1. row \in WorkerState
      BY <1>2, <1>4 DEF WorkerState
    <2>2. row.pc = "announce" /\ row.cand = wk[w].cand
      BY <1>2 DEF WorkerState, Announce
    <2>3. wk' = [wk EXCEPT ![w] = row]
      BY DEF Announce
    <2> HIDE DEF row
    <2> QED BY <1>2, <2>1, <2>2, <2>3, WorkerStep DEF TypeInv
  <1> QED BY <1>1, <1>5, <1>6 DEF TypeInv

\* The ends of a tick and of a worker.
LEMMA RestingStepType ==
    ASSUME TypeInv, NEW w \in Worker,
           Release(w) \/ ReleaseFails(w) \/ Start(w) \/ Exit(w) \/ Crash(w)
    PROVE  TypeInv'
  <1>1. GitTypeOK' /\ StoreTypeOK'
    BY DEF TypeInv, Release, ReleaseFails, Start, Exit, Crash, NoGit, NoStore,
           TickFrame, GitTypeOK, StoreTypeOK
  <1>2. wk[w].stop \in BOOLEAN
    BY DEF TypeInv, WorkersOK, WorkerState
  <1>3. WorkersOK'
    BY <1>2, RestStep DEF TypeInv, Release, ReleaseFails, Start, Exit, Crash
  <1>4. LeaseTypeOK'
    <2>1. CASE Release(w)
      BY <2>1, ReleasedType DEF TypeInv, Release, LeaseTypeOK
    <2>2. CASE ReleaseFails(w) \/ Start(w)
      BY <2>2 DEF TypeInv, ReleaseFails, Start, LeaseTypeOK
    <2>3. CASE Exit(w) \/ Crash(w)
      BY <2>3, AfterDeathType, QueueAssumption DEF TypeInv, Exit, Crash, LeaseTypeOK
    <2> QED BY <2>1, <2>2, <2>3
  <1>5. AuxOK'
    <2>1. CASE Release(w) \/ Start(w) \/ Exit(w)
      BY <2>1 DEF TypeInv, AuxOK, Release, Start, Exit, TickFrame
    <2>2. CASE ReleaseFails(w) \/ Crash(w)
      <3>1. spent' \in [Event -> Nat]
        BY <2>2, SpendType DEF TypeInv, AuxOK, ReleaseFails, Crash, Event
      <3> QED BY <2>2, <3>1 DEF TypeInv, AuxOK, ReleaseFails, Crash
    <2> QED BY <2>1, <2>2
  <1> QED BY <1>1, <1>3, <1>4, <1>5 DEF TypeInv

\* A failing step ends the tick, and a signal is only noted.
LEMMA FaultType ==
    ASSUME TypeInv, NEW w \in Worker, StepFails(w) \/ Signal(w)
    PROVE  TypeInv'
  <1>0. spent' \in [Event -> Nat]
    BY SpendType DEF TypeInv, AuxOK, StepFails, GitFails, Signal, Event
  <1>1. GitTypeOK' /\ StoreTypeOK' /\ LeaseTypeOK' /\ AuxOK'
    BY <1>0 DEF TypeInv, StepFails, Signal, NoGit, NoStore, GitTypeOK, StoreTypeOK,
                LeaseTypeOK, AuxOK
  <1>2. CASE StepFails(w)
    BY <1>1, <1>2, GotoStep DEF TypeInv, StepFails, Engaged, InTick
  <1>3. CASE Signal(w)
    <2> DEFINE row == [wk[w] EXCEPT !.stop = TRUE]
    <2>1. wk[w] \in WorkerState /\ WorkerOK(w)
      BY DEF TypeInv, WorkersOK
    <2>2. /\ row \in WorkerState /\ row.pc = wk[w].pc /\ row.cand = wk[w].cand
          /\ row.merged = wk[w].merged /\ row.batch = wk[w].batch
      BY <2>1 DEF WorkerState
    <2>3. wk' = [wk EXCEPT ![w] = row]
      BY <1>3 DEF Signal
    <2> HIDE DEF row
    <2> QED BY <1>1, <2>1, <2>2, <2>3, WorkerStep
        DEF TypeInv, WorkerOK, Conflicting
  <1> QED BY <1>2, <1>3

\* Time, the operators and the developers.
LEMMA OutsideType ==
    ASSUME TypeInv, LeaseLapses \/ Operator \/ Developer
    PROVE  TypeInv'
  <1>1. CASE LeaseLapses
    <2>1. spent' \in [Event -> Nat]
      BY <1>1, SpendType DEF LeaseLapses, TypeInv, AuxOK, Event
    <2> QED BY <1>1, <2>1, LapseType
    DEF LeaseLapses, TypeInv, NoGit, NoStore, GitTypeOK, StoreTypeOK, WorkersOK,
        WorkerOK, AuxOK
  <1>2. CASE Operator
    <2>1. GitTypeOK' /\ LeaseTypeOK' /\ WorkersOK'
      BY <1>2 DEF Operator, Enqueue, CheckCommand, DequeueWrite, PromoteWrite,
              TypeInv, NoGit, TickFrame, GitTypeOK, LeaseTypeOK, WorkersOK, WorkerOK
    <2>2. AuxOK'
      <3>1. CASE Enqueue
        BY <3>1 DEF Enqueue, TypeInv, TickFrame, AuxOK
      <3>2. ASSUME NEW kind \in {"dequeue", "promote"}, NEW e \in EntryId,
                   CheckCommand(kind, e)
            PROVE  AuxOK'
        <4>1. spent' \in [Event -> Nat]
          BY <3>2, SpendType DEF CheckCommand, TypeInv, AuxOK, Event
        <4> QED BY <3>2, <4>1 DEF CheckCommand, TypeInv, AuxOK, Command
      <3>3. ASSUME NEW e \in EntryId, DequeueWrite(e) \/ PromoteWrite(e)
            PROVE  AuxOK'
        BY <3>3 DEF DequeueWrite, PromoteWrite, TypeInv, AuxOK
      <3> QED BY <1>2, <3>1, <3>2, <3>3 DEF Operator
    <2>3. StoreTypeOK'
      <3>1. CASE Enqueue
        BY <3>1, InsertEntryType DEF Enqueue, TypeInv
      <3>2. ASSUME NEW kind \in {"dequeue", "promote"}, NEW e \in EntryId,
                   CheckCommand(kind, e)
            PROVE  StoreTypeOK'
        BY <3>2 DEF CheckCommand, NoStore, TypeInv, StoreTypeOK
      <3>3. ASSUME NEW e \in EntryId, DequeueWrite(e) \/ PromoteWrite(e)
            PROVE  StoreTypeOK'
        BY <3>3, EvictByHandType, RaisePriorityType
        DEF DequeueWrite, PromoteWrite, TypeInv
      <3> QED BY <1>2, <3>1, <3>2, <3>3 DEF Operator
    <2> QED BY <2>1, <2>2, <2>3 DEF TypeInv
  <1>3. CASE Developer
    <2>1. GitTypeOK'
      BY <1>3, DeveloperGit DEF Developer, TypeInv
    <2>2. StoreTypeOK' /\ LeaseTypeOK' /\ WorkersOK' /\ AuxOK'
      <3>1. spent' \in [Event -> Nat]
        BY <1>3, SpendType DEF Developer, TypeInv, AuxOK, Event
      <3> QED BY <1>3, <3>1 DEF Developer, TypeInv, NoStore, StoreTypeOK,
                   LeaseTypeOK, WorkersOK, WorkerOK, AuxOK
    <2> QED BY <2>1, <2>2 DEF TypeInv
  <1> QED BY <1>1, <1>2, <1>3

-----------------------------------------------------------------------------
(* Type correctness.                                                       *)

\* Nothing has happened yet.
LEMMA InitType == Init => TypeInv
  <1> SUFFICES ASSUME Init PROVE TypeInv
    OBVIOUS
  <1>1. GitTypeOK
    <2>1. <<>> \in Seq(Change)
      BY EmptySeq
    <2> QED BY <2>1 DEF Init, GitInit, GitTypeOK
  <1>2. StoreTypeOK
    <2>1. (CHOOSE r \in Request : TRUE) \in Request
      BY StoreAssumption
    <2>2. entry \in [EntryId -> EntryRow]
      BY <2>1 DEF Init, StoreInit, EntryRow, EntryState, EvictReason
    <2>3. candidate \in [CandidateId -> CandidateRow]
      BY DEF Init, StoreInit, CandidateRow, CandidateState, Outcome
    <2> QED BY <2>2, <2>3 DEF StoreTypeOK
  <1>3. LeaseTypeOK
    BY DEF Init, LeaseInit, LeaseTypeOK
  <1>4. WorkersOK
    <2>1. \A w \in Worker : Resting(w, "idle", FALSE) \in WorkerState
      BY RestingType
    <2>2. \A w \in Worker : wk[w].pc = "idle"
      BY DEF Init, Resting
    <2> QED BY <2>1, <2>2 DEF Init, WorkersOK, WorkerOK, Engaged, InTick, Conflicting
  <1>5. AuxOK
    BY DEF Init, AuxOK
  <1> QED BY <1>1, <1>2, <1>3, <1>4, <1>5 DEF TypeInv

\* Every step, whoever takes it, leaves every variable well typed.
LEMMA NextType == TypeInv /\ [Next]_vars => TypeInv'
  <1> SUFFICES ASSUME TypeInv, [Next]_vars PROVE TypeInv'
    OBVIOUS
  <1>1. ASSUME NEW w \in Worker, TickStep(w) PROVE TypeInv'
    BY <1>1, AcquireType, LookType, FindingType, AssembleType, FastForwardType,
       OpeningType, FinishingType, BlamingType, LandingType, AnnounceType,
       RestingStepType
    DEF TickStep
  <1>2. ASSUME NEW w \in Worker, Start(w) \/ Exit(w) \/ Mishap(w) PROVE TypeInv'
    BY <1>2, RestingStepType, FaultType, FastForwardType, MergeCutShortType
    DEF Mishap
  <1>3. CASE LeaseLapses \/ Operator \/ Developer
    BY <1>3, OutsideType
  <1>4. CASE UNCHANGED vars
    BY <1>4 DEF vars, TypeInv, GitTypeOK, StoreTypeOK, LeaseTypeOK, WorkersOK,
            WorkerOK, AuxOK
  <1> QED BY <1>1, <1>2, <1>3, <1>4 DEF Next

\* Type correctness of the merge queue, and of what a tick relies on.
THEOREM TypeInvariant == Spec => []TypeInv
  BY InitType, NextType, PTL DEF Spec

\* Every column, field and ref of the merge queue holds what it can hold.
THEOREM TypeCorrect == Spec => []TypeOK
  <1>1. TypeInv => TypeOK
    BY DEF TypeInv, TypeOK, WorkersOK, AuxOK
  <1> QED BY <1>1, TypeInvariant, PTL

-----------------------------------------------------------------------------
(* One worker at a time: the lease does what it is for, whatever dies,    *)
(* fails, restarts or has its pid reused, until a tick outlives the expiry *)
(* of its lease.                                                           *)

\* Worker w is the holder the lease row names, and nobody may take the row
\* over.
Holds(w) ==
    /\ lease # NoLease
    /\ lease.token = wk[w].token
    /\ wk[w].token.pid = w
    /\ lease.present /\ ~lease.lapsed

\* OneIntegrator is not inductive: a second worker is kept out by the row, so
\* every worker inside a tick must be the one the row names.
LeaseInv == NoOverrun => \A w \in Worker : Ticking(w) => Holds(w)

\* Two workers cannot both be the one the row names.
LEMMA LeaseInvSuffices == LeaseInv => OneIntegrator
  BY DEF LeaseInv, OneIntegrator, Holds

\* Only a lease that lapses under a tick counts as an overrun.
LEMMA NoOverrunBefore ==
    ASSUME TypeInv, NEW event \in Event \ {"overrun"}, Spend(event)
    PROVE  NoOverrun' <=> NoOverrun
  <1>1. spent' = [spent EXCEPT ![event] = spent[event] + 1]
    BY DEF Spend
  <1> QED BY <1>1 DEF NoOverrun, TypeInv, AuxOK

-----------------------------------------------------------------------------
(* The steps inside a tick do not touch the lease, nor the token the       *)
(* worker holds it with.                                                   *)

\* Whatever worker w does to its record, it keeps its token.
KeepsToken(w) ==
    /\ \A v \in Worker \ {w} : wk'[v] = wk[v]
    /\ wk'[w].token = wk[w].token

\* A step inside a tick that keeps its token and the row keeps the exclusion.
LEMMA InsideTick ==
    ASSUME LeaseInv, NEW w \in Worker, Ticking(w), KeepsToken(w),
           UNCHANGED lease, NoOverrun' => NoOverrun
    PROVE  LeaseInv'
  <1> SUFFICES ASSUME NoOverrun', NEW v \in Worker, Ticking(v)'
               PROVE  Holds(v)'
    BY DEF LeaseInv
  <1>1. Ticking(v)
    BY DEF KeepsToken, Ticking
  <1>2. Holds(v)
    BY <1>1 DEF LeaseInv
  <1> QED BY <1>2 DEF Holds, KeepsToken

\* Moving on within a tick keeps the token.
LEMMA GotoKeepsToken ==
    ASSUME TypeInv, NEW w \in Worker, NEW pc, Goto(w, pc)
    PROVE  KeepsToken(w)
  BY DEF TypeInv, WorkersOK, WorkerState, Goto, KeepsToken

\* The steps that only move on.
LEMMA MovingOnKeepsToken ==
    ASSUME TypeInv, NEW w \in Worker,
           \/ FindBaseCheckedOut(w) \/ FindNothingUnfinished(w)
           \/ OpenRefused(w) \/ MergeConflicts(w) \/ StartTesting(w)
           \/ GateFails(w) \/ FastForward(w) \/ FindBaseMoved(w)
           \/ BlameRefused(w) \/ AbandonInterrupted(w) \/ AbandonMoved(w)
           \/ ReopenHalf(w) \/ MergeCutShort(w) \/ FastForwardKilled(w)
           \/ StepFails(w)
    PROVE  KeepsToken(w)
  BY GotoKeepsToken
  DEF FindBaseCheckedOut, FindNothingUnfinished, OpenRefused, MergeConflicts,
      StartTesting, GateFails, FastForward, FindBaseMoved, BlameRefused,
      AbandonInterrupted, AbandonMoved, ReopenHalf, MergeCutShort,
      FastForwardKilled, StepFails

\* The steps that learn something.
LEMMA LearningKeepsToken ==
    ASSUME TypeInv, NEW w \in Worker,
           \/ ReadBase(w) \/ ResumeCandidate(w) \/ SelectBatch(w) \/ Open(w)
           \/ CheckOutDetached(w) \/ MergeNext(w) \/ GatePasses(w)
           \/ RecordLanding(w) \/ Announce(w) \/ Split(w)
    PROVE  KeepsToken(w)
  <1> USE DEF TypeInv, WorkersOK, WorkerState, KeepsToken
  <1>1. CASE ReadBase(w) \/ CheckOutDetached(w) \/ GatePasses(w)
    BY <1>1 DEF ReadBase, CheckOutDetached, GatePasses
  <1>2. CASE ResumeCandidate(w) \/ SelectBatch(w) \/ Open(w)
    <2>1. CASE ResumeCandidate(w)
      <3>1. PICK c \in CandidateId :
               wk' = [wk EXCEPT
                        ![w].pc = IF candidate[c].base = wk[w].base
                                  THEN "checkout" ELSE "moved",
                        ![w].cand = c, ![w].batch = candidate[c].entries]
        BY <2>1 DEF ResumeCandidate
      <3> QED BY <3>1
    <2>2. CASE SelectBatch(w)
      <3>1. PICK batch \in Batches(MaxBatch) :
               wk' = [wk EXCEPT ![w].batch = batch,
                        ![w].pc = IF batch = <<>> THEN "release" ELSE "open"]
        BY <2>2 DEF SelectBatch
      <3> QED BY <3>1
    <2>3. CASE Open(w)
      BY <2>3 DEF Open
    <2> QED BY <1>2, <2>1, <2>2, <2>3
  <1>3. CASE MergeNext(w) \/ Announce(w)
    <2>1. CASE MergeNext(w)
      <3>1. PICK n, tip : wk' = [wk EXCEPT ![w].merged = n, ![w].tip = tip]
        BY <2>1 DEF MergeNext
      <3> QED BY <3>1
    <2>2. CASE Announce(w)
      <3>1. PICK tell : wk' = [wk EXCEPT ![w].tell = tell]
        BY <2>2 DEF Announce
      <3> QED BY <3>1
    <2> QED BY <1>3, <2>1, <2>2
  <1>4. CASE RecordLanding(w)
    <2>1. PICK tell : wk' = [wk EXCEPT ![w].pc = "announce", ![w].tell = tell]
      BY <1>4 DEF RecordLanding
    <2> QED BY <2>1
  <1>5. CASE Split(w)
    <2>1. PICK half : wk' = [wk EXCEPT ![w].pc = "reopen", ![w].batch = half]
      BY <1>5 DEF Split
    <2> QED BY <2>1
  <1> QED BY <1>1, <1>2, <1>3, <1>4, <1>5

\* A verdict leaves the token alone, whether or not it is announced.
LEMMA BlamingKeepsToken ==
    ASSUME TypeInv, NEW w \in Worker, BlameConflict(w) \/ BlameLone(w)
    PROVE  KeepsToken(w)
  <1>1. PICK culprit, reason : Blame(w, culprit, reason)
    BY DEF BlameConflict, BlameLone
  <1>2. CASE Evicts(culprit, MaxAttempts)
    BY <1>1, <1>2 DEF Blame, TypeInv, WorkersOK, WorkerState, KeepsToken
  <1>3. CASE ~Evicts(culprit, MaxAttempts)
    BY <1>1, <1>3 DEF Blame, TypeInv, WorkersOK, WorkerState, KeepsToken
  <1> QED BY <1>2, <1>3

\* Every step of a tick but the ones that take and give back the lease.
LEMMA TickKeepsLease ==
    ASSUME TypeInv, LeaseInv, NEW w \in Worker,
           \/ TickStep(w) \/ Mishap(w),
           ~AcquireFree(w), ~AcquireReclaim(w), ~Release(w),
           ~ReleaseFails(w), ~Signal(w), ~Crash(w)
    PROVE  LeaseInv'
  <1>1. Ticking(w)
    BY DEF TickStep, Mishap, Ticking, InTick, FindBaseCheckedOut, ReadBase,
           ResumeCandidate, FindNothingUnfinished, SelectBatch, Open,
           OpenRefused, CheckOutDetached, MergeNext, MergeConflicts,
           StartTesting, GatePasses, GateFails, FastForward, FindBaseMoved,
           RecordLanding, Announce, BlameConflict, BlameLone, BlameRefused,
           AbandonInterrupted, AbandonMoved, Split, ReopenHalf,
           MergeCutShort, FastForwardKilled, StepFails, Conflicting
  <1>2. KeepsToken(w)
    BY MovingOnKeepsToken, LearningKeepsToken, BlamingKeepsToken
    DEF TickStep, Mishap
  <1>3. UNCHANGED lease /\ (NoOverrun' => NoOverrun)
    <2>1. CASE StepFails(w) \/ MergeCutShort(w)
      <3>1. Spend("fault") \/ UNCHANGED spent
        BY <2>1 DEF StepFails, MergeCutShort, GitFails
      <3>2. NoOverrun' <=> NoOverrun
        BY <3>1, NoOverrunBefore DEF Event, NoOverrun
      <3> QED BY <2>1, <3>2 DEF StepFails, MergeCutShort
    <2>2. CASE ~StepFails(w) /\ ~MergeCutShort(w)
      <3>1. UNCHANGED <<lease, spent>>
        BY <2>2
        DEF TickStep, Mishap, TickFrame, FindBaseCheckedOut, ReadBase,
            ResumeCandidate, FindNothingUnfinished, SelectBatch, Open,
            OpenRefused, CheckOutDetached, MergeNext, MergeConflicts,
            StartTesting, GatePasses, GateFails, FastForward, FindBaseMoved,
            RecordLanding, Announce, BlameConflict, BlameLone, Blame,
            BlameRefused, AbandonInterrupted, AbandonMoved, Split, ReopenHalf,
            FastForwardKilled
      <3> QED BY <3>1 DEF NoOverrun
    <2> QED BY <2>1, <2>2
  <1> QED BY <1>1, <1>2, <1>3, InsideTick

-----------------------------------------------------------------------------
(* The steps that take a lease, give it back, or leave it behind.          *)

\* The lease can be had only while nobody is inside a tick.
LEMMA AcquireExcludes ==
    ASSUME TypeInv, LeaseInv, NEW w \in Worker,
           AcquireFree(w) \/ AcquireReclaim(w)
    PROVE  LeaseInv'
  <1> SUFFICES ASSUME NoOverrun' PROVE \A v \in Worker : Ticking(v)' => Holds(v)'
    BY DEF LeaseInv
  <1>1. NoOverrun /\ lease' = NewLease(w)
    BY DEF AcquireFree, AcquireReclaim, TickFrame, NoOverrun, Acquired
  <1>2. \A v \in Worker : ~Ticking(v)
    BY <1>1 DEF LeaseInv, Holds, AcquireFree, AcquireReclaim, LeaseFree,
                LeaseReclaimable
  <1>3. /\ \A v \in Worker \ {w} : wk'[v] = wk[v]
        /\ wk'[w].token = Mint(w)
    BY DEF AcquireFree, AcquireReclaim, Acquired, TypeInv, WorkersOK, WorkerState
  <1>4. \A v \in Worker \ {w} : ~Ticking(v)'
    BY <1>2, <1>3 DEF Ticking
  <1>5. Holds(w)'
    <2>1. NewLease(w) # NoLease /\ Mint(w).pid = w
      BY MintType, LeaseAssumption
    <2> QED BY <1>1, <1>3, <2>1 DEF Holds, NewLease
  <1> QED BY <1>4, <1>5

\* Once the holder is at rest nobody is inside a tick.
LEMMA RestingExcludes ==
    ASSUME TypeInv, LeaseInv, NEW w \in Worker, NoOverrun, Ticking(w),
           NEW pc \in {"idle", "down"}, NEW stop,
           wk' = [wk EXCEPT ![w] = Resting(w, pc, stop)]
    PROVE  \A v \in Worker : ~Ticking(v)'
  <1>1. \A v \in Worker \ {w} : ~Ticking(v)
    BY DEF LeaseInv, Holds
  <1>2. \A v \in Worker \ {w} : wk'[v] = wk[v]
    BY DEF TypeInv, WorkersOK
  <1>3. wk'[w].pc = pc
    BY DEF TypeInv, WorkersOK, Resting
  <1>4. ~Ticking(w)'
    BY <1>3 DEF Ticking, InTick
  <1> QED BY <1>1, <1>2, <1>4 DEF Ticking

\* A tick ends with nobody inside one, even if its release fails.
LEMMA ReleaseExcludes ==
    ASSUME TypeInv, LeaseInv, NEW w \in Worker, Release(w) \/ ReleaseFails(w)
    PROVE  LeaseInv'
  <1> SUFFICES ASSUME NoOverrun' PROVE \A v \in Worker : ~Ticking(v)'
    BY DEF LeaseInv
  <1>1. NoOverrun
    <2>1. CASE Release(w)
      BY <2>1 DEF Release, TickFrame, NoOverrun
    <2>2. CASE ReleaseFails(w)
      <3>1. Spend("fault")
        BY <2>2 DEF ReleaseFails
      <3> QED BY <3>1, NoOverrunBefore DEF Event
    <2> QED BY <2>1, <2>2
  <1>2. Ticking(w) /\ wk' = [wk EXCEPT ![w] = Resting(w, "idle", wk[w].stop)]
    BY DEF Release, ReleaseFails, TickDone, Ticking, InTick
  <1> QED BY <1>1, <1>2, RestingExcludes

\* A death blinds only the lease of the worker that died.
LEMMA DeathExcludes ==
    ASSUME TypeInv, LeaseInv, NEW w \in Worker,
           NoOverrun' => NoOverrun,
           wk' = [wk EXCEPT ![w] = Resting(w, "down", FALSE)],
           \E reused \in {FALSE, PidReuse} : lease' = AfterDeathOf(w, reused)
    PROVE  LeaseInv'
  <1> SUFFICES ASSUME NoOverrun', NEW v \in Worker, Ticking(v)'
               PROVE  Holds(v)'
    BY DEF LeaseInv
  <1>1. wk'[w].pc = "down"
    BY DEF TypeInv, WorkersOK, Resting
  <1>2. v # w
    BY <1>1 DEF Ticking, InTick
  <1>3. wk'[v] = wk[v]
    BY <1>2 DEF TypeInv, WorkersOK
  <1>4. Holds(v)
    BY <1>3 DEF Ticking, LeaseInv
  <1>5. lease' = lease
    BY <1>2, <1>4 DEF Holds, AfterDeathOf
  <1> QED BY <1>3, <1>4, <1>5 DEF Holds

\* Starting, exiting, being signalled and being killed.
LEMMA OutOfTickLease ==
    ASSUME TypeInv, LeaseInv, NEW w \in Worker,
           Start(w) \/ Exit(w) \/ Signal(w) \/ Crash(w)
    PROVE  LeaseInv'
  <1>1. CASE Start(w)
    <2> SUFFICES ASSUME NoOverrun', NEW v \in Worker, Ticking(v)'
                 PROVE  Holds(v)'
      BY DEF LeaseInv
    <2>1. wk'[w].pc = "idle"
      BY <1>1 DEF Start, TypeInv, WorkersOK, Resting
    <2>2. v # w
      BY <2>1 DEF Ticking, InTick
    <2>3. wk'[v] = wk[v] /\ lease' = lease /\ NoOverrun
      BY <1>1, <2>2 DEF Start, TickFrame, NoOverrun, TypeInv, WorkersOK
    <2> QED BY <2>3 DEF Ticking, LeaseInv, Holds
  <1>2. CASE Exit(w)
    BY <1>2, DeathExcludes DEF Exit, TickFrame, NoOverrun
  <1>3. CASE Signal(w)
    <2>1. Spend("stop")
      BY <1>3 DEF Signal
    <2>2. NoOverrun' => NoOverrun
      BY <2>1, NoOverrunBefore DEF Event
    <2>3. /\ \A v \in Worker \ {w} : wk'[v] = wk[v]
          /\ wk'[w].token = wk[w].token /\ wk'[w].pc = wk[w].pc
          /\ lease' = lease
      BY <1>3 DEF Signal, TypeInv, WorkersOK, WorkerState
    <2> QED BY <2>2, <2>3 DEF LeaseInv, Holds, Ticking
  <1>4. CASE Crash(w)
    <2>1. Spend("crash")
      BY <1>4 DEF Crash
    <2>2. NoOverrun' => NoOverrun
      BY <2>1, NoOverrunBefore DEF Event
    <2> QED BY <1>4, <2>2, DeathExcludes DEF Crash
  <1> QED BY <1>1, <1>2, <1>3, <1>4

\* A lease that lapses under its holder is an overrun; any other is nobody's.
LEMMA LapseExcludes ==
    ASSUME TypeInv, LeaseInv, LeaseLapses
    PROVE  LeaseInv'
  <1>1. UNCHANGED wk
    BY DEF LeaseLapses
  <1>2. CASE HolderTicking
    <2>1. Spend("overrun")
      BY <1>2 DEF LeaseLapses
    <2>2. "overrun" \in Event
      BY DEF Event
    <2>3. spent["overrun"] \in Nat
      BY <2>2 DEF TypeInv, AuxOK
    <2>4. spent'["overrun"] = spent["overrun"] + 1
      BY <2>1, <2>2 DEF Spend, TypeInv, AuxOK
    <2>5. ~NoOverrun'
      BY <2>3, <2>4 DEF NoOverrun
    <2> QED BY <2>5 DEF LeaseInv
  <1>3. CASE ~HolderTicking
    <2>1. UNCHANGED spent
      BY <1>3 DEF LeaseLapses
    <2>2. NoOverrun => \A w \in Worker : ~Ticking(w)
      BY <1>3 DEF LeaseInv, Holds, HolderTicking, Owns
    <2> QED BY <1>1, <2>1, <2>2 DEF LeaseInv, NoOverrun, Ticking
  <1> QED BY <1>2, <1>3

\* The operators and the developers have no say in the lease.
LEMMA OutsideLease ==
    ASSUME TypeInv, LeaseInv, Operator \/ Developer \/ UNCHANGED vars
    PROVE  LeaseInv'
  <1>1. UNCHANGED <<lease, wk>>
    BY DEF Operator, Enqueue, CheckCommand, DequeueWrite, PromoteWrite,
           Developer, vars
  <1>2. NoOverrun' => NoOverrun
    <2>1. CASE UNCHANGED spent
      BY <2>1 DEF NoOverrun
    <2>2. ASSUME NEW event \in Event \ {"overrun"}, Spend(event)
          PROVE  NoOverrun' => NoOverrun
      BY <2>2, NoOverrunBefore
    <2>3. \/ UNCHANGED spent
          \/ \E event \in {"dequeue", "promote", "push", "checkout"} : Spend(event)
      BY DEF Operator, Enqueue, CheckCommand, DequeueWrite, PromoteWrite,
             Developer, vars, TickFrame
    <2> QED BY <2>1, <2>2, <2>3 DEF Event
  <1> QED BY <1>1, <1>2 DEF LeaseInv, Holds, Ticking

-----------------------------------------------------------------------------
\* Nobody is inside a tick to begin with.
LEMMA InitLease == Init => LeaseInv
  BY DEF Init, LeaseInv, Resting, Ticking, InTick

\* Every step leaves the lease with the one worker inside a tick.
LEMMA NextLease == TypeInv /\ LeaseInv /\ [Next]_vars => LeaseInv'
  <1> SUFFICES ASSUME TypeInv, LeaseInv, [Next]_vars PROVE LeaseInv'
    OBVIOUS
  <1>1. ASSUME NEW w \in Worker, TickStep(w) \/ Start(w) \/ Exit(w) \/ Mishap(w)
        PROVE  LeaseInv'
    <2>1. CASE AcquireFree(w) \/ AcquireReclaim(w)
      BY <2>1, AcquireExcludes
    <2>2. CASE Release(w) \/ ReleaseFails(w)
      BY <2>2, ReleaseExcludes
    <2>3. CASE Start(w) \/ Exit(w) \/ Signal(w) \/ Crash(w)
      BY <2>3, OutOfTickLease
    <2> QED BY <1>1, <2>1, <2>2, <2>3, TickKeepsLease
  <1>2. CASE LeaseLapses
    BY <1>2, LapseExcludes
  <1>3. CASE Operator \/ Developer \/ UNCHANGED vars
    BY <1>3, OutsideLease
  <1> QED BY <1>1, <1>2, <1>3 DEF Next

\* The worker inside a tick is the one the lease row names, and the row may
\* not be taken over, until a tick outlives its lease.
THEOREM LeaseIsHeld == Spec => []LeaseInv
  BY InitLease, NextLease, TypeInvariant, PTL DEF Spec

\* README invariant 6, for any number of workers: one integrator at a time.
THEOREM OneIntegratorHolds == Spec => []OneIntegrator
  BY LeaseIsHeld, LeaseInvSuffices, PTL
=============================================================================
