---------------------------- MODULE ReadingProof ----------------------------
(***************************************************************************)
(* What is read of the queue: the batch a worker selects, which is a       *)
(* prefix of the line and mixes no retry with others, also by the time it  *)
(* is in a candidate, and the listing, which loses nobody who stayed.      *)
(***************************************************************************)
EXTENDS Listing, RefinementProof

(* The line, ORDER BY priority DESC, id ASC.                               *)

\* The order of the queue is strict and total.
LEMMA LineIsOrdered ==
    ASSUME TypeInv, NEW e \in EntryId, NEW f \in EntryId
    PROVE  /\ ~Ahead(e, e)
           /\ Ahead(e, f) => ~Ahead(f, e)
           /\ e # f => Ahead(e, f) \/ Ahead(f, e)
           /\ \A g \in EntryId : Ahead(e, f) /\ Ahead(f, g) => Ahead(e, g)
  <1>1. \A g \in EntryId : entry[g].priority \in Nat /\ g \in Nat
    BY DEF TypeInv, StoreTypeOK, EntryRow, EntryId
  <1> QED BY <1>1 DEF Ahead

\* Whoever is ahead of one of the first is one of the first.
LEMMA FrontIsPrefix ==
    ASSUME TypeInv, NEW limit \in Nat,
           NEW e \in Queued, NEW f \in FirstQueued(limit), Ahead(e, f)
    PROVE  e \in FirstQueued(limit)
  <1> DEFINE Before(g) == {h \in Queued : Ahead(h, g)}
  <1>1. Queued \subseteq EntryId /\ f \in Queued
    BY DEF Queued, FirstQueued
  <1>2. IsFiniteSet(EntryId)
    BY FS_Interval, StoreAssumption DEF EntryId
  <1>3. Before(e) \in SUBSET Before(f) /\ Before(f) \in SUBSET EntryId
    BY <1>1, LineIsOrdered
  <1>4. IsFiniteSet(Before(f))
    BY <1>2, <1>3, FS_Subset
  <1>5. /\ IsFiniteSet(Before(e))
        /\ Cardinality(Before(e)) <= Cardinality(Before(f))
    BY ONLY <1>3, <1>4, FS_Subset
  <1>6. Cardinality(Before(e)) \in Nat /\ Cardinality(Before(f)) \in Nat
    BY <1>4, <1>5, FS_CardinalityType
  <1>7. Cardinality(Before(f)) < limit
    BY DEF FirstQueued
  <1>8. Cardinality(Before(e)) < limit
    BY <1>5, <1>6, <1>7
  <1> QED BY <1>8 DEF FirstQueued

\* Whether it is fresh entries or one retry that are taken, everyone left
\* waiting is behind them.
LEMMA MembersGoFirst ==
    ASSUME TypeInv, NEW limit \in Nat,
           NEW e \in BatchMembers(limit), NEW f \in Queued \ BatchMembers(limit)
    PROVE  Ahead(e, f)
  <1> DEFINE front == FirstQueued(limit)
             fresh == {g \in front : \A h \in front :
                          (h = g \/ Ahead(h, g)) => entry[h].attempts = 0}
  <1>1. front \subseteq Queued /\ Queued \subseteq EntryId
    BY DEF FirstQueued, Queued
  <1>2. e \in front /\ e \in EntryId /\ f \in EntryId /\ e # f
    BY <1>1 DEF BatchMembers
  <1> SUFFICES ASSUME Ahead(f, e) PROVE FALSE
    BY <1>2, LineIsOrdered
  <1>3. f \in front
    BY <1>2, FrontIsPrefix
  <1>4. CASE fresh # {}
    <2>1. e \in fresh /\ f \notin fresh
      BY <1>4 DEF BatchMembers
    <2>2. PICK h \in front : (h = f \/ Ahead(h, f)) /\ entry[h].attempts # 0
      BY <1>3, <2>1
    <2>3. Ahead(h, e)
      BY <1>1, <1>2, <2>2, LineIsOrdered
    <2> QED BY <2>1, <2>2, <2>3
  <1>5. CASE fresh = {}
    <2>1. \A g \in front \ {e} : Ahead(e, g)
      BY <1>5 DEF BatchMembers
    <2> QED BY <1>2, <1>3, <2>1, LineIsOrdered
  <1> QED BY <1>4, <1>5

\* The batch has every member, in order.
LEMMA BatchIsItsMembers ==
    ASSUME TypeInv, NEW limit \in Nat, NEW batch \in Batches(limit)
    PROVE  ToSet(batch) = BatchMembers(limit)
  <1> DEFINE members == BatchMembers(limit)
             n == Cardinality(members)
  <1>1. members \subseteq EntryId
    BY DEF BatchMembers, FirstQueued, Queued
  <1>2. IsFiniteSet(members)
    <2>1. IsFiniteSet(EntryId)
      BY FS_Interval, StoreAssumption DEF EntryId
    <2> QED BY ONLY <1>1, <2>1, FS_Subset
  <1>3. n \in Nat
    BY <1>2, FS_CardinalityType
  <1>4. batch \in [1..n -> members] /\ InOrder(batch)
    BY DEF Batches
  <1>5. ASSUME NEW i \in 1..n, NEW j \in 1..n, i # j
        PROVE  batch[i] # batch[j]
    <2>1. Ahead(batch[i], batch[j]) \/ Ahead(batch[j], batch[i])
      BY <1>3, <1>4, <1>5 DEF InOrder
    <2>2. batch[i] \in EntryId
      BY <1>1, <1>4
    <2> QED BY <2>1, <2>2, LineIsOrdered
  <1>6. batch \in Injection(1..n, members)
    BY <1>4, <1>5 DEF Injection, IsInjective
  <1>7. Cardinality(1..n) = n
    BY <1>3, FS_Interval
  <1>8. batch \in Surjection(1..n, members)
    BY <1>2, <1>6, <1>7, FS_Injection
  <1> QED BY <1>4, <1>8 DEF Surjection, ToSet

-----------------------------------------------------------------------------
(* The selection.                                                          *)

\* Only the selection leads from looking for a batch to opening a candidate.
LEMMA OnlySelectionOpens ==
    ASSUME TypeInv, [Next]_vars, NEW w \in Worker,
           wk[w].pc = "select", wk'[w].pc = "open"
    PROVE  SelectBatch(w)
  <1>1. wk \in [Worker -> WorkerState]
    BY DEF TypeInv, WorkersOK
  <1>2. wk' # wk
    OBVIOUS
  <1>3. PICK v \in Worker : TickStep(v) \/ Start(v) \/ Exit(v) \/ Mishap(v)
    BY <1>2 DEF Next, vars, LeaseLapses, Operator, Enqueue, CheckCommand,
                DequeueWrite, PromoteWrite, Developer
  <1>4. v = w
    BY <1>3, OneWorkerSteps
  <1>5. ~(Start(w) \/ Exit(w) \/ Mishap(w))
    <2>1. ~(Start(w) \/ Exit(w) \/ MergeCutShort(w) \/ FastForwardKilled(w)
              \/ ReleaseFails(w))
      BY DEF Start, Exit, MergeCutShort, FastForwardKilled, ReleaseFails, TickDone
    <2>2. ~(StepFails(w) \/ Signal(w))
      BY <1>1 DEF StepFails, Signal, Goto, WorkerState
    <2>3. ASSUME Crash(w) PROVE FALSE
      <3>1. wk'[w] = Resting(w, "down", FALSE)
        BY <1>1, <2>3 DEF Crash
      <3> QED BY <3>1 DEF Resting
    <2> QED BY <2>1, <2>2, <2>3 DEF Mishap
  <1>6. TickStep(w)
    BY <1>3, <1>4, <1>5
  <1> QED BY <1>6 DEF TickStep, AcquireFree, AcquireReclaim, FindBaseCheckedOut,
       ReadBase, ResumeCandidate, FindNothingUnfinished, Open, OpenRefused,
       CheckOutDetached, MergeNext, MergeConflicts, StartTesting, GatePasses,
       GateFails, FastForward, FindBaseMoved, RecordLanding, Announce,
       BlameConflict, Conflicting, BlameLone, BlameRefused, AbandonInterrupted,
       AbandonMoved, Split, ReopenHalf, Release, TickDone

\* Nobody in the batch comes from behind somebody who is left waiting.
THEOREM SelectionIsPrefix == Spec => NobodyOvertakes
  <1>1. TypeInv /\ [Next]_vars =>
           [\A w \in Worker : wk[w].pc = "select" /\ wk'[w].pc = "open" =>
               \A e \in ToSet(wk'[w].batch), f \in Queued \ ToSet(wk'[w].batch) :
                   Ahead(e, f)]_vars
    <2> SUFFICES ASSUME TypeInv, [Next]_vars, NEW w \in Worker,
                        wk[w].pc = "select", wk'[w].pc = "open",
                        NEW e \in ToSet(wk'[w].batch),
                        NEW f \in Queued \ ToSet(wk'[w].batch)
                 PROVE  Ahead(e, f)
      OBVIOUS
    <2>1. SelectBatch(w)
      BY OnlySelectionOpens
    <2>2. wk'[w].batch \in Batches(MaxBatch)
      BY <2>1 DEF SelectBatch, TypeInv, WorkersOK, WorkerState
    <2>3. MaxBatch \in Nat
      BY QueueAssumption
    <2>4. ToSet(wk'[w].batch) = BatchMembers(MaxBatch)
      BY <2>2, <2>3, BatchIsItsMembers
    <2> QED BY <2>3, <2>4, MembersGoFirst
  <1> QED BY <1>1, TypeInvariant, PTL DEF Spec, NobodyOvertakes

-----------------------------------------------------------------------------
(* Retries.                                                                *)

\* Of what the queue is at work on, an entry that has failed is the only one.
RetryInv ==
    NoOverrun =>
        \A e, f \in EntryId :
            InHand(e) /\ InHand(f) /\ entry[e].attempts > 0 => f = e

\* A selection is of fresh entries, or of one.
LEMMA RetrySelectedAlone ==
    ASSUME TypeInv, NEW limit,
           NEW e \in BatchMembers(limit), NEW f \in BatchMembers(limit),
           entry[e].attempts > 0
    PROVE  f = e
  <1> DEFINE front == FirstQueued(limit)
             fresh == {g \in front : \A h \in front :
                          (h = g \/ Ahead(h, g)) => entry[h].attempts = 0}
  <1>1. front \subseteq EntryId
    BY DEF FirstQueued, Queued
  <1>2. CASE fresh # {}
    <2>1. e \in fresh
      BY <1>2 DEF BatchMembers
    <2> QED BY <2>1
  <1>3. CASE fresh = {}
    <2>1. /\ e \in front /\ \A g \in front \ {e} : Ahead(e, g)
          /\ f \in front /\ \A g \in front \ {f} : Ahead(f, g)
      BY <1>3 DEF BatchMembers
    <2> QED BY <1>1, <2>1, LineIsOrdered
  <1> QED BY <1>2, <1>3

\* What is in hand after a step was so before, or has just been selected.
LEMMA InHandBefore ==
    ASSUME TypeInv, Flight, Writes, [Next]_vars, NEW e, InHand(e)'
    PROVE  \/ InHand(e)
           \/ \E w \in Worker : /\ SelectBatch(w) /\ wk'[w].pc = "open"
                               /\ e \in BatchMembers(MaxBatch)
  <1>1. ASSUME NEW c \in Unfinished', e \in Members(c)'
        PROVE  InHand(e)
    BY <1>1, InFlightBefore
  <1>2. ASSUME NEW w \in Worker, wk'[w].pc \in {"open", "reopen"},
               e \in ToSet(wk'[w].batch)
        PROVE  \/ InHand(e)
               \/ /\ SelectBatch(w) /\ wk'[w].pc = "open"
                  /\ e \in BatchMembers(MaxBatch)
    <2>1. CASE wk[w].pc \in {"open", "reopen"} /\ wk'[w].batch = wk[w].batch
      BY <1>2, <2>1 DEF InHand
    <2>2. CASE SelectBatch(w)
      <3>1. PICK batch \in Batches(MaxBatch) :
               /\ wk'[w].batch = batch
               /\ wk'[w].pc = IF batch = <<>> THEN "release" ELSE "open"
        BY <2>2 DEF SelectBatch, TypeInv, WorkersOK, WorkerState
      <3>2. wk'[w].pc = "open"
        BY <1>2, <3>1
      <3>3. e \in BatchMembers(MaxBatch)
        BY <1>2, <3>1, BatchIsItsMembers, QueueAssumption
      <3> QED BY <2>2, <3>2, <3>3
    <2>3. CASE Split(w)
      <3>1. PICK c \in Unfinished :
               c = wk[w].cand /\ wk[w].batch = candidate[c].entries
        BY <2>3 DEF Split, Flight, WorkerFlight, Working
      <3>2. wk[w].batch \in Seq(EntryId) /\ IsInjective(wk[w].batch)
        BY <3>1, WorkerTypes, RowTypes DEF Flight, TablesFlight, CandidateFlight
      <3>3. wk'[w].batch = LeftHalf(wk[w].batch)
        BY <2>3 DEF Split, TypeInv, WorkersOK, WorkerState
      <3>4. e \in Members(c)
        BY <1>2, <3>1, <3>2, <3>3, HalfIsPart DEF Members
      <3> QED BY <3>1, <3>4 DEF InHand
    <2> QED BY <1>2, <2>1, <2>2, <2>3, WhoTakes
  <1> QED BY <1>1, <1>2 DEF InHand

\* Whoever has just been charged is not in hand: the candidate is finished, and
\* nobody but the worker that did it is inside a tick.
LEMMA ChargedIsOut ==
    ASSUME TypeInv, TypeInv', Flight, NoOverrun', OneIntegrator',
           NEW w \in Worker, BlameConflict(w) \/ BlameLone(w), NEW e
    PROVE  ~InHand(e)'
  <1>1. wk[w].pc \in Working
    BY DEF BlameConflict, BlameLone, Working, Conflicting
  <1>2. PICK c \in Unfinished : c = wk[w].cand
    BY <1>1, AtWork
  <1>3. PICK culprit \in Members(c), reason \in {"conflict", "gate"} :
           Blame(w, culprit, reason)
    BY <1>2, BlamedIsMember
  <1>4. Unfinished' = {}
    <2>1. BlameEntry(c, culprit, MaxAttempts, reason) /\ UNCHANGED told
      BY <1>2, <1>3 DEF Blame
    <2> QED BY <2>1, BlameFlies DEF Flight
  <1>5. wk'[w].pc \in {"announce", "release"}
    BY <1>3 DEF Blame, TypeInv, WorkersOK, WorkerState
  <1>6. \A v \in Worker : wk'[v].pc \in {"open", "reopen"} => v = w
    BY <1>5 DEF OneIntegrator, Ticking, InTick
  <1> QED BY <1>4, <1>5, <1>6 DEF InHand

LEMMA NextRetry ==
    /\ TypeInv /\ TypeInv' /\ BaseInv /\ FlightInv /\ FlightInv'
    /\ OneIntegrator' /\ RetryInv /\ [Next]_vars
    => RetryInv'
  <1> SUFFICES ASSUME TypeInv, TypeInv', BaseInv, FlightInv, FlightInv',
                      OneIntegrator', RetryInv, [Next]_vars, NoOverrun',
                      NEW e \in EntryId, NEW f \in EntryId,
                      InHand(e)', InHand(f)', entry'[e].attempts > 0
               PROVE  f = e
    BY DEF RetryInv
  <1>1. NoOverrun /\ Sound /\ Flight /\ Flight' /\ Writes
    BY ApartBefore, NextWrites DEF BaseInv, FlightInv, Apart
  <1>2. entry'[e].attempts = entry[e].attempts
    <2>1. ~\E w \in Worker : BlameConflict(w) \/ BlameLone(w)
      BY <1>1, ChargedIsOut
    <2>2. NobodyPays
      BY <1>1, <2>1, OnlyBlameCharges
    <2> QED BY <2>2 DEF NobodyPays, Charged
  <1>3. ASSUME NEW w \in Worker, SelectBatch(w), wk'[w].pc = "open"
        PROVE  e \in BatchMembers(MaxBatch) /\ f \in BatchMembers(MaxBatch)
    <2>1. Unfinished' = {}
      BY <1>1, <1>3 DEF Flight, WorkerFlight
    <2>2. \A v \in Worker : wk'[v].pc \in {"open", "reopen"} => v = w
      BY <1>3 DEF OneIntegrator, Ticking, InTick
    <2>3. e \in ToSet(wk'[w].batch) /\ f \in ToSet(wk'[w].batch)
      BY <2>1, <2>2 DEF InHand
    <2>4. wk'[w].batch \in Batches(MaxBatch)
      BY <1>3 DEF SelectBatch, TypeInv, WorkersOK, WorkerState
    <2> QED BY <2>3, <2>4, BatchIsItsMembers, QueueAssumption
  <1>4. CASE \E w \in Worker : SelectBatch(w) /\ wk'[w].pc = "open"
    BY <1>2, <1>3, <1>4, RetrySelectedAlone
  <1>5. CASE ~\E w \in Worker : SelectBatch(w) /\ wk'[w].pc = "open"
    <2>1. InHand(e) /\ InHand(f)
      BY <1>1, <1>5, InHandBefore
    <2> QED BY <1>1, <1>2, <2>1 DEF RetryInv
  <1> QED BY <1>4, <1>5

\* An entry that has failed is never in a candidate with another: the batch was
\* selected so, nobody's attempts change while it waits to be opened or is
\* being worked on, and a half of it is a part of it.
THEOREM RetriesAreGatedAlone == Spec => []RetriesGoAlone
  <1>1. Init => RetryInv
    BY DEF Init, StoreInit, RetryInv
  <1>2. TypeInv /\ RetryInv => RetriesGoAlone
    <2> SUFFICES ASSUME TypeInv, RetryInv, NoOverrun, NEW c \in Unfinished,
                        NEW e \in Members(c), NEW f \in Members(c),
                        entry[e].attempts > 0
                 PROVE  f = e
      BY DEF RetriesGoAlone
    <2>1. e \in EntryId /\ f \in EntryId
      BY RowTypes DEF Unfinished
    <2> QED BY <2>1 DEF RetryInv, InHand
  <1> QED BY <1>1, <1>2, NextRetry, TypeInvariant, BaseIsSound, FlightIsSound,
             OneIntegratorHolds, PTL DEF Spec

-----------------------------------------------------------------------------
(* The listing.  Everyone else's steps are steps of the queue, so what is  *)
(* known of the queue is known while it is being listed.                   *)

\* A listing disturbs nobody.
LEMMA ListingIsSpec == ListingSpec => Spec
  <1>1. ListingInit => Init
    BY DEF ListingInit
  <1>2. [ListingNext]_listingVars => [Next]_vars
    BY DEF ListingNext, listingVars, Reads, ReadsBranches, Counts, Prints,
           Meanwhile, vars
  <1> QED BY <1>1, <1>2, PTL DEF ListingSpec, Spec

\* A row that was written stays: there is no DELETE.
LEMMA RowsStay ==
    ASSUME TypeInv, [Next]_vars, NEW e \in Known
    PROVE  e \in Known'
  <1> USE DEF Known
  <1>1. entry \in [EntryId -> EntryRow] /\ e \in EntryId
    BY DEF TypeInv, StoreTypeOK
  <1>2. SUFFICES entry'[e].state # "absent"
    BY <1>1
  <1>3. ASSUME NEW es PROVE Requeue(es)[e].state # "absent"
    BY <1>1 DEF Requeue, EntryRow
  <1>4. CASE UNCHANGED entry
    BY <1>4
  <1>5. ASSUME NEW request \in Request, InsertEntry(request)
        PROVE  entry'[e].state # "absent"
    BY <1>1, <1>5 DEF InsertEntry
  <1>6. ASSUME NEW f \in EntryId, EvictByHand(f) \/ RaisePriority(f)
        PROVE  entry'[e].state # "absent"
    <2>1. CASE EvictByHand(f)
      BY <1>1, <2>1 DEF EvictByHand, EntryRow
    <2>2. CASE RaisePriority(f)
      BY <1>1, <2>2 DEF RaisePriority, EntryRow
    <2> QED BY <1>6, <2>1, <2>2
  <1>7. ASSUME NEW w \in Worker, TickStep(w) \/ Start(w) \/ Exit(w) \/ Mishap(w),
               ~UNCHANGED entry
        PROVE  entry'[e].state # "absent"
    <2>1. CASE Open(w) \/ ReopenHalf(w)
      BY <1>1, <2>1 DEF Open, ReopenHalf, OpenCandidate, EntryRow
    <2>2. CASE AcquireReclaim(w)
      BY <1>3, <2>2 DEF AcquireReclaim, SupersedeOrphans
    <2>3. CASE AbandonInterrupted(w) \/ AbandonMoved(w) \/ Split(w)
      BY <1>3, <2>3 DEF AbandonInterrupted, AbandonMoved, Split, AbandonCandidate
    <2>4. CASE RecordLanding(w)
      BY <1>1, <2>4 DEF RecordLanding, LandCandidate, EntryRow
    <2>5. CASE BlameConflict(w) \/ BlameLone(w)
      <3>1. PICK culprit, reason :
               BlameEntry(wk[w].cand, culprit, MaxAttempts, reason)
        BY <2>5 DEF BlameConflict, BlameLone, Blame
      <3>2. Requeue(Members(wk[w].cand) \ {culprit}) \in [EntryId -> EntryRow]
        BY RequeueType DEF TypeInv
      <3>3. Punished(culprit, MaxAttempts, reason).state # "absent"
        BY DEF Punished
      <3> QED BY <1>3, <3>1, <3>2, <3>3 DEF BlameEntry
    <2>6. CASE \/ AcquireFree(w) \/ FindBaseCheckedOut(w) \/ ReadBase(w)
               \/ ResumeCandidate(w) \/ FindNothingUnfinished(w)
               \/ SelectBatch(w) \/ OpenRefused(w) \/ CheckOutDetached(w)
               \/ MergeNext(w) \/ MergeConflicts(w) \/ StartTesting(w)
               \/ GatePasses(w) \/ GateFails(w) \/ FastForward(w)
               \/ FindBaseMoved(w) \/ Announce(w) \/ BlameRefused(w)
               \/ Release(w) \/ Start(w) \/ Exit(w) \/ Mishap(w)
      BY <1>7, <2>6 DEF AcquireFree, FindBaseCheckedOut, ReadBase,
         ResumeCandidate, FindNothingUnfinished, SelectBatch, OpenRefused,
         CheckOutDetached, MergeNext, MergeConflicts, StartTesting, MarkTesting,
         GatePasses, GateFails, FastForward, FindBaseMoved, Announce,
         BlameRefused, Release, Start, Exit, Mishap, MergeCutShort,
         FastForwardKilled, StepFails, ReleaseFails, Signal, Crash, NoStore
    <2> QED BY <1>7, <2>1, <2>2, <2>3, <2>4, <2>5, <2>6 DEF TickStep
  <1>8. CASE LeaseLapses \/ Developer \/ UNCHANGED vars
    BY <1>4, <1>8 DEF LeaseLapses, Developer, NoStore, vars
  <1>9. CASE Operator
    BY <1>4, <1>5, <1>6, <1>9 DEF Operator, Enqueue, CheckCommand, DequeueWrite,
                                  PromoteWrite, NoStore
  <1> QED BY <1>4, <1>7, <1>8, <1>9 DEF Next

\* Every entry still to be accounted for is in the queue, and further on than
\* the statements that have been run.
ListingInv ==
    /\ view \in View
    /\ view.missing \subseteq Known
    /\ view.read \in 1..3 =>
          \A e \in view.missing : Stage[entry[e].state] > view.read

\* Nobody is further on than settled.
LEMMA ListingSuffices == TypeInv /\ ListingInv => ListsAllThatStayed
  <1> SUFFICES ASSUME TypeInv, ListingInv, view.read = 3, NEW e \in view.missing
               PROVE  FALSE
    BY DEF ListingInv, ListsAllThatStayed
  <1>1. entry[e].state \in {"queued", "batched", "merged", "evicted"}
    BY DEF ListingInv, Known, TypeInv, StoreTypeOK, EntryRow, EntryState
  <1> QED BY <1>1 DEF ListingInv, Stage

\* A statement takes those of its stage off, and leaves those further on.
LEMMA ReadingKeeps ==
    ASSUME TypeInv, ListingInv, Reads
    PROVE  ListingInv'
  <1> DEFINE asked == IF view.read = 0 THEN Known ELSE view.missing
             n == view.read + 1
  <1>1. /\ view' = [read |-> n, missing |-> asked \ Rows(n)]
        /\ view.read \in 0..2 /\ n \in 1..3
        /\ UNCHANGED entry
    BY DEF Reads, vars
  <1>2. asked \subseteq Known /\ Known \subseteq EntryId
    BY DEF ListingInv, Known
  <1>3. ASSUME NEW e \in asked \ Rows(n) PROVE Stage[entry[e].state] > n
    <2>1. /\ entry[e].state \in {"queued", "batched", "merged", "evicted"}
          /\ entry[e].state \notin Statement[n]
      BY <1>2, <1>3 DEF Known, Rows, TypeInv, StoreTypeOK, EntryRow, EntryState
    <2>2. view.read # 0 => Stage[entry[e].state] > view.read
      BY <1>1, <1>3 DEF ListingInv
    <2> QED BY <1>1, <2>1, <2>2 DEF Stage, Statement
  <1> QED BY <1>1, <1>2, <1>3 DEF ListingInv, View, Known

\* What everyone else does takes nobody out of the queue, and those who are
\* still asked for further on or nowhere.
LEMMA MeanwhileKeeps ==
    ASSUME TypeInv, TypeInv', ListingInv, Meanwhile
    PROVE  ListingInv'
  <1>1. /\ view'.read = view.read
        /\ view'.missing = IF view.read = BranchesListed THEN view.missing
                           ELSE view.missing \ SentBack
        /\ view' \in View
    BY DEF Meanwhile, ListingInv, View
  <1>2. view.missing \subseteq Known'
    BY RowsStay DEF Meanwhile, ListingInv
  <1>3. ASSUME NEW e \in view'.missing, view.read \in 1..3
        PROVE  Stage[entry'[e].state] > view.read
    <2>1. e \in Known /\ e \notin SentBack /\ Stage[entry[e].state] > view.read
      BY <1>1, <1>3 DEF ListingInv, BranchesListed
    <2>2. Stage[entry'[e].state] >= Stage[entry[e].state]
      BY <2>1 DEF SentBack, Known, Stage, TypeInv, StoreTypeOK, EntryRow, EntryState
    <2>3. Stage[entry'[e].state] \in Nat /\ Stage[entry[e].state] \in Nat
      BY <2>1 DEF Known, Stage, TypeInv, StoreTypeOK, EntryRow, EntryState
    <2> QED BY <1>3, <2>1, <2>2, <2>3
  <1> QED BY <1>1, <1>2, <1>3 DEF ListingInv

LEMMA NextListing ==
    TypeInv /\ TypeInv' /\ ListingInv /\ [ListingNext]_listingVars => ListingInv'
  <1> SUFFICES ASSUME TypeInv, TypeInv', ListingInv, [ListingNext]_listingVars
               PROVE  ListingInv'
    OBVIOUS
  <1>1. CASE ReadsBranches
    BY <1>1 DEF ReadsBranches, vars, ListingInv, View, Known, BranchesListed
  <1>2. CASE Counts
    <2>1. view.missing \subseteq Counted
      BY DEF ListingInv, Known, Counted, TypeInv, StoreTypeOK, EntryRow
    <2>2. view' = [read |-> 3, missing |-> {}]
      BY <1>2, <2>1 DEF Counts
    <2> QED BY <2>2 DEF ListingInv, View
  <1>3. CASE Prints
    BY <1>3 DEF Prints, Unread, ListingInv, View
  <1>4. CASE UNCHANGED listingVars
    BY <1>4 DEF listingVars, vars, ListingInv, Known
  <1> QED BY <1>1, <1>2, <1>3, <1>4, ReadingKeeps, MeanwhileKeeps
          DEF ListingNext

\* Whatever moves while the queue is listed, in parts or counted, nobody who
\* was in it and was not sent back is left out.
THEOREM NobodyIsLeftOut == ListingSpec => []ListsAllThatStayed
  <1>1. ListingInit => ListingInv
    BY DEF ListingInit, Unread, ListingInv, View
  <1>2. ListingSpec => []TypeInv
    BY ListingIsSpec, TypeInvariant, PTL
  <1> QED BY <1>1, <1>2, NextListing, ListingSuffices, PTL DEF ListingSpec

=============================================================================
