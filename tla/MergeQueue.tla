------------------------------ MODULE MergeQueue ------------------------------
(***************************************************************************)
(* The merge queue of one base branch: workers running Worker::tick        *)
(* (src/worker.rs) against the database (Store, Lease) and the repository  *)
(* (Repository), beside the operators' commands and everything that can    *)
(* happen to either.                                                       *)
(*                                                                         *)
(* A step of a worker is one transaction, one statement or one git         *)
(* command; what it has read before is in its record wk[w].  A tick that   *)
(* returns Err goes straight to release, as Worker::tick does.             *)
(***************************************************************************)
EXTENDS Store, Lease

CONSTANTS
    CheckoutOf,   \* the --integration checkout each worker was given
    MaxBatch,     \* max_batch of sasse.toml
    MaxAttempts,  \* max_attempts of sasse.toml
    Broken,       \* sets of changes the gate always fails on together
    Flaky,        \* changes the gate fails on now and then
    PidReuse,     \* a dead worker's pid may belong to another process
    Limit,        \* bounds: how often each event may happen
    OneMishap     \* bound: no event happens after one of any kind has

Event == {"stop", "crash", "fault", "overrun", "dequeue", "promote",
          "checkout", "push"}

ASSUME QueueAssumption ==
    /\ CheckoutOf \in [Worker -> Checkout]
    /\ MaxBatch \in Nat \ {0} /\ MaxAttempts \in Nat \ {0}
    /\ Broken \subseteq SUBSET Change /\ Flaky \subseteq Change
    /\ PidReuse \in BOOLEAN
    /\ Limit \in [Event -> Nat]
    /\ OneMishap \in BOOLEAN

VARIABLES
    wk,      \* wk[w]: where worker w is, and what its tick holds in memory
    cli,     \* dequeue and promote commands between their check and write
    told,    \* told[e]: what on_settle was run with for entry e
    spent    \* spent[event]: how often it has happened

vars == <<base, checkedOut, head, entry, candidate, lease, wk, cli, told, spent>>

Settled == EntryId \X {"merged", "evicted"}

\* One name per place in a tick where another process can get in between.
\* "cut" is the same place as "conflict": the model keeps apart what the code
\* cannot, a conflict from a merge that was cut short and looks like one.
InTick ==
    {"guard", "look", "select", "open", "moved", "checkout", "merge",
     "conflict", "cut", "gate", "failed", "reopen", "ff", "land", "announce",
     "release"}

\* A merge was answered with Conflicted.
Conflicting == {"conflict", "cut"}

WorkerState ==
    [pc : InTick \cup {"down", "idle"}, stop : BOOLEAN, token : Token,
     base : Commit, cand : CandidateId \cup {0}, batch : Seq(EntryId),
     merged : Nat, tip : Commit, passed : Commit \cup {NoCommit},
     tell : Seq(Settled)]

Command == {"dequeue", "promote"} \X EntryId

\* A worker between ticks remembers nothing.
Resting(w, pc, stop) ==
    [pc |-> pc, stop |-> stop, token |-> [pid |-> w, at |-> 0],
     base |-> <<>>, cand |-> 0, batch |-> <<>>, merged |-> 0, tip |-> <<>>,
     passed |-> NoCommit, tell |-> <<>>]

Ticking(w) == wk[w].pc \in InTick
Goto(w, pc) == wk' = [wk EXCEPT ![w].pc = pc]

May(event) ==
    /\ spent[event] < Limit[event]
    /\ OneMishap => \A other \in Event : spent[other] = 0
Spend(event) ==
    /\ May(event)
    /\ spent' = [spent EXCEPT ![event] = @ + 1]

\* What a step of a tick leaves alone, whatever else it does.
TickFrame == UNCHANGED <<checkedOut, cli, spent>>
NoGit == UNCHANGED <<base, head>>
NoStore == UNCHANGED <<entry, candidate>>

Init ==
    /\ GitInit /\ StoreInit /\ LeaseInit
    /\ wk = [w \in Worker |-> Resting(w, "idle", FALSE)]
    /\ cli = {}
    /\ told = [e \in EntryId |-> <<>>]
    /\ spent = [event \in Event |-> 0]

-----------------------------------------------------------------------------
(* Taking the lease.  A worker that finds it held reports so and tries     *)
(* again later; nothing changes.                                           *)

Acquired(w) ==
    /\ lease' = NewLease(w)
    /\ wk' = [wk EXCEPT ![w].pc = "guard", ![w].token = Mint(w)]

AcquireFree(w) ==
    /\ wk[w].pc = "idle" /\ ~wk[w].stop
    /\ LeaseFree
    /\ Acquired(w)
    /\ NoStore /\ NoGit /\ TickFrame /\ UNCHANGED told

\* The orphans are superseded in the transaction that takes the lease.
AcquireReclaim(w) ==
    /\ wk[w].pc = "idle" /\ ~wk[w].stop
    /\ LeaseReclaimable
    /\ Acquired(w)
    /\ SupersedeOrphans
    /\ NoGit /\ TickFrame /\ UNCHANGED told

-----------------------------------------------------------------------------
(* The candidate to work on.                                               *)

\* checkouts_holding: the queue stops itself.
FindBaseCheckedOut(w) ==
    /\ wk[w].pc = "guard"
    /\ checkedOut
    /\ Goto(w, "release")
    /\ NoStore /\ NoGit /\ TickFrame /\ UNCHANGED <<lease, told>>

\* The base is resolved once, and the configuration read out of it.
ReadBase(w) ==
    /\ wk[w].pc = "guard"
    /\ ~checkedOut
    /\ wk' = [wk EXCEPT ![w].pc = "look", ![w].base = base]
    /\ NoStore /\ NoGit /\ TickFrame /\ UNCHANGED <<lease, told>>

\* An unfinished candidate is resumed, unless the base moved under it.
ResumeCandidate(w) ==
    /\ wk[w].pc = "look"
    /\ \E c \in CandidateId :
          /\ IsActive(c)
          /\ wk' = [wk EXCEPT
                ![w].pc = IF candidate[c].base = wk[w].base
                          THEN "checkout" ELSE "moved",
                ![w].cand = c, ![w].batch = candidate[c].entries]
    /\ NoStore /\ NoGit /\ TickFrame /\ UNCHANGED <<lease, told>>

\* Mutant: only a candidate that is being tested counts as unfinished.
FindNothingTesting(w) ==
    /\ wk[w].pc = "look"
    /\ \A c \in Unfinished : candidate[c].state # "testing"
    /\ Goto(w, "select")
    /\ NoStore /\ NoGit /\ TickFrame /\ UNCHANGED <<lease, told>>

FindNothingUnfinished(w) ==
    /\ wk[w].pc = "look"
    /\ Unfinished = {}
    /\ Goto(w, "select")
    /\ NoStore /\ NoGit /\ TickFrame /\ UNCHANGED <<lease, told>>

\* select_batch is read before, and outside, the transaction that opens the
\* candidate.
SelectBatch(w) ==
    /\ wk[w].pc = "select"
    /\ \E batch \in Batches(MaxBatch) :
          wk' = [wk EXCEPT ![w].batch = batch,
                           ![w].pc = IF batch = <<>> THEN "release" ELSE "open"]
    /\ NoStore /\ NoGit /\ TickFrame /\ UNCHANGED <<lease, told>>

Open(w) ==
    /\ wk[w].pc = "open"
    /\ \E c \in CandidateId :
          /\ OpenCandidate(c, wk[w].base, wk[w].batch)
          /\ wk' = [wk EXCEPT ![w].pc = "checkout", ![w].cand = c]
    /\ NoGit /\ TickFrame /\ UNCHANGED <<lease, told>>

\* The unique index rolls the transaction back and the tick fails.
OpenRefused(w) ==
    /\ wk[w].pc \in {"open", "reopen"}
    /\ ~CanOpen(wk[w].batch)
    /\ Goto(w, "release")
    /\ NoStore /\ NoGit /\ TickFrame /\ UNCHANGED <<lease, told>>

-----------------------------------------------------------------------------
(* Assembling and gating.                                                  *)

\* Mutant: the candidate is assembled on what the last one left behind.
StayOnLastCandidate(w) ==
    /\ wk[w].pc = "checkout"
    /\ wk' = [wk EXCEPT ![w].pc = "merge", ![w].tip = head[CheckoutOf[w]]]
    /\ NoStore /\ NoGit /\ TickFrame /\ UNCHANGED <<lease, told>>

CheckOutDetached(w) ==
    /\ wk[w].pc = "checkout"
    /\ LET from == candidate[wk[w].cand].base
       IN  /\ head' = [head EXCEPT ![CheckoutOf[w]] = from]
           /\ wk' = [wk EXCEPT ![w].pc = "merge", ![w].tip = from]
    /\ NoStore /\ TickFrame /\ UNCHANGED <<base, lease, told>>

NextToMerge(w) == wk[w].batch[wk[w].merged + 1]

\* Mutant: an entry dequeued meanwhile is left out of the commit, but stays
\* in the candidate.
MergeNextUnlessDequeued(w) ==
    /\ wk[w].pc = "merge"
    /\ wk[w].merged < Len(wk[w].batch)
    /\ LET k == CheckoutOf[w]
           change == entry[NextToMerge(w)].request
           result == IF entry[NextToMerge(w)].state = "evicted"
                     THEN head[k] ELSE Merged(change, head[k])
       IN  /\ ~Conflicted(change, head[k])
           /\ head' = [head EXCEPT ![k] = result]
           /\ wk' = [wk EXCEPT ![w].merged = @ + 1, ![w].tip = result]
    /\ NoStore /\ TickFrame /\ UNCHANGED <<base, lease, told>>

\* git merges onto whatever its checkout is on, and reports the new HEAD.
MergeNext(w) ==
    /\ wk[w].pc = "merge"
    /\ wk[w].merged < Len(wk[w].batch)
    /\ LET k == CheckoutOf[w]
           change == entry[NextToMerge(w)].request
           result == Merged(change, head[k])
       IN  /\ ~Conflicted(change, head[k])
           /\ head' = [head EXCEPT ![k] = result]
           /\ wk' = [wk EXCEPT ![w].merged = @ + 1, ![w].tip = result]
    /\ NoStore /\ TickFrame /\ UNCHANGED <<base, lease, told>>

\* merge --abort leaves the checkout where it was.  (A merge that was cut short
\* is answered in the same way: MergeCutShort.)
MergeConflicts(w) ==
    /\ wk[w].pc = "merge"
    /\ wk[w].merged < Len(wk[w].batch)
    /\ Conflicted(entry[NextToMerge(w)].request, head[CheckoutOf[w]])
    /\ Goto(w, "conflict")
    /\ NoStore /\ NoGit /\ TickFrame /\ UNCHANGED <<lease, told>>

\* A stop may reach git as well as the worker, at any time while it is pending:
\* the signal can be sent again.  Without one it takes a fault.
GitFails(w) == IF wk[w].stop THEN UNCHANGED spent ELSE Spend("fault")

\* git writes MERGE_HEAD for a clean merge too, and removes it after the commit.
\* Killed in between, or refused by a commit hook, it fails with a merge to
\* abort, HEAD moved or not, and that reads as a conflict.  (Killed before or
\* after, it fails for good: StepFails, here or once HEAD has moved.)
MergeCutShort(w) ==
    /\ wk[w].pc = "merge"
    /\ wk[w].merged < Len(wk[w].batch)
    /\ LET k == CheckoutOf[w]
           change == entry[NextToMerge(w)].request
       IN  /\ ~Conflicted(change, head[k]) /\ ~Contains(head[k], change)
           /\ \E result \in {head[k], Merged(change, head[k])} :
                 head' = [head EXCEPT ![k] = result]
    /\ GitFails(w)
    /\ Goto(w, "cut")
    /\ NoStore /\ UNCHANGED <<base, checkedOut, cli, lease, told>>

\* Mutant: the candidate is gated without being marked as testing.
StartTestingUnmarked(w) ==
    /\ wk[w].pc = "merge"
    /\ wk[w].merged = Len(wk[w].batch)
    /\ Goto(w, "gate")
    /\ NoStore /\ NoGit /\ TickFrame /\ UNCHANGED <<lease, told>>

StartTesting(w) ==
    /\ wk[w].pc = "merge"
    /\ wk[w].merged = Len(wk[w].batch)
    /\ MarkTesting(wk[w].cand, wk[w].tip)
    /\ Goto(w, "gate")
    /\ NoGit /\ TickFrame /\ UNCHANGED <<lease, told>>

\* The gate runs in the checkout, on what is checked out there.
GateCanPass(commit) == \A changes \in Broken : ~(changes \subseteq ToSet(commit))
GateCanFail(commit) == ~GateCanPass(commit) \/ ToSet(commit) \cap Flaky # {}

GatePasses(w) ==
    /\ wk[w].pc = "gate"
    /\ GateCanPass(head[CheckoutOf[w]])
    /\ wk' = [wk EXCEPT ![w].pc = "ff", ![w].passed = head[CheckoutOf[w]]]
    /\ NoStore /\ NoGit /\ TickFrame /\ UNCHANGED <<lease, told>>

\* A signal reaches the gate's shell as well, which then reports a failure.
GateFails(w) ==
    /\ wk[w].pc = "gate"
    /\ GateCanFail(head[CheckoutOf[w]]) \/ wk[w].stop
    /\ Goto(w, "failed")
    /\ NoStore /\ NoGit /\ TickFrame /\ UNCHANGED <<lease, told>>

-----------------------------------------------------------------------------
(* Landing.                                                                *)

\* Mutant: the landing is a fresh merge onto wherever the base is by then.
MergeAtLanding(w) ==
    /\ wk[w].pc = "ff"
    /\ MoveRef(Merged(entry[Head(wk[w].batch)].request, base))
    /\ Goto(w, "land")
    /\ NoStore /\ TickFrame /\ UNCHANGED <<head, lease, told>>

FastForward(w) ==
    /\ wk[w].pc = "ff"
    /\ RefIsAt(candidate[wk[w].cand].base)
    /\ MoveRef(wk[w].tip)
    /\ Goto(w, "land")
    /\ NoStore /\ TickFrame /\ UNCHANGED <<head, lease, told>>

\* Mutant: a stale base is taken for a landing.
TakeStaleForUpdated(w) ==
    /\ wk[w].pc = "ff"
    /\ ~RefIsAt(candidate[wk[w].cand].base)
    /\ Goto(w, "land")
    /\ NoStore /\ NoGit /\ TickFrame /\ UNCHANGED <<lease, told>>

FindBaseMoved(w) ==
    /\ wk[w].pc = "ff"
    /\ ~RefIsAt(candidate[wk[w].cand].base)
    /\ Goto(w, "moved")
    /\ NoStore /\ NoGit /\ TickFrame /\ UNCHANGED <<lease, told>>

\* A signal kills git update-ref after it moved the ref: it reports failure,
\* the ref is no longer where it was, and that reads as Stale.
FastForwardKilled(w) ==
    /\ wk[w].pc = "ff" /\ wk[w].stop
    /\ RefIsAt(candidate[wk[w].cand].base)
    /\ wk[w].tip # base
    /\ MoveRef(wk[w].tip)
    /\ Goto(w, "moved")
    /\ NoStore /\ TickFrame /\ UNCHANGED <<head, lease, told>>

\* Mutant: only the first entry of a batch is announced.
RecordAnnouncingFirst(w) ==
    /\ wk[w].pc = "land"
    /\ LandCandidate(wk[w].cand)
    /\ wk' = [wk EXCEPT ![w].pc = "announce",
                  ![w].tell = <<<<Head(wk[w].batch), "merged">>>>]
    /\ NoGit /\ TickFrame /\ UNCHANGED <<lease, told>>

RecordLanding(w) ==
    /\ wk[w].pc = "land"
    /\ LandCandidate(wk[w].cand)
    /\ LET landed == candidate[wk[w].cand].entries
       IN  wk' = [wk EXCEPT ![w].pc = "announce",
                    ![w].tell = [i \in DOMAIN landed |-> <<landed[i], "merged">>]]
    /\ NoGit /\ TickFrame /\ UNCHANGED <<lease, told>>

\* announce: on_settle is run for one entry after another, after the commit.
Announce(w) ==
    /\ wk[w].pc = "announce"
    /\ wk[w].tell # <<>>
    /\ LET event == Head(wk[w].tell)
       IN  told' = [told EXCEPT ![event[1]] = Append(@, event[2])]
    /\ wk' = [wk EXCEPT ![w].tell = Tail(@)]
    /\ NoStore /\ NoGit /\ TickFrame /\ UNCHANGED lease

-----------------------------------------------------------------------------
(* Not landing.                                                            *)

\* Mutant: an entry that goes back in line is announced as evicted.
BlameAnnouncingAlways(w, culprit, reason) ==
    /\ BlameEntry(wk[w].cand, culprit, MaxAttempts, reason)
    /\ wk' = [wk EXCEPT ![w].pc = "announce",
                        ![w].tell = <<<<culprit, "evicted">>>>]
    /\ NoGit /\ TickFrame /\ UNCHANGED <<lease, told>>

Blame(w, culprit, reason) ==
    /\ BlameEntry(wk[w].cand, culprit, MaxAttempts, reason)
    /\ wk' = IF Evicts(culprit, MaxAttempts)
             THEN [wk EXCEPT ![w].pc = "announce",
                             ![w].tell = <<<<culprit, "evicted">>>>]
             ELSE [wk EXCEPT ![w].pc = "release"]
    /\ NoGit /\ TickFrame /\ UNCHANGED <<lease, told>>

\* Whether a stop is pending is not asked here.
BlameConflict(w) ==
    /\ wk[w].pc \in Conflicting
    /\ Blame(w, NextToMerge(w), "conflict")

\* Mutant: a stop does not void the verdict.
BlameThoughStopping(w) ==
    /\ wk[w].pc = "failed"
    /\ Len(wk[w].batch) = 1
    /\ Blame(w, Head(wk[w].batch), "gate")

\* Alone in the candidate, so there is nothing left to narrow.
BlameLone(w) ==
    /\ wk[w].pc = "failed" /\ ~wk[w].stop
    /\ Len(wk[w].batch) = 1
    /\ Blame(w, Head(wk[w].batch), "gate")

BlameRefused(w) ==
    /\ \/ wk[w].pc \in Conflicting /\ ~CanBlame(NextToMerge(w), MaxAttempts)
       \/ /\ wk[w].pc = "failed" /\ ~wk[w].stop
          /\ Len(wk[w].batch) = 1
          /\ ~CanBlame(Head(wk[w].batch), MaxAttempts)
    /\ Goto(w, "release")
    /\ NoStore /\ NoGit /\ TickFrame /\ UNCHANGED <<lease, told>>

\* A gate that failed while a stop is pending reached no verdict.
AbandonInterrupted(w) ==
    /\ wk[w].pc = "failed" /\ wk[w].stop
    /\ AbandonCandidate(wk[w].cand, "superseded")
    /\ Goto(w, "release")
    /\ NoGit /\ TickFrame /\ UNCHANGED <<lease, told>>

AbandonMoved(w) ==
    /\ wk[w].pc = "moved"
    /\ AbandonCandidate(wk[w].cand, "superseded")
    /\ Goto(w, "release")
    /\ NoGit /\ TickFrame /\ UNCHANGED <<lease, told>>

\* The failed batch is abandoned in one transaction and its first half
\* opened in another.
Split(w) ==
    /\ wk[w].pc = "failed" /\ ~wk[w].stop
    /\ Len(wk[w].batch) > 1
    /\ AbandonCandidate(wk[w].cand, "failed")
    /\ wk' = [wk EXCEPT ![w].pc = "reopen", ![w].batch = LeftHalf(@)]
    /\ NoGit /\ TickFrame /\ UNCHANGED <<lease, told>>

ReopenHalf(w) ==
    /\ wk[w].pc = "reopen"
    /\ \E c \in CandidateId :
          OpenCandidate(c, candidate[wk[w].cand].base, wk[w].batch)
    /\ Goto(w, "release")
    /\ NoGit /\ TickFrame /\ UNCHANGED <<lease, told>>

-----------------------------------------------------------------------------
(* The end of a tick, and of a worker.                                     *)

TickDone(w) ==
    \/ wk[w].pc = "release"
    \/ wk[w].pc = "announce" /\ wk[w].tell = <<>>

Release(w) ==
    /\ TickDone(w)
    /\ lease' = Released(wk[w].token)
    /\ wk' = [wk EXCEPT ![w] = Resting(w, "idle", wk[w].stop)]
    /\ NoStore /\ NoGit /\ TickFrame /\ UNCHANGED told

\* The DELETE fails: the row stays until it lapses.
ReleaseFails(w) ==
    /\ TickDone(w)
    /\ Spend("fault")
    /\ wk' = [wk EXCEPT ![w] = Resting(w, "idle", wk[w].stop)]
    /\ NoStore /\ NoGit /\ UNCHANGED <<checkedOut, cli, lease, told>>

\* The places where the next step is, or was, a git command of its own.
GitCommand == {"guard", "checkout", "merge", "ff"}

\* A statement returns an error and is rolled back, or a git command does and is
\* repeated from the start by the next tick, or killed by a stop.  The lease is
\* given back and the candidate stays unfinished.  Two commands may have had an
\* effect that is not undone: FastForwardKilled, MergeCutShort.
StepFails(w) ==
    /\ wk[w].pc \in InTick \ {"announce", "release"}
    /\ IF wk[w].pc \in GitCommand THEN GitFails(w) ELSE Spend("fault")
    /\ Goto(w, "release")
    /\ NoStore /\ NoGit /\ UNCHANGED <<checkedOut, cli, lease, told>>

Start(w) ==
    /\ wk[w].pc = "down"
    /\ wk' = [wk EXCEPT ![w] = Resting(w, "idle", FALSE)]
    /\ NoStore /\ NoGit /\ TickFrame /\ UNCHANGED <<lease, told>>

\* The work loop looks for a stop between ticks.
Exit(w) ==
    /\ wk[w].pc = "idle" /\ wk[w].stop
    /\ wk' = [wk EXCEPT ![w] = Resting(w, "down", FALSE)]
    /\ \E reused \in {FALSE, PidReuse} : lease' = AfterDeathOf(w, reused)
    /\ NoStore /\ NoGit /\ TickFrame /\ UNCHANGED told

Signal(w) ==
    /\ wk[w].pc # "down" /\ ~wk[w].stop
    /\ Spend("stop")
    /\ wk' = [wk EXCEPT ![w].stop = TRUE]
    /\ NoStore /\ NoGit /\ UNCHANGED <<checkedOut, cli, lease, told>>

Crash(w) ==
    /\ wk[w].pc # "down"
    /\ Spend("crash")
    /\ wk' = [wk EXCEPT ![w] = Resting(w, "down", FALSE)]
    /\ \E reused \in {FALSE, PidReuse} : lease' = AfterDeathOf(w, reused)
    /\ NoStore /\ NoGit /\ UNCHANGED <<checkedOut, cli, told>>

-----------------------------------------------------------------------------
(* Time, the operators' commands, and the people around the repository.    *)

HolderTicking == \E w \in Worker : Ticking(w) /\ Owns(wk[w].token)

\* No tick renews its lease, so one that outlives the TTL is overrun.
LeaseLapses ==
    /\ Lapse
    /\ IF HolderTicking THEN Spend("overrun") ELSE UNCHANGED spent
    /\ NoStore /\ NoGit /\ UNCHANGED <<checkedOut, wk, cli, told>>

Enqueue ==
    /\ \E request \in Request : InsertEntry(request)
    /\ NoGit /\ TickFrame /\ UNCHANGED <<lease, wk, told>>

\* dequeue and promote read the state first; an entry that is not queued is
\* left alone.
CheckCommand(kind, e) ==
    /\ e \in Queued
    /\ Spend(kind)
    /\ cli' = cli \cup {<<kind, e>>}
    /\ NoStore /\ NoGit /\ UNCHANGED <<checkedOut, lease, wk, told>>

DequeueWrite(e) ==
    /\ <<"dequeue", e>> \in cli
    /\ EvictByHand(e)
    /\ cli' = cli \ {<<"dequeue", e>>}
    /\ NoGit /\ UNCHANGED <<checkedOut, lease, wk, told, spent>>

PromoteWrite(e) ==
    /\ <<"promote", e>> \in cli
    /\ RaisePriority(e)
    /\ cli' = cli \ {<<"promote", e>>}
    /\ NoGit /\ UNCHANGED <<checkedOut, lease, wk, told, spent>>

Developer ==
    /\ \/ PushToBase /\ Spend("push")
       \/ CheckOutBase /\ Spend("checkout")
       \/ LeaveBase /\ UNCHANGED spent
    /\ NoStore /\ UNCHANGED <<lease, wk, cli, told>>

-----------------------------------------------------------------------------
TickStep(w) ==
    \/ AcquireFree(w) \/ AcquireReclaim(w)
    \/ FindBaseCheckedOut(w) \/ ReadBase(w)
    \/ ResumeCandidate(w) \/ FindNothingUnfinished(w) \/ SelectBatch(w)
    \/ Open(w) \/ OpenRefused(w)
    \/ CheckOutDetached(w) \/ MergeNext(w) \/ MergeConflicts(w)
    \/ StartTesting(w) \/ GatePasses(w) \/ GateFails(w)
    \/ FastForward(w) \/ FindBaseMoved(w) \/ RecordLanding(w) \/ Announce(w)
    \/ BlameConflict(w) \/ BlameLone(w) \/ BlameRefused(w)
    \/ AbandonInterrupted(w) \/ AbandonMoved(w) \/ Split(w) \/ ReopenHalf(w)
    \/ Release(w)

Mishap(w) ==
    \/ MergeCutShort(w) \/ FastForwardKilled(w)
    \/ StepFails(w) \/ ReleaseFails(w)
    \/ Signal(w) \/ Crash(w)

Operator ==
    \/ Enqueue
    \/ \E kind \in {"dequeue", "promote"}, e \in EntryId : CheckCommand(kind, e)
    \/ \E e \in EntryId : DequeueWrite(e) \/ PromoteWrite(e)

Next ==
    \/ \E w \in Worker : TickStep(w) \/ Start(w) \/ Exit(w) \/ Mishap(w)
    \/ LeaseLapses
    \/ Operator
    \/ Developer

Spec == Init /\ [][Next]_vars

\* A worker process that is running keeps running, one that went down is
\* started again, and time passes.  Nothing obliges the gate to pass, the
\* operators to do anything, or anyone to push or to leave the base branch.
Fairness ==
    /\ \A w \in Worker : /\ WF_vars(TickStep(w))
                         /\ WF_vars(Start(w))
                         /\ WF_vars(Exit(w))
    /\ WF_vars(LeaseLapses /\ ~HolderTicking)

FairSpec == Spec /\ Fairness
=============================================================================
