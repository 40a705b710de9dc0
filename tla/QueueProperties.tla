--------------------------- MODULE QueueProperties ---------------------------
(***************************************************************************)
(* What the merge queue promises (the invariants of README.md, and the     *)
(* comments of src/queue/ and src/worker.rs), stated over MergeQueue.      *)
(***************************************************************************)
EXTENDS MergeQueue

\* Every variable holds what its column or field can hold.
TypeOK ==
    /\ GitTypeOK /\ StoreTypeOK /\ LeaseTypeOK
    /\ wk \in [Worker -> WorkerState]
    /\ cli \subseteq Command
    /\ told \in [EntryId -> Seq({"merged", "evicted"})]
    /\ spent \in [Event -> Nat]

\* No tick has so far outlived the expiry of its lease.
NoOverrun == spent["overrun"] = 0

\* Each worker was given an integration checkout of its own.
OwnCheckouts ==
    \A v, w \in Worker : CheckoutOf[v] = CheckoutOf[w] => v = w

\* No two workers can be at work in one checkout at the same time.
Apart == OwnCheckouts \/ NoOverrun

-----------------------------------------------------------------------------
(* One worker at a time.                                                   *)

\* README invariant 6: exactly one worker integrates into the base branch at
\* a time, whatever crashes, restarts, failed releases and reused pids do to
\* the lease row, as long as no tick outlives the TTL.
OneIntegrator ==
    NoOverrun => \A v, w \in Worker : Ticking(v) /\ Ticking(w) => v = w

\* active_candidate: at most one candidate is ever unfinished.  Splitting is
\* two transactions and a failed tick leaves its candidate behind, so this
\* needs every path to look for the one before it opens another.
AtMostOneUnfinished ==
    NoOverrun => \A c, d \in Unfinished : c = d

\* The operator took the entry out.  dequeue writes over whatever has become
\* of the entry since it looked, so this may hide an earlier fate.
ByHand(row) == row.state = "evicted" /\ row.reason = "by hand"

\* An entry is batched exactly while an unfinished candidate holds it: no
\* crash, reclaim, split or blame leaves one stuck in the batch or waiting
\* while it is being gated.  Only a dequeue takes one out of a candidate.
BatchedIsInFlight ==
    NoOverrun =>
        \A e \in EntryId :
            LET inFlight == \E c \in Unfinished : e \in Members(c)
            IN  /\ entry[e].state = "batched" => inFlight
                /\ inFlight => entry[e].state = "batched" \/ ByHand(entry[e])

-----------------------------------------------------------------------------
(* Verdicts and what they cost.                                            *)

\* Invariant 4: an entry has spent one attempt for every candidate that was
\* pinned on it, and nothing else.
AttemptsAreVerdicts ==
    NoOverrun =>
        \A e \in EntryId :
            entry[e].attempts =
                Cardinality({c \in CandidateId :
                               candidate[c].outcome[e] = "culprit"})

\* Nothing is wrong with a request that conflicts with nothing, breaks
\* nothing and is not flaky.
Innocent(request) ==
    request \notin Flaky \cup (UNION Broken) \cup (UNION Conflicts)

\* The entry is charged with an attempt, or evicted by the queue.
Charged(e) ==
    \/ entry'[e].attempts # entry[e].attempts
    \/ entry'[e].reason \notin {entry[e].reason, "none", "by hand"}

\* Invariant 4: an innocent entry is charged only by a worker whose merge of
\* that very entry was cut short, whoever it is batched with and however often
\* workers die, ticks fail or gates are interrupted.  In particular no verdict
\* of a gate ever costs it anything, a stop at any moment included.  (A flaky
\* change that happened to land, or a push that breaks the build, makes the base
\* itself fail, and then everyone pays.)
OnlyCutMergesCharge ==
    [][\A e \in EntryId :
          Apart /\ ~GateCanFail(base) /\ Innocent(entry[e].request) /\ Charged(e) =>
              \E w \in Worker : wk[w].pc = "cut" /\ NextToMerge(w) = e]_vars

\* Invariant 4: an entry that has failed is never batched with another, whatever
\* has been promoted, dequeued or sent back since the batch was selected.
RetriesGoAlone ==
    NoOverrun =>
        \A c \in Unfinished : \A e, f \in Members(c) :
            entry[e].attempts > 0 => f = e

\* Selection is a prefix of the queue: a batch ends where it must, and never
\* takes an entry from behind one it leaves waiting.
NobodyOvertakes ==
    [][\A w \in Worker : wk[w].pc = "select" /\ wk'[w].pc = "open" =>
          \A e \in ToSet(wk'[w].batch), f \in Queued \ ToSet(wk'[w].batch) :
              Ahead(e, f)]_vars

\* The budget: no entry is tried again once it has spent max_attempts, and
\* none is evicted by the queue before.
RetryBudget ==
    NoOverrun =>
        \A e \in EntryId :
            /\ entry[e].attempts <= MaxAttempts
            /\ entry[e].attempts = MaxAttempts => entry[e].state = "evicted"
            /\ entry[e].state = "evicted" /\ ~ByHand(entry[e]) =>
                  entry[e].attempts = MaxAttempts

-----------------------------------------------------------------------------
(* The base branch.                                                        *)

\* A merged entry is on the base, and a passed candidate's commit, the one
\* that was gated, was the base.
MergedIsOnBase ==
    Apart =>
        /\ \A e \in EntryId :
              entry[e].state = "merged" => Contains(base, entry[e].request)
        /\ \A c \in CandidateId :
              candidate[c].state = "passed" => IsPrefix(candidate[c].sha, base)

\* What the queue is for: the gate passes on the base as the queue leaves it
\* after every landing, also when what landed before it was a push nobody
\* gated.
BaseStaysGreen ==
    Apart /\ base # <<>> /\ Last(base) \in Request => GateCanPass(base)

\* An entry the gate evicted does break the base on its own: bisection ends
\* at the culprit, however the batch was cut, pushed under or retried.
EvictionIsJust ==
    Apart =>
        \A e \in EntryId :
            entry[e].state = "evicted" /\ entry[e].reason = "gate" =>
                GateCanFail(Append(base, entry[e].request))

\* Invariants 1 and 2: the base only ever moves by a push or to a commit the
\* gate passed on, in a tick of the worker that moves it.
OnlyGatedLands ==
    [][Apart /\ base' # base /\ Last(base') \notin Push =>
          \E w \in Worker : wk[w].pc = "ff" /\ wk[w].passed = base']_vars

\* The compare-and-set: whatever was on the base stays there, pushes that
\* race a landing included.
NothingOnBaseIsLost == [][Apart => IsPrefix(base, base')]_vars

-----------------------------------------------------------------------------
(* Lifecycles and announcements.                                           *)

\* Every write of an entry's state follows an edge of state.rs, though no
\* statement consults the table.  A dequeue is the exception, before and
\* after: it writes over any state, and the candidate writes over that.
EntryLifecycle ==
    [][NoOverrun =>
          \A e \in EntryId :
              \/ entry[e].state \in {"absent", entry'[e].state}
              \/ <<entry[e].state, entry'[e].state>> \in EntryEdges
              \/ ByHand(entry[e]) \/ ByHand(entry'[e])]_vars

\* The same of candidates, but for one edge that the table lacks: a conflict
\* found while assembling fails a candidate nobody has marked as testing.
CandidateLifecycle ==
    [][NoOverrun =>
          \A c \in CandidateId :
              LET step == <<candidate[c].state, candidate'[c].state>>
              IN  step[1] \notin {"absent", step[2]} =>
                      \/ step \in CandidateEdges
                      \/ /\ step = <<"building", "failed">>
                         /\ \E w \in Worker :
                               wk[w].pc \in Conflicting /\ wk[w].cand = c]_vars

\* An outcome is a verdict: once reached it is never rewritten.
VerdictsAreFinal ==
    [][NoOverrun =>
          \A c \in CandidateId, e \in EntryId :
              candidate[c].outcome[e] \notin {"none", candidate'[c].outcome[e]} =>
                  <<candidate[c].outcome[e], candidate'[c].outcome[e]>>
                      \in OutcomeEdges]_vars

\* on_settle is run at most once for an entry, and says what became of it
\* unless a dequeue has written over that.
ToldTheTruth ==
    NoOverrun =>
        \A e \in EntryId : told[e] # <<>> =>
            /\ Len(told[e]) = 1
            /\ told[e] = <<entry[e].state>> \/ ByHand(entry[e])

-----------------------------------------------------------------------------
(* Progress.                                                               *)

\* Every entry is merged or evicted in the end.  A worker that died, a tick
\* that failed or an interrupted gate never wedges the queue.
EveryEntrySettles ==
    \A e \in EntryId :
        entry[e].state = "queued" ~> entry[e].state \in {"merged", "evicted"}

\* A lease does not outlive its holder: whatever becomes of the worker that
\* took it, it is free again in the end.
LeaseComesBack == lease # NoLease ~> lease = NoLease

\* As long as no worker dies, everyone whose entry settled is told.
SettledIsTold ==
    \A e \in EntryId :
        entry[e].state \in {"merged", "evicted"} ~>
            told[e] # <<>> \/ spent["crash"] > 0

-----------------------------------------------------------------------------
(* The queue as a whole.                                                   *)

\* The queue is at work on the entry: it is in an unfinished candidate, or in
\* a batch some worker is about to open.
InHand(e) ==
    \/ \E c \in Unfinished : e \in Members(c)
    \/ \E w \in Worker : /\ wk[w].pc \in {"open", "reopen"}
                         /\ e \in ToSet(wk[w].batch)

\* Some candidate landed it.
Landed(e) == \E c \in CandidateId : candidate[c].outcome[e] = "passed"

\* What has become of an entry.  One inside a candidate is waiting, and a crash
\* that sends it back in line changes nothing for whoever submitted it.  Where
\* a dequeue wrote over the state, the candidates and the attempts still say
\* what that was; and while the queue is at work on it, it is not out yet.
Fate(row, inHand, landed) ==
    CASE row.state = "absent" -> "none"
      [] row.state \in LiveEntry -> "waiting"
      [] row.state = "merged" -> "merged"
      [] row.state = "evicted" /\ ~ByHand(row) -> "rejected"
      [] ByHand(row) /\ inHand -> "waiting"
      [] ByHand(row) /\ ~inHand /\ landed -> "merged"
      [] ByHand(row) /\ ~inHand /\ ~landed ->
            IF row.attempts = MaxAttempts THEN "rejected" ELSE "withdrawn"

Promise == INSTANCE RocketScience WITH
    want <- [e \in EntryId |-> entry[e].request],
    fate <- [e \in EntryId |-> Fate(entry[e], InHand(e), Landed(e))]

\* The machinery of leases, candidates, bisection and recovery implements the
\* abstract queue: every step of every worker, whatever dies, is pushed or is
\* dequeued in between, is one of its steps or changes nothing it speaks of.
KeepsItsPromise == Promise!Spec
=============================================================================
