# Verification of sasse

sasse is a merge queue for one git repository on one machine.  This directory
holds TLA+ models of it, the TLC configurations that check them on small
instances, and TLAPS proofs of what must hold for every instance.  Paths below
are relative to the repository's root; `store.rs:252` is `src/queue/store.rs`,
line 252.

    tlc -config deaths.cfg MCQueue      # any of the .cfg files
    tlapm FlightProof.tla               # any of the *Proof modules

## 1. Inventory

**The queue database** (`src/queue/store.rs`, `migrations/`).
*State*: tables `entry` (a branch at a sha: state, attempts, priority),
`candidate` (a batch being tested: base sha, assembled sha, state),
`candidate_entry` (its members and what it decided of each), and `run` (logs).
*Operations*: enqueue, select_batch, open_candidate, mark_testing, land,
abandon, blame, active_candidate, dequeue, promote, record_run, listings.
*Hard*: the selection, the opening and an operator's command are separate
transactions; no statement consults the transition tables of `state.rs`; one
partial unique index can refuse a write deep inside a transaction.
*Correct when*: an entry is batched exactly while an unfinished candidate holds
it, states follow their tables, attempts count verdicts, order is kept.

**The worker lease** (`src/queue/lease.rs`).
*State*: one row per repository and base branch: pid, token, expiry.
*Operations*: acquire (which may reclaim, superseding orphans in the same
transaction), release, renew, liveness (`kill(pid, 0)`).
*Hard*: crashes, reused pids, a release that fails, an expiry nobody renews.
*Correct when*: one worker integrates at a time, and the lease comes back.

**Git** (`src/git/`).
*State*: the base ref, every worktree's HEAD.
*Operations*: checkouts_holding, resolve, checkout_detached, merge (with
`--abort`), fast_forward by `git update-ref <ref> <new> <old>`.
*Hard*: anybody may push or check out at any moment; a signal kills git in the
middle of a command, also between the merge it did and the commit of it.
*Correct when*: nothing on the base is ever lost, nothing ungated lands.

**The worker** (`src/worker.rs`).
*State*: what one tick has read so far (base, batch, candidate, tip).
*Operations*: `tick`: acquire, guard, resume or select, assemble, gate, land,
split, blame, abandon, announce, release; `work`: tick until stopped.
*Hard*: every step can fail, be killed or interrupted, and everything it has
read may be stale.
*Correct when*: whatever happens, the next tick can go on, innocents pay
nothing (but see the findings), bisection ends at a culprit, everyone is told once and told the truth.

**The gate** (`src/gate.rs`): runs a shell command in the integration checkout,
with a capped log.  A signal reaches it too, so a failure under a stop is not a
verdict.  *Correct when*: the log keeps both ends of the output whatever its
size and however the reads cut it up.  **The stop signal** (`src/shutdown.rs`):
a flag, set once.  **on_settle** (`src/notify.rs`): a hook per settled entry,
after the commit, with a timeout, a drained pipe and a process group.
*Correct when*: no hook keeps the tick, and the lease with it, for long (but see
the findings).

**The loop** (`worker.rs:164-238`, `main.rs:218-260`): `sasse work` ticks until
it is stopped or has failed too often in a row, and prints what changed;
`sasse tick` ticks once.  *State*: the count of failures, a summary, whether
the last outcome was quiet.  *Hard*: a stop at any point, an error after
something had landed.  *Correct when*: a stop ends it, it gives up exactly when
it says it does, and what it reports is what happened.

**Commands** (`src/main.rs`): enqueue, dequeue, promote, tick, work, status,
logs, prune, migrate.  **Retention** (`src/retention.rs`, `src/logs.rs`): which
logs to drop, from a survey, against a gate that is writing one.
**Configuration** (`src/config.rs`, `src/bytes.rs`): `sasse.toml` read out of
the base commit; what it prints of a size reads back.  **Database set-up**
(`src/db.rs`): migrations, by whichever command opens the database first, so
that two may try at once.  Test doubles (`src/git/fake.rs`) and release tooling.

The components meet in the worker: it holds the lease while it reads and writes
the database, drives git and the gate, and calls the hook.  Operators' commands
share the database with it and take no lease; developers share the repository
with it and know nothing of it.  There is no shared memory between processes:
every interleaving is one of SQL transactions, git commands and signals.

`PROJECT.json` lists each component with what is modelled of it, and under
`hazards` each place where one of these behaviours bites.

## 2. Modules

| module | models | from |
|---|---|---|
| `QueueStates` | state names, transition tables, `bisect` | `state.rs`, `outcome.rs`, `model.rs` |
| `Repository` | commits, merges, conflicts, the compare-and-set, pushes, checkouts | `src/git/` |
| `Lease` | the lease row, tokens, liveness, expiry | `lease.rs`, migration 0002 |
| `Store` | the tables, every query and transaction on them | `store.rs`, `lease.rs:245`, migration 0001 |
| `MergeQueue` | workers, the gate, signals, crashes, operators, developers, over all of the above | `worker.rs`, `main.rs`, `gate.rs`, `shutdown.rs` |
| `RocketScience` | what the queue promises, with no worker, lease, candidate or database in it | README, "not rocket science" |
| `QueueProperties` | what holds of `MergeQueue`, and the refinement mapping to `RocketScience` | README invariants, comments |
| `Listing` | `sasse status` reading the queue statement by statement while it moves | `store.rs:110-217`, `420-509`, `main.rs:351` |
| `Claims` | what is said of the queue and does not hold | quoted there |
| `Retention` | `retention::apply` in a tick and in `sasse prune`, dry or not, gate logs, the `run` table, `sasse logs` | `retention.rs`, `logs.rs`, `gate.rs`, `store.rs:335`, `main.rs:325` |
| `RetentionProperties` | what log retention promises | README, ADR 0002 |
| `Sizes` | byte sizes: parsing with overflow, and their printed form | `bytes.rs` |
| `Settings` | defaults of `sasse.toml`, and what it refuses | `config.rs` |
| `Refs` | names of branches, `git worktree list`, the checked-out guard | `git/mod.rs`, `git/command.rs` |
| `Database` | `open` and `migrate`, for several processes | `db.rs`, `migrations/` |
| `Notify` | one hook: shell, descendants, pipe, drain, deadline, kill, joins | `notify.rs` |
| `GateRun` | one gate: shell, signal, reads, the two ends the cap keeps | `gate.rs` |
| `Service` | `sasse work` and `sasse tick` from their first statement to their end, over the six above | `worker.rs`, `main.rs` |
| `ServiceProperties` | what `sasse work` promises whoever leaves it running | README, comments |
| `MCQueue`, `MCListing`, `MCRetention`, `MCService` | instances for TLC | |
| `Recursion` | induction and recursion over the places of a list, for the proofs | |
| `MergeQueueProof` | proof: type correctness of the queue, and one worker at a time | |
| `BaseProof` | proof: what holds of the base branch, over the former | |
| `FlightProof` | proof: what holds of the tables while leases do, over the former | |
| `RefinementProof` | proof: the queue is `RocketScience`, over the former | |
| `ReadingProof` | proof: what is read of the queue, over `RefinementProof` and `Listing` | |
| `RetentionProof` | proof: log retention | |
| `ServiceProof` | proof: the service around a tick | |

`Store`, `Lease` and `Repository` each declare their variables and one operator
per transaction or command; `MergeQueue` EXTENDS them and joins them: each of
its actions is one transaction, one SQL statement or one git command of one
process, which is what the operating system and SQLite make atomic.  `wk[w]` is
what worker `w` holds in memory in the middle of a tick, and its `pc` names the
next thing it will do:

    idle -> guard -> look -> select -> open -> checkout -> merge* -> gate -> ff -> land -> announce* -> release -> idle
                      look -> checkout  (resume)         merge -> conflict | cut -> announce | release    (blame)
                      look -> moved -> release           gate -> failed -> announce | release       (blame)
                      ff -> moved -> release             failed -> reopen -> release                (split)
    any step fails -> release          any signal: noted          any crash: down -> idle

`Worker::tick` (`worker.rs:290-323`) releases the lease whatever `advance`
returned, so a failing step goes to `release` and its candidate stays
unfinished.  A definition commented *Mutant* is a plausible
bug of the one that follows it, there to show that a property can see it; none
of them is part of `Next`.

`Retention` stands beside this composition: it has the part of the tick before
`look` (the prune) statement by statement, reduces the rest to what it does to a
candidate and its log, and takes from `OneIntegrator` that only one worker ticks.
`sasse prune` runs the same actions without a lease.  A log's text is the number
of the gate execution that wrote it, so that a tail can be told from another
run's.

`Service` looks at the same process from the other side.  Where `MergeQueue` has
every interleaving of a tick with other processes, `Service` has what is around
a tick and underneath it: opening the database beside another command
(`Database`), reading a base spelled one way or another and the worktrees
(`Refs`), reading `sasse.toml` (`Settings`, `Sizes`), the gate's pipe and log
(`GateRun`), each hook (`Notify`), and the loop.  What the queue does to a
tick is then a choice of what it meets: the lease is held or not, there is
something to gate or not, the merge conflicts, the base cannot be moved or is
stale, any statement fails (`StepFails`).  `past` is a history variable with
what really happened, for the loop's report to be compared with.

`Listing` adds one reader to `MergeQueue`: the statements of a snapshot, or the
two of the overview, with everything else in between.  Its state is the set of
entries the listing has still to account for.

`RocketScience` is four actions over three variables: the base, what was
submitted, and what has become of it: merged, rejected or withdrawn, once and for
good.  `QueueProperties` maps onto it: `base` is the base, `want` the requests of
the entries, and `fate` is computed by `Fate`.  An entry inside a candidate is still
*waiting*, so that neither a crash that sends a batch back in line nor an abandoned
candidate is visible there; a landing is `Integrate`, the record of it `Settle`.
A dequeue writes over whatever state the entry has by then (`store.rs:252`), so
where it did the row no longer says what became of the entry, and the mapping looks
at what nobody overwrites: an entry that a candidate is at work on is waiting,
whatever its row says; one that some candidate passed is merged; one whose attempts
are spent is rejected; and only the rest is withdrawn.

Abstractions, each chosen so that the properties can tell the difference:

- A commit is the sequence of changes merged into it.  A ref that contains a
  change merges it as a no-op, as git does ("Already up to date").
- Repository, base branch and database are one each.  An entry's request is its
  identity (branch and sha); a repushed branch is another request.
- `Broken` gives the sets of changes that fail the gate together, `Flaky` those
  that fail it now and then, `Conflicts` those that do not merge.
- Time is two flags of the lease row: lapsed, and the pid answers.  A token is
  the worker and one of two acquisition times, never the one the row has.
- Resolving the base and the guard for a checked out base are one step, since
  nothing of the queue is between them.  `sasse.toml` is read in it too;
  `max_batch` and `max_attempts` do not change.  The prune and the
  run table are left to `Retention`, the ways of failing to read either to
  `Service`.
- A step that fails does nothing (each is a transaction, or a command that is
  repeated from the start), with two exceptions.  A killed `update-ref` may have
  moved the ref (`FastForwardKilled`).  A `git merge` that fails with MERGE_HEAD
  on disk, because a stop killed it before the end of its commit or a commit hook
  refused it, reads as a conflict (`MergeCutShort`, `command.rs:145-151`): the
  worker goes on to blame the entry, as it does for a conflict, and without
  asking for a stop (`worker.rs:444-451`).  `cut` and `conflict` are one place in
  the code; the model tells them apart for the properties.
- A git command may fail at any place while a stop is pending (`GitFails`), as
  often as it is run: a signal reaches every child, and may come again.  Without a
  stop a failure is a mishap, and bounded.
- Names of refs are sequences of components, so that `main`, `heads/main` and
  `refs/heads/main` are three names that may mean one branch.
- The gate's output is the numbers 1 to n, so that what a log keeps, and in which
  order, can be told; the marker is the number of dropped bytes, negated.
- In `Service` the other command that opens the database is done with it before
  the first tick: the loop does not read the schema again.
- A restarted worker keeps its name; whether its old pid now belongs to another
  process (`PidReuse`) is what matters to the lease.

## 3. What is checked

Every run explores its instance exhaustively.  Deadlock is checked in all but
`service` and `claim_hook` (a queue always has something that may happen: an idle
worker, a commit to make, a lease to lapse); those two are of a process that ends.

| run | instance | shows |
|---|---|---|
| `deaths` | 2 workers, 2 requests (one flaky), batches of 2, 2 attempts; one kill, one push | `OneIntegrator`, `AtMostOneUnfinished`, `BatchedIsInFlight`, `OnlyGatedLands`, `EntryLifecycle`, `ToldTheTruth`, `KeepsItsPromise`: whatever point of a tick the worker dies at, the next one takes over cleanly, and what comes out is still the abstract queue |
| `bisection` | 1 worker, 4 requests: one breaks the build, two break it together, one breaks it with a push, one conflicts with everything; batches of 3 | `EvictionIsJust`, `AttemptsAreVerdicts`, `RetryBudget`, `CandidateLifecycle`, `KeepsItsPromise`: bisection ends at a culprit and charges nobody else, and every step of it is one of the abstract queue or none |
| `overrun` | 2 workers, each with its checkout, 2 requests that break the build together; one tick outlives its lease; `sasse status` reads the queue meanwhile | `BaseStaysGreen`, `MergedIsOnBase`, `NothingOnBaseIsLost`: with two integrators at once the base is still safe.  Nobody pushes in this instance; that an overrun does not undo a push is theorem `BaseOnlyGrows`.  `ListsAllThatStayed`: a listing put together from several statements, while two workers move the queue and send entries back, loses only what was sent back past it.  Nobody dequeues in this instance; theorem `NobodyIsLeftOut` is about all of them |
| `operators` | 1 worker, 3 requests, one of which breaks the build and one conflicts; one dequeue and one promote, each racing the worker between its check and its write; the base is checked out once | `MergedIsOnBase`, `NobodyOvertakes`, `RetriesGoAlone`, `KeepsItsPromise`: what is said to be merged is on the base, selection is a prefix of the queue, an entry that has failed is gated by itself, and however late a dequeue comes the entry has one fate, the abstract queue's |
| `recovery` | 2 workers, fair, 2 requests (one flaky), 1 attempt; a kill, a stop signal or a failing step | `OnlyCutMergesCharge`, `SettledIsTold`, `EveryEntrySettles`, `LeaseComesBack`: a tick that was killed, interrupted or failed costs the innocent nothing unless it cut short the merge of that very entry, and wedges neither the queue nor the lease |
| `retention` | the worker and one `sasse prune`, dry or not; up to 3 candidates and gate executions, logs of 1 and 3 bytes against a budget of 3; one kill, one failing step | `BudgetIsKept`, `NothingLeaks`, `LogsTellTheTruth`, `ReasonSurvivesCrashes`, `ActiveLogsStay` |
| `service` | up to 3 ticks of one process and 2 commands that open the database; 4 ways to spell the base, 2 layouts of worktrees, 5 files of settings | `SchemaIsWhole`, `GuardSeesWhatMoves`, `LogKeepsBothEnds`, `SizesReadBack`, `GivesUpInTime`, `SaysWhatHappened`, `HooksReturn`, `StopEndsTheLoop`: what is around a tick holds together, with failures and a stop at any point |

Some properties name what they need:

- `NoOverrun`, no tick has outlived its lease: `OneIntegrator`,
  `AtMostOneUnfinished`, `BatchedIsInFlight`, `AttemptsAreVerdicts`,
  `RetryBudget`, `RetriesGoAlone`, `ToldTheTruth` and the lifecycles.  The code does not enforce
  it: the expiry is 300 s (`worker.rs:273`), nothing calls `lease::renew`, and a
  gate may run longer.  Two workers can then each resume the same candidate,
  and each fail it.
- `Apart`, no two workers are at work in one checkout: each was given its own
  (`OwnCheckouts`), or there was no overrun.  All that is said of the base needs
  it: `MergedIsOnBase`, `BaseStaysGreen`, `EvictionIsJust`,
  `OnlyCutMergesCharge`, `OnlyGatedLands`, `NothingOnBaseIsLost`.  `overrun` has
  workers with their own checkouts and a tick that outlives its lease, which is
  where this premise says more than the other.
- `ByHand`, an operator took the entry out: a dequeue looks first and writes
  later, so that it may write over whatever became of the entry meanwhile.

- `ReasonSurvivesCrashes` is about a worker with no prune beside it, and
  `NothingLeaks` about runs in which nothing was killed and no step failed.  With
  a prune beside it the first does not hold (below); after a crash a file may
  stay that no row offers, so the second says nothing of crashes.

What happens without the first is the subject of `overrun`, which asks what
still holds, and of the first finding below.

`CandidateLifecycle` allows one edge that `state.rs:80` lacks, building to
failed: a conflict found while assembling is blamed before mark_testing, and
`migrations/0003_candidate_without_a_commit.sql` relies on it.

### Statements the code does not keep

Each of these is a sentence of the repository, checked as it stands by a run
that fails; `PROJECT.json` quotes it under `findings`.

- `claim_fencing` / `LandsOnlyUnderLease`: a worker whose lease was reclaimed
  while its gate ran does not find out, and lands.
- `claim_dequeued` / `DequeuedStaysOut`: an entry dequeued between select_batch
  and open_candidate is batched and merged, still marked *removed by hand*.
- `claim_interrupted` / `InterruptionIsFree`: a merge that a stop cuts short after
  MERGE_HEAD was written is read as a conflict, and an entry that nothing is wrong
  with is charged, or evicted, for it.  `OnlyCutMergesCharge` says that this is the
  only way.
- `claim_reason` / `ReasonSurvives`: a candidate whose gate passed, but whose tick
  then failed, is gated again into the same log file; if it fails this time, the
  file is removed as that of the passing run and the failure keeps no tail.
- `claim_hook` / `HookIsBounded`: a hook that starts something in the background
  and exits at once is past its deadline for as long as that process holds the
  pipe, because the drain is joined without a deadline (`notify.rs:169`).

More of the same kind can be seen in these models and has no run of its own:

- `store.rs:992`: one unfinished candidate.  Not under an overrun.
- `README.md:206`: what was gated is what is merged.  Not for two workers that
  were given one integration checkout, under an overrun.
- `README.md:87`: dequeue leaves entries inside a candidate alone.  Its write
  races open_candidate.
- `worker.rs:42`: a conflict is with the base.  It may be with a batch-mate.
- `README.md:202`: a base somebody has checked out is not moved.  The guard looks
  before the gate, not before the landing.
- `README.md:154` again: when `sasse prune` and a tick remove one failure's log,
  the second overwrites the tail of the first with NULL.
- `store.rs:280`: a promotion while the last promoted entry is inside a candidate
  gives both the same priority.
- `worker.rs:497`: a crash between moving the ref and recording it requeues an
  entry that is on the base; a flaky gate may then evict it.
- `config.rs:47`: a log is at most `max_log_size`.  The marker comes on top of it,
  and a cap of one byte keeps one byte of each end.
- `main.rs:243`: a quiet outcome after a quiet outcome of another kind (the base
  is checked out now) is not printed.
- A base spelled `heads/main` is gated and then cannot be moved, every time:
  rev-parse reads it as the branch, update-ref does not.

### Bounds

`MaxEntries` is the number of requests, so that every request can be enqueued;
an evicted one can be enqueued again only while rows are left.  In `operators`
that uses up the row of one that is then never enqueued.  `MaxCandidates` is larger than any behaviour of the run needs: exhausting
it would show up as a deadlock or, in the fair run, as a candidate that is never
opened.  `Limit` bounds each kind of mishap; what happens after the first is the
interesting part, and a second of the same kind meets states of the same shape.
`OneMishap`, in `recovery`, lets one happen of any kind; pairs of different kinds
are in `deaths` (a kill and a push) and `operators`.  Two workers are
enough to contend for a lease, and what a third would see is what the second
sees.  `PidReuse = TRUE` includes both outcomes.  Three entries to a batch make
bisection uneven (1 and 2), four requests leave one waiting behind a batch of
three.  Workers with their own checkouts are symmetric; the fair run does without
symmetry.

In `retention` one log past the cap fills the budget and any other beside it is
over, so that the plan has to choose; three executions are enough to gate one
candidate twice and another once.  The bound on executions is in the guards of
Open and Resume, so that reaching it looks like an empty queue.

In `service` a K is 2 bytes and the largest number 40 (`Kilo`, `MaxBytes`), so
that every suffix up to the last fits some number and overflows with another;
`SizesReadBack` goes through every size there is.  The gate prints up to 5 bytes
(`MaxOutput`) in reads of up to 2 (`MaxChunk`) into logs capped at 1 or 4: output
below, at and above the cap, with a head that ends inside a read.  A pipe of one
unread byte (`PipeSize`) blocks a hook that prints; one descendant (`MaxKids`) is
enough to hold the pipe after its shell.  Two entries to settle (`MaxQueued`) make
a batch that can split.  Three ticks (`MaxTicks`) against `GiveUpAfter = 2` are
two failures in a row with something before or between them.  Of the four
migrations the third rebuilds a table it finds and could be run again.
`claim_hook` needs one tick.

### Fairness

`FairSpec` assumes that a running worker keeps running (including that its gate
and its hook return), that one that went down is started again, and that time
passes over a lease nobody inside a tick holds.  The first is the operating
system's scheduling of `while !stop()` in `work`; the second is the supervisor
or person that runs `sasse work`; the third is the clock.  All three are weak.
Nothing obliges a gate to pass, a flaky one to fail or pass for ever, an
operator to do anything, or a developer to leave the base branch, and the fair
run includes no command and no checkout of the base: while one is checked out the
queue stops itself on purpose.

In `Service` the loop and the tick go on, the gate finishes, the polling loop of a
hook and the thread that drains its pipe run, the deadline comes, and a command
that waits for the database's lock has it or times out (`busy_timeout`).  A
hook's shell need never exit: it is the kill that ends it.  Nothing is assumed to
succeed, and nothing that a hook leaves behind need ever exit.  `HooksReturn` and
`StopEndsTheLoop` say so: what they promise comes, or the tick waits for ever in
the join for a process that no kill is meant for (`[]LeftBehind`: one that left
the process group, or one whose shell exited in time).  A hook whose group is
killed always lets the tick go.  `claim_hook` checks, under the same fairness, the
promise without that exception, and finds the missing deadline.

## 4. What is proved

TLAPS proves what follows for every value of the constants: any number of
workers, requests, pushes, checkouts, entries, candidates, executions, prunes,
commands and ticks, any pattern of breakage and conflict, any budget of mishaps.
Every property that a passing run checks is proved so, but for the ones listed at
the end of this section.  The proofs use the named assumptions of the modules
(`ChangeAssumption`, `StoreAssumption`, `LeaseAssumption`, `QueueAssumption`;
`RetentionAssumption`; `DatabaseAssumption`, `LastScriptAssumption`,
`SizeAssumption`, `DefaultsAssumption`, `GateAssumption`, `HookAssumption`,
`ServiceAssumption`, `SourceAssumption`, `LayoutAssumption`, `BranchAssumption`),
which TLC evaluates on every run.  They only say that bounds are numbers, settings
have their types, worktrees have paths and branches are under `refs/heads`, with
one exception, `LastScriptAssumption`, explained below.

**Types** (`MergeQueueProof`).  `TypeOK` alone is not inductive: merging the next
entry needs an index inside the batch, and blaming or landing needs a candidate
that exists.  `TypeInv` adds both (`WorkersOK`: an engaged worker has a candidate,
a conflicting one has an entry left to merge), with one lemma per transaction of
the store and one per group of actions that change the same variables.

**Exclusion** (`MergeQueueProof`): README invariant 6.  A second worker is kept
out by the row and not by the first worker, so `LeaseInv` says that until an
overrun every worker inside a tick is the one the row names, with its own token, a
pid that answers, and an expiry that has not passed.  Taking the lease needs a row
that contradicts this; a death marks only the dead worker's row; a release that
fails leaves a row whose token no later acquisition repeats (`Mint`); a row that
lapses under its holder is the overrun itself.

**The base** (`BaseProof`).  `BaseInv` is `Apart => Sound`.  `WorkerSound` says what
a worker relies on at each step: it started from a prefix of the base, its
checkout holds that start and the members it has merged so far, and what it is
about to land was gated and is all of its candidate.  `CandidateSound` says that
an assembled commit is *the* assembly of its members onto its base: assembling is
deterministic, so two workers on one candidate agree about it.  `EntrySound` says
that a merged entry is on the base, and that one evicted by the gate breaks it.
Only Blame charges an entry (`OnlyBlameCharges`): for a conflict, which is the
entry's own, for a gate that failed on it alone, which `LoneBlame` and
`WorkerSound` pin on it, or for a merge that was cut short, which is all that is
left for an innocent one (`WhoChargesTheInnocent`).  Whoever moves the base by compare-and-set
moves it from the very commit it started from, and a longer base contains what a
shorter one did.  None of this mentions the lease when every worker has its own
checkout; with a shared one, the lease is what keeps them apart.

**The tables** (`FlightProof`).  `FlightInv` is what the lease buys: one candidate
in flight; its members batched, with attempts left and nobody told of them, unless
taken out by hand; every other entry waiting or settled; an attempt for each
conviction; and, for the worker about to write, what it read is still so
(`select_batch` saw nothing unfinished, the batch it opens is still waiting, the
candidate it settles is the one in flight).  That nobody but an operator writes
between a worker's reading and its writing is `LeaseInv` again.  The three action
properties, the lifecycles and `VerdictsAreFinal`, follow from it one
transaction at a time.  (`VerdictsAreFinal` is proved and no run checks it.)

**The refinement** (`RefinementProof`): `Spec /\ []NoOverrun =>
KeepsItsPromise`, with crashes, pushes, dequeues and promotes at any point.  With an
overrun a verdict may be reached twice and an entry go from rejected to merged, which
no step of `RocketScience` does.  Fast-forwarding is `Integrate`: what it adds is
wanted by members of the candidate in flight, all of them waiting (`BuildAdds`,
`MembersWait`).  A transaction of any kind but a submission is `Settle` or a stutter:
it changes no fate but a waiting one, and merged is only what is on the base
(`BaseInv`).  The mapping reads a dequeued entry's fate off the candidates and
the attempts, so the proof needs these to agree with the row and with each other.
That is `HistoryInv`: what is in hand has attempts left and no landing behind it; what
is landed is merged, or is marked as taken out by hand; and whoever has spent the
attempts is evicted.  It is inductive because what the queue is done with it
never takes up again (`DoneStaysOut`), and because only landing the candidate that holds an
entry marks the entry as landed (`NewlyLanded`); both rest on `FlightInv`.

**Reading** (`ReadingProof`).  `ORDER BY priority DESC, id ASC` is a strict total
order, the first n of it are a prefix, and what an operator may do between the
selection and the opening does not change which entries were selected:
`NobodyOvertakes`.  That a retry is gated alone is an invariant over three places,
`RetryInv`: the batch a worker has read and not opened, the candidate in flight, and
the half it will open.  What makes it inductive is that nobody's attempts change but
those of an entry whose candidate is settled in the same transaction
(`ChargedIsOut`), and that what a worker holds in hand cannot be charged before it
opens it (`InHandBefore`), which is `FlightInv`.  For `sasse status`, `ListingInv`: who is still to be listed is in
a state that a later statement reads, since states only go forward unless an entry
is sent back, which the property allows for.

**Retention** (`RetentionProof`).  Candidates settle for good, rows and executions
are only appended, and a file is that of its candidate's last execution: so what a
survey found stays true of whatever `apply` goes on to remove, however late and
beside whatever other prune.  `RetentionInv` is `TypeOK`, which is not inductive
without it, and `Sound` (`Tables`, `Flight`, and `Holds(p)` for what each process
remembers); with no prune beside the worker, `Alone`: every row of a candidate
gated once has its log, passed, or has the tail of that very execution; and while
nothing failed, `Tidy`: every file is offered by a row or about to go.  The plan
sorts rows by id (`ById`), and that a finite set of numbers can be listed in
order is proved by well-founded induction, as it is for the line in `BaseProof`.

`BudgetIsKept` is about a sum.  `Total` is the last of the partial sums of a list;
`TotalIsSum` shows that there are such sums, and the lemmas after it that a total
grows with its numbers and covers any choice of them.  The plan drops every pass and
the oldest failures, and what it leaves fits (`PlanKeepsBudget`).  `Budgeted`, the invariant, says that the worker's survey
misses no log that a row points at and knows its size, and that once it has decided,
what it does not plan to remove (`Staying`) fits; a prune beside it only makes that
less (`BytesShrink`), and no log grows while the worker is not gating.

**The service** (`ServiceProof`).  One invariant per part:

- `DatabaseInv`: the schema is what some version made of it, one transaction is
  open at most, and whoever waits for the lock read the version as it still is or
  finds all the scripts run.  A command with a stale version cannot get past the
  last script, which clashes with what is there.  This is where
  `LastScriptAssumption` is needed: the last of the migrations adds a column
  (`0004_retained_log_tail.sql`) and fails when it is run twice.  The third could be
  run again.  Were a script like it ever the last one, two commands that open at
  once a database that lacks only this script would both run it: `apply_pending`
  has nothing against it, because it goes by the version read before the lock.
- `LogInv`: after every read, the log has taken exactly what was printed and is not
  in the pipe, its file the first bytes of that, its tail the last and its count the
  rest; so a finished log has both ends, for every cap and every cutting up.
- `GuardInv`: once past the guard, the tick remembers a list of worktrees in which
  `checkouts_holding` found none.  That this means what it should takes two lemmas:
  the parse of `git worktree list` loses no worktree, however many there are
  (`GuardSeesEveryCheckout`, line by line), and the name it looks for is that of the
  branch `update-ref` will move, if that branch exists (`GuardKnowsTheBranch`).
- `TickInv` and `HookInv`: the types, that a tick is under way exactly while the
  loop is in one, and that a hook runs within it.
- `CountInv`: the failures in a row are those that the past ends in, the summary
  lacks what the tick under way settled and nothing else, and the last line is about
  the last tick.

`SizesReadBack` is about arithmetic alone: whatever unit is chosen divides the size,
and the product is the size again, so nothing overflows.  The proof is for any
`Kilo` and `MaxBytes`, 1024 and 2^64 - 1 among them.

**Induction over lists** (`Recursion`).  The library's theorems on induction take an
operator, which the provers cannot instantiate.  `UpTo` says the same of a set, that
of the places where a formula holds, and `RecursionExists` of a function, the one that
takes a result one place further: from them follow what the recursive functions of
the models (`Total`, `Worktrees`, and the library's `FlattenSeq`) return.

Model-checked only, and why:

- All liveness: `EveryEntrySettles`, `SettledIsTold`, `LeaseComesBack`,
  `HooksReturn`, `StopEndsTheLoop`.  Fairness and ENABLED are beyond the prover.
- `KeepsItsPromise` after an overrun: it does not hold there, see above.

## 5. What is not modelled

- `lease::renew` changes state and no code path of the program calls it.
  `lease::current` and `recent_runs` only report.
- The wording and layout of what commands print; of the overview, the active
  candidate and the worker of each branch.
- TOML syntax, unknown fields, and the spellings of a suffix (`KB`, `kb`, `KiB`):
  parsing of text.
- Time stamps, the length of the pauses and of the timeouts.
- Several base branches in one database: every statement is keyed by repository
  and branch, except for ids and the log directory.
- The test doubles, which no command runs, and the release tooling.

## 6. Plan

Done: the queue of one base branch and its lease, log retention, what is listed,
and the service around them; the queue shown to implement `RocketScience`; the
safety properties above proved.  Next, in this order:

1. A liveness property for an entry that is dequeued inside its candidate and
   enqueued again.
2. Two base branches over one database and log directory.
