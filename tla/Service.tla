-------------------------------- MODULE Service --------------------------------
(***************************************************************************)
(* sasse work, or sasse tick, as one process (src/main.rs, the loop of     *)
(* src/worker.rs): open the database beside another command that opens it, *)
(* tick once, or until asked to stop, give up after too many failures in a *)
(* row, and say what happened.                                             *)
(*                                                                         *)
(* A tick is seen from outside here, through what it meets (the lease, the *)
(* checkouts, sasse.toml, the queue), with its gate and its hooks in full. *)
(* MergeQueue has what it does to the queue, between any two of its steps. *)
(***************************************************************************)
EXTENDS Database, Settings, Refs, Notify, GateRun

CONSTANTS
    Self,         \* this process, among those that open the database
    BaseName,     \* what --base may say
    Branch,       \* the branches of the repository, in full
    Layout,       \* how its worktrees may be checked out
    Source,       \* what sasse.toml may say on the base branch
    MaxQueued,    \* bound: entries waiting
    MaxTicks,     \* bound: ticks of one run of the loop
    GiveUpAfter   \* --give-up-after

ASSUME ServiceAssumption ==
    /\ Self \in Opener
    /\ MaxQueued \in Nat \ {0}
    /\ MaxTicks \in Nat /\ GiveUpAfter \in Nat

\* A setting is given once or not at all, and a batch is counted in entries.
ASSUME SourceAssumption ==
    \A source \in Source : \A batch \in source.max_batch :
        batch \in Nat /\ source.max_batch = {batch}

\* git prints a path for every worktree.
ASSUME LayoutAssumption ==
    Layout \subseteq Seq([path : Seq(STRING) \ {<<>>}, branch : Seq(STRING)])

\* Whatever --base says, a branch is a name under refs/heads.
ASSUME BranchAssumption ==
    /\ BaseName \subseteq Seq(STRING)
    /\ Branch \subseteq {branch \in Seq(STRING) : IsStrictPrefix(Heads, branch)}

VARIABLES
    loop,  \* work: its counters, and what it has printed
    tick,  \* the tick under way: what it has read and decided
    past   \* what really happened, tick by tick

serviceVars == <<loop, tick, past, hook, shell, log, schema, opening>>

Progress == {"landed", "split", "abandoned", "requeued", "evicted"}
TickOutcome == Progress \cup {"idle", "held", "checked out"}
Class == {"progress", "quiet", "failed"}

Summary == [ticks : Nat, landed : Nat, evicted : Nat, failures : Nat]

LoopState ==
    [pc : {"opening", "check", "ticking", "pausing",
           "returned", "gave up", "errored"},
     once : BOOLEAN,  \* sasse tick, and not sasse work
     base : BaseName, stop : BOOLEAN, inARow : Nat, summary : Summary,
     repeating : BOOLEAN, shown : Class \cup {"nothing"}]

TickState ==
    [pc : {"none", "acquire", "guard", "config", "select", "gate", "judge",
           "hooks", "release", "observe"},
     guarded : Seq([path : Seq(STRING), branch : Seq(STRING)]),
     cap : Nat, most : 0..MaxQueued, hooked : BOOLEAN,
     entries : 0..MaxQueued, tell : 0..MaxQueued,
     outcome : TickOutcome \cup {"none", "error"}]

\* unreported: a failed tick had settled something all the same.
PastState ==
    [classes : Seq(Class), landed : Nat, evicted : Nat, unreported : BOOLEAN]

NoTick ==
    [pc |-> "none", guarded |-> <<>>, cap |-> 0, most |-> 0,
     hooked |-> FALSE, entries |-> 0, tell |-> 0, outcome |-> "none"]

Init ==
    /\ DatabaseInit /\ HookInit /\ GateInit
    /\ \E name \in BaseName, once \in BOOLEAN :
          loop = [pc |-> "opening", once |-> once, base |-> name,
                  stop |-> FALSE, inARow |-> 0,
                  summary |-> [ticks |-> 0, landed |-> 0, evicted |-> 0,
                               failures |-> 0],
                  repeating |-> FALSE, shown |-> "nothing"]
    /\ tick = NoTick
    /\ past = [classes |-> <<>>, landed |-> 0, evicted |-> 0,
               unreported |-> FALSE]

NoLoop == UNCHANGED <<loop, past>>
NoHooks == UNCHANGED hook
NoGate == UNCHANGED gateVars
NoDatabase == UNCHANGED databaseVars

Go(pc) == tick' = [tick EXCEPT !.pc = pc]
Ends(outcome) == tick' = [tick EXCEPT !.pc = "release", !.outcome = outcome]

-----------------------------------------------------------------------------
(* The loop.                                                               *)

\* The loop never reads the schema: what the other commands still have to do
\* to open the database, and to end, is let happen before the first tick.
Opens ==
    /\ loop.pc = "opening" /\ Ready(Self)
    /\ \A p \in Opener : opening[p].pc \in {"open", "failed"}
    /\ loop' = [loop EXCEPT !.pc = "check"]
    /\ opening' = [p \in Opener |-> IF p = Self THEN opening[p] ELSE At("closed")]
    /\ UNCHANGED <<tick, past, schema>> /\ NoHooks /\ NoGate

\* sasse tick does not ask before its only tick.
StopsOrTicks ==
    /\ loop.pc = "check"
    /\ IF loop.stop /\ ~loop.once
       THEN loop' = [loop EXCEPT !.pc = "returned"] /\ UNCHANGED tick
       ELSE /\ Len(past.classes) < MaxTicks
            /\ loop' = [loop EXCEPT !.pc = "ticking"]
            /\ tick' = [NoTick EXCEPT !.pc = "acquire"]
    /\ UNCHANGED past /\ NoHooks /\ NoGate /\ NoDatabase

ClassOf(outcome) ==
    CASE outcome = "error" -> "failed"
      [] outcome \in Progress -> "progress"
      [] OTHER -> "quiet"

\* WorkSummary::record
Recorded(summary) ==
    [summary EXCEPT
        !.ticks = @ + 1,
        !.landed = @ + (IF tick.outcome = "landed" THEN tick.entries ELSE 0),
        !.evicted = @ + (IF tick.outcome = "evicted" THEN 1 ELSE 0)]

\* What a failure adds to it.
Failed(summary) == [summary EXCEPT !.failures = @ + 1]

\* A quiet tick is printed unless the one before it was quiet as well.
LastShown(class) == IF class = "quiet" /\ loop.repeating THEN loop.shown ELSE class

\* Progress is not worth a pause; anything else is.
PauseAfter(class) == IF class = "progress" \/ loop.stop THEN "check" ELSE "pausing"

Observed(class) ==
    /\ tick.pc = "observe"
    /\ ClassOf(tick.outcome) = class
    /\ tick' = NoTick
    /\ NoHooks /\ NoGate /\ NoDatabase

History(class) == past' = [past EXCEPT !.classes = Append(@, class)]

\* The outcome is printed, or the error returned, whether a stop is pending
\* or not.
TickedOnce ==
    \E class \in Class :
        /\ loop.once
        /\ Observed(class)
        /\ loop' = [loop EXCEPT
              !.pc = IF class = "failed" THEN "errored" ELSE "returned",
              !.shown = class]
        /\ History(class)

\* Mutant: only progress starts the count of failures again.
TickSucceededQuietly ==
    \E class \in {"progress", "quiet"} :
        /\ ~loop.once
        /\ Observed(class)
        /\ loop' = [loop EXCEPT
              !.pc = PauseAfter(class),
              !.inARow = IF class = "progress" THEN 0 ELSE @,
              !.summary = Recorded(@),
              !.shown = LastShown(class), !.repeating = class = "quiet"]
        /\ History(class)

TickSucceeded ==
    \E class \in {"progress", "quiet"} :
        /\ ~loop.once
        /\ Observed(class)
        /\ loop' = [loop EXCEPT
              !.pc = PauseAfter(class), !.inARow = 0,
              !.summary = Recorded(@),
              !.shown = LastShown(class), !.repeating = class = "quiet"]
        /\ History(class)

\* A failure under a stop is the interruption arriving.
TickInterrupted ==
    /\ Observed("failed")
    /\ loop.stop /\ ~loop.once
    /\ loop' = [loop EXCEPT !.pc = "returned"]
    /\ UNCHANGED past

\* Mutant: what is printed about a failure does not end the silence.
TickFailedQuietly ==
    /\ Observed("failed")
    /\ ~loop.stop /\ ~loop.once
    /\ loop.inARow + 1 < GiveUpAfter
    /\ loop' = [loop EXCEPT
          !.pc = "pausing", !.inARow = @ + 1, !.summary = Failed(@),
          !.shown = "failed"]
    /\ History("failed")

TickFailed ==
    /\ Observed("failed")
    /\ ~loop.stop /\ ~loop.once
    /\ loop.inARow + 1 < GiveUpAfter
    /\ loop' = [loop EXCEPT
          !.pc = "pausing", !.inARow = @ + 1, !.summary = Failed(@),
          !.shown = "failed", !.repeating = FALSE]
    /\ History("failed")

GivesUp ==
    /\ Observed("failed")
    /\ ~loop.stop /\ ~loop.once
    /\ loop.inARow + 1 >= GiveUpAfter
    /\ loop' = [loop EXCEPT
          !.pc = "gave up", !.inARow = @ + 1, !.summary = Failed(@)]
    /\ History("failed")

Wakes ==
    /\ loop.pc = "pausing"
    /\ loop' = [loop EXCEPT !.pc = "check"]
    /\ UNCHANGED <<tick, past>> /\ NoHooks /\ NoGate /\ NoDatabase

-----------------------------------------------------------------------------
(* A tick, up to its gate.                                                 *)

\* Another worker has the branch: the tick ends without a lease.
FindsHeld ==
    /\ tick.pc = "acquire"
    /\ tick' = [tick EXCEPT !.pc = "observe", !.outcome = "held"]
    /\ NoLoop /\ NoHooks /\ NoGate /\ NoDatabase

Acquires ==
    /\ tick.pc = "acquire"
    /\ Go("guard")
    /\ NoLoop /\ NoHooks /\ NoGate /\ NoDatabase

\* checkouts_holding
Guards ==
    /\ tick.pc = "guard"
    /\ \E layout \in Layout :
          tick' = IF Holding(layout, loop.base) = {}
                  THEN [tick EXCEPT !.pc = "config", !.guarded = layout]
                  ELSE [tick EXCEPT !.pc = "release", !.outcome = "checked out"]
    /\ NoLoop /\ NoHooks /\ NoGate /\ NoDatabase

\* rev-parse knows no branch by this name.
FindsNoBase ==
    /\ tick.pc = "config"
    /\ ~Resolves(loop.base, Branch)
    /\ Ends("error")
    /\ NoLoop /\ NoHooks /\ NoGate /\ NoDatabase

\* There is no sasse.toml in the base commit, and so no gate to run.
FindsNoConfig ==
    /\ tick.pc = "config"
    /\ Resolves(loop.base, Branch)
    /\ Ends("error")
    /\ NoLoop /\ NoHooks /\ NoGate /\ NoDatabase

\* sasse.toml, read out of the base commit.
ReadsConfig ==
    /\ tick.pc = "config"
    /\ Resolves(loop.base, Branch)
    /\ \E source \in Source :
          /\ Usable(Config(source))
          /\ tick' = [tick EXCEPT !.pc = "select",
                                  !.cap = Config(source).max_log_size,
                                  !.most = Min({Config(source).max_batch, MaxQueued}),
                                  !.hooked = source.on_settle # {}]
    /\ NoLoop /\ NoHooks /\ NoGate /\ NoDatabase

RefusesConfig ==
    /\ tick.pc = "config"
    /\ Resolves(loop.base, Branch)
    /\ \E source \in Source : ~Usable(Config(source))
    /\ Ends("error")
    /\ NoLoop /\ NoHooks /\ NoGate /\ NoDatabase

\* Nothing queued, or an unfinished candidate on a base that has moved.
HasNothingToGate ==
    /\ tick.pc = "select"
    /\ \E outcome \in {"idle", "abandoned"} : Ends(outcome)
    /\ NoLoop /\ NoHooks /\ NoGate /\ NoDatabase

\* The settled entries are announced if a hook is configured.
Settles(outcome, entries) ==
    tick' = [tick EXCEPT
        !.pc = "hooks", !.outcome = outcome, !.entries = entries,
        !.tell = IF tick.hooked THEN entries ELSE 0]

Evicts ==
    /\ Settles("evicted", 1)
    /\ past' = [past EXCEPT !.evicted = @ + 1]

Requeues == Ends("requeued") /\ UNCHANGED past

\* One entry does not merge onto the base.
Conflicts ==
    /\ tick.pc = "select"
    /\ Evicts \/ Requeues
    /\ UNCHANGED loop /\ NoHooks /\ NoGate /\ NoDatabase

Gates ==
    /\ tick.pc = "select"
    /\ \E entries \in 1..tick.most :
          tick' = [tick EXCEPT !.pc = "gate", !.entries = entries]
    /\ StartGate(tick.cap)
    /\ NoLoop /\ NoHooks /\ NoDatabase

-----------------------------------------------------------------------------
(* The gate, and what is made of it.                                       *)

GateStep ==
    /\ tick.pc = "gate"
    /\ GateExits \/ ReadOutput
    /\ UNCHANGED tick /\ NoLoop /\ NoHooks /\ NoDatabase

Judges ==
    /\ tick.pc = "gate"
    /\ FinishGate
    /\ Go("judge")
    /\ NoLoop /\ NoHooks /\ NoDatabase

\* The log stays on disk; nothing here reads it after the verdict.
Forgotten == shell' = NoShell /\ log' = NewLog(1)

\* update-ref moves the branch of that very name.
Lands ==
    /\ tick.pc = "judge" /\ shell.ends = "passed"
    /\ Qualified(loop.base) \in Branch
    /\ Settles("landed", tick.entries)
    /\ past' = [past EXCEPT !.landed = @ + tick.entries]
    /\ UNCHANGED loop /\ NoHooks /\ Forgotten /\ NoDatabase

\* A name that can be read and not written: the gate passes, and the tick
\* fails every time.
CannotMove ==
    /\ tick.pc = "judge" /\ shell.ends = "passed"
    /\ Qualified(loop.base) \notin Branch
    /\ Ends("error")
    /\ NoLoop /\ NoHooks /\ Forgotten /\ NoDatabase

FindsStale ==
    /\ tick.pc = "judge" /\ shell.ends = "passed"
    /\ Ends("abandoned")
    /\ NoLoop /\ NoHooks /\ Forgotten /\ NoDatabase

\* A gate that failed under a stop has said nothing.
VoidsVerdict ==
    /\ tick.pc = "judge" /\ shell.ends # "passed" /\ loop.stop
    /\ Ends("abandoned")
    /\ NoLoop /\ NoHooks /\ Forgotten /\ NoDatabase

Splits ==
    /\ tick.pc = "judge" /\ shell.ends # "passed" /\ ~loop.stop
    /\ tick.entries > 1
    /\ Ends("split")
    /\ NoLoop /\ NoHooks /\ Forgotten /\ NoDatabase

Blames ==
    /\ tick.pc = "judge" /\ shell.ends # "passed" /\ ~loop.stop
    /\ tick.entries = 1
    /\ Evicts \/ Requeues
    /\ UNCHANGED loop /\ NoHooks /\ Forgotten /\ NoDatabase

-----------------------------------------------------------------------------
(* The hooks, and the end of the tick.                                     *)

RunsHook ==
    /\ tick.pc = "hooks" /\ tick.tell > 0 /\ ~Hooking
    /\ hook' = Spawned
    /\ UNCHANGED tick /\ NoLoop /\ NoGate /\ NoDatabase

\* A hook that cannot be started is reported, and the next one is run.
HookUnrunnable ==
    /\ tick.pc = "hooks" /\ tick.tell > 0 /\ ~Hooking
    /\ tick' = [tick EXCEPT !.tell = @ - 1]
    /\ NoLoop /\ NoHooks /\ NoGate /\ NoDatabase

HookStep ==
    /\ HookActs \/ HookLoop \/ Drain \/ DeadlinePasses
    /\ UNCHANGED tick /\ NoLoop /\ NoGate /\ NoDatabase

HookDone ==
    /\ Join
    /\ tick' = [tick EXCEPT !.tell = @ - 1]
    /\ NoLoop /\ NoGate /\ NoDatabase

AllTold ==
    /\ tick.pc = "hooks" /\ tick.tell = 0
    /\ Go("release")
    /\ NoLoop /\ NoHooks /\ NoGate /\ NoDatabase

Releases ==
    /\ tick.pc = "release"
    /\ Go("observe")
    /\ NoLoop /\ NoHooks /\ NoGate /\ NoDatabase

\* The tick has failed then, whatever it did.
ReleaseFails ==
    /\ tick.pc = "release"
    /\ tick' = [tick EXCEPT !.pc = "observe", !.outcome = "error"]
    /\ past' = [past EXCEPT
          !.unreported = @ \/ tick.outcome \in {"landed", "evicted"}]
    /\ UNCHANGED loop /\ NoHooks /\ NoGate /\ NoDatabase

\* A statement, a git command or a write to the log fails.
StepFails ==
    /\ tick.pc \in {"acquire", "guard", "config", "select", "gate", "judge"}
    /\ tick' = [tick EXCEPT
          !.outcome = "error",
          !.pc = IF tick.pc = "acquire" THEN "observe" ELSE "release"]
    /\ NoLoop /\ NoHooks /\ Forgotten /\ NoDatabase

-----------------------------------------------------------------------------
\* The process has ended, in good order or not.
Ended ==
    \/ loop.pc \in {"returned", "gave up", "errored"}
    \/ opening[Self].pc = "failed"

\* From a terminal the signal reaches the gate as well; from kill it does not.
\* The hook is in a process group of its own.
Signal ==
    /\ ~loop.stop /\ ~Ended
    /\ loop' = [loop EXCEPT !.stop = TRUE]
    /\ UNCHANGED gateVars \/ GateSignalled
    /\ UNCHANGED <<tick, past>> /\ NoHooks /\ NoDatabase

OpeningStep ==
    /\ loop.pc = "opening"
    /\ \E p \in Opener : OpenStep(p) \/ OpenFails(p)
    /\ UNCHANGED tick /\ NoLoop /\ NoHooks /\ NoGate

\* The process has ended with an error, and is started again.
StartsAgain ==
    /\ OpenAgain(Self)
    /\ loop' = [loop EXCEPT !.stop = FALSE]
    /\ UNCHANGED <<tick, past>> /\ NoHooks /\ NoGate

Loops ==
    \/ Opens \/ StopsOrTicks \/ Wakes
    \/ TickedOnce
    \/ TickSucceeded \/ TickInterrupted \/ TickFailed \/ GivesUp

Ticks ==
    \/ FindsHeld \/ Acquires \/ Guards
    \/ FindsNoBase \/ FindsNoConfig \/ ReadsConfig \/ RefusesConfig
    \/ HasNothingToGate \/ Conflicts \/ Gates \/ GateStep \/ Judges
    \/ Lands \/ CannotMove \/ FindsStale \/ VoidsVerdict \/ Splits \/ Blames
    \/ RunsHook \/ HookUnrunnable \/ HookDone \/ AllTold
    \/ Releases \/ ReleaseFails \/ StepFails

Next == Loops \/ Ticks \/ HookStep \/ Signal \/ OpeningStep \/ StartsAgain

Spec == Init /\ [][Next]_serviceVars

-----------------------------------------------------------------------------
\* The process runs, the gate finishes, time passes, and what the hook prints
\* is read.  Whoever waits for the database's lock gets it, or times out.  No
\* process of a hook need ever exit.
Fairness ==
    /\ WF_serviceVars(Loops)
    /\ WF_serviceVars(Ticks)
    /\ WF_serviceVars(HookLoop /\ HookStep)
    /\ WF_serviceVars(Drain /\ HookStep)
    /\ WF_serviceVars(DeadlinePasses /\ HookStep)
    /\ \A p \in Opener :
          WF_serviceVars((OpenStep(p) \/ OpenFails(p)) /\ OpeningStep)

FairSpec == Spec /\ Fairness
=============================================================================
