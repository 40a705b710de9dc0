-------------------------- MODULE ServiceProperties --------------------------
(***************************************************************************)
(* What sasse work promises whoever leaves it running, stated over         *)
(* Service.                                                                *)
(***************************************************************************)
EXTENDS Service

TypeOK ==
    /\ schema \in Schema
    /\ opening \in [Opener -> Opening]
    /\ hook \in HookState
    /\ shell \in ShellState /\ log \in LogState
    /\ loop \in LoopState /\ tick \in TickState /\ past \in PastState

-----------------------------------------------------------------------------
\* Two commands that open an old database at once do not migrate it twice,
\* whenever each read its version and whenever either fails: user_version
\* says which scripts were run, each was run once, and a command that got
\* past opening finds them all.
SchemaIsWhole ==
    /\ schema = AtVersion(schema.version)
    /\ \A p \in Opener : Ready(p) => schema.version = Migrations

\* README.md, "the base branch is checked out nowhere": however --base spells
\* it, the branch that update-ref moves is one the guard looked for, and no
\* checkout it was shown was on it.
GuardSeesWhatMoves ==
    [][past'.landed > past.landed =>
          \A i \in DOMAIN tick.guarded :
              tick.guarded[i].branch # Qualified(loop.base)]_serviceVars

\* The log keeps the first and the last bytes of the gate's output and says
\* how many it dropped, however the output was cut up by the reads, and
\* whatever stopped the gate.
LogKeepsBothEnds ==
    log.finished => log.file = BothEnds(shell.printed, log.cap)

\* bytes.rs: "anything printed here can be pasted straight back into a config
\* file".  It is about every size and no state, and looked at at the start.
SizesReadBack ==
    loop.pc = "opening" =>
        \A bytes \in Size : Parsed(Shown(bytes)) = bytes

-----------------------------------------------------------------------------
BetweenTicks == loop.pc \in {"check", "pausing", "returned", "errored"}

EndsInFailures(n) ==
    /\ Len(past.classes) >= n
    /\ \A i \in (Len(past.classes) - n + 1)..Len(past.classes) :
          past.classes[i] = "failed"

\* The loop gives up after so many failures with nothing else in between,
\* neither earlier nor later, and a stop is never mistaken for one.
GivesUpInTime ==
    ~loop.once /\ loop.pc \in {"check", "pausing", "gave up"} =>
        (loop.pc = "gave up" <=> EndsInFailures(Max({GiveUpAfter, 1})))

\* What the loop says it did is what was done, as long as no tick failed
\* after settling something; and the last line it printed is about the tick
\* that came last, or both are quiet.
SaysWhatHappened ==
    BetweenTicks =>
        /\ ~past.unreported /\ ~loop.once =>
              /\ loop.summary.landed = past.landed
              /\ loop.summary.evicted = past.evicted
        /\ past.classes # <<>> => loop.shown = Last(past.classes)

\* The tick waits for a process of the hook that no kill is meant for: one that
\* left the process group, or one whose shell had exited in time.
LeftBehind ==
    /\ hook.wait = "join"
    /\ hook.escaped > 0 \/ (hook.kids > 0 /\ ~hook.killed)

\* notify.rs:199, abandon: the kill reaches the whole group, so however a hook
\* hangs, forks or fills its pipe, the tick gets away from it.  All that can
\* keep the tick, and with it the lease, is a process left behind that holds
\* the pipe for good.
HooksReturn == Hooking ~> (~Hooking \/ []LeftBehind)

\* README.md: "A hook is also bounded by a ten second timeout."  Once its
\* deadline has passed, the tick is done with a hook whatever it has left
\* behind; the join in src/notify.rs has no deadline of its own.
HookIsBounded == hook.late ~> ~Hooking

\* A stop ends the process, wherever it meets it: opening the database, in a
\* gate, in a hook, or asleep; but for a process some hook left behind for good.
StopEndsTheLoop == loop.stop ~> (Ended \/ []LeftBehind)
=============================================================================
