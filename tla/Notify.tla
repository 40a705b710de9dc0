-------------------------------- MODULE Notify --------------------------------
(***************************************************************************)
(* One run of the on_settle hook (src/notify.rs): the shell and whatever   *)
(* it starts, the pipe they print to, the thread that drains it, and the   *)
(* loop that waits for the shell until a deadline.                         *)
(*                                                                         *)
(* The hook has a process group of its own.  Its processes hold the write  *)
(* end of the pipe until they exit.                                        *)
(***************************************************************************)
EXTENDS Naturals

CONSTANTS
    PipeSize,  \* bound: chunks of output the pipe holds
    MaxKids    \* bound: processes a hook has started and that still run

ASSUME HookAssumption == PipeSize \in Nat \ {0} /\ MaxKids \in Nat

VARIABLE hook

\* wait: where ShellNotifier::run is.  "poll" and "deadline" are the two
\* halves of its loop, "join" the wait for the draining thread.
HookState ==
    [wait : {"none", "poll", "deadline", "join"},
     shell : {"none", "running", "exited", "reaped"},
     kids : 0..MaxKids,     \* descendants in the hook's process group
     escaped : 0..MaxKids,  \* descendants outside it
     pipe : 0..PipeSize,
     late : BOOLEAN,        \* the deadline has passed
     killed : BOOLEAN]

NoHook ==
    [wait |-> "none", shell |-> "none", kids |-> 0,
     escaped |-> 0, pipe |-> 0, late |-> FALSE, killed |-> FALSE]

HookInit == hook = NoHook

Hooking == hook.wait # "none"

Spawned ==
    [NoHook EXCEPT !.wait = "poll", !.shell = "running"]

-----------------------------------------------------------------------------
(* What the hook may do.                                                   *)

Writers == hook.shell = "running" \/ hook.kids + hook.escaped > 0

HookPrints ==
    /\ Hooking /\ Writers
    /\ hook.pipe < PipeSize
    /\ hook' = [hook EXCEPT !.pipe = @ + 1]

HookForks ==
    /\ Hooking /\ hook.shell = "running"
    /\ hook.kids + hook.escaped < MaxKids
    /\ hook' = [hook EXCEPT !.kids = @ + 1]

\* setsid: out of reach of the group.
HookDetaches ==
    /\ Hooking /\ hook.kids > 0
    /\ hook' = [hook EXCEPT !.kids = @ - 1, !.escaped = @ + 1]

ShellExits ==
    /\ Hooking /\ hook.shell = "running"
    /\ hook' = [hook EXCEPT !.shell = "exited"]

KidExits ==
    /\ Hooking /\ hook.kids > 0
    /\ hook' = [hook EXCEPT !.kids = @ - 1]

EscapedExits ==
    /\ Hooking /\ hook.escaped > 0
    /\ hook' = [hook EXCEPT !.escaped = @ - 1]

DeadlinePasses ==
    /\ Hooking /\ ~hook.late
    /\ hook' = [hook EXCEPT !.late = TRUE]

-----------------------------------------------------------------------------
(* What the worker does about it.                                          *)

\* Another thread reads while the worker waits.
Drain ==
    /\ Hooking /\ hook.pipe > 0
    /\ hook' = [hook EXCEPT !.pipe = @ - 1]

\* try_wait comes before the look at the clock: a hook that exited just in
\* time is not killed.
Poll ==
    /\ hook.wait = "poll"
    /\ hook' = IF hook.shell = "exited"
               THEN [hook EXCEPT !.shell = "reaped", !.wait = "join"]
               ELSE [hook EXCEPT !.wait = "deadline"]

InTime ==
    /\ hook.wait = "deadline" /\ ~hook.late
    /\ hook' = [hook EXCEPT !.wait = "poll"]

\* Mutant: only the shell is killed.
AbandonShell ==
    /\ hook.wait = "deadline" /\ hook.late
    /\ hook' = [hook EXCEPT !.wait = "join", !.shell = "reaped",
                            !.killed = TRUE]

\* Mutant: the deadline ends the loop and nothing is killed.
AbandonUnkilled ==
    /\ hook.wait = "deadline" /\ hook.late
    /\ hook' = [hook EXCEPT !.wait = "join"]

\* The whole group is killed, and the shell waited for.
Abandon ==
    /\ hook.wait = "deadline" /\ hook.late
    /\ hook' = [hook EXCEPT !.wait = "join", !.shell = "reaped",
                            !.kids = 0, !.killed = TRUE]

\* The thread ends at end of file, when no process holds the pipe any more.
\* There is no deadline here.
EndOfFile == hook.pipe = 0 /\ ~Writers

Join ==
    /\ hook.wait = "join"
    /\ EndOfFile
    /\ hook' = NoHook

-----------------------------------------------------------------------------
HookActs ==
    \/ HookPrints \/ HookForks \/ HookDetaches
    \/ ShellExits \/ KidExits \/ EscapedExits

HookLoop == Poll \/ InTime \/ Abandon
=============================================================================
