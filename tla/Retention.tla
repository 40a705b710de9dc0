------------------------------ MODULE Retention ------------------------------
(***************************************************************************)
(* Gate logs and their budget (src/retention.rs, src/logs.rs, the run      *)
(* table of src/queue/store.rs).                                           *)
(*                                                                         *)
(* A tick prunes before it does anything else, and sasse prune runs the    *)
(* same retention::apply beside it without a lease, so every process here  *)
(* goes through apply, one statement or one call on the file system at a   *)
(* time.  The rest of the tick is cut down to what it does to candidates   *)
(* and logs; MergeQueue has it in full, and shows that one worker ticks at *)
(* a time.                                                                 *)
(*                                                                         *)
(* The text of a log is the number of the gate execution that wrote it.    *)
(***************************************************************************)
EXTENDS Naturals, Sequences, SequencesExt, FiniteSetsExt

CONSTANTS
    MaxCandidates,  \* bound: candidates opened
    MaxExecutions,  \* bound: executions of the gate
    Output,         \* how many bytes a gate may print
    MaxLogSize,     \* max_log_size of sasse.toml
    Marker,         \* bytes of the line that says how much was dropped
    LogBudget,      \* log_budget of sasse.toml
    Worker,         \* the process that ticks
    Prune,          \* processes running sasse prune
    NoFile,         \* there is no such file
    Limit           \* bounds: how often each event may happen

CandidateId == 1..MaxCandidates
Process == {Worker} \cup Prune
Event == {"prune", "crash", "fault"}

ASSUME RetentionAssumption ==
    /\ MaxCandidates \in Nat /\ MaxExecutions \in Nat
    /\ Output \subseteq Nat
    /\ MaxLogSize \in Nat /\ Marker \in Nat /\ LogBudget \in Nat
    /\ Worker \notin Prune
    /\ NoFile \notin [exec : Nat, bytes : Nat]
    /\ Limit \in [Event -> Nat]

VARIABLES
    cand,   \* cand[c]: absent, active (building or testing) or settled
    execs,  \* the candidate of every execution of the gate so far
    runs,   \* rows of run, in order of their ids
    files,  \* files[c]: candidate-<c>.log
    proc,   \* proc[p]: where process p is, and what it holds in memory
    orphan, \* the worker died, and no reclaim has superseded its candidate
    spent   \* spent[event]: how often it has happened

vars == <<cand, execs, runs, files, proc, orphan, spent>>

NoTail == 0
Execution == 1..MaxExecutions
File == [exec : Execution, bytes : Nat]
RunRow == [cand : CandidateId, exec : Execution, passed : BOOLEAN,
           logged : BOOLEAN, tail : Execution \cup {NoTail}]

\* LogFile: what apply knows of a log once it has looked.
LogFile == [run : Nat, cand : CandidateId, bytes : Nat, passed : BOOLEAN]

Applying == {"survey", "size", "remove", "forget", "unlink"}
Gating == {"look", "gate", "run", "record", "settle"}
Memory == [pc : {"idle"} \cup Applying \cup Gating, todo : Seq(Nat),
           found : Seq(LogFile), left : Seq(LogFile),
           tail : Execution \cup {NoTail}, passed : BOOLEAN]

TypeOK ==
    /\ cand \in [CandidateId -> {"absent", "active", "settled"}]
    /\ execs \in Seq(CandidateId)
    /\ runs \in Seq(RunRow)
    /\ files \in [CandidateId -> File \cup {NoFile}]
    /\ proc \in [Process -> Memory]
    /\ orphan \in BOOLEAN
    /\ spent \in [Event -> Nat]

Resting == [pc |-> "idle", todo |-> <<>>, found |-> <<>>, left |-> <<>>,
            tail |-> NoTail, passed |-> FALSE]

Init ==
    /\ cand = [c \in CandidateId |-> "absent"]
    /\ execs = <<>> /\ runs = <<>>
    /\ files = [c \in CandidateId |-> NoFile]
    /\ proc = [p \in Process |-> Resting]
    /\ orphan = FALSE
    /\ spent = [event \in Event |-> 0]

At(p, pc) == proc[p].pc = pc
Goto(p, pc) == proc' = [proc EXCEPT ![p].pc = pc]
Finish(p) == proc' = [proc EXCEPT ![p] = Resting]
Spend(event) ==
    /\ spent[event] < Limit[event]
    /\ spent' = [spent EXCEPT ![event] = @ + 1]

Active == {c \in CandidateId : cand[c] = "active"}
OnDisk == {c \in CandidateId : files[c] # NoFile}

-----------------------------------------------------------------------------
(* retention::apply, in a tick or in sasse prune.                          *)

\* ORDER BY id: the numbers in S, smallest first.
ById(S) ==
    CHOOSE rows \in [1..Cardinality(S) -> S] :
        \A i, j \in 1..Cardinality(S) : i < j => rows[i] < rows[j]

\* Mutant: candidates still being gated are offered as well.
EveryLoggedRun == ById({r \in DOMAIN runs : runs[r].logged})

\* logged_runs: one query, by id, of settled candidates only.
LoggedRuns ==
    ById({r \in DOMAIN runs :
            runs[r].logged /\ cand[runs[r].cand] = "settled"})

\* forget_log.
Forgotten(r, tail) ==
    runs' = [runs EXCEPT ![r].logged = FALSE, ![r].tail = tail]

Survey(p) ==
    /\ At(p, "survey")
    /\ proc' = [proc EXCEPT ![p].pc = "size", ![p].todo = LoggedRuns]
    /\ UNCHANGED <<cand, execs, runs, files, orphan, spent>>

\* A row whose file is gone is reconciled, without a tail.
SizeOfNext(p) ==
    /\ At(p, "size")
    /\ proc[p].todo # <<>>
    /\ LET r == Head(proc[p].todo)
           c == runs[r].cand
           log == [run |-> r, cand |-> c, bytes |-> files[c].bytes,
                   passed |-> runs[r].passed]
       IN  \/ /\ c \in OnDisk
              /\ proc' = [proc EXCEPT ![p].todo = Tail(@),
                                      ![p].found = Append(@, log)]
              /\ UNCHANGED runs
           \/ /\ c \notin OnDisk
              /\ proc' = [proc EXCEPT ![p].todo = Tail(@)]
              /\ Forgotten(r, NoTail)
    /\ UNCHANGED <<cand, execs, files, orphan, spent>>

\* The sum of a list of numbers.
Total(numbers) ==
    LET total[i \in 0..Len(numbers)] ==
            IF i = 0 THEN 0 ELSE total[i - 1] + numbers[i]
    IN  total[Len(numbers)]

Bytes(logs) == Total([i \in DOMAIN logs |-> logs[i].bytes])

\* What is left of logs when the first n are gone.
After(n, logs) == SubSeq(logs, n + 1, Len(logs))

\* Mutant: one failure too few goes.
SurplusButOne(failed) ==
    Min({n \in 0..Len(failed) :
            n = Len(failed) \/ Bytes(After(n + 1, failed)) <= LogBudget})

\* One more of the oldest failures goes while the rest is over budget.
Surplus(failed) ==
    Min({n \in 0..Len(failed) :
            n = Len(failed) \/ Bytes(After(n, failed)) <= LogBudget})

\* plan: every pass, then failures.  Logs come in the order of their run ids.
Plan(logs) ==
    LET Those(S) == [i \in 1..Cardinality(S) |-> logs[ById(S)[i]]]
        passed == Those({i \in DOMAIN logs : logs[i].passed})
        failed == Those({i \in DOMAIN logs : ~logs[i].passed})
    IN  passed \o SubSeq(failed, 1, Surplus(failed))

Decide(p) ==
    /\ At(p, "size")
    /\ proc[p].todo = <<>>
    /\ proc' = [proc EXCEPT ![p].pc = "remove", ![p].left = Plan(proc[p].found)]
    /\ UNCHANGED <<cand, execs, runs, files, orphan, spent>>

\* tail_text(..).ok(): a file that is no longer there has no last lines.
LastLines(c) == IF c \in OnDisk THEN files[c].exec ELSE NoTail

\* Mutant: the lines of a pass are kept, and those of a failure are not.
ReadTailOfPass(p) ==
    /\ At(p, "remove")
    /\ proc[p].left # <<>>
    /\ LET log == Head(proc[p].left)
       IN  proc' = [proc EXCEPT ![p].pc = "forget",
                      ![p].tail = IF log.passed THEN LastLines(log.cand) ELSE NoTail]
    /\ UNCHANGED <<cand, execs, runs, files, orphan, spent>>

ReadTail(p) ==
    /\ At(p, "remove")
    /\ proc[p].left # <<>>
    /\ LET log == Head(proc[p].left)
       IN  proc' = [proc EXCEPT ![p].pc = "forget",
                      ![p].tail = IF log.passed THEN NoTail ELSE LastLines(log.cand)]
    /\ UNCHANGED <<cand, execs, runs, files, orphan, spent>>

\* Mutant: the row loses its log and keeps no tail.
ForgetLogAndTail(p) ==
    /\ At(p, "forget")
    /\ Forgotten(Head(proc[p].left).run, NoTail)
    /\ Goto(p, "unlink")
    /\ UNCHANGED <<cand, execs, files, orphan, spent>>

ForgetLog(p) ==
    /\ At(p, "forget")
    /\ Forgotten(Head(proc[p].left).run, proc[p].tail)
    /\ Goto(p, "unlink")
    /\ UNCHANGED <<cand, execs, files, orphan, spent>>

\* Mutant: a removal that was never made.
SkipRemoval(p) ==
    /\ At(p, "unlink")
    /\ proc' = [proc EXCEPT ![p].pc = "remove", ![p].left = Tail(@)]
    /\ UNCHANGED <<cand, execs, runs, files, orphan, spent>>

RemoveFile(p) ==
    /\ At(p, "unlink")
    /\ LET c == Head(proc[p].left).cand
       IN  c \in OnDisk /\ files' = [files EXCEPT ![c] = NoFile]
    /\ proc' = [proc EXCEPT ![p].pc = "remove", ![p].left = Tail(@)]
    /\ UNCHANGED <<cand, execs, runs, orphan, spent>>

\* A file somebody else removed first ends the tick, or the command, with an
\* error.
FindFileGone(p) ==
    /\ At(p, "unlink")
    /\ Head(proc[p].left).cand \notin OnDisk
    /\ Finish(p)
    /\ UNCHANGED <<cand, execs, runs, files, orphan, spent>>

Applied(p) ==
    /\ At(p, "remove")
    /\ proc[p].left = <<>>
    /\ proc' = [proc EXCEPT ![p] = [Resting EXCEPT
                                      !.pc = IF p = Worker THEN "look" ELSE "idle"]]
    /\ UNCHANGED <<cand, execs, runs, files, orphan, spent>>

\* sasse prune --dry-run: reports the plan, and has reconciled rows by then.
ReportDryRun(p) ==
    /\ p \in Prune
    /\ At(p, "size")
    /\ proc[p].todo = <<>>
    /\ Finish(p)
    /\ UNCHANGED <<cand, execs, runs, files, orphan, spent>>

Apply(p) ==
    \/ Survey(p) \/ SizeOfNext(p) \/ Decide(p) \/ ReportDryRun(p)
    \/ ReadTail(p) \/ ForgetLog(p) \/ RemoveFile(p) \/ FindFileGone(p) \/ Applied(p)

StartPrune(p) ==
    /\ p \in Prune
    /\ At(p, "idle")
    /\ Spend("prune")
    /\ Goto(p, "survey")
    /\ UNCHANGED <<cand, execs, runs, files, orphan>>

-----------------------------------------------------------------------------
(* The rest of the tick.                                                   *)

\* After a crash the lease is reclaimed and the orphan superseded.
StartTick ==
    /\ At(Worker, "idle")
    /\ cand' = [c \in CandidateId |->
                  IF orphan /\ c \in Active THEN "settled" ELSE cand[c]]
    /\ orphan' = FALSE
    /\ Goto(Worker, "survey")
    /\ UNCHANGED <<execs, runs, files, spent>>

FindNothingQueued ==
    /\ At(Worker, "look")
    /\ Active = {}
    /\ Finish(Worker)
    /\ UNCHANGED <<cand, execs, runs, files, orphan, spent>>

Open ==
    /\ At(Worker, "look")
    /\ Active = {} /\ Len(execs) < MaxExecutions
    /\ \E c \in CandidateId :
          /\ cand[c] = "absent"
          /\ \A d \in 1..(c - 1) : cand[d] # "absent"
          /\ cand' = [cand EXCEPT ![c] = "active"]
    /\ Goto(Worker, "gate")
    /\ UNCHANGED <<execs, runs, files, orphan, spent>>

\* A candidate left unfinished is gated again, or abandoned if the base moved.
Resume ==
    /\ At(Worker, "look")
    /\ Active # {} /\ Len(execs) < MaxExecutions
    /\ Goto(Worker, "gate")
    /\ UNCHANGED <<cand, execs, runs, files, orphan, spent>>

SettleActive == cand' = [c \in CandidateId |->
                           IF c \in Active THEN "settled" ELSE cand[c]]

\* A candidate that is not gated: its base moved, or it conflicts.
SettleUngated ==
    /\ proc[Worker].pc \in {"look", "gate"}
    /\ Active # {}
    /\ SettleActive
    /\ Finish(Worker)
    /\ UNCHANGED <<execs, runs, files, orphan, spent>>

\* Mutant: the log is taken for that of the execution before.
GateStartsLate ==
    /\ At(Worker, "gate")
    /\ execs' = execs \o SetToSeq(Active)
    /\ files' = [c \in CandidateId |->
                   IF c \in Active
                   THEN [exec |-> Len(execs), bytes |-> 0] ELSE files[c]]
    /\ Goto(Worker, "run")
    /\ UNCHANGED <<cand, runs, orphan, spent>>

\* File::create truncates whatever an earlier execution left.
GateStarts ==
    /\ At(Worker, "gate")
    /\ execs' = execs \o SetToSeq(Active)
    /\ files' = [c \in CandidateId |->
                   IF c \in Active
                   THEN [exec |-> Len(execs) + 1, bytes |-> 0] ELSE files[c]]
    /\ Goto(Worker, "run")
    /\ UNCHANGED <<cand, runs, orphan, spent>>

\* Capped: a head and a tail of half the cap each, at least a byte, and a
\* line between them if anything was dropped.
Half == IF MaxLogSize \div 2 = 0 THEN 1 ELSE MaxLogSize \div 2
CappedSize(output) == IF output <= 2 * Half THEN output ELSE 2 * Half + Marker

GateEnds ==
    /\ At(Worker, "run")
    /\ \E output \in Output :
          files' = [c \in CandidateId |->
                      IF c \in Active
                      THEN [files[c] EXCEPT !.bytes = CappedSize(output)]
                      ELSE files[c]]
    /\ \E passed \in BOOLEAN :
          proc' = [proc EXCEPT ![Worker].pc = "record", ![Worker].passed = passed]
    /\ UNCHANGED <<cand, execs, runs, orphan, spent>>

\* record_run.
RecordRun ==
    /\ At(Worker, "record")
    /\ \E c \in Active :
          runs' = Append(runs, [cand |-> c, exec |-> Len(execs),
                                passed |-> proc[Worker].passed,
                                logged |-> TRUE, tail |-> NoTail])
    /\ Goto(Worker, "settle")
    /\ UNCHANGED <<cand, execs, files, orphan, spent>>

\* Landed, blamed, split or abandoned: passed, failed or superseded.
Settle ==
    /\ At(Worker, "settle")
    /\ SettleActive
    /\ Finish(Worker)
    /\ UNCHANGED <<execs, runs, files, orphan, spent>>

\* A statement or a file operation fails; the lease is given back and the
\* candidate stays unfinished.
TickFails(p) ==
    /\ ~At(p, "idle")
    /\ Spend("fault")
    /\ Finish(p)
    /\ UNCHANGED <<cand, execs, runs, files, orphan>>

Crash(p) ==
    /\ ~At(p, "idle")
    /\ Spend("crash")
    /\ Finish(p)
    /\ orphan' = (orphan \/ p = Worker)
    /\ UNCHANGED <<cand, execs, runs, files>>

-----------------------------------------------------------------------------
(* sasse logs, which only reads.                                           *)

\* store::runs: the gate runs of a candidate, oldest first.
RunsOf(c) == ById({r \in DOMAIN runs : runs[r].cand = c})

\* sasse logs <candidate> prints every run and the end of the last one.
LastRun(c) == Last(RunsOf(c))

\* print_tail: the log, the tail that was kept of it, or that there is
\* nothing to show.
Printed(r) ==
    LET c == runs[r].cand
        Says(what, exec) == [what |-> what, exec |-> exec]
    IN  CASE runs[r].logged /\ c \in OnDisk -> Says("log", files[c].exec)
          [] runs[r].logged /\ c \notin OnDisk -> Says("unreadable", NoTail)
          [] ~runs[r].logged /\ runs[r].tail # NoTail -> Says("tail", runs[r].tail)
          [] OTHER -> Says("passed", NoTail)

-----------------------------------------------------------------------------
TickRest ==
    \/ StartTick \/ FindNothingQueued \/ Open \/ Resume \/ SettleUngated
    \/ GateStarts \/ GateEnds \/ RecordRun \/ Settle

Next ==
    \/ TickRest
    \/ \E p \in Process : Apply(p) \/ StartPrune(p) \/ TickFails(p) \/ Crash(p)

Spec == Init /\ [][Next]_vars
=============================================================================
