------------------------- MODULE RetentionProperties -------------------------
(***************************************************************************)
(* What log retention promises (README.md, Log retention; docs/adr/0002),  *)
(* stated over Retention.                                                  *)
(***************************************************************************)
EXTENDS Retention

\* Pruning "never touches a candidate still being assembled or gated",
\* however old the survey a removal goes by.
ActiveLogsStay ==
    [][\A c \in OnDisk : files'[c] = NoFile => cand[c] = "settled"]_vars

\* The budget is kept over every log a row still points at when a tick goes
\* on to the queue, whoever else prunes, dies or fails.
Accounted ==
    {c \in OnDisk : \E r \in DOMAIN runs :
        runs[r].cand = c /\ runs[r].logged /\ cand[c] = "settled"}

BytesOf(S) ==
    Total([c \in CandidateId |-> IF c \in S THEN files[c].bytes ELSE 0])

BudgetIsKept == At(Worker, "look") => BytesOf(Accounted) <= LogBudget

\* The directory itself is kept too, as long as nothing was killed or failed
\* between a row and its file: every log on disk is one somebody will offer.
NothingLeaks ==
    spent["crash"] + spent["fault"] = 0 =>
        \A c \in OnDisk :
            \/ cand[c] = "active"
            \/ c \in Accounted
            \/ \E p \in Process : At(p, "unlink") /\ Head(proc[p].left).cand = c

\* The reason a gate run failed can still be read: in its log, or in the tail
\* kept on a row of its candidate, which is what sasse logs lists.
Explained(r) ==
    LET c == runs[r].cand
    IN  \/ \E s \in DOMAIN runs : runs[s].cand = c /\ runs[s].tail = runs[r].exec
        \/ runs[r].logged /\ c \in OnDisk /\ files[c].exec = runs[r].exec

ExecutionsOf(c) == {x \in DOMAIN execs : execs[x] = c}
GatedOnce(c) == Cardinality(ExecutionsOf(c)) = 1

\* A failure's last lines survive its file, as long as no two prunes race and
\* its candidate is not gated again: a crash or an error between the tail, the
\* row and the file loses bytes and never the reason.
ReasonSurvivesCrashes ==
    spent["prune"] = 0 =>
        \A r \in DOMAIN runs :
            runs[r].passed \/ ~GatedOnce(runs[r].cand) \/ Explained(r)

\* sasse logs <candidate> shows the end of the last run's log, or what was kept
\* of it: never the output of another candidate or of an earlier execution.
\* And if it says that "nothing kept, because the gate passed", the gate had
\* passed, as long as no two prunes raced over a failure and its candidate was
\* not gated again.
LogsTellTheTruth ==
    \A c \in CandidateId : RunsOf(c) # <<>> =>
        LET r == LastRun(c)
            printed == Printed(r)
        IN  /\ printed.exec # NoTail =>
                  execs[printed.exec] = c /\ printed.exec >= runs[r].exec
            /\ printed.what = "passed" /\ spent["prune"] = 0 /\ GatedOnce(c) =>
                  runs[r].passed

\* README.md:154: "A failure's last lines are copied onto its run row before
\* its file is removed, so the verdict, the command and the actual reason
\* survive indefinitely".  At least those of the last run of a candidate.
ReasonSurvives ==
    \A r \in DOMAIN runs :
        runs[r].passed \/ Explained(r)
          \/ \E x \in ExecutionsOf(runs[r].cand) : x > runs[r].exec
=============================================================================
