-------------------------------- MODULE GateRun --------------------------------
(***************************************************************************)
(* One run of the gate (src/gate.rs): a shell whose output the worker      *)
(* reads itself until end of file, and the log that keeps both its ends.   *)
(*                                                                         *)
(* A gate that prints n bytes prints 1, 2, ..., n.  The line that says how *)
(* many bytes were dropped is one entry of a log: their number, negated.   *)
(***************************************************************************)
EXTENDS Integers, Sequences, FiniteSetsExt, SequencesExt

CONSTANTS
    MaxOutput,  \* bound: bytes a gate prints
    MaxChunk    \* bytes one read returns at most

ASSUME GateAssumption == MaxOutput \in Nat /\ MaxChunk \in Nat \ {0}

VARIABLES
    shell,  \* the gate's shell, with what it has started
    log     \* the log being written

gateVars == <<shell, log>>

Verdict == {"passed", "failed", "signalled"}

\* printed counts the bytes of the whole run, unread those of them that the
\* worker has still to read.
ShellState ==
    [running : BOOLEAN, printed : 0..MaxOutput, unread : 0..MaxOutput,
     ends : Verdict]
LogState ==
    [cap : Nat, head : Nat, tail : Seq(Nat), dropped : Nat, file : Seq(Int),
     finished : BOOLEAN]

NoShell == [running |-> FALSE, printed |-> 0, unread |-> 0, ends |-> "passed"]

\* At least one byte for each end, so that a cap of one is kept as two.
Half(cap) == Max({cap \div 2, 1})

\* Capped::new, over a file that was just truncated.
NewLog(cap) ==
    [cap |-> cap, head |-> Half(cap), tail |-> <<>>, dropped |-> 0,
     file |-> <<>>, finished |-> FALSE]

GateInit == shell = NoShell /\ log = NewLog(1)

-----------------------------------------------------------------------------
(* Capped: what is written at once, what is held back, what is dropped.    *)

\* Mutant: every chunk may use the whole room for the head again.
TakeRefilling(capped, chunk) ==
    LET room == Half(capped.cap)
        kept == SubSeq(chunk, 1, Min({room, Len(chunk)}))
        held == capped.tail \o SubSeq(chunk, Len(kept) + 1, Len(chunk))
        over == Max({Len(held) - room, 0})
    IN  [capped EXCEPT !.file = @ \o kept,
                       !.tail = SubSeq(held, over + 1, Len(held)),
                       !.dropped = @ + over]

Take(capped, chunk) ==
    LET kept == SubSeq(chunk, 1, Min({capped.head, Len(chunk)}))
        held == capped.tail \o SubSeq(chunk, Len(kept) + 1, Len(chunk))
        over == Max({Len(held) - Half(capped.cap), 0})
    IN  [capped EXCEPT !.head = @ - Len(kept),
                       !.file = @ \o kept,
                       !.tail = SubSeq(held, over + 1, Len(held)),
                       !.dropped = @ + over]

Finish(capped) ==
    [capped EXCEPT
        !.file = @ \o (IF capped.dropped > 0 THEN <<-capped.dropped>> ELSE <<>>)
                   \o capped.tail,
        !.finished = TRUE]

-----------------------------------------------------------------------------
(* The run.                                                                *)

\* File::create empties the log of an earlier run of the same candidate.
StartGate(cap) ==
    /\ log' = NewLog(cap)
    /\ \E bytes \in 0..MaxOutput :
          shell' = [NoShell EXCEPT !.running = TRUE, !.printed = bytes,
                                   !.unread = bytes]

GateExits ==
    /\ shell.running /\ shell.unread = 0
    /\ \E verdict \in {"passed", "failed"} :
          shell' = [shell EXCEPT !.running = FALSE, !.ends = verdict]
    /\ UNCHANGED log

\* A signal sent to the worker's process group reaches the gate, which stays
\* in that group: it prints no more than it had.
GateSignalled ==
    /\ shell.running
    /\ \E unread \in 0..shell.unread :
          shell' = [shell EXCEPT !.running = FALSE, !.ends = "signalled",
                                 !.printed = @ - (shell.unread - unread),
                                 !.unread = unread]
    /\ UNCHANGED log

\* One read, of as much as there is, up to the size of the buffer.
ReadOutput ==
    /\ \E size \in 1..Min({shell.unread, MaxChunk}) :
          LET from == shell.printed - shell.unread
          IN  /\ log' = Take(log, [i \in 1..size |-> from + i])
              /\ shell' = [shell EXCEPT !.unread = @ - size]

\* End of file: the log is completed, and the shell waited for.
FinishGate ==
    /\ ~shell.running /\ shell.unread = 0
    /\ log' = Finish(log)
    /\ UNCHANGED shell

-----------------------------------------------------------------------------
\* What a log ought to be, whatever the reads returned: all of the output, or
\* its two ends with the number of bytes between them.
BothEnds(printed, cap) ==
    LET half == Half(cap)
        Bytes(from, to) == [i \in 1..(to - from + 1) |-> from + i - 1]
    IN  IF printed <= 2 * half THEN Bytes(1, printed)
        ELSE Bytes(1, half) \o <<2 * half - printed>>
                            \o Bytes(printed - half + 1, printed)
=============================================================================
