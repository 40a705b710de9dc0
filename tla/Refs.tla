--------------------------------- MODULE Refs ---------------------------------
(***************************************************************************)
(* Names of the base branch, and the checkouts that hold it (src/git/).    *)
(* A name is the sequence of its components: refs/heads/main is            *)
(* <<"refs", "heads", "main">>.                                            *)
(***************************************************************************)
EXTENDS Naturals, Sequences, SequencesExt

Heads == <<"refs", "heads">>

After(prefix, name) == SubSeq(name, Len(prefix) + 1, Len(name))

\* update-ref takes a name literally, so a short one is spelled out.
Qualified(name) == IF IsPrefix(<<"refs">>, name) THEN name ELSE Heads \o name

\* rev-parse looks under several prefixes in turn, so that it reads names
\* update-ref does not move.
Resolves(name, branches) ==
    \E prefix \in {<<>>, <<"refs">>, Heads} : prefix \o name \in branches

\* main and refs/heads/main name the same branch.
Normalised(name) ==
    IF IsStrictPrefix(Heads, name) THEN After(Heads, name) ELSE name

\* What git worktree list --porcelain prints of a worktree: a path, a commit
\* nobody asks for, and what it is on.
Lines(checkout) ==
    LET On == IF checkout.branch = <<>> THEN [key |-> "detached", value |-> <<>>]
              ELSE [key |-> "branch", value |-> checkout.branch]
    IN  <<[key |-> "worktree", value |-> checkout.path],
          [key |-> "HEAD", value |-> <<>>], On>>

Porcelain(checkouts) == FlattenSeq([i \in DOMAIN checkouts |-> Lines(checkouts[i])])

\* flush: the record at hand, if there is one, is complete.
Flushed(parse) ==
    IF parse.path = <<>> THEN parse
    ELSE [found |-> Append(parse.found, [path |-> parse.path,
                                         branch |-> parse.branch]),
          path |-> <<>>, branch |-> <<>>]

\* The record at hand is flushed when the next one starts.
WithLine(parse, line) ==
    CASE line.key = "worktree" -> [Flushed(parse) EXCEPT !.path = line.value]
      [] line.key = "branch" -> [parse EXCEPT !.branch = line.value]
      [] OTHER -> parse

\* parse_worktrees: line by line, and the last record is flushed at the end.
Worktrees(lines) ==
    LET parse[i \in 0..Len(lines)] ==
            IF i = 0 THEN [found |-> <<>>, path |-> <<>>, branch |-> <<>>]
            ELSE WithLine(parse[i - 1], lines[i])
    IN  Flushed(parse[Len(lines)]).found

\* Mutant: the name is compared as it was given on the command line.
HoldingLiterally(checkouts, name) ==
    {checkout.path : checkout \in
        {w \in ToSet(Worktrees(Porcelain(checkouts))) : w.branch = name}}

\* checkouts_holding: the checkouts that have the branch checked out.
Holding(checkouts, name) ==
    {checkout.path : checkout \in
        {w \in ToSet(Worktrees(Porcelain(checkouts))) :
            w.branch # <<>> /\ Normalised(w.branch) = Normalised(name)}}
=============================================================================
