------------------------------ MODULE MCService ------------------------------
(***************************************************************************)
(* A small instance of Service for TLC.  A K is worth 2 and the largest    *)
(* size is 40, so that every unit, and what no longer fits, is reached.    *)
(***************************************************************************)
EXTENDS ServiceProperties

TwoCommands == {"work", "other"}

\* Of the four migrations, the third rebuilds a table it finds.
Third == {3}

Main == <<"refs", "heads", "main">>
Feature == <<"refs", "heads", "feature">>
Branches == {Main, Feature}

\* main, refs/heads/main, a spelling git reads and update-ref does not, and
\* a branch that does not exist.
Spellings == {<<"main">>, Main, <<"heads", "main">>, <<"gone">>}

On(path, branch) == [path |-> path, branch |-> branch]
Detached == On(<<"queue">>, <<>>)

\* The intended layout, and a developer who has the base checked out.
Layouts ==
    {<<On(<<"dev">>, Feature), Detached>>,
     <<Detached, On(<<"dev">>, Main), On(<<"old">>, <<>>)>>}

Written(number, suffix) == {[number |-> number, suffix |-> suffix]}

Plain ==
    [gate |-> "make", max_batch |-> {}, max_attempts |-> {},
     log_budget |-> {}, max_log_size |-> {}, on_settle |-> {}]

Sources ==
    {Plain,
     [Plain EXCEPT !.max_log_size = Written(1, "B"),
                   !.on_settle = {"tell"}],
     [Plain EXCEPT !.max_batch = {0}],
     [Plain EXCEPT !.log_budget = Written(1, "KB")],
     [Plain EXCEPT !.max_log_size = Written(7, "GB")]}
=============================================================================
