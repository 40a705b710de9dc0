------------------------------- MODULE Lease -------------------------------
(***************************************************************************)
(* The worker lease (src/queue/lease.rs): one row of worker_lease.         *)
(*                                                                         *)
(* Time is kept as two answers the code reads off the row and off the      *)
(* process table: whether expires_at has passed, and whether a process     *)
(* with the recorded pid answers kill(pid, 0).  A token is minted from the *)
(* pid and the time, so it is the worker and one of two acquisition times, *)
(* never the one the row still carries.                                    *)
(***************************************************************************)
EXTENDS Naturals

CONSTANTS
    Worker,   \* worker processes
    NoLease   \* there is no row

Token == [pid : Worker, at : {0, 1}]
LeaseRow == [token : Token, lapsed : BOOLEAN, present : BOOLEAN]

ASSUME LeaseAssumption == NoLease \notin LeaseRow

VARIABLE lease

LeaseTypeOK == lease \in LeaseRow \cup {NoLease}
LeaseInit == lease = NoLease

\* mint_token: the pid separates processes, the time one process's
\* successive acquisitions.
Mint(w) ==
    LET first == [pid |-> w, at |-> 0]
    IN  IF lease # NoLease /\ lease.token = first
        THEN [first EXCEPT !.at = 1]
        ELSE first

NewLease(w) == [token |-> Mint(w), lapsed |-> FALSE, present |-> TRUE]

\* Mutants: the answer of kill(pid, 0) read the wrong way round, and a
\* present pid that does extend a lease.
ReclaimableIfPresent == lease # NoLease /\ (lease.lapsed \/ lease.present)
ReclaimableOnlyIfGone == lease # NoLease /\ ~lease.present

\* What acquire finds: no row, or a row it may take over.  Otherwise the
\* lease is held and the tick is over.
LeaseFree == lease = NoLease
LeaseReclaimable == lease # NoLease /\ (lease.lapsed \/ ~lease.present)

\* release and renew are conditional on the token.
Owns(token) == lease # NoLease /\ lease.token = token
Released(token) == IF Owns(token) THEN NoLease ELSE lease

\* liveness: what kill(pid, 0) will say once worker w is gone.  The pid may
\* have been handed to another process, which then looks present.
AfterDeathOf(w, reused) ==
    IF lease # NoLease /\ lease.token.pid = w
    THEN [lease EXCEPT !.present = lease.present /\ reused]
    ELSE lease

\* expires_at passes.
Lapse ==
    /\ lease # NoLease
    /\ ~lease.lapsed
    /\ lease' = [lease EXCEPT !.lapsed = TRUE]
=============================================================================
