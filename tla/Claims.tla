-------------------------------- MODULE Claims --------------------------------
(***************************************************************************)
(* Statements the repository makes about the queue that the code does not  *)
(* keep.  Each is quoted where it is made; the run that checks it shows    *)
(* how it fails.  They are kept apart from QueueProperties, whose          *)
(* statements hold.                                                        *)
(***************************************************************************)
EXTENDS QueueProperties

\* src/queue/lease.rs:42: "a worker whose lease was reclaimed underneath it
\* finds out rather than carrying on and merging".  Whoever moves the base
\* still owns the lease.
LandsOnlyUnderLease ==
    [][\A w \in Worker :
          wk[w].pc = "ff" /\ wk'[w].pc = "land" => Owns(wk[w].token)]_vars

\* src/queue/store.rs:235: a dequeued entry "is out of the queue and it did
\* not merge".
DequeuedStaysOut ==
    \A e \in EntryId :
        entry[e].reason = "by hand" => entry[e].state = "evicted"

\* README.md, "Either command can be interrupted safely": "its entries are
\* requeued, and nobody's retry budget is charged"; and its invariant 4: "Nor is
\* an entry charged for anything that was not its own doing".  An entry nothing
\* is wrong with has spent no attempt.
InterruptionIsFree ==
    Apart /\ ~GateCanFail(base) =>
        \A e \in EntryId : Innocent(entry[e].request) =>
            /\ entry[e].attempts = 0
            /\ entry[e].state = "evicted" => entry[e].reason = "by hand"
=============================================================================
