------------------------------ MODULE MCListing ------------------------------
(***************************************************************************)
(* The instances of MCQueue, with someone looking at the queue.            *)
(***************************************************************************)
EXTENDS MCQueue, Listing
=============================================================================
