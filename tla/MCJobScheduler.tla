--------------------------- MODULE MCJobScheduler ---------------------------
(***************************************************************************)
(* JobScheduler with every policy, three events and a queue of two.  An    *)
(* interval takes the steps of an event source and is left out.            *)
(***************************************************************************)
EXTENDS JobScheduler
=============================================================================
