---------------------------- MODULE MCPlayerPage ----------------------------
(* The player page with a bounded queue of reports. *)
EXTENDS PlayerPage
=============================================================================
