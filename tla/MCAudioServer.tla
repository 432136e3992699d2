--------------------------- MODULE MCAudioServer ---------------------------
(* AudioServer with a small set of client allocations.                     *)
EXTENDS AudioServer, TLC

ClientSymmetry == Permutations(Clients)
=============================================================================
