---------------------------- MODULE MCBtServer ----------------------------
(* The Bluetooth server with one of the two "changed" flags.               *)
EXTENDS BtServer

MCFlags == {"track"}
=============================================================================
