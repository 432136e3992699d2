----------------------------- MODULE MCBtPages -----------------------------
(* The Bluetooth pages with both flags.                            *)
EXTENDS BtPages

MCFlags == {"track", "pos"}
=============================================================================
