--------------------------- MODULE MCVideoMonitor ---------------------------
(* VideoMonitor with the bound of VideoMonitor.cfg.                        *)
EXTENDS VideoMonitor
=============================================================================
