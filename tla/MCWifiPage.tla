----------------------------- MODULE MCWifiPage -----------------------------
(* WifiPage with the bound of WifiPage.cfg.                                *)
EXTENDS WifiPage
=============================================================================
