------------------------- MODULE MCConnectScanDeep -------------------------
(* A deeper instance of ConnectScan, with the history of ConnectWatchdog.  *)
EXTENDS MCConnectScan, ConnectWatchdog
=============================================================================
