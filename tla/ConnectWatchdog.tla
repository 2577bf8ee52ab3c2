--------------------------- MODULE ConnectWatchdog ---------------------------
(***************************************************************************)
(* The connect scan with a history: has the machine kept up so far?  On    *)
(* one that has, the watchdog of run_connect_scan_with_pool never stops a  *)
(* scan.                                                                   *)
(***************************************************************************)
EXTENDS ConnectScan

VARIABLE prompt     (* the machine has kept up at every tick so far       *)

timedVars == <<vars, prompt>>

TimedInit == Init /\ prompt = TRUE
TimedNext == \/ (System \/ Kernel \/ Over) /\ UNCHANGED prompt
             \/ Tick /\ prompt' = (prompt /\ KeptUp)
TimedSpec == TimedInit /\ [][TimedNext]_timedVars /\ Fairness

(* On a machine that keeps up the watchdog never fires: "no scan progress" *)
(* cannot come from timeouts, a full inflight window or a lack of          *)
(* descriptors.                                                            *)
WatchdogQuiet == prompt => ~stop
=============================================================================
