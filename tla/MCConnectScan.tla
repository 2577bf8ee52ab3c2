--------------------------- MODULE MCConnectScan ---------------------------
(* Instances of ConnectScan.  The shards are dealt out port by port, as    *)
(* run_connect_scan_with_pool does.                                        *)
EXTENDS ConnectScan

Dealt(w) == {p \in Port : (p - 1) % NWorkers = w}

MCShards == [w \in Workers |->
               [k \in 1..Cardinality(Dealt(w)) |-> (k - 1) * NWorkers + w + 1]]
=============================================================================
