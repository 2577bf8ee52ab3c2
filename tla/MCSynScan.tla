----------------------------- MODULE MCSynScan ------------------------------
(* Three ports, two in flight, two source ports and a cursor that wraps    *)
(* after two: the tries are 4, 5, (wrap) 4, 3.  The third SYN gets 4 again *)
(* when the first is decided by then, 3 otherwise.  The first SYN may be   *)
(* answered twice, the others once.                                        *)
EXTENDS SynScan

MCPorts == <<1, 2, 3>>
MCAnswers == [p \in Port |-> IF p = 1 THEN 2 ELSE 1]
=============================================================================
