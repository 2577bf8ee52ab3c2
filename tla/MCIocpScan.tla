----------------------------- MODULE MCIocpScan -----------------------------
(* Instances of IocpScan: three ports, two in flight.                      *)
EXTENDS IocpScan

MCPorts == <<1, 2, 3>>
=============================================================================
