------------------------------ MODULE PortScan ------------------------------
(***************************************************************************)
(* What a TCP port scan promises, whichever engine runs it: a requested    *)
(* port gets at most one verdict and keeps it, "open" is only said of a    *)
(* port the target accepted a connection on, and the one report returned   *)
(* agrees with the verdicts: its open list is exactly the ports found      *)
(* open, its counters count verdicts, and a report that does not say       *)
(* "skipped" covers every requested port (ScanStats and TcpOpen of         *)
(* port_scan.h).  Workers, sockets and time do not appear here.            *)
(***************************************************************************)
EXTENDS Naturals, FiniteSets

CONSTANTS Port,       (* the requested ports                           *)
          NoReport    (* the scan has not returned                     *)

VARIABLES accepted,   (* ports the target accepted a connection on     *)
          verdict,    (* what the scan has decided of each port        *)
          report      (* what the scan returned                        *)

scanVars == <<accepted, verdict, report>>

Verdict == {"none", "open", "timeout", "refused", "other"}

With(v) == {p \in Port : verdict[p] = v}

ScanInit == /\ accepted = {}
            /\ verdict = [p \in Port |-> "none"]
            /\ report = NoReport

(* The target accepts a connection; nothing tells the scan yet.            *)
Accept(p) == /\ report = NoReport
             /\ accepted' = accepted \cup {p}
             /\ UNCHANGED <<verdict, report>>

(* Ports are decided: one, or several at once when an engine gives up.     *)
Decide(S, v) == /\ report = NoReport
                /\ S # {}
                /\ \A p \in S : verdict[p] = "none"
                /\ v = "open" => S \subseteq accepted
                /\ verdict' = [p \in Port |-> IF p \in S THEN v ELSE verdict[p]]
                /\ UNCHANGED <<accepted, report>>

Report == /\ report = NoReport
          /\ \E skipped \in BOOLEAN :
                /\ With("none") # {} => skipped
                /\ report' = [open     |-> With("open"),
                              scanned  |-> Cardinality(Port \ With("none")),
                              timeouts |-> Cardinality(With("timeout")),
                              refused  |-> Cardinality(With("refused")),
                              other    |-> Cardinality(With("other")),
                              skipped  |-> skipped]
          /\ UNCHANGED <<accepted, verdict>>

ScanNext == \/ \E p \in Port : Accept(p)
            \/ \E S \in SUBSET Port, v \in Verdict \ {"none"} : Decide(S, v)
            \/ Report

ScanSpec == ScanInit /\ [][ScanNext]_scanVars
=============================================================================
