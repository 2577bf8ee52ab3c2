------------------------------ MODULE FullScan ------------------------------
(***************************************************************************)
(* run_full_target: the seven phases of a full scan, one port or probe at  *)
(* a time, and what each leaves in the report.  Something listens on each  *)
(* open port of the target (Servers); each exchange with it may fail at any*)
(* step, be left without an answer or bring one that is cut short.         *)
(***************************************************************************)
EXTENDS Verdict, SniCheck, J3Analysis, Probes

CONSTANTS
    Host,                               (* R.dns.host                      *)
    TlsPorts, HttpPorts, SocksPorts,    (* kTlsPorts, kHttpPorts, ...      *)
    SshPorts, J3Extra,                  (* 22, 2222, 22222; 80 and 8080    *)
    Orgs,                               (* AS organisations                *)
    (* what may listen on a port, and how it behaves: its replies to a     *)
    (* plain connection, GET, CONNECT and SOCKS5 greeting (hello, get,     *)
    (* connect, socks), the certificates it may show for each name (certs),*)
    (* its version of TLS (v13), its page over TLS and the replies to junk *)
    Servers, Is,
    SelfSigned, Fresh, Logged,          (* Certs, and the CT logs          *)
    Cut,                                (* what a reply cut short may be   *)
    (* bounds of the instance: what the resolver may answer, what may be   *)
    (* open with what behind it, and what the calls of a probe may meet    *)
    DnsAnswers, Targets, Tried, Turns, Reads, JunkLost

UdpPlans == {51820, 41641, 55555}
UdpSteps == {"socket", "connect", "send", "timeout", "unreachable", "error",
             "datagram", "empty datagram"}

ASSUME FullScanAssumption ==
    /\ TlsPorts \cap HttpPorts = {} /\ TlsPorts \cap SocksPorts = {}
    /\ HttpPorts \cap SocksPorts = {}
    /\ CdnOrgs \subseteq Orgs /\ DOMAIN Owns = Orgs
    /\ DOMAIN Covers = Certs /\ DOMAIN Brand = Certs
    /\ SelfSigned \cup Fresh \cup Logged \subseteq Certs
    /\ DOMAIN Is = Servers
    /\ \A srv \in {Is[s] : s \in Servers} : /\ {srv.connect, srv.socks} \subseteq DOMAIN Cut
                                         /\ srv.certs[Host] \subseteq Certs
    (* no cut makes a reply look like a proxy's that is not one            *)
    /\ \A r \in DOMAIN Cut : Cut[r] \cap {"granted", "socks5"} \subseteq {r}
    /\ \A t \in Targets : /\ t.open \in Seq(Nat)
                          /\ t.servers \in [ToSet(t.open) -> Servers]

VARIABLES
    phase,        (* what run_full_target is about to do                   *)
    options,      (* g_no_geoip and g_no_ct, when set                      *)
    dns,          (* R.dns                                                 *)
    orgs,         (* the asn_org of the lookups that succeeded             *)
    target,       (* what listens on each open port                        *)
    open,         (* R.open_tcp: a port asked for twice is there twice     *)
    udp,          (* the plans that were answered                          *)
    fps,          (* R.fps                                                 *)
    probed,       (* how many of fps the junk phase has been over          *)
    proxies,      (* history: ports whose answer as a proxy arrived        *)
    report        (* score, label, signals, stack and tier                 *)

vars == <<phase, options, dns, orgs, target, open, udp, fps, probed, proxies, report>>

NoDns    == [ips |-> <<>>, family |-> ""]
NoReport == [score |-> 100, label |-> "", strong |-> {}, soft |-> {},
             tier |-> "", stack |-> ""]

NoTls   == [ok |-> FALSE, v13 |-> FALSE, self_signed |-> FALSE, fresh |-> FALSE]

(* PortFp pf; pf.port = o.port                                             *)
NewFp(port) ==
    [port |-> port, service |-> "", tls |-> NoTls, sni |-> NothingKnown,
     https |-> NoHttps, ct |-> "none", j3a |-> NoJ3]

Init ==
    /\ phase = "dns"
    /\ options \in SUBSET {"no-geoip", "no-ct"}
    /\ dns = NoDns /\ orgs = {} /\ target = <<>> /\ open = <<>> /\ udp = {}
    /\ fps = <<>> /\ probed = 0 /\ proxies = {} /\ report = NoReport

-----------------------------------------------------------------------------
Resolve ==
    /\ phase = "dns"
    /\ \/ phase' = "failed" /\ UNCHANGED dns
       \/ /\ phase' = "geo"
          /\ \E answer \in DnsAnswers : dns' = ResolveHost(answer)
    /\ UNCHANGED <<options, orgs, target, open, udp, fps, probed, proxies, report>>

(* A lookup that fails adds nothing, and all of them may.                  *)
GeoIP ==
    /\ phase = "geo" /\ phase' = "tcp"
    /\ orgs' \in IF "no-geoip" \in options THEN {{}} ELSE SUBSET Orgs
    /\ UNCHANGED <<options, dns, target, open, udp, fps, probed, proxies, report>>

ScanTcp ==
    /\ phase = "tcp" /\ phase' = "udp"
    /\ \E t \in Targets : open' = t.open /\ target' = t.servers
    /\ UNCHANGED <<options, dns, orgs, udp, fps, probed, proxies, report>>

UdpResponses == {VpnProbe(random, step).responded : random \in BOOLEAN, step \in UdpSteps}

ProbeUdp ==
    /\ phase = "udp" /\ phase' = "fingerprint"
    /\ \E responded \in [UdpPlans -> UdpResponses] : udp' = {p \in UdpPlans : responded[p]}
    /\ UNCHANGED <<options, dns, orgs, target, open, fps, probed, proxies, report>>

-----------------------------------------------------------------------------
(* Phase 5.  All probes connect to the one address dns.primary_ip.         *)

(* The replies that one exchange may bring when the server's is r          *)
Heard(r) == {Exchange(tried, sent, got) :
                tried \in Tried, sent \in BOOLEAN, got \in {"none", r} \cup Cut[r]}

(* How one tls_probe for a name may end: the certificate, or Lost          *)
Shakes(srv, name) ==
    {IF TlsProbe(tried, setup, turns).ok THEN cert ELSE Lost :
        tried \in Tried, setup \in BOOLEAN, turns \in Turns, cert \in srv.certs[name]}
      \cup {Lost}

TlsOf(srv, cert) ==
    IF cert = Lost THEN NoTls
    ELSE [ok |-> TRUE, v13 |-> srv.v13, self_signed |-> cert \in SelfSigned,
          fresh |-> cert \in Fresh]

(* ct_check: the logs are asked about one certificate, or cannot be        *)
CtChecks(cert) == {"failed", IF cert \in Logged THEN "found" ELSE "absent"}

HttpsSeen(srv) ==
    {HttpsProbe(tried, shaken, written, reads, srv.page) :
        tried \in Tried, shaken \in BOOLEAN, written \in BOOLEAN, reads \in Reads}

(* Each probe that applies to a port may write pf.fp over what the one     *)
(* before it found.                                                        *)

Ssh(pf, fp) == IF pf.port \in SshPorts THEN [pf EXCEPT !.service = fp.service] ELSE pf

(* tls_probe; then, if it succeeded, the SNI check with handshakes of its  *)
(* own, the CT lookup for the certificate the check saw, and https_probe.  *)
Tls(pf, tls, base, entries, ct, https) ==
    IF pf.port \notin TlsPorts THEN pf
    ELSE IF ~tls.ok THEN [pf EXCEPT !.service = "TLS-FAIL", !.tls = tls]
    ELSE LET sc == SniConsistency(Host, base, entries)
         IN  [pf EXCEPT !.service = "TLS", !.tls = tls, !.sni = sc, !.https = https,
                        !.ct = IF "no-ct" \in options \/ sc.base = Lost THEN "none" ELSE ct]

(* (fault: the plain answer is written last)                               *)
HttpLast(pf, plain, proxy) ==
    IF pf.port \notin HttpPorts THEN pf
    ELSE IF plain.shown THEN [pf EXCEPT !.service = plain.service]
    ELSE IF proxy.service = "HTTP-PROXY" THEN [pf EXCEPT !.service = proxy.service] ELSE pf

(* fp_http_plain, if it has something to show, then fp_http_connect        *)
Http(pf, plain, proxy) ==
    IF pf.port \notin HttpPorts THEN pf
    ELSE IF proxy.service = "HTTP-PROXY" THEN [pf EXCEPT !.service = proxy.service]
    ELSE IF plain.shown THEN [pf EXCEPT !.service = plain.service] ELSE pf

Socks(pf, fp) == IF pf.port \in SocksPorts THEN [pf EXCEPT !.service = fp.service] ELSE pf

OrUnknown(pf) == IF pf.service = "" THEN [pf EXCEPT !.service = "unknown"] ELSE pf

(* A probe that is not made sees nothing.                                  *)
Asked(cond, S, none) == IF cond THEN S ELSE {none}

Fingerprint ==
    /\ phase = "fingerprint" /\ Len(fps) < Len(open)
    /\ LET port == open[Len(fps) + 1]
           srv  == Is[target[port]]
           web  == port \in HttpPorts
       IN  \E hello   \in Asked(port \in SshPorts, Heard(srv.hello), "none"),
              get     \in Asked(web, Heard(srv.get), "none"),
              connect \in Asked(web, Heard(srv.connect), "none"),
              socks   \in Asked(port \in SocksPorts, Heard(srv.socks), "none"),
              first   \in Asked(port \in TlsPorts, Shakes(srv, Host), Lost) :
           \E base    \in Asked(first # Lost, Shakes(srv, Host), Lost) :
           \E entries \in {e \in [DOMAIN AltSnis -> Certs \cup {Lost}] :
                              \A n \in DOMAIN AltSnis :
                                 e[n] \in Asked(base # Lost, Shakes(srv, AltSnis[n]), Lost)},
              ct      \in Asked(base # Lost, CtChecks(base), "none"),
              https   \in Asked(first # Lost, HttpsSeen(srv), NoHttps) :
              /\ fps' = Append(fps,
                     OrUnknown(Socks(Http(Tls(Ssh(NewFp(port), FpSsh(hello)),
                                              TlsOf(srv, first), base, entries, ct, https),
                                          FpHttpPlain(get), FpHttpConnect(connect)),
                                     FpSocks5(socks))))
              /\ proxies' = IF connect = "granted" \/ socks = "socks5"
                            THEN proxies \cup {port} ELSE proxies
    /\ UNCHANGED <<phase, options, dns, orgs, target, open, udp, probed, report>>

FingerprintDone ==
    /\ phase = "fingerprint" /\ Len(fps) = Len(open)
    /\ phase' = "junk"
    /\ UNCHANGED <<options, dns, orgs, target, open, udp, fps, probed, proxies, report>>

(* Phase 6, one port: j3_probes and j3_analyze, for ports that may be web  *)
Junk ==
    /\ phase = "junk" /\ probed < Len(fps)
    /\ LET n    == probed + 1
           junk == Is[target[fps[n].port]].junk
       IN  IF fps[n].port \in TlsPorts \cup J3Extra
           THEN \E lost \in JunkLost, drawn \in SUBSET NeedRandom :
                   fps' = [fps EXCEPT ![n].j3a = J3Analyze(J3Probes(
                              [p \in DOMAIN junk |-> IF p \in lost THEN Silent ELSE junk[p]],
                              drawn))]
           ELSE UNCHANGED fps
    /\ probed' = probed + 1
    /\ UNCHANGED <<phase, options, dns, orgs, target, open, udp, proxies, report>>

(* Phase 7                                                                 *)
Decide ==
    /\ phase = "junk" /\ probed = Len(fps)
    /\ report' = Judge(fps, udp, orgs, NoBrand)
    /\ phase' = "done"
    /\ UNCHANGED <<options, dns, orgs, target, open, udp, fps, probed, proxies>>

Next == Resolve \/ GeoIP \/ ScanTcp \/ ProbeUdp \/ Fingerprint \/ FingerprintDone
          \/ Junk \/ Decide

Spec == Init /\ [][Next]_vars /\ WF_vars(Next)

-----------------------------------------------------------------------------
(* Types, and one entry of fps for each open port, in order; no verdict    *)
(* before the last of them has been probed.                                *)
TypeOK ==
    /\ phase \in {"dns", "failed", "geo", "tcp", "udp", "fingerprint", "junk", "done"}
    /\ orgs \subseteq Orgs /\ udp \subseteq UdpPlans
    /\ Len(fps) <= Len(open) /\ probed <= Len(fps)
    /\ \A n \in DOMAIN fps : fps[n].port = open[n] /\ fps[n].service # ""
    /\ phase = "done" => probed = Len(open)

Found(what) == \E s \in report.strong : s.what = what

(* A target called CLEAN gave at most one strong signal, and not one of a  *)
(* VPN: neither a WireGuard or AmneziaWG answer nor Reality steering.      *)
CleanIsQuiet ==
    report.label = "CLEAN" =>
       /\ Cardinality(report.strong) <= 1
       /\ ~Found("wireguard") /\ ~Found("amneziawg") /\ ~Found("reality")

(* On the network of a CDN nothing that a CDN does by itself, several      *)
(* certificates, foreign brands or forwarding headers, counts against it.  *)
CdnExcuses ==
    orgs \cap CdnOrgs # {} =>
       ~Found("reality") /\ ~Found("impersonation") /\ ~Found("leak")

(* A port whose answer as a proxy arrived puts the target in the highest   *)
(* tier, whatever the other probes of the port had written before or wrote *)
(* after.                                                                  *)
ProxyIsSeen ==
    phase = "done" /\ proxies # {} => report.tier = "IMMEDIATE BLOCK"

(* What the target is accused of by an answer is what it is, not what was  *)
(* lost or cut short on the way: a proxy does grant a CONNECT or speaks    *)
(* SOCKS5, a self-signed certificate is one it shows, and if it shows one  *)
(* certificate for its name, "fresh and in no CT log" is true of that one. *)
AccusedOfWhatItIs ==
    \A s \in report.strong :
       LET port == fps[s.at].port
           srv  == Is[target[port]]
       IN  /\ s.what = "proxy" => \/ port \in HttpPorts /\ srv.connect = "granted"
                                  \/ port \in SocksPorts /\ srv.socks = "socks5"
           /\ s.what = "self-signed" => srv.certs[Host] \cap SelfSigned # {}
           /\ s.what = "ct" => /\ srv.certs[Host] \cap Fresh # {}
                               /\ ~(srv.certs[Host] \subseteq Logged)
                               /\ (\E c \in Certs : srv.certs[Host] = {c}) =>
                                     srv.certs[Host] \cap Fresh \cap Logged = {}

(* Reality is never concluded from lost handshakes: enough foreign names   *)
(* were answered on that port, and its own certificate either is not for   *)
(* the host or is not the only one it shows.                               *)
RealityHasGrounds ==
    \A s \in report.strong : s.what = "reality" =>
       LET sc == fps[s.at].sni
           answered == {k \in DOMAIN sc.entries : sc.entries[k] # Lost}
       IN  /\ sc.base # Lost
           /\ Cardinality(answered) >= MinAnswered
           /\ \/ Host \notin Covers[sc.base]
              \/ \E k \in answered : sc.entries[k] # sc.base
=============================================================================
