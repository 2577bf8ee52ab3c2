--------------------------- MODULE FullScanProofs ---------------------------
(***************************************************************************)
(* Proofs about FullScan.tla, for every target, every set of servers and   *)
(* organisations, and every way in which probes are lost or cut short: the *)
(* excuse of a CDN, the tier of a proxy, what accusations rest on, and the *)
(* verdict compared with that of a scan which lost less.                   *)
(*                                                                         *)
(* The verdict is a function of the evidence that is there at the end, so  *)
(* what has to be carried through the phases is what may be in an entry of *)
(* R.fps: that it still describes the server of its port (Honest), after   *)
(* probes have written over each other.                                    *)
(***************************************************************************)
EXTENDS FullScan, FiniteSetTheorems, WellFoundedInduction, TLAPS

(* All of an entry, for the EXCEPTs that the probes are.                   *)
IsEntry(pf) ==
    pf = [port |-> pf.port, service |-> pf.service, tls |-> pf.tls, sni |-> pf.sni,
          https |-> pf.https, ct |-> pf.ct, j3a |-> pf.j3a]

ProxyAt(port, srv) == \/ port \in HttpPorts /\ srv.connect = "granted"
                      \/ port \in SocksPorts /\ srv.socks = "socks5"

(* The SNI part is the conclusion from some handshakes.                    *)
Concluded(sc) ==
    \/ sc = NothingKnown
    \/ \E base \in Certs \cup {Lost}, entries \in [DOMAIN AltSnis -> Certs \cup {Lost}] :
          sc = SniConsistency(Host, base, entries)

TlsOfServer(tls, srv) ==
    \/ tls = NoTls
    \/ \E cert \in srv.certs[Host] : cert # Lost /\ tls = TlsOf(srv, cert)

(* What is in the entry of a port is true of the server behind it.         *)
Honest(pf, srv) ==
    /\ IsEntry(pf)
    /\ pf.service # ""
    /\ OpenProxy(pf) => ProxyAt(pf.port, srv)
    /\ TlsOfServer(pf.tls, srv)
    /\ pf.ct = "absent" => \E cert \in srv.certs[Host] : cert \notin Logged
    /\ Concluded(pf.sni)

Early == phase \in {"dns", "failed", "geo", "tcp"}

Entries ==
    /\ \E S : fps \in Seq(S)
    /\ \A n \in DOMAIN fps : fps[n].port = open[n] /\ Honest(fps[n], Is[target[open[n]]])

Proxies == \A p \in proxies : \E n \in DOMAIN fps : OpenProxy(fps[n])

Progress ==
    /\ Len(fps) <= Len(open) /\ probed \in 0..Len(fps)
    /\ phase \in {"dns", "failed", "geo", "tcp", "udp"} => fps = <<>> /\ proxies = {}
    /\ phase \in {"junk", "done"} => Len(fps) = Len(open)
    /\ phase = "done" => probed = Len(fps)

Reported == report = IF phase = "done" THEN Judge(fps, udp, orgs, NoBrand) ELSE NoReport

Target == /\ open \in Seq(Nat)
          /\ ~Early => target \in [ToSet(open) -> Servers]

Types == /\ phase \in {"dns", "failed", "geo", "tcp", "udp", "fingerprint", "junk", "done"}
         /\ orgs \subseteq Orgs /\ udp \subseteq UdpPlans

Inv == Types /\ Target /\ Progress /\ Entries /\ Proxies /\ Reported

-----------------------------------------------------------------------------
(* The probes of a port.                                                   *)

LEMMA SshKeeps ==
    ASSUME NEW pf, NEW fp, IsEntry(pf)
    PROVE  Ssh(pf, fp) = [port |-> pf.port,
                          service |-> IF pf.port \in SshPorts THEN fp.service ELSE pf.service,
                          tls |-> pf.tls, sni |-> pf.sni, https |-> pf.https,
                          ct |-> pf.ct, j3a |-> pf.j3a]
BY DEF Ssh, IsEntry

LEMMA SocksKeeps ==
    ASSUME NEW pf, NEW fp, IsEntry(pf)
    PROVE  Socks(pf, fp) = [port |-> pf.port,
                            service |-> IF pf.port \in SocksPorts THEN fp.service ELSE pf.service,
                            tls |-> pf.tls, sni |-> pf.sni, https |-> pf.https,
                            ct |-> pf.ct, j3a |-> pf.j3a]
BY DEF Socks, IsEntry

LEMMA HttpKeeps ==
    ASSUME NEW pf, NEW plain, NEW proxy, IsEntry(pf)
    PROVE  Http(pf, plain, proxy) =
              [port |-> pf.port,
               service |-> IF pf.port \notin HttpPorts THEN pf.service
                           ELSE IF proxy.service = "HTTP-PROXY" THEN proxy.service
                           ELSE IF plain.shown THEN plain.service ELSE pf.service,
               tls |-> pf.tls, sni |-> pf.sni, https |-> pf.https,
               ct |-> pf.ct, j3a |-> pf.j3a]
BY DEF Http, IsEntry

LEMMA TlsKeeps ==
    ASSUME NEW pf, NEW tls, NEW base, NEW entries, NEW ct, NEW https, IsEntry(pf),
           NEW sc, sc = SniConsistency(Host, base, entries),
           pf.port \in TlsPorts, tls.ok
    PROVE  Tls(pf, tls, base, entries, ct, https) =
              [port |-> pf.port, service |-> "TLS", tls |-> tls, sni |-> sc, https |-> https,
               ct |-> IF "no-ct" \in options \/ sc.base = Lost THEN "none" ELSE ct,
               j3a |-> pf.j3a]
<1>1. Tls(pf, tls, base, entries, ct, https) =
        [pf EXCEPT !.service = "TLS", !.tls = tls, !.sni = sc, !.https = https,
                   !.ct = IF "no-ct" \in options \/ sc.base = Lost THEN "none" ELSE ct]
  BY DEF Tls
<1> QED BY <1>1 DEF IsEntry

LEMMA TlsFails ==
    ASSUME NEW pf, NEW tls, NEW base, NEW entries, NEW ct, NEW https, IsEntry(pf),
           pf.port \in TlsPorts, ~tls.ok
    PROVE  Tls(pf, tls, base, entries, ct, https) =
              [port |-> pf.port, service |-> "TLS-FAIL", tls |-> tls, sni |-> pf.sni,
               https |-> pf.https, ct |-> pf.ct, j3a |-> pf.j3a]
BY DEF Tls, IsEntry

(* What one exchange brings of the two replies that make a proxy was the   *)
(* server's reply.                                                         *)
LEMMA HeardWhole ==
    ASSUME NEW r \in DOMAIN Cut, NEW got \in Heard(r), got \in {"granted", "socks5"}
    PROVE  got = r
BY FullScanAssumption DEF Heard, Exchange

LEMMA HandshakeGives ==
    ASSUME NEW srv, NEW name, NEW got \in Shakes(srv, name), got # Lost
    PROVE  got \in srv.certs[name]
BY DEF Shakes

(* The probes of one port, in the code's order, from a new entry.          *)
Probed(port, hello, get, connect, socks, tls, base, entries, ct, https) ==
    OrUnknown(Socks(Http(Tls(Ssh(NewFp(port), FpSsh(hello)), tls, base, entries, ct, https),
                         FpHttpPlain(get), FpHttpConnect(connect)), FpSocks5(socks)))

(* What an entry says of what the probes of its port saw.  A granted       *)
(* CONNECT and a SOCKS5 answer show, whatever the others wrote before or   *)
(* write after.                                                            *)
Tells(entry, port, connect, socks, tls, sc, https, ct) ==
    /\ IsEntry(entry) /\ entry.port = port
    /\ OpenProxy(entry) <=> \/ port \in HttpPorts /\ connect = "granted"
                            \/ port \in SocksPorts /\ socks = "socks5"
    /\ port \in TlsPorts /\ tls.ok =>
          /\ entry.tls = tls /\ entry.sni = sc /\ entry.https = https
          /\ entry.ct = IF "no-ct" \in options \/ sc.base = Lost THEN "none" ELSE ct
    /\ ~(port \in TlsPorts /\ tls.ok) =>
          /\ entry.tls = IF port \in TlsPorts THEN tls ELSE NoTls
          /\ entry.sni = NothingKnown /\ entry.https = NoHttps /\ entry.ct = "none"

LEMMA ProbedIs ==
    ASSUME NEW port, NEW hello, NEW get, NEW connect, NEW socks, NEW tls,
           NEW base, NEW entries, NEW ct, NEW https, NEW entry,
           entry = Probed(port, hello, get, connect, socks, tls, base, entries, ct, https),
           NEW sc, sc = SniConsistency(Host, base, entries)
    PROVE  /\ Tells(entry, port, connect, socks, tls, sc, https, ct)
           /\ entry.service # "" /\ entry.j3a = NoJ3
<1> DEFINE a == Ssh(NewFp(port), FpSsh(hello))
           b == Tls(a, tls, base, entries, ct, https)
           c == Http(b, FpHttpPlain(get), FpHttpConnect(connect))
           d == Socks(c, FpSocks5(socks))
           e == OrUnknown(d)
           logged == IF "no-ct" \in options \/ sc.base = Lost THEN "none" ELSE ct
<1>1. /\ IsEntry(a) /\ a.port = port /\ a.service \in {"", "SSH", "SSH?"}
      /\ a.tls = NoTls /\ a.sni = NothingKnown /\ a.https = NoHttps
      /\ a.ct = "none" /\ a.j3a = NoJ3
  <2>1. IsEntry(NewFp(port))
    BY DEF IsEntry, NewFp
  <2>2. a = [port |-> NewFp(port).port,
             service |-> IF NewFp(port).port \in SshPorts THEN FpSsh(hello).service
                         ELSE NewFp(port).service,
             tls |-> NewFp(port).tls, sni |-> NewFp(port).sni, https |-> NewFp(port).https,
             ct |-> NewFp(port).ct, j3a |-> NewFp(port).j3a]
    BY <2>1, SshKeeps
  <2>3. FpSsh(hello).service \in {"SSH", "SSH?"}
    BY DEF FpSsh
  <2> HIDE DEF a
  <2> QED BY <2>2, <2>3 DEF NewFp, IsEntry
<1> HIDE DEF a
<1>2. /\ IsEntry(b) /\ b.port = port /\ b.j3a = NoJ3
      /\ b.service \in {"", "SSH", "SSH?", "TLS", "TLS-FAIL"}
      /\ port \in TlsPorts /\ tls.ok =>
            b.tls = tls /\ b.sni = sc /\ b.https = https /\ b.ct = logged
      /\ ~(port \in TlsPorts /\ tls.ok) =>
            /\ b.tls = IF port \in TlsPorts THEN tls ELSE NoTls
            /\ b.sni = NothingKnown /\ b.https = NoHttps /\ b.ct = "none"
  <2>0. b = Tls(a, tls, base, entries, ct, https)
    OBVIOUS
  <2> HIDE DEF b, logged
  <2>1. CASE port \notin TlsPorts
    <3>1. b = a
      BY <1>1, <2>0, <2>1 DEF Tls
    <3> QED BY <1>1, <2>1, <3>1
  <2>2. CASE port \in TlsPorts /\ ~tls.ok
    <3>1. b = [port |-> a.port, service |-> "TLS-FAIL", tls |-> tls, sni |-> a.sni,
               https |-> a.https, ct |-> a.ct, j3a |-> a.j3a]
      <4>1. IsEntry(a) /\ a.port \in TlsPorts /\ ~tls.ok
        BY <1>1, <2>2
      <4> QED BY <2>0, <4>1, TlsFails
    <3> QED BY <1>1, <2>2, <3>1 DEF IsEntry
  <2>3. CASE port \in TlsPorts /\ tls.ok
    <3>1. b = [port |-> a.port, service |-> "TLS", tls |-> tls, sni |-> sc, https |-> https,
               ct |-> logged, j3a |-> a.j3a]
      <4>1. IsEntry(a) /\ a.port \in TlsPorts /\ tls.ok
        BY <1>1, <2>3
      <4> QED BY <2>0, <4>1, TlsKeeps DEF logged
    <3> QED BY <1>1, <2>3, <3>1 DEF IsEntry
  <2> QED BY <2>1, <2>2, <2>3
<1> HIDE DEF b
<1>3. /\ IsEntry(c) /\ c.port = port /\ c.service # "SOCKS5"
      /\ c.tls = b.tls /\ c.sni = b.sni /\ c.https = b.https /\ c.ct = b.ct /\ c.j3a = b.j3a
      /\ c.service = "HTTP-PROXY" <=> port \in HttpPorts /\ connect = "granted"
  <2>1. c = [port |-> port,
             service |-> IF port \notin HttpPorts THEN b.service
                         ELSE IF FpHttpConnect(connect).service = "HTTP-PROXY"
                              THEN FpHttpConnect(connect).service
                         ELSE IF FpHttpPlain(get).shown THEN FpHttpPlain(get).service
                         ELSE b.service,
             tls |-> b.tls, sni |-> b.sni, https |-> b.https, ct |-> b.ct, j3a |-> b.j3a]
    BY <1>2, HttpKeeps
  <2>2. FpHttpPlain(get).service \in {"HTTP?", "HTTP"}
    BY DEF FpHttpPlain
  <2>3. FpHttpConnect(connect).service = "HTTP-PROXY" <=> connect = "granted"
    BY DEF FpHttpConnect
  <2> HIDE DEF c
  <2> QED BY <1>2, <2>1, <2>2, <2>3 DEF IsEntry
<1> HIDE DEF c
<1>4. /\ IsEntry(d) /\ d.port = port
      /\ d.tls = b.tls /\ d.sni = b.sni /\ d.https = b.https /\ d.ct = b.ct /\ d.j3a = b.j3a
      /\ OpenProxy(d) <=> \/ port \in HttpPorts /\ connect = "granted"
                          \/ port \in SocksPorts /\ socks = "socks5"
  <2>1. d = [port |-> port,
             service |-> IF port \in SocksPorts THEN FpSocks5(socks).service ELSE c.service,
             tls |-> c.tls, sni |-> c.sni, https |-> c.https, ct |-> c.ct, j3a |-> c.j3a]
    BY <1>3, SocksKeeps
  <2>2. /\ FpSocks5(socks).service \in {"SOCKS5", "SOCKS4", "SOCKS?"}
        /\ FpSocks5(socks).service = "SOCKS5" <=> socks = "socks5"
    BY DEF FpSocks5
  <2> HIDE DEF d
  <2>3. port \in HttpPorts => port \notin SocksPorts
    BY FullScanAssumption
  <2> QED BY <1>3, <2>1, <2>2, <2>3 DEF IsEntry, OpenProxy
<1> HIDE DEF d
<1>5. /\ IsEntry(e) /\ e.port = port /\ e.service # ""
      /\ e.tls = b.tls /\ e.sni = b.sni /\ e.https = b.https /\ e.ct = b.ct /\ e.j3a = b.j3a
      /\ OpenProxy(e) <=> OpenProxy(d)
  BY <1>4 DEF OrUnknown, IsEntry, OpenProxy
<1> HIDE DEF e
<1>6. entry = e
  BY DEF e, d, c, b, a, Probed
<1>7. Tells(entry, port, connect, socks, tls, sc, https, ct)
  BY <1>2, <1>4, <1>5, <1>6 DEF Tells
<1>8. entry.service # "" /\ entry.j3a = NoJ3
  BY <1>2, <1>5, <1>6
<1> QED BY <1>7, <1>8

(* What the exchanges with a server may have brought.                      *)
Genuine(port, srv, connect, socks, tls, base, entries, ct) ==
    /\ port \in HttpPorts /\ connect = "granted" => srv.connect = "granted"
    /\ port \in SocksPorts /\ socks = "socks5" => srv.socks = "socks5"
    /\ TlsOfServer(tls, srv)
    /\ base \in Certs \cup {Lost} /\ entries \in [DOMAIN AltSnis -> Certs \cup {Lost}]
    /\ ct = "absent" => \E cert \in srv.certs[Host] : cert \notin Logged

LEMMA ProbedHonest ==
    ASSUME NEW port, NEW srv, NEW hello, NEW get, NEW connect, NEW socks, NEW tls,
           NEW base, NEW entries, NEW ct, NEW https,
           Genuine(port, srv, connect, socks, tls, base, entries, ct),
           NEW entry,
           entry = Probed(port, hello, get, connect, socks, tls, base, entries, ct, https)
    PROVE  /\ entry.port = port /\ Honest(entry, srv)
           /\ port \in HttpPorts /\ connect = "granted" => OpenProxy(entry)
           /\ port \in SocksPorts /\ socks = "socks5" => OpenProxy(entry)
<1> DEFINE sc == SniConsistency(Host, base, entries)
           logged == IF "no-ct" \in options \/ sc.base = Lost THEN "none" ELSE ct
<1>1. sc = SniConsistency(Host, base, entries) /\ Concluded(sc)
  BY DEF Genuine, Concluded
<1> HIDE DEF sc
<1>0. /\ Tells(entry, port, connect, socks, tls, sc, https, ct)
      /\ entry.service # "" /\ entry.j3a = NoJ3
  BY <1>1, ProbedIs
<1>2. /\ IsEntry(entry) /\ entry.port = port
      /\ OpenProxy(entry) <=> \/ port \in HttpPorts /\ connect = "granted"
                              \/ port \in SocksPorts /\ socks = "socks5"
      /\ port \in TlsPorts /\ tls.ok =>
            entry.tls = tls /\ entry.sni = sc /\ entry.ct = logged
      /\ ~(port \in TlsPorts /\ tls.ok) =>
            /\ entry.tls = IF port \in TlsPorts THEN tls ELSE NoTls
            /\ entry.sni = NothingKnown /\ entry.ct = "none"
  BY <1>0 DEF Tells
<1>3. logged = "absent" => ct = "absent"
  OBVIOUS
<1> HIDE DEF logged
<1>4. TlsOfServer(entry.tls, srv) /\ Concluded(entry.sni)
  BY <1>1, <1>2 DEF Genuine, TlsOfServer, Concluded
<1>5. entry.ct = "absent" => \E cert \in srv.certs[Host] : cert \notin Logged
  BY <1>2, <1>3 DEF Genuine
<1>6. OpenProxy(entry) => ProxyAt(entry.port, srv)
  BY <1>2 DEF ProxyAt, Genuine
<1> QED BY <1>0, <1>2, <1>4, <1>5, <1>6 DEF Honest

-----------------------------------------------------------------------------
(* Two facts about sequences.                                              *)

LEMMA Appended ==
    ASSUME NEW S, NEW s \in Seq(S), NEW e
    PROVE  /\ Append(s, e) \in Seq(S \cup {e})
           /\ Len(Append(s, e)) = Len(s) + 1 /\ Len(s) \in Nat
           /\ DOMAIN s = 1..Len(s) /\ DOMAIN Append(s, e) = 1..(Len(s) + 1)
           /\ \A n \in 1..Len(s) : Append(s, e)[n] = s[n]
           /\ Append(s, e)[Len(s) + 1] = e
<1>1. s \in Seq(S \cup {e})
  OBVIOUS
<1> QED BY <1>1

LEMMA Replaced ==
    ASSUME NEW S, NEW s \in Seq(S), NEW m \in 1..Len(s), NEW e
    PROVE  /\ [s EXCEPT ![m] = e] \in Seq(S \cup {e})
           /\ Len([s EXCEPT ![m] = e]) = Len(s)
           /\ DOMAIN [s EXCEPT ![m] = e] = 1..Len(s)
           /\ \A n \in 1..Len(s) : [s EXCEPT ![m] = e][n] = IF n = m THEN e ELSE s[n]
<1>1. s \in Seq(S \cup {e})
  OBVIOUS
<1> QED BY <1>1

-----------------------------------------------------------------------------
(* The invariant.                                                          *)

LEMMA InitInv == Init => Inv
<1> SUFFICES ASSUME Init PROVE Inv
  OBVIOUS
<1>1. Types /\ Target /\ Progress /\ Proxies /\ Reported
  BY DEF Init, Types, Target, Early, Progress, Proxies, Reported
<1>2. fps = <<>> /\ fps \in Seq({})
  BY DEF Init
<1>3. Entries
  BY <1>2 DEF Entries
<1> QED BY <1>1, <1>3 DEF Inv

(* The phases before anything listens, and those that add no entry.        *)
LEMMA NoEntryInv ==
    ASSUME Inv, Resolve \/ GeoIP \/ ProbeUdp \/ FingerprintDone \/ Decide
    PROVE  Inv'
<1>1. UNCHANGED <<target, open, fps, probed, proxies>>
  BY DEF Resolve, GeoIP, ProbeUdp, FingerprintDone, Decide
<1>2. Types'
  <2>1. (orgs \subseteq Orgs)'
    BY DEF Inv, Types, Resolve, GeoIP, ProbeUdp, FingerprintDone, Decide
  <2>2. (udp \subseteq UdpPlans)'
    BY DEF Inv, Types, Resolve, GeoIP, ProbeUdp, FingerprintDone, Decide
  <2>3. phase' \in {"failed", "geo", "tcp", "fingerprint", "junk", "done"}
    BY DEF Resolve, GeoIP, ProbeUdp, FingerprintDone, Decide
  <2> QED BY <2>1, <2>2, <2>3 DEF Types
<1>3. Target'
  BY <1>1 DEF Inv, Target, Early, Resolve, GeoIP, ProbeUdp, FingerprintDone, Decide
<1>4. Progress'
  BY <1>1 DEF Inv, Progress, Resolve, GeoIP, ProbeUdp, FingerprintDone, Decide
<1>5. Entries' /\ Proxies'
  BY <1>1 DEF Inv, Entries, Proxies
<1>6. Reported'
  BY <1>1 DEF Inv, Reported, Resolve, GeoIP, ProbeUdp, FingerprintDone, Decide
<1> QED BY <1>2, <1>3, <1>4, <1>5, <1>6 DEF Inv

LEMMA ScanTcpInv == ASSUME Inv, ScanTcp PROVE Inv'
<1>1. PICK t \in Targets : open' = t.open /\ target' = t.servers
  BY DEF ScanTcp
<1>2. t.open \in Seq(Nat) /\ t.servers \in [ToSet(t.open) -> Servers]
  BY FullScanAssumption
<1>3. fps = <<>> /\ fps' = <<>> /\ proxies' = {} /\ probed' = 0 /\ phase' = "udp"
  BY DEF Inv, Progress, ScanTcp
<1>4. Types'
  BY DEF Inv, Types, ScanTcp
<1>5. Target'
  BY <1>1, <1>2, <1>3 DEF Target
<1>6. Len(open') \in Nat
  BY <1>1, <1>2
<1>7. Progress'
  BY <1>3, <1>6 DEF Progress
<1>8. Entries' /\ Proxies'
  BY <1>3 DEF Inv, Entries, Proxies
<1>9. Reported'
  BY DEF Inv, Reported, ScanTcp
<1> QED BY <1>4, <1>5, <1>7, <1>8, <1>9 DEF Inv

LEMMA FingerprintInv == ASSUME Inv, Fingerprint PROVE Inv'
<1> DEFINE port == open[Len(fps) + 1]
           srv  == Is[target[port]]
           web  == port \in HttpPorts
<1>1. PICK S : fps \in Seq(S)
  BY DEF Inv, Entries
<1>2. /\ phase = "fingerprint" /\ Len(fps) < Len(open) /\ Len(fps) \in Nat
      /\ DOMAIN fps = 1..Len(fps)
      /\ UNCHANGED <<phase, options, dns, orgs, target, open, udp, probed, report>>
  BY <1>1 DEF Fingerprint
<1>3. srv \in {Is[s] : s \in Servers}
  <2>1. open \in Seq(Nat) /\ target \in [ToSet(open) -> Servers]
    BY <1>2 DEF Inv, Target, Early
  <2>2. Len(fps) + 1 \in DOMAIN open
    BY <1>2, <2>1
  <2>3. port \in ToSet(open)
    BY <2>2 DEF ToSet
  <2> QED BY <2>1, <2>3
<1>4. PICK hello   \in Asked(port \in SshPorts, Heard(srv.hello), "none"),
           get     \in Asked(web, Heard(srv.get), "none"),
           connect \in Asked(web, Heard(srv.connect), "none"),
           socks   \in Asked(port \in SocksPorts, Heard(srv.socks), "none"),
           first   \in Asked(port \in TlsPorts, Shakes(srv, Host), Lost) :
        \E base    \in Asked(first # Lost, Shakes(srv, Host), Lost) :
        \E entries \in {e \in [DOMAIN AltSnis -> Certs \cup {Lost}] :
                           \A n \in DOMAIN AltSnis :
                              e[n] \in Asked(base # Lost, Shakes(srv, AltSnis[n]), Lost)},
           ct      \in Asked(base # Lost, CtChecks(base), "none"),
           https   \in Asked(first # Lost, HttpsSeen(srv), NoHttps) :
           /\ fps' = Append(fps, Probed(port, hello, get, connect, socks,
                                        TlsOf(srv, first), base, entries, ct, https))
           /\ proxies' = IF connect = "granted" \/ socks = "socks5"
                         THEN proxies \cup {port} ELSE proxies
  BY DEF Fingerprint, Probed
<1>5. PICK base \in Asked(first # Lost, Shakes(srv, Host), Lost),
           entries \in [DOMAIN AltSnis -> Certs \cup {Lost}] :
        \E ct    \in Asked(base # Lost, CtChecks(base), "none"),
           https \in Asked(first # Lost, HttpsSeen(srv), NoHttps) :
           /\ fps' = Append(fps, Probed(port, hello, get, connect, socks,
                                        TlsOf(srv, first), base, entries, ct, https))
           /\ proxies' = IF connect = "granted" \/ socks = "socks5"
                         THEN proxies \cup {port} ELSE proxies
  BY <1>4
<1>6. PICK ct    \in Asked(base # Lost, CtChecks(base), "none"),
           https \in Asked(first # Lost, HttpsSeen(srv), NoHttps) :
           /\ fps' = Append(fps, Probed(port, hello, get, connect, socks,
                                        TlsOf(srv, first), base, entries, ct, https))
           /\ proxies' = IF connect = "granted" \/ socks = "socks5"
                         THEN proxies \cup {port} ELSE proxies
  BY <1>5
<1> DEFINE e == Probed(port, hello, get, connect, socks, TlsOf(srv, first), base, entries, ct, https)
<1> HIDE DEF port, srv
<1>7. /\ connect = "granted" => port \in HttpPorts /\ srv.connect = "granted"
      /\ socks = "socks5" => port \in SocksPorts /\ srv.socks = "socks5"
  <2>1. srv.connect \in DOMAIN Cut /\ srv.socks \in DOMAIN Cut
    BY <1>3, FullScanAssumption
  <2>2. connect = "granted" => port \in HttpPorts /\ connect \in Heard(srv.connect)
    BY DEF Asked
  <2>3. socks = "socks5" => port \in SocksPorts /\ socks \in Heard(srv.socks)
    BY DEF Asked
  <2> QED BY <2>1, <2>2, <2>3, HeardWhole
<1>8. /\ first # Lost => first \in srv.certs[Host]
      /\ base # Lost => base \in srv.certs[Host]
  BY HandshakeGives DEF Asked
<1>9. TlsOfServer(TlsOf(srv, first), srv)
  BY <1>8 DEF TlsOfServer, TlsOf
<1>10. ct = "absent" => \E cert \in srv.certs[Host] : cert \notin Logged
  BY <1>8 DEF Asked, CtChecks
<1>11. base \in Certs \cup {Lost}
  BY <1>3, <1>8, FullScanAssumption
<1>12. /\ e.port = port /\ Honest(e, srv)
       /\ connect = "granted" \/ socks = "socks5" => OpenProxy(e)
  <2> DEFINE tls == TlsOf(srv, first)
  <2>1. TlsOfServer(tls, srv)
    BY <1>9
  <2>2. e = Probed(port, hello, get, connect, socks, tls, base, entries, ct, https)
    OBVIOUS
  <2> HIDE DEF tls, e
  <2>3. Genuine(port, srv, connect, socks, tls, base, entries, ct)
    BY <1>7, <1>10, <1>11, <2>1 DEF Genuine
  <2>4. /\ e.port = port /\ Honest(e, srv)
        /\ port \in HttpPorts /\ connect = "granted" => OpenProxy(e)
        /\ port \in SocksPorts /\ socks = "socks5" => OpenProxy(e)
    BY <2>2, <2>3, ProbedHonest
  <2> QED BY <1>7, <2>4
<1> HIDE DEF e
<1>13. /\ fps' = Append(fps, e) /\ Len(fps') = Len(fps) + 1
       /\ fps' \in Seq(S \cup {e}) /\ DOMAIN fps' = 1..(Len(fps) + 1)
       /\ \A n \in 1..Len(fps) : fps'[n] = fps[n]
       /\ fps'[Len(fps) + 1] = e
  <2>1. fps' = Append(fps, e)
    BY <1>6 DEF e
  <2> QED BY <1>1, <2>1, Appended
<1>14. Entries'
  <2>1. ASSUME NEW n \in DOMAIN fps'
        PROVE  fps'[n].port = open[n] /\ Honest(fps'[n], Is[target[open[n]]])
    <3>1. CASE n \in 1..Len(fps)
      BY <1>2, <1>13, <3>1 DEF Inv, Entries
    <3>2. CASE n = Len(fps) + 1
      BY <1>12, <1>13, <3>2 DEF port, srv
    <3> QED BY <1>2, <1>13, <2>1, <3>1, <3>2
  <2>2. \E T : fps' \in Seq(T)
    BY <1>13
  <2>3. open' = open /\ target' = target
    BY <1>2
  <2> QED BY <2>1, <2>2, <2>3 DEF Entries
<1>15. Proxies'
  <2>1. ASSUME NEW p \in proxies
        PROVE  \E n \in DOMAIN fps' : OpenProxy(fps'[n])
    <3>1. PICK n \in DOMAIN fps : OpenProxy(fps[n])
      BY DEF Inv, Proxies
    <3>2. n \in DOMAIN fps' /\ fps'[n] = fps[n]
      BY <1>2, <1>13
    <3> QED BY <3>1, <3>2
  <2>2. proxies' # proxies => \E n \in DOMAIN fps' : OpenProxy(fps'[n])
    <3>1. Len(fps) + 1 \in DOMAIN fps'
      BY <1>2, <1>13
    <3> QED BY <1>6, <1>12, <1>13, <3>1
  <2> QED BY <2>1, <2>2, <1>6 DEF Proxies
<1>16. Types' /\ Target' /\ Reported'
  BY <1>2 DEF Inv, Types, Target, Early, Reported
<1>17. Progress'
  <2>1. Len(open) \in Nat /\ probed \in 0..Len(fps)
    BY DEF Inv, Target, Progress
  <2> QED BY <1>2, <1>13, <2>1 DEF Progress
<1> QED BY <1>14, <1>15, <1>16, <1>17 DEF Inv

LEMMA JunkInv == ASSUME Inv, Junk PROVE Inv'
<1>1. PICK S : fps \in Seq(S)
  BY DEF Inv, Entries
<1> DEFINE m == probed + 1
<1>2. /\ phase = "junk" /\ m \in 1..Len(fps) /\ probed' = m /\ Len(fps) \in Nat
      /\ DOMAIN fps = 1..Len(fps)
      /\ UNCHANGED <<phase, options, dns, orgs, target, open, udp, proxies, report>>
  BY <1>1 DEF Junk, Inv, Progress
<1>3. PICK e : \/ fps' = fps
               \/ /\ fps' = [fps EXCEPT ![m] = e]
                  /\ \E j : e = [fps[m] EXCEPT !.j3a = j]
  <2>1. CASE fps' = fps
    BY <2>1
  <2>2. ASSUME NEW j, fps' = [fps EXCEPT ![m].j3a = j]
        PROVE  fps' = [fps EXCEPT ![m] = [fps[m] EXCEPT !.j3a = j]]
    BY <2>2
  <2>3. fps' = fps \/ \E j : fps' = [fps EXCEPT ![m].j3a = j]
    BY DEF Junk, m
  <2> QED BY <2>1, <2>2, <2>3
<1> HIDE DEF m
<1>4. /\ Len(fps') = Len(fps) /\ DOMAIN fps' = DOMAIN fps /\ \E T : fps' \in Seq(T)
      /\ \A n \in DOMAIN fps :
            fps'[n] = fps[n] \/ \E j : fps'[n] = [fps[n] EXCEPT !.j3a = j]
  <2>1. CASE fps' = fps
    BY <1>1, <2>1
  <2>2. CASE /\ fps' = [fps EXCEPT ![m] = e]
             /\ \E j : e = [fps[m] EXCEPT !.j3a = j]
    <3>1. /\ fps' \in Seq(S \cup {e}) /\ Len(fps') = Len(fps)
          /\ DOMAIN fps' = 1..Len(fps)
          /\ \A n \in 1..Len(fps) : fps'[n] = IF n = m THEN e ELSE fps[n]
      BY <1>1, <1>2, <2>2, Replaced
    <3> QED BY <1>2, <2>2, <3>1
  <2> QED BY <1>3, <2>1, <2>2
<1>5. ASSUME NEW n \in DOMAIN fps
      PROVE  /\ fps'[n].port = open[n]
             /\ Honest(fps'[n], Is[target[open[n]]])
             /\ OpenProxy(fps[n]) => OpenProxy(fps'[n])
  <2>1. fps[n].port = open[n] /\ Honest(fps[n], Is[target[open[n]]])
    BY DEF Inv, Entries
  <2>2. CASE fps'[n] = fps[n]
    BY <2>1, <2>2
  <2>3. ASSUME NEW j, fps'[n] = [fps[n] EXCEPT !.j3a = j]
        PROVE  /\ IsEntry(fps'[n]) /\ fps'[n].port = fps[n].port
               /\ fps'[n].service = fps[n].service /\ fps'[n].tls = fps[n].tls
               /\ fps'[n].sni = fps[n].sni /\ fps'[n].ct = fps[n].ct
    BY <2>1, <2>3 DEF Honest, IsEntry
  <2> QED BY <1>4, <2>1, <2>2, <2>3 DEF Honest, OpenProxy
<1>6. Entries'
  BY <1>2, <1>4, <1>5 DEF Entries
<1>7. Proxies'
  BY <1>2, <1>4, <1>5 DEF Inv, Proxies
<1>8. Types' /\ Target' /\ Reported'
  BY <1>2 DEF Inv, Types, Target, Early, Reported
<1>9. Progress'
  BY <1>2, <1>4 DEF Inv, Progress
<1> QED BY <1>6, <1>7, <1>8, <1>9 DEF Inv

LEMMA Stutter == ASSUME Inv, UNCHANGED vars PROVE Inv'
BY DEF Inv, vars, Types, Target, Early, Progress, Entries, Proxies, Reported

THEOREM Invariance == Spec => []Inv
<1>1. Inv /\ [Next]_vars => Inv'
  BY NoEntryInv, ScanTcpInv, FingerprintInv, JunkInv, Stutter DEF Next
<1> QED BY InitInv, <1>1, PTL DEF Spec

-----------------------------------------------------------------------------
(* Types, and one entry for each open port, in order, when the verdict is  *)
(* made.                                                                   *)
THEOREM FullTypeCorrect == Spec => []TypeOK
<1>1. Inv => TypeOK
  <2> SUFFICES ASSUME Inv PROVE TypeOK
    OBVIOUS
  <2>1. \A n \in DOMAIN fps : fps[n].port = open[n] /\ fps[n].service # ""
    BY DEF Inv, Entries, Honest
  <2>2. Len(open) \in Nat /\ Len(fps) \in Nat
    BY DEF Inv, Target, Entries
  <2>3. /\ phase \in {"dns", "failed", "geo", "tcp", "udp", "fingerprint", "junk", "done"}
        /\ orgs \subseteq Orgs /\ udp \subseteq UdpPlans
    BY DEF Inv, Types
  <2>4. Len(fps) <= Len(open) /\ probed <= Len(fps)
    BY <2>2 DEF Inv, Progress
  <2>5. phase = "done" => probed = Len(open)
    BY <2>2 DEF Inv, Progress
  <2> QED BY Zenon, <2>1, <2>3, <2>4, <2>5 DEF TypeOK
<1> QED BY <1>1, Invariance, PTL

(* The signals of a report.                                                *)
LEMMA SignalsOf ==
    ASSUME Inv, NEW s \in report.strong
    PROVE  \/ s.what \in {"wireguard", "amneziawg"}
           \/ \E n \in DOMAIN fps : s \in Strong(n, fps[n], orgs, NoBrand)
<1>1. CASE phase # "done"
  BY <1>1 DEF Inv, Reported, NoReport
<1>2. CASE phase = "done"
  <2>1. report.strong = UdpStrong(udp)
            \cup UNION {Strong(n, fps[n], orgs, NoBrand) : n \in DOMAIN fps}
    BY <1>2 DEF Inv, Reported, Judge
  <2>2. CASE s \in UdpStrong(udp)
    BY <2>2 DEF UdpStrong, When, Signal
  <2>3. CASE s \in UNION {Strong(n, fps[n], orgs, NoBrand) : n \in DOMAIN fps}
    BY <2>3
  <2> QED BY <2>1, <2>2, <2>3
<1> QED BY <1>1, <1>2

(* What a strong signal of an entry says of it.                            *)
LEMMA StrongMeans ==
    ASSUME NEW n, NEW pf, NEW s \in Strong(n, pf, orgs, NoBrand)
    PROVE  /\ s.at = n
           /\ s.what \notin {"wireguard", "amneziawg"}
           /\ s.what = "proxy" => OpenProxy(pf)
           /\ s.what = "self-signed" => pf.tls.ok /\ pf.tls.self_signed
           /\ s.what = "ct" => CtAbsentFresh(pf)
           /\ s.what = "reality" => Reality(pf, orgs)
           /\ s.what = "impersonation" => Impersonation(pf, orgs, NoBrand)
           /\ s.what = "leak" => ~CdnLb(pf, orgs)
<1>1. \/ OpenProxy(pf) /\ s = Signal("proxy", n, 15)
      \/ pf.tls.ok /\ pf.tls.self_signed /\ s = Signal("self-signed", n, 8)
      \/ Reality(pf, orgs) /\ \E x : s = Signal("reality", n, x)
      \/ Impersonation(pf, orgs, NoBrand) /\ s = Signal("impersonation", n, 18)
      \/ s = Signal("bad-version", n, 14)
      \/ ~CdnLb(pf, orgs) /\ s = Signal("leak", n, 10)
      \/ CtAbsentFresh(pf) /\ s = Signal("ct", n, 10)
      \/ s = Signal("canned", n, 12)
      \/ s = Signal("j3-version", n, 12)
  BY Zenon DEF Strong, When
<1>2. \A what, x : /\ Signal(what, n, x).what = what
                   /\ Signal(what, n, x).at = n
  BY DEF Signal
<1>3. CASE OpenProxy(pf) /\ s = Signal("proxy", n, 15)
  BY <1>2, <1>3
<1>4. CASE pf.tls.ok /\ pf.tls.self_signed /\ s = Signal("self-signed", n, 8)
  BY <1>2, <1>4
<1>5. CASE Reality(pf, orgs) /\ \E x : s = Signal("reality", n, x)
  BY <1>2, <1>5
<1>6. CASE Impersonation(pf, orgs, NoBrand) /\ s = Signal("impersonation", n, 18)
  BY <1>2, <1>6
<1>7. CASE ~CdnLb(pf, orgs) /\ s = Signal("leak", n, 10)
  BY <1>2, <1>7
<1>8. CASE CtAbsentFresh(pf) /\ s = Signal("ct", n, 10)
  BY <1>2, <1>8
<1>9. CASE \/ s = Signal("bad-version", n, 14) \/ s = Signal("canned", n, 12)
          \/ s = Signal("j3-version", n, 12)
  <2>1. s.at = n /\ s.what \in {"bad-version", "canned", "j3-version"}
    <3>1. CASE s = Signal("bad-version", n, 14)
      BY <1>2, <3>1
    <3>2. CASE s = Signal("canned", n, 12)
      BY <1>2, <3>2
    <3>3. CASE s = Signal("j3-version", n, 12)
      BY <1>2, <3>3
    <3> QED BY <1>9, <3>1, <3>2, <3>3
  <2>2. s.what \notin {"wireguard", "amneziawg", "proxy", "self-signed", "ct", "reality",
                     "impersonation", "leak"}
    BY <2>1
  <2> QED BY <2>1, <2>2
<1> QED BY Zenon, <1>1, <1>3, <1>4, <1>5, <1>6, <1>7, <1>8, <1>9

(* On the network of a CDN neither several certificates nor foreign brands *)
(* nor forwarding headers count against the target, whatever was found.    *)
THEOREM CdnAlwaysExcuses == Spec => []CdnExcuses
<1>1. Inv => CdnExcuses
  <2> SUFFICES ASSUME Inv, orgs \cap CdnOrgs # {}, NEW s \in report.strong
               PROVE  s.what \notin {"reality", "impersonation", "leak"}
    BY DEF CdnExcuses, Found
  <2>1. CASE s.what \in {"wireguard", "amneziawg"}
    BY <2>1
  <2>2. ASSUME NEW n \in DOMAIN fps, s \in Strong(n, fps[n], orgs, NoBrand)
        PROVE  s.what \notin {"reality", "impersonation", "leak"}
    BY <2>2, StrongMeans DEF Reality, Impersonation, CdnLb
  <2> QED BY <2>1, <2>2, SignalsOf
<1> QED BY <1>1, Invariance, PTL

LEMMA ProxyRules ==
    ASSUME NEW a \in Nat, NEW b \in Nat, a > 0
    PROVE  Tier(a, b) = "IMMEDIATE BLOCK"
<1>1. a # 0
  OBVIOUS
<1> QED BY <1>1 DEF Tier

(* A proxy whose answer arrived is in the verdict, whichever probes came   *)
(* after it.                                                               *)
THEOREM ProxyAlwaysSeen == Spec => []ProxyIsSeen
<1>1. Inv => ProxyIsSeen
  <2> SUFFICES ASSUME Inv, phase = "done", NEW p \in proxies
               PROVE  report.tier = "IMMEDIATE BLOCK"
    BY DEF ProxyIsSeen
  <2>1. PICK n \in DOMAIN fps : OpenProxy(fps[n])
    BY DEF Inv, Proxies
  <2>2. \E pf \in {fps[k] : k \in DOMAIN fps} : OpenProxy(pf)
    BY <2>1
  <2> DEFINE pfs == {fps[k] : k \in DOMAIN fps}
             a == Rule(51820 \in udp) + Rule(55555 \in udp)
                    + Rule(\E pf \in pfs : OpenProxy(pf))
             b == Rule(\E pf \in pfs : Reality(pf, orgs))
                    + Rule(\E pf \in pfs : Impersonation(pf, orgs, NoBrand))
                    + Rule(\E pf \in pfs : Canned(pf) \/ BadVersion(pf))
  <2>3. a \in Nat /\ a > 0 /\ b \in Nat
    BY <2>2 DEF Rule
  <2>4. report = Judge(fps, udp, orgs, NoBrand)
    BY DEF Inv, Reported
  <2>5. Judge(fps, udp, orgs, NoBrand).tier = Tier(a, b)
    BY DEF Judge
  <2> HIDE DEF a, b
  <2>6. Tier(a, b) = "IMMEDIATE BLOCK"
    BY <2>3, ProxyRules
  <2> QED BY <2>4, <2>5, <2>6
<1> QED BY <1>1, Invariance, PTL

(* Reality is never concluded from lost handshakes.                        *)
THEOREM RealityAlwaysHasGrounds == Spec => []RealityHasGrounds
<1>1. Inv => RealityHasGrounds
  <2> DEFINE Grounds(sc) ==
               LET answered == {k \in DOMAIN sc.entries : sc.entries[k] # Lost}
               IN  /\ sc.base # Lost
                   /\ Cardinality(answered) >= MinAnswered
                   /\ \/ Host \notin Covers[sc.base]
                      \/ \E k \in answered : sc.entries[k] # sc.base
  <2>1. ASSUME NEW base, NEW entries, SniConsistency(Host, base, entries).reality_like
        PROVE  Grounds(SniConsistency(Host, base, entries))
    BY <2>1 DEF SniConsistency, NothingKnown, Enough
  <2> SUFFICES ASSUME Inv, NEW s \in report.strong, s.what = "reality"
               PROVE  Grounds(fps[s.at].sni)
    BY DEF RealityHasGrounds
  <2>2. PICK n \in DOMAIN fps : s \in Strong(n, fps[n], orgs, NoBrand)
    BY SignalsOf
  <2>3. s.at = n /\ fps[n].sni.reality_like
    BY <2>2, StrongMeans DEF Reality
  <2>4. Concluded(fps[n].sni)
    BY DEF Inv, Entries, Honest
  <2>5. ~NothingKnown.reality_like
    BY DEF NothingKnown
  <2> HIDE DEF Grounds
  <2> QED BY <2>1, <2>3, <2>4, <2>5 DEF Concluded
<1> QED BY <1>1, Invariance, PTL

(* What the target is accused of by an answer is what it is.               *)
THEOREM AlwaysAccusedOfWhatItIs == Spec => []AccusedOfWhatItIs
<1>1. Inv => AccusedOfWhatItIs
  <2> DEFINE Right(s, port, srv) ==
                /\ s.what = "proxy" => ProxyAt(port, srv)
                /\ s.what = "self-signed" => srv.certs[Host] \cap SelfSigned # {}
                /\ s.what = "ct" => /\ srv.certs[Host] \cap Fresh # {}
                                    /\ ~(srv.certs[Host] \subseteq Logged)
                                    /\ (\E c \in Certs : srv.certs[Host] = {c}) =>
                                          srv.certs[Host] \cap Fresh \cap Logged = {}
  <2> SUFFICES ASSUME Inv, NEW s \in report.strong
               PROVE  Right(s, fps[s.at].port, Is[target[fps[s.at].port]])
    BY Zenon DEF AccusedOfWhatItIs, ProxyAt
  <2> SUFFICES ASSUME NEW n \in DOMAIN fps,
                      s \in Strong(n, fps[n], orgs, NoBrand),
                      NEW srv, srv = Is[target[fps[n].port]]
               PROVE  Right(s, fps[n].port, srv)
    <3>1. s.what \in {"wireguard", "amneziawg"}
             => s.what # "proxy" /\ s.what # "self-signed" /\ s.what # "ct"
      OBVIOUS
    <3>2. \A n \in DOMAIN fps : s \in Strong(n, fps[n], orgs, NoBrand) => s.at = n
      BY StrongMeans
    <3> QED BY <3>1, <3>2, SignalsOf, Zenon
  <2>1. Honest(fps[n], srv)
    BY DEF Inv, Entries
  <2>2. ASSUME fps[n].tls.ok
        PROVE  \E cert \in srv.certs[Host] :
                  /\ fps[n].tls.self_signed => cert \in SelfSigned
                  /\ fps[n].tls.fresh => cert \in Fresh
    <3>1. TlsOfServer(fps[n].tls, srv)
      BY <2>1 DEF Honest
    <3>2. fps[n].tls # NoTls
      BY <2>2 DEF NoTls
    <3>3. PICK cert \in srv.certs[Host] : cert # Lost /\ fps[n].tls = TlsOf(srv, cert)
      BY <3>1, <3>2 DEF TlsOfServer
    <3>4. fps[n].tls = [ok |-> TRUE, v13 |-> srv.v13, self_signed |-> cert \in SelfSigned,
                        fresh |-> cert \in Fresh]
      BY <3>3 DEF TlsOf
    <3>5. /\ fps[n].tls.self_signed = (cert \in SelfSigned)
          /\ fps[n].tls.fresh = (cert \in Fresh)
      BY <3>4
    <3> QED BY Zenon, <3>3, <3>5
  <2>3. s.what = "proxy" => ProxyAt(fps[n].port, srv)
    BY <2>1, StrongMeans DEF Honest
  <2>4. s.what = "self-signed" => srv.certs[Host] \cap SelfSigned # {}
    BY <2>2, StrongMeans
  <2>5. ASSUME s.what = "ct"
        PROVE  /\ \E young \in srv.certs[Host] : young \in Fresh
               /\ \E absent \in srv.certs[Host] : absent \notin Logged
    <3>1. CtAbsentFresh(fps[n])
      BY Zenon, <2>5, StrongMeans
    <3>2. fps[n].ct = "absent" /\ fps[n].tls.ok /\ fps[n].tls.fresh
      BY Zenon, <3>1 DEF CtAbsentFresh
    <3>3. \E young \in srv.certs[Host] : young \in Fresh
      BY Zenon, <2>2, <3>2
    <3>4. \E absent \in srv.certs[Host] : absent \notin Logged
      BY <2>1, <3>2 DEF Honest
    <3> QED BY Zenon, <3>3, <3>4
  <2> QED BY <2>3, <2>4, <2>5
<1> QED BY <1>1, Invariance, PTL

-----------------------------------------------------------------------------
(* The sum of the penalties.  MapThenSumSet is a recursive function over   *)
(* the subsets of its argument: that a function with this equation exists  *)
(* has to be shown before anything is known of its value.                  *)

First(s) == CHOOSE x \in s : TRUE

Sum(s, g) == IF s = {} THEN 0 ELSE First(s).penalty + g[s \ {First(s)}]

Adds(g, S) == g = [s \in SUBSET S |-> Sum(s, g)]

Total(S) == MapThenSumSet(LAMBDA s : s.penalty, S)

LEMMA TotalIs ==
    ASSUME NEW S
    PROVE  Total(S) = (CHOOSE g : Adds(g, S))[S]
  BY DEF Total, MapThenSumSet, MapThenFoldSet, Adds, Sum, First

LEMMA WithoutFirst ==
    ASSUME NEW S, IsFiniteSet(S), NEW s \in SUBSET S, s # {}
    PROVE  /\ First(s) \in s
           /\ s \ {First(s)} \in SUBSET S /\ s \ {First(s)} # s
           /\ Cardinality(s) \in Nat \ {0}
           /\ Cardinality(s \ {First(s)}) = Cardinality(s) - 1
<1>1. First(s) \in s
  BY DEF First
<1>2. IsFiniteSet(s)
  BY FS_Subset
<1>3. Cardinality(s) \in Nat \ {0}
  BY <1>2, FS_CardinalityType, FS_EmptySet
<1>4. Cardinality(s \ {First(s)}) = Cardinality(s) - 1
  BY <1>1, <1>2, FS_RemoveElement
<1> QED BY <1>1, <1>3, <1>4

LEMMA SmallestOf ==
    ASSUME NEW S, S \subseteq Nat, S # {}
    PROVE  \E i \in S : \A j \in S : i <= j
<1> DEFINE R == OpToRel(<, Nat)
<1>1. PICK i \in S : \A j \in S : ~(<<j, i>> \in R)
  <2>1. IsWellFoundedOn(R, Nat)
    BY NatLessThanWellFounded
  <2> HIDE DEF R
  <2> QED BY <2>1, WFMin
<1>2. \A j \in S : ~(j < i)
  BY <1>1 DEF OpToRel
<1> QED BY <1>2

(* Such a function exists on the subsets of at most n elements, for any n: *)
(* from one for n - 1 comes one for n.                                     *)
LEMMA SomeAdds ==
    ASSUME NEW S, IsFiniteSet(S)
    PROVE  \E g : Adds(g, S)
<1> DEFINE Upto(n) == {s \in SUBSET S : Cardinality(s) <= n}
           Has(n) == \E g : g = [s \in Upto(n) |-> Sum(s, g)]
           Without == {n \in Nat : ~Has(n)}
<1>1. ASSUME Without # {} PROVE FALSE
  <2>1. PICK n \in Without : \A m \in Without : n <= m
    <3> HIDE DEF Without
    <3>1. Without \subseteq Nat
      BY DEF Without
    <3> QED BY <1>1, <3>1, SmallestOf
  <2>2. CASE n = 0
    <3> DEFINE g == [s \in Upto(0) |-> 0]
    <3>1. ASSUME NEW s \in Upto(0) PROVE s = {}
      <4>1. s = {} \/ Cardinality(s) \in Nat \ {0}
        BY WithoutFirst
      <4> QED BY <4>1
    <3>2. g = [s \in Upto(0) |-> Sum(s, g)]
      BY <3>1 DEF Sum
    <3> HIDE DEF g
    <3> QED BY <2>1, <2>2, <3>2
  <2>3. CASE n # 0
    <3>1. n - 1 \in Nat /\ n - 1 \notin Without
      <4>1. n \in Nat
        BY <2>1
      <4> HIDE DEF Without
      <4> QED BY <2>1, <2>3, <4>1
    <3>2. PICK g : g = [s \in Upto(n - 1) |-> Sum(s, g)]
      BY <3>1
    <3> DEFINE h == [s \in Upto(n) |-> Sum(s, g)]
    <3>3. ASSUME NEW s \in Upto(n) PROVE Sum(s, g) = Sum(s, h)
      <4>1. CASE s = {}
        BY <4>1 DEF Sum
      <4>2. CASE s # {}
        <5> DEFINE u == s \ {First(s)}
        <5>1. u \in Upto(n - 1) /\ u \in Upto(n)
          <6>1. /\ u \in SUBSET S
                /\ Cardinality(s) \in Nat
                /\ Cardinality(u) = Cardinality(s) - 1
            BY <4>2, WithoutFirst
          <6> QED BY <2>1, <6>1
        <5>2. g[u] = Sum(u, g)
          BY <3>2, <5>1, Zenon
        <5>3. h[u] = Sum(u, g)
          BY <5>1
        <5> QED BY <4>2, <5>2, <5>3 DEF Sum
      <4> QED BY <4>1, <4>2
    <3>4. h = [s \in Upto(n) |-> Sum(s, h)]
      BY <3>3
    <3> HIDE DEF h
    <3> QED BY <2>1, <3>4
  <2> QED BY <2>2, <2>3
<1>2. Cardinality(S) \in Nat
  BY FS_CardinalityType
<1>3. Upto(Cardinality(S)) = SUBSET S
  BY FS_Subset
<1>4. Has(Cardinality(S))
  BY <1>1, <1>2
<1> QED BY <1>3, <1>4, Zenon DEF Adds

(* The sum is at least any one penalty, and any two of different signals.  *)
LEMMA TotalAtLeast ==
    ASSUME NEW S, IsFiniteSet(S), \A x \in S : x.penalty \in Nat
    PROVE  /\ Total(S) \in Nat
           /\ \A x \in S : Total(S) >= x.penalty
           /\ \A x, y \in S : x # y => Total(S) >= x.penalty + y.penalty
<1> DEFINE g == CHOOSE f : Adds(f, S)
           Right(s) == /\ g[s] \in Nat
                       /\ \A x \in s : g[s] >= x.penalty
                       /\ \A x, y \in s : x # y => g[s] >= x.penalty + y.penalty
           Wrong == {s \in SUBSET S : ~Right(s)}
<1>1. \A s \in SUBSET S : g[s] = Sum(s, g)
  <2>1. Adds(g, S)
    BY SomeAdds
  <2> HIDE DEF g
  <2> QED BY <2>1, Zenon DEF Adds
<1>2. Total(S) = g[S]
  BY TotalIs
<1> HIDE DEF g
<1>3. ASSUME Wrong # {} PROVE FALSE
  <2>1. PICK s \in Wrong : \A u \in Wrong : ~(<<u, s>> \in StrictSubsetOrdering(S))
    <3>1. IsWellFoundedOn(StrictSubsetOrdering(S), SUBSET S)
      BY FS_StrictSubsetOrderingWellFounded, FS_FiniteSubsetsOfFinite
    <3>2. Wrong \subseteq SUBSET S
      OBVIOUS
    <3> HIDE DEF Wrong
    <3> QED BY <1>3, <3>1, <3>2, WFMin
  <2>2. CASE s = {}
    <3>1. g[s] = 0
      BY <1>1, <2>2 DEF Sum
    <3> QED BY <2>1, <2>2, <3>1
  <2>3. CASE s # {}
    <3> DEFINE x == First(s)
               u == s \ {x}
    <3>1. x \in s /\ x \in S /\ u \in SUBSET S /\ u # s /\ s \in SUBSET S
      BY <2>1, <2>3, WithoutFirst
    <3>2. Right(u)
      <4>1. <<u, s>> \in StrictSubsetOrdering(S)
        BY <3>1 DEF StrictSubsetOrdering
      <4> QED BY <2>1, <3>1, <4>1
    <3>3. g[s] = x.penalty + g[u]
      BY <1>1, <2>3, <3>1 DEF Sum
    <3>4. x.penalty \in Nat /\ \A y \in s : y.penalty \in Nat
      BY <3>1
    <3> HIDE DEF x
    <3>5. g[s] \in Nat /\ g[s] >= x.penalty /\ g[s] >= g[u]
      BY <3>2, <3>3, <3>4
    <3>6. ASSUME NEW y \in s PROVE g[s] >= y.penalty
      <4>1. CASE y = x
        BY <3>5, <4>1
      <4>2. CASE y \in u
        <5>1. g[u] >= y.penalty /\ g[u] \in Nat
          BY <3>2, <4>2
        <5> QED BY <3>4, <3>5, <5>1
      <4> QED BY <4>1, <4>2
    <3>7. ASSUME NEW y \in s, NEW z \in s, y # z PROVE g[s] >= y.penalty + z.penalty
      <4>1. CASE y = x
        <5>1. g[u] >= z.penalty
          BY <3>2, <3>7, <4>1
        <5> QED BY <3>2, <3>3, <3>4, <4>1, <5>1
      <4>2. CASE z = x
        <5>1. g[u] >= y.penalty
          BY <3>2, <3>7, <4>2
        <5> QED BY <3>2, <3>3, <3>4, <4>2, <5>1
      <4>3. CASE y \in u /\ z \in u
        <5>1. g[u] >= y.penalty + z.penalty
          BY <3>2, <3>7, <4>3
        <5> QED BY <3>2, <3>4, <3>5, <5>1
      <4> QED BY <4>1, <4>2, <4>3
    <3> QED BY <2>1, <3>5, <3>6, <3>7
  <2> QED BY <2>2, <2>3
<1>4. Right(S)
  BY <1>3
<1> QED BY <1>2, <1>4

-----------------------------------------------------------------------------
(* What the signals weigh, and that there are finitely many.               *)

LEMMA StrongWeighs ==
    ASSUME NEW n, NEW pf, NEW o, NEW s \in Strong(n, pf, o, NoBrand)
    PROVE  s.penalty \in 8..20 /\ (s.what = "reality" => s.penalty >= 16)
<1>1. \/ s = Signal("proxy", n, 15) \/ s = Signal("self-signed", n, 8)
      \/ s = Signal("impersonation", n, 18) \/ s = Signal("bad-version", n, 14)
      \/ s = Signal("leak", n, 10) \/ s = Signal("ct", n, 10)
      \/ s = Signal("canned", n, 12) \/ s = Signal("j3-version", n, 12)
      \/ s = Signal("reality", n, 20) \/ s = Signal("reality", n, 16)
  BY Zenon DEF Strong, When
<1>2. CASE s = Signal("proxy", n, 15) \/ s = Signal("self-signed", n, 8)
  BY ONLY <1>2 DEF Signal
<1>3. CASE s = Signal("impersonation", n, 18) \/ s = Signal("bad-version", n, 14)
  BY ONLY <1>3 DEF Signal
<1>4. CASE s = Signal("leak", n, 10) \/ s = Signal("ct", n, 10)
  BY ONLY <1>4 DEF Signal
<1>5. CASE s = Signal("canned", n, 12) \/ s = Signal("j3-version", n, 12)
  BY ONLY <1>5 DEF Signal
<1>6. CASE s = Signal("reality", n, 20) \/ s = Signal("reality", n, 16)
  BY ONLY <1>6 DEF Signal
<1> QED BY <1>1, <1>2, <1>3, <1>4, <1>5, <1>6

LEMMA SoftWeighs ==
    ASSUME NEW n, NEW pf, NEW s \in Soft(n, pf)
    PROVE  s.penalty \in Nat
<1>1. \/ s = Signal("old-tls", n, 5) \/ s = Signal("no-http", n, 8)
      \/ s = Signal("no-server", n, 4) \/ s = Signal("raw", n, 6)
  BY Zenon DEF Soft, When
<1> QED BY ONLY <1>1 DEF Signal

LEMMA UdpWeighs ==
    ASSUME NEW u
    PROVE  /\ \A s \in UdpStrong(u) : s.penalty \in {22, 18}
           /\ \A s \in UdpSoft(u) : s.penalty = 4
  BY DEF UdpStrong, UdpSoft, When, Signal

LEMMA SmallFinite == IsFiniteSet({}) /\ \A x : IsFiniteSet({x})
  BY FS_EmptySet, FS_Singleton

LEMMA WhenFinite ==
    ASSUME NEW c, NEW s
    PROVE  IsFiniteSet(When(c, s))
  BY SmallFinite, Zenon DEF When

LEMMA BothFinite == \A S, T : IsFiniteSet(S) /\ IsFiniteSet(T) => IsFiniteSet(S \cup T)
  BY FS_Union

LEMMA SignalsFinite ==
    ASSUME NEW n, NEW pf, NEW o
    PROVE  IsFiniteSet(Strong(n, pf, o, NoBrand)) /\ IsFiniteSet(Soft(n, pf))
<1>1. \A R, S, T, U : /\ IsFiniteSet(R) /\ IsFiniteSet(S)
                     /\ IsFiniteSet(T) /\ IsFiniteSet(U)
                     => IsFiniteSet(R \cup S \cup T \cup U)
  BY ONLY BothFinite
<1>2. IsFiniteSet(Soft(n, pf))
  <2> DEFINE old    == When(pf.tls.ok /\ ~pf.tls.v13, Signal("old-tls", n, 5))
             mute   == When(pf.https.tls_ok /\ ~pf.https.responded, Signal("no-http", n, 8))
             silent == When(/\ pf.https.tls_ok /\ pf.https.responded
                            /\ ~pf.https.anomaly /\ ~pf.https.server,
                            Signal("no-server", n, 4))
             raw    == When(pf.j3a.raw_non_http >= 2 /\ pf.j3a.http_real = 0,
                            Signal("raw", n, 6))
  <2>1. Soft(n, pf) = old \cup mute \cup silent \cup raw
    BY Zenon DEF Soft
  <2>2. IsFiniteSet(old) /\ IsFiniteSet(mute) /\ IsFiniteSet(silent) /\ IsFiniteSet(raw)
    BY WhenFinite, Zenon
  <2> HIDE DEF old, mute, silent, raw
  <2>3. IsFiniteSet(old \cup mute \cup silent \cup raw)
    BY <2>2, <1>1, Zenon
  <2> QED BY <2>1, <2>3
<1>3. \A R, S, T, U, V : /\ IsFiniteSet(R) /\ IsFiniteSet(S) /\ IsFiniteSet(T)
                        /\ IsFiniteSet(U) /\ IsFiniteSet(V)
                        => IsFiniteSet(R \cup S \cup T \cup U \cup V)
  BY ONLY <1>1, BothFinite
<1>4. IsFiniteSet(Strong(n, pf, o, NoBrand))
  <2> DEFINE proxy  == When(OpenProxy(pf), Signal("proxy", n, 15))
             self   == When(pf.tls.ok /\ pf.tls.self_signed, Signal("self-signed", n, 8))
             steers == When(Reality(pf, o),
                            Signal("reality", n, IF pf.sni.passthrough_mode THEN 20 ELSE 16))
             brand  == When(Impersonation(pf, o, NoBrand), Signal("impersonation", n, 18))
             bad    == When(pf.https.tls_ok /\ pf.https.responded /\ pf.https.anomaly,
                            Signal("bad-version", n, 14))
             leak   == When(pf.https.tls_ok /\ pf.https.leak /\ ~CdnLb(pf, o),
                            Signal("leak", n, 10))
             ct     == When(CtAbsentFresh(pf), Signal("ct", n, 10))
             canned == When(Canned(pf), Signal("canned", n, 12))
             old    == When(BadVersion(pf), Signal("j3-version", n, 12))
             few    == proxy \cup self \cup steers \cup brand \cup bad
  <2>1. Strong(n, pf, o, NoBrand) = few \cup leak \cup ct \cup canned \cup old
    BY Zenon DEF Strong
  <2>2. IsFiniteSet(proxy) /\ IsFiniteSet(self) /\ IsFiniteSet(steers)
    BY SmallFinite, Zenon DEF When
  <2>3. IsFiniteSet(brand) /\ IsFiniteSet(bad)
    BY SmallFinite, Zenon DEF When
  <2>4. IsFiniteSet(leak) /\ IsFiniteSet(ct) /\ IsFiniteSet(canned) /\ IsFiniteSet(old)
    BY SmallFinite, Zenon DEF When
  <2> HIDE DEF proxy, self, steers, brand, bad, leak, ct, canned, old
  <2>5. IsFiniteSet(few)
    BY ONLY <1>3, <2>2, <2>3 DEF few
  <2> HIDE DEF few
  <2> QED BY ONLY <1>3, <2>1, <2>4, <2>5
<1> QED BY <1>2, <1>4

LEMMA UdpFinite == ASSUME NEW u PROVE IsFiniteSet(UdpStrong(u)) /\ IsFiniteSet(UdpSoft(u))
<1> DEFINE wg == 51820 \in u
           awg == 55555 \in u
           alt == 41641 \in u
<1>1. /\ UdpStrong(u) = When(wg, Signal("wireguard", 0, 22)) \cup When(awg, Signal("amneziawg", 0, 18))
      /\ UdpSoft(u) = When(alt, Signal("wireguard-alt", 0, 4))
  BY DEF UdpStrong, UdpSoft
<1> HIDE DEF wg, awg, alt
<1> QED BY <1>1, WhenFinite, BothFinite

(* A finite union of finite sets, one for each member of a finite set.     *)
LEMMA FamilyFinite ==
    ASSUME NEW S, IsFiniteSet(S), NEW F, F = [x \in S |-> F[x]],
           \A x \in S : IsFiniteSet(F[x])
    PROVE  IsFiniteSet(UNION {F[x] : x \in S})
<1> DEFINE T == {F[x] : x \in S}
<1>1. F \in Surjection(S, T)
  BY DEF Surjection
<1>2. IsFiniteSet(T)
  BY <1>1, FS_Surjection
<1> QED BY <1>2, FS_UNION

LEMMA LabelClean ==
    ASSUME NEW score \in Int, Label(score) = "CLEAN"
    PROVE  score >= 85
<1> SUFFICES ASSUME score < 85 PROVE FALSE
  OBVIOUS
<1>1. CASE score >= 70
  BY <1>1 DEF Label
<1>2. CASE score >= 50 /\ score < 70
  BY <1>2 DEF Label
<1>3. CASE score < 50
  BY <1>3 DEF Label
<1> QED BY <1>1, <1>2, <1>3

(* What a verdict is on such evidence                                      *)
StrongOf(f, u, o) == UdpStrong(u) \cup UNION {Strong(n, f[n], o, NoBrand) : n \in DOMAIN f}
SoftOf(f, u)      == UdpSoft(u) \cup UNION {Soft(n, f[n]) : n \in DOMAIN f}
AHits(f, u)       == LET pfs == {f[n] : n \in DOMAIN f}
                     IN  Rule(51820 \in u) + Rule(55555 \in u)
                            + Rule(\E pf \in pfs : OpenProxy(pf))
BHits(f, o)       == LET pfs == {f[n] : n \in DOMAIN f}
                     IN  Rule(\E pf \in pfs : Reality(pf, o))
                            + Rule(\E pf \in pfs : Impersonation(pf, o, NoBrand))
                            + Rule(\E pf \in pfs : Canned(pf) \/ BadVersion(pf))

LEMMA JudgeIs ==
    ASSUME NEW f, NEW u, NEW o
    PROVE  LET j == Judge(f, u, o, NoBrand)
           IN  /\ j.strong = StrongOf(f, u, o) /\ j.soft = SoftOf(f, u)
               /\ j.score = Max({0, 100 - Total(StrongOf(f, u, o) \cup SoftOf(f, u))})
               /\ j.label = Label(j.score)
               /\ j.tier = Tier(AHits(f, u), BHits(f, o))
<1> DEFINE j == Judge(f, u, o, NoBrand)
<1>1. j.strong = StrongOf(f, u, o) /\ j.soft = SoftOf(f, u)
  BY DEF Judge, StrongOf, SoftOf
<1>2. j.score = Max({0, 100 - Total(StrongOf(f, u, o) \cup SoftOf(f, u))})
  BY DEF Judge, StrongOf, SoftOf, Total, MapThenSumSet, MapThenFoldSet
<1>3. j.label = Label(j.score)
  BY DEF Judge, MapThenSumSet, MapThenFoldSet
<1>4. j.tier = Tier(AHits(f, u), BHits(f, o))
  BY DEF Judge, AHits, BHits
<1> QED BY <1>1, <1>2, <1>3, <1>4

(* The signals on finitely many entries have a sum.                        *)
LEMMA SignalsAddUp ==
    ASSUME NEW f, IsFiniteSet(DOMAIN f), NEW u, NEW o
    PROVE  /\ IsFiniteSet(StrongOf(f, u, o) \cup SoftOf(f, u))
           /\ \A s \in StrongOf(f, u, o) \cup SoftOf(f, u) : s.penalty \in Nat
<1> DEFINE strongs == [n \in DOMAIN f |-> Strong(n, f[n], o, NoBrand)]
           softs   == [n \in DOMAIN f |-> Soft(n, f[n])]
           S       == StrongOf(f, u, o) \cup SoftOf(f, u)
<1>1. IsFiniteSet(UNION {strongs[n] : n \in DOMAIN f})
  <2>1. \A n \in DOMAIN f : IsFiniteSet(strongs[n])
    BY SignalsFinite
  <2>2. strongs = [n \in DOMAIN f |-> strongs[n]]
    OBVIOUS
  <2> HIDE DEF strongs
  <2> QED BY <2>1, <2>2, FamilyFinite
<1>2. IsFiniteSet(UNION {softs[n] : n \in DOMAIN f})
  <2>1. \A n \in DOMAIN f : IsFiniteSet(softs[n])
    BY SignalsFinite
  <2>2. softs = [n \in DOMAIN f |-> softs[n]]
    OBVIOUS
  <2> HIDE DEF softs
  <2> QED BY <2>1, <2>2, FamilyFinite
<1>3. IsFiniteSet(S)
  <2>1. IsFiniteSet(UdpStrong(u)) /\ IsFiniteSet(UdpSoft(u))
    BY UdpFinite
  <2>2. UNION {strongs[n] : n \in DOMAIN f} = UNION {Strong(n, f[n], o, NoBrand) : n \in DOMAIN f}
    OBVIOUS
  <2>3. UNION {softs[n] : n \in DOMAIN f} = UNION {Soft(n, f[n]) : n \in DOMAIN f}
    OBVIOUS
  <2> QED BY <1>1, <1>2, <2>1, <2>2, <2>3, BothFinite DEF StrongOf, SoftOf
<1>4. ASSUME NEW s \in S PROVE s.penalty \in Nat
  <2>1. CASE s \in UdpStrong(u) \cup UdpSoft(u)
    <3>1. s.penalty \in {22, 18} \/ s.penalty = 4
      BY <2>1, UdpWeighs, Zenon
    <3> QED BY <3>1
  <2>2. CASE \E n \in DOMAIN f : s \in Strong(n, f[n], o, NoBrand)
    <3>1. s.penalty \in 8..20
      BY <2>2, StrongWeighs
    <3> QED BY <3>1
  <2>3. CASE \E n \in DOMAIN f : s \in Soft(n, f[n])
    BY <2>3, SoftWeighs
  <2> QED BY <2>1, <2>2, <2>3 DEF StrongOf, SoftOf
<1> QED BY <1>3, <1>4

LEMMA EntriesFinite == Inv => IsFiniteSet(DOMAIN fps)
<1> SUFFICES ASSUME Inv PROVE IsFiniteSet(DOMAIN fps)
  OBVIOUS
<1>1. DOMAIN fps = 1..Len(fps) /\ Len(fps) \in Nat
  BY DEF Inv, Entries
<1> QED BY <1>1, FS_Interval

(* The sum of the penalties of a verdict is that of its signals.           *)
LEMMA Scored ==
    ASSUME Inv, phase = "done"
    PROVE  \E S : /\ IsFiniteSet(S) /\ report.strong \subseteq S
                  /\ \A s \in S : s.penalty \in Nat
                  /\ report.score = Max({0, 100 - Total(S)})
                  /\ report.label = Label(report.score)
<1> DEFINE S == StrongOf(fps, udp, orgs) \cup SoftOf(fps, udp)
<1>1. report = Judge(fps, udp, orgs, NoBrand)
  BY DEF Inv, Reported
<1>2. /\ report.strong = StrongOf(fps, udp, orgs)
      /\ report.score = Max({0, 100 - Total(S)})
      /\ report.label = Label(report.score)
  BY <1>1, JudgeIs
<1>3. IsFiniteSet(S) /\ \A s \in S : s.penalty \in Nat
  BY EntriesFinite, SignalsAddUp
<1>4. report.strong \subseteq S
  BY <1>2
<1> HIDE DEF S
<1> QED BY <1>2, <1>3, <1>4

(* A target is only called CLEAN on at most one strong signal, and never   *)
(* on the answer of a WireGuard variant or on Reality steering, for any    *)
(* number of ports and whatever else was found: two strong penalties, or   *)
(* one of those, cost more than CLEAN leaves.                              *)
THEOREM CleanIsAlwaysQuiet == Spec => []CleanIsQuiet
<1>1. Inv => CleanIsQuiet
  <2> SUFFICES ASSUME Inv, report.label = "CLEAN"
               PROVE  /\ Cardinality(report.strong) <= 1
                      /\ \A s \in report.strong :
                            s.what \notin {"wireguard", "amneziawg", "reality"}
    BY Zenon DEF CleanIsQuiet, Found
  <2>1. phase = "done"
    BY DEF Inv, Reported, NoReport
  <2>2. PICK S : /\ IsFiniteSet(S) /\ report.strong \subseteq S
                 /\ \A s \in S : s.penalty \in Nat
                 /\ report.score = Max({0, 100 - Total(S)})
                 /\ report.label = Label(report.score)
    BY <2>1, Scored
  <2>3. Total(S) \in Nat
    BY <2>2, TotalAtLeast
  <2>4. report.score \in {0, 100 - Total(S)}
    <3> DEFINE T == 100 - Total(S)
    <3>1. T \in Int
      BY <2>3
    <3> HIDE DEF T
    <3>2. \E x \in {0, T} : \A y \in {0, T} : x >= y
      BY <3>1
    <3> QED BY <2>2, <3>2 DEF Max, T
  <2>5. Total(S) <= 15
    BY <2>2, <2>3, <2>4, LabelClean
  <2>6. ASSUME NEW s \in report.strong
        PROVE  s.penalty >= 8 /\ s.what \notin {"wireguard", "amneziawg", "reality"}
    <3>1. s.penalty \in Nat /\ s.penalty <= 15
      BY <2>2, <2>3, <2>5, TotalAtLeast
    <3>2. CASE s \in UdpStrong(udp)
      BY <3>1, <3>2, UdpWeighs
    <3>3. CASE \E n \in DOMAIN fps : s \in Strong(n, fps[n], orgs, NoBrand)
      <4>1. s.penalty \in 8..20 /\ (s.what = "reality" => s.penalty >= 16)
        BY <3>3, StrongWeighs
      <4>2. s.what \notin {"wireguard", "amneziawg"}
        BY <3>3, StrongMeans
      <4> QED BY <3>1, <4>1, <4>2
    <3>4. report.strong = UdpStrong(udp)
                \cup UNION {Strong(n, fps[n], orgs, NoBrand) : n \in DOMAIN fps}
      BY <2>1 DEF Inv, Reported, Judge
    <3> QED BY <3>2, <3>3, <3>4
  <2>7. ASSUME NEW s \in report.strong, NEW t \in report.strong PROVE s = t
    <3>1. s.penalty \in Nat /\ t.penalty \in Nat
      BY <2>2
    <3>2. s # t => Total(S) >= s.penalty + t.penalty
      BY <2>2, TotalAtLeast
    <3> QED BY <2>3, <2>5, <2>6, <3>1, <3>2
  <2>8. Cardinality(report.strong) <= 1
    <3>1. CASE report.strong = {}
      BY <3>1, FS_EmptySet
    <3>2. ASSUME NEW s \in report.strong PROVE Cardinality(report.strong) <= 1
      <4>1. report.strong = {s}
        BY <2>7
      <4> QED BY <4>1, FS_Singleton
    <3> QED BY <3>1, <3>2
  <2> QED BY <2>6, <2>8
<1> QED BY <1>1, Invariance, PTL

-----------------------------------------------------------------------------
(* More evidence                                                           *)

SumsOf(S) == CHOOSE g : Adds(g, S)

LEMMA SumsIs ==
    ASSUME NEW S, IsFiniteSet(S)
    PROVE  /\ Total(S) = SumsOf(S)[S]
           /\ \A s \in SUBSET S : SumsOf(S)[s] = Sum(s, SumsOf(S))
<1> DEFINE g == SumsOf(S)
<1>1. Adds(g, S)
  BY SomeAdds DEF SumsOf
<1>2. Total(S) = g[S]
  BY TotalIs DEF SumsOf
<1> HIDE DEF g
<1>3. \A s \in SUBSET S : g[s] = Sum(s, g)
  BY <1>1, Zenon DEF Adds
<1> QED BY <1>2, <1>3 DEF g

LEMMA SubsetsWellFounded ==
    ASSUME NEW S, IsFiniteSet(S)
    PROVE  IsWellFoundedOn(StrictSubsetOrdering(S), SUBSET S)
  BY FS_StrictSubsetOrderingWellFounded, FS_FiniteSubsetsOfFinite

(* What holds of a subset of S once it holds of all smaller ones holds of  *)
(* all of them.                                                            *)
LEMMA BySubsets ==
    ASSUME NEW S, IsFiniteSet(S), NEW Right,
           \A s \in SUBSET S : (\A u \in SUBSET S : u \subseteq s /\ u # s => u \in Right)
                                  => s \in Right
    PROVE  \A s \in SUBSET S : s \in Right
<1> DEFINE Wrong == {s \in SUBSET S : s \notin Right}
<1> SUFFICES ASSUME Wrong # {} PROVE FALSE
  OBVIOUS
<1>1. PICK s \in Wrong : \A u \in Wrong : ~(<<u, s>> \in StrictSubsetOrdering(S))
  <2>1. IsWellFoundedOn(StrictSubsetOrdering(S), SUBSET S)
    BY SubsetsWellFounded
  <2>2. Wrong \subseteq SUBSET S
    OBVIOUS
  <2> HIDE DEF Wrong
  <2> QED BY <2>1, <2>2, WFMin
<1>2. s \in SUBSET S /\ s \notin Right
  BY <1>1
<1>3. ASSUME NEW u \in SUBSET S, u \subseteq s, u # s PROVE u \in Right
  <2>1. <<u, s>> \in StrictSubsetOrdering(S)
    BY <1>2, <1>3 DEF StrictSubsetOrdering
  <2> QED BY <1>1, <1>3, <2>1
<1> QED BY <1>2, <1>3

(* The sum does not depend on the order in which the fold takes a set.     *)
LEMMA AnyFirst ==
    ASSUME NEW S, IsFiniteSet(S), \A x \in S : x.penalty \in Nat
    PROVE  /\ \A s \in SUBSET S : SumsOf(S)[s] \in Nat
           /\ \A s \in SUBSET S : \A x \in s :
                 SumsOf(S)[s] = x.penalty + SumsOf(S)[s \ {x}]
<1> DEFINE g == SumsOf(S)
           Right == {s \in SUBSET S : /\ g[s] \in Nat
                                      /\ \A x \in s : g[s] = x.penalty + g[s \ {x}]}
<1>1. \A s \in SUBSET S : g[s] = Sum(s, g)
  BY SumsIs
<1> HIDE DEF g
<1>2. ASSUME NEW s \in SUBSET S,
             \A u \in SUBSET S : u \subseteq s /\ u # s => u \in Right
      PROVE  s \in Right
  <2>1. CASE s = {}
    BY <1>1, <2>1 DEF Sum
  <2>2. CASE s # {}
    <3> DEFINE y == First(s)
    <3>1. y \in s
      BY <2>2, WithoutFirst
    <3>2. g[s] = y.penalty + g[s \ {y}]
      BY <1>1, <2>2 DEF Sum
    <3> HIDE DEF y
    <3>3. ASSUME NEW x \in s PROVE s \ {x} \in Right /\ s \ {x} \in SUBSET S
      BY <1>2, <3>3
    <3>4. g[s] \in Nat
      BY <3>1, <3>2, <3>3
    <3>5. ASSUME NEW x \in s PROVE g[s] = x.penalty + g[s \ {x}]
      <4>1. CASE x = y
        BY <3>2, <4>1
      <4>2. CASE x # y
        <5> DEFINE both == (s \ {x}) \ {y}
        <5>1. g[s \ {x}] = y.penalty + g[both]
          BY <3>1, <3>3, <4>2
        <5>2. g[s \ {y}] = x.penalty + g[(s \ {y}) \ {x}] /\ (s \ {y}) \ {x} = both
          BY <3>1, <3>3, <4>2
        <5>3. both \in Right
          <6>1. both \in SUBSET S /\ both \subseteq s /\ both # s
            BY <3>5
          <6> HIDE DEF both
          <6> QED BY <1>2, <6>1
        <5>4. g[both] \in Nat
          <6> HIDE DEF both
          <6> QED BY <5>3
        <5>5. x.penalty \in Nat /\ y.penalty \in Nat
          BY <3>1, <3>5
        <5>6. \A p, q, m \in Nat : p + (q + m) = q + (p + m)
          OBVIOUS
        <5> HIDE DEF both
        <5>7. g[s] = y.penalty + (x.penalty + g[both])
          BY ONLY <3>2, <5>2
        <5>8. g[s] = x.penalty + (y.penalty + g[both])
          BY ONLY <5>4, <5>5, <5>6, <5>7
        <5> QED BY ONLY <5>1, <5>8
      <4> QED BY <4>1, <4>2
    <3> QED BY <3>4, <3>5
  <2> QED BY <2>1, <2>2
<1>3. \A s \in SUBSET S : s \in Right
  <2> HIDE DEF Right
  <2> QED BY <1>2, BySubsets
<1> QED BY <1>3 DEF g

(* The sum over more signals is not less.                                  *)
LEMMA TotalGrows ==
    ASSUME NEW S, IsFiniteSet(S), \A x \in S : x.penalty \in Nat,
           NEW T \in SUBSET S
    PROVE  Total(T) \in Nat /\ Total(S) \in Nat /\ Total(T) <= Total(S)
<1>1. IsFiniteSet(T) /\ \A x \in T : x.penalty \in Nat
  BY FS_Subset
<1> DEFINE g == SumsOf(S)   h == SumsOf(T)
<1>2. /\ Total(S) = g[S] /\ \A s \in SUBSET S : g[s] = Sum(s, g)
      /\ Total(T) = h[T] /\ \A s \in SUBSET T : h[s] = Sum(s, h)
  BY <1>1, SumsIs
<1>3. /\ \A s \in SUBSET S : g[s] \in Nat
      /\ \A s \in SUBSET S : \A x \in s : g[s] = x.penalty + g[s \ {x}]
  BY AnyFirst
<1> HIDE DEF g, h
<1>4. h[T] = g[T]
  <2> DEFINE Same == {s \in SUBSET T : h[s] = g[s]}
  <2>1. ASSUME NEW s \in SUBSET T, \A u \in SUBSET T : u \subseteq s /\ u # s => u \in Same
        PROVE  s \in Same
    <3>1. CASE s = {}
      BY <1>2, <3>1 DEF Sum
    <3>2. CASE s # {}
      <4>1. /\ s \ {First(s)} \in SUBSET T /\ s \ {First(s)} # s
        BY <1>1, <3>2, WithoutFirst
      <4>2. h[s \ {First(s)}] = g[s \ {First(s)}]
        BY <2>1, <4>1
      <4> QED BY <1>2, <3>2, <4>2 DEF Sum
    <3> QED BY <3>1, <3>2
  <2>2. \A s \in SUBSET T : s \in Same
    <3> HIDE DEF Same
    <3> QED BY <1>1, <2>1, BySubsets
  <2> QED BY <2>2
<1>5. g[T] <= g[S]
  <2> DEFINE More == {s \in SUBSET S : T \subseteq s => g[T] <= g[s]}
  <2>1. ASSUME NEW s \in SUBSET S, \A u \in SUBSET S : u \subseteq s /\ u # s => u \in More
        PROVE  s \in More
    <3> SUFFICES ASSUME T \subseteq s PROVE g[T] <= g[s]
      OBVIOUS
    <3>1. CASE s = T
      BY <1>3, <3>1
    <3>2. CASE s # T
      <4>1. PICK x \in s : x \notin T
        BY <3>2
      <4>2. T \subseteq s \ {x} /\ s \ {x} \in SUBSET S /\ s \ {x} # s
        BY <4>1
      <4>3. g[T] <= g[s \ {x}]
        BY <2>1, <4>2
      <4>4. g[s] = x.penalty + g[s \ {x}] /\ g[s \ {x}] \in Nat /\ g[T] \in Nat
        BY <1>3, <4>2
      <4>5. x.penalty \in Nat
        OBVIOUS
      <4> QED BY <4>3, <4>4, <4>5
    <3> QED BY <3>1, <3>2
  <2>2. \A s \in SUBSET S : s \in More
    <3> HIDE DEF More
    <3> QED BY <2>1, BySubsets
  <2>3. S \in More
    <3> HIDE DEF More
    <3> QED BY <2>2
  <2> QED BY <2>3
<1> QED BY <1>2, <1>3, <1>4, <1>5

(* The tiers, from the lightest                                            *)
Tiers == <<"PASS / ALLOW", "MONITOR / THROTTLE", "BLOCK (accumulative)", "IMMEDIATE BLOCK">>

Grade(a, b) == IF a > 0 THEN 4 ELSE IF b >= 2 THEN 3 ELSE IF b = 1 THEN 2 ELSE 1

(* The verdict k is not milder than j.                                     *)
AsBad(j, k) ==
    /\ j.strong \subseteq k.strong /\ j.soft \subseteq k.soft
    /\ k.score <= j.score
    /\ \E m \in 1..4 : \E n \in m..4 : j.tier = Tiers[m] /\ k.tier = Tiers[n]

LEMMA TierIs ==
    ASSUME NEW a \in Nat, NEW b \in Nat
    PROVE  Tier(a, b) = Tiers[Grade(a, b)] /\ Grade(a, b) \in 1..4
<1> DEFINE light   == "PASS / ALLOW"
           watched == "MONITOR / THROTTLE"
           heavy   == "BLOCK (accumulative)"
           worst   == "IMMEDIATE BLOCK"
<1>1. Tiers[1] = light /\ Tiers[2] = watched /\ Tiers[3] = heavy /\ Tiers[4] = worst
  BY DEF Tiers
<1>2. Tier(a, b) = CASE a > 0            -> worst
                     [] a = 0 /\ b >= 2  -> heavy
                     [] a = 0 /\ b = 1   -> watched
                     [] a = 0 /\ b = 0   -> light
  BY Zenon DEF Tier
<1> HIDE DEF light, watched, heavy, worst
<1>3. CASE a > 0
  BY <1>1, <1>2, <1>3 DEF Grade
<1>4. CASE a = 0 /\ b >= 2
  BY <1>1, <1>2, <1>4 DEF Grade
<1>5. CASE a = 0 /\ b = 1
  BY <1>1, <1>2, <1>5 DEF Grade
<1>6. CASE a = 0 /\ b = 0
  BY <1>1, <1>2, <1>6 DEF Grade
<1> QED BY <1>3, <1>4, <1>5, <1>6

LEMMA GradeGrows ==
    ASSUME NEW a \in Nat, NEW b \in Nat, NEW c \in Nat, NEW d \in Nat, a <= c, b <= d
    PROVE  Grade(a, b) <= Grade(c, d)
  BY DEF Grade

LEMMA RuleIs == \A P, Q \in BOOLEAN : Rule(P) \in 0..1 /\ ((P => Q) => Rule(P) <= Rule(Q))
  BY DEF Rule

(* The entry qf says all that pf says.                                     *)
SaysMore(pf, qf, o) ==
    /\ \A n : Strong(n, pf, o, NoBrand) \subseteq Strong(n, qf, o, NoBrand)
    /\ \A n : Soft(n, pf) \subseteq Soft(n, qf)
    /\ OpenProxy(pf) => OpenProxy(qf)
    /\ Reality(pf, o) => Reality(qf, o)
    /\ Impersonation(pf, o, NoBrand) => Impersonation(qf, o, NoBrand)
    /\ Canned(pf) \/ BadVersion(pf) => Canned(qf) \/ BadVersion(qf)

LEMMA ScoreIs ==
    ASSUME NEW total \in Nat
    PROVE  Max({0, 100 - total}) = IF 100 - total >= 0 THEN 100 - total ELSE 0
<1> DEFINE d == 100 - total
<1>1. d \in Int
  OBVIOUS
<1> HIDE DEF d
<1>2. \E x \in {0, d} : \A y \in {0, d} : x >= y
  BY <1>1
<1>3. Max({0, d}) \in {0, d} /\ \A y \in {0, d} : Max({0, d}) >= y
  BY <1>2, Zenon DEF Max
<1>4. Max({0, d}) = IF d >= 0 THEN d ELSE 0
  BY <1>1, <1>3
<1> QED BY <1>4 DEF d

LEMMA WhenGrows ==
    \A P, Q \in BOOLEAN : \A x : (P => Q) => When(P, x) \subseteq When(Q, x)
  BY Zenon DEF When

LEMMA UdpGrows ==
    ASSUME NEW u, NEW v, u \subseteq v
    PROVE  UdpStrong(u) \subseteq UdpStrong(v) /\ UdpSoft(u) \subseteq UdpSoft(v)
<1> DEFINE p1 == 51820 \in u   p2 == 55555 \in u   p3 == 41641 \in u
           q1 == 51820 \in v   q2 == 55555 \in v   q3 == 41641 \in v
           w == Signal("wireguard", 0, 22)   a == Signal("amneziawg", 0, 18)
           l == Signal("wireguard-alt", 0, 4)
<1>1. /\ UdpStrong(u) = When(p1, w) \cup When(p2, a) /\ UdpSoft(u) = When(p3, l)
      /\ UdpStrong(v) = When(q1, w) \cup When(q2, a) /\ UdpSoft(v) = When(q3, l)
  BY DEF UdpStrong, UdpSoft
<1>2. (p1 => q1) /\ (p2 => q2) /\ (p3 => q3)
  OBVIOUS
<1>3. /\ p1 \in BOOLEAN /\ p2 \in BOOLEAN /\ p3 \in BOOLEAN
      /\ q1 \in BOOLEAN /\ q2 \in BOOLEAN /\ q3 \in BOOLEAN
  OBVIOUS
<1> HIDE DEF p1, p2, p3, q1, q2, q3, w, a, l
<1>4. When(p1, w) \subseteq When(q1, w) /\ When(p2, a) \subseteq When(q2, a)
      /\ When(p3, l) \subseteq When(q3, l)
  BY <1>2, <1>3, WhenGrows, Zenon
<1> QED BY <1>1, <1>4

(* Another port, another UDP answer and more said of a port never make the *)
(* verdict milder.                                                         *)
LEMMA MoreEvidenceIsWorse ==
    ASSUME NEW f, NEW h, IsFiniteSet(DOMAIN f), IsFiniteSet(DOMAIN h), DOMAIN f \subseteq DOMAIN h,
           NEW u, NEW v, u \subseteq v, NEW o,
           \A n \in DOMAIN f : SaysMore(f[n], h[n], o)
    PROVE  AsBad(Judge(f, u, o, NoBrand), Judge(h, v, o, NoBrand))
<1> DEFINE j == Judge(f, u, o, NoBrand)   k == Judge(h, v, o, NoBrand)
           S == StrongOf(f, u, o)         T == StrongOf(h, v, o)
           P == SoftOf(f, u)              Q == SoftOf(h, v)
<1>1. /\ j.strong = S /\ j.soft = P /\ j.score = Max({0, 100 - Total(S \cup P)})
      /\ k.strong = T /\ k.soft = Q /\ k.score = Max({0, 100 - Total(T \cup Q)})
      /\ j.tier = Tier(AHits(f, u), BHits(f, o))
      /\ k.tier = Tier(AHits(h, v), BHits(h, o))
  BY JudgeIs
<1>2. S \subseteq T
  <2>1. UdpStrong(u) \subseteq UdpStrong(v)
    BY UdpGrows
  <2>2. ASSUME NEW n \in DOMAIN f
        PROVE  Strong(n, f[n], o, NoBrand) \subseteq Strong(n, h[n], o, NoBrand)
    BY <2>2, Zenon DEF SaysMore
  <2> QED BY <2>1, <2>2 DEF StrongOf
<1>3. P \subseteq Q
  <2>1. UdpSoft(u) \subseteq UdpSoft(v)
    BY UdpGrows
  <2>2. ASSUME NEW n \in DOMAIN f
        PROVE  Soft(n, f[n]) \subseteq Soft(n, h[n])
    BY <2>2, Zenon DEF SaysMore
  <2> QED BY <2>1, <2>2 DEF SoftOf
<1>4. k.score <= j.score
  <2>1. IsFiniteSet(T \cup Q) /\ \A s \in T \cup Q : s.penalty \in Nat
    BY SignalsAddUp
  <2> DEFINE all == T \cup Q   some == S \cup P
  <2>2. some \in SUBSET all
    <3> HIDE DEF S, T, P, Q
    <3> QED BY <1>2, <1>3
  <2>3. Total(some) \in Nat /\ Total(all) \in Nat /\ Total(some) <= Total(all)
    <3>1. IsFiniteSet(all) /\ \A s \in all : s.penalty \in Nat
      BY <2>1
    <3> HIDE DEF all, some
    <3> QED BY <2>2, <3>1, TotalGrows
  <2> HIDE DEF all, some, S, T, P, Q, j, k
  <2>4. j.score = Max({0, 100 - Total(some)}) /\ k.score = Max({0, 100 - Total(all)})
    BY <1>1 DEF all, some
  <2> QED BY <2>3, <2>4, ScoreIs
<1>5. \E m \in 1..4 : \E n \in m..4 : j.tier = Tiers[m] /\ k.tier = Tiers[n]
  <2> DEFINE fs == {f[n] : n \in DOMAIN f}   hs == {h[n] : n \in DOMAIN h}
             p1 == 51820 \in u   p2 == 55555 \in u   p3 == \E pf \in fs : OpenProxy(pf)
             q1 == 51820 \in v   q2 == 55555 \in v   q3 == \E pf \in hs : OpenProxy(pf)
             r1 == \E pf \in fs : Reality(pf, o)
             s1 == \E pf \in hs : Reality(pf, o)
             r2 == \E pf \in fs : Impersonation(pf, o, NoBrand)
             s2 == \E pf \in hs : Impersonation(pf, o, NoBrand)
             r3 == \E pf \in fs : Canned(pf) \/ BadVersion(pf)
             s3 == \E pf \in hs : Canned(pf) \/ BadVersion(pf)
  <2>1. /\ p1 \in BOOLEAN /\ p2 \in BOOLEAN /\ p3 \in BOOLEAN
        /\ q1 \in BOOLEAN /\ q2 \in BOOLEAN /\ q3 \in BOOLEAN
        /\ r1 \in BOOLEAN /\ r2 \in BOOLEAN /\ r3 \in BOOLEAN
        /\ s1 \in BOOLEAN /\ s2 \in BOOLEAN /\ s3 \in BOOLEAN
    OBVIOUS
  <2>2. ASSUME NEW pf \in fs PROVE \E qf \in hs : SaysMore(pf, qf, o)
    OBVIOUS
  <2>3. (p1 => q1) /\ (p2 => q2)
    OBVIOUS
  <2>4. (p3 => q3) /\ (r1 => s1)
    <3> HIDE DEF fs, hs
    <3> QED BY <2>2, Zenon DEF SaysMore
  <2>5. (r2 => s2) /\ (r3 => s3)
    <3> HIDE DEF fs, hs
    <3> QED BY <2>2, Zenon DEF SaysMore
  <2>6. /\ AHits(f, u) = Rule(p1) + Rule(p2) + Rule(p3)
        /\ AHits(h, v) = Rule(q1) + Rule(q2) + Rule(q3)
        /\ BHits(f, o) = Rule(r1) + Rule(r2) + Rule(r3)
        /\ BHits(h, o) = Rule(s1) + Rule(s2) + Rule(s3)
    BY DEF AHits, BHits
  <2> HIDE DEF p1, p2, p3, q1, q2, q3, r1, r2, r3, s1, s2, s3, j, k
  <2>7. /\ Rule(p1) \in 0..1 /\ Rule(q1) \in 0..1 /\ Rule(p1) <= Rule(q1)
        /\ Rule(p2) \in 0..1 /\ Rule(q2) \in 0..1 /\ Rule(p2) <= Rule(q2)
        /\ Rule(p3) \in 0..1 /\ Rule(q3) \in 0..1 /\ Rule(p3) <= Rule(q3)
    BY <2>1, <2>3, <2>4, RuleIs, Zenon
  <2>8. /\ Rule(r1) \in 0..1 /\ Rule(s1) \in 0..1 /\ Rule(r1) <= Rule(s1)
        /\ Rule(r2) \in 0..1 /\ Rule(s2) \in 0..1 /\ Rule(r2) <= Rule(s2)
        /\ Rule(r3) \in 0..1 /\ Rule(s3) \in 0..1 /\ Rule(r3) <= Rule(s3)
    BY <2>1, <2>4, <2>5, RuleIs, Zenon
  <2>9. /\ AHits(f, u) \in Nat /\ AHits(h, v) \in Nat /\ AHits(f, u) <= AHits(h, v)
    BY <2>6, <2>7
  <2>10. BHits(f, o) \in Nat /\ BHits(h, o) \in Nat /\ BHits(f, o) <= BHits(h, o)
    BY <2>6, <2>8
  <2> DEFINE m == Grade(AHits(f, u), BHits(f, o))   n == Grade(AHits(h, v), BHits(h, o))
  <2>11. j.tier = Tiers[m] /\ m \in 1..4 /\ k.tier = Tiers[n] /\ n \in 1..4
    BY <1>1, <2>9, <2>10, TierIs
  <2>12. m <= n
    BY <2>9, <2>10, GradeGrows
  <2> HIDE DEF m, n
  <2>13. n \in m..4
    BY <2>11, <2>12
  <2> QED BY <2>11, <2>13
<1> QED BY <1>1, <1>2, <1>3, <1>4, <1>5 DEF AsBad

-----------------------------------------------------------------------------
(* Two scans of one target, of which one lost some of what the other saw.  *)

(* The entry of a port at the end of phase 6, from what was seen there: x  *)
(* has the replies to the probes of phase 5 and the junk analysis.         *)
Entry(port, x) ==
    [Probed(port, x.hello, x.get, x.connect, x.socks, x.tls, x.base, x.entries, x.ct, x.https)
        EXCEPT !.j3a = x.j3a]

(* No reply to junk that counts                                            *)
Mute(j) == j.canned_identical = 0 /\ j.http_bad_version = 0 /\ j.raw_non_http = 0

(* x is what was seen on a port where y might have been: replies to plain  *)
(* probes are lost, cut short or changed into others; the TLS handshake,   *)
(* those of the SNI check, the CT lookup, the handshake of the https probe *)
(* (for a page without CDN headers) or all replies to junk are lost.       *)
Missed(x, y) ==
    /\ x.connect = "granted" => y.connect = "granted"
    /\ x.socks = "socks5" => y.socks = "socks5"
    /\ \/ ~x.tls.ok
       \/ /\ x.tls = y.tls
          /\ x.https = y.https \/ (x.https = NoHttps /\ ~y.https.cdn)
          /\ x.base = Lost \/ (x.base = y.base /\ x.entries = y.entries)
          /\ x.ct = "absent" => y.ct = "absent"
    /\ x.j3a = y.j3a \/ Mute(x.j3a)

LEMMA EntryIs ==
    ASSUME NEW port, NEW x, NEW entry, entry = Entry(port, x),
           NEW sc, sc = SniConsistency(Host, x.base, x.entries)
    PROVE  /\ Tells(entry, port, x.connect, x.socks, x.tls, sc, x.https, x.ct)
           /\ entry.j3a = x.j3a
<1> DEFINE pf == Probed(port, x.hello, x.get, x.connect, x.socks, x.tls, x.base, x.entries,
                        x.ct, x.https)
<1>1. entry = [pf EXCEPT !.j3a = x.j3a]
  BY DEF Entry
<1>2. Tells(pf, port, x.connect, x.socks, x.tls, sc, x.https, x.ct)
  BY ProbedIs
<1> HIDE DEF pf
<1>3. IsEntry(pf)
  BY <1>2 DEF Tells
<1>4. /\ IsEntry(entry) /\ entry.port = pf.port /\ entry.j3a = x.j3a
      /\ entry.service = pf.service /\ entry.tls = pf.tls /\ entry.sni = pf.sni
      /\ entry.https = pf.https /\ entry.ct = pf.ct
  BY <1>1, <1>3 DEF IsEntry
<1>5. OpenProxy(entry) <=> OpenProxy(pf)
  BY <1>4, Zenon DEF OpenProxy
<1> QED BY <1>2, <1>4, <1>5 DEF Tells

(* When one entry says no more than another: what of it has an effect is   *)
(* the same in both, or is silent in the first.                            *)
LEMMA LessSaid ==
    ASSUME NEW pf, NEW qf, NEW o,
           OpenProxy(pf) => OpenProxy(qf),
           pf.j3a = qf.j3a \/ Mute(pf.j3a),
           pf.tls = qf.tls \/ ~pf.tls.ok,
           pf.https = qf.https \/ ~pf.https.tls_ok,
           ~pf.sni.reality_like \/ (pf.sni = qf.sni /\ (pf.https.cdn <=> qf.https.cdn)),
           CtAbsentFresh(pf) => CtAbsentFresh(qf)
    PROVE  SaysMore(pf, qf, o)
<1>1. Canned(pf) => Canned(qf)
  BY DEF Canned, Mute
<1>2. BadVersion(pf) => BadVersion(qf)
  BY DEF BadVersion, Mute
<1>3. Reality(pf, o) => Reality(qf, o) /\ pf.sni = qf.sni
  BY Zenon DEF Reality, CdnLb
<1>4. Impersonation(pf, o, NoBrand) => Impersonation(qf, o, NoBrand)
  BY <1>3, Zenon DEF Impersonation
<1>5. pf.https.tls_ok => pf.https = qf.https /\ (CdnLb(pf, o) <=> CdnLb(qf, o))
  BY Zenon DEF CdnLb
<1>6. ASSUME NEW n
      PROVE  Strong(n, pf, o, NoBrand) \subseteq Strong(n, qf, o, NoBrand)
  <2> DEFINE proxy(x)  == When(OpenProxy(x), Signal("proxy", n, 15))
             self(x)   == When(x.tls.ok /\ x.tls.self_signed, Signal("self-signed", n, 8))
             steers(x) == When(Reality(x, o),
                               Signal("reality", n, IF x.sni.passthrough_mode THEN 20 ELSE 16))
             brand(x)  == When(Impersonation(x, o, NoBrand), Signal("impersonation", n, 18))
             bad(x)    == When(x.https.tls_ok /\ x.https.responded /\ x.https.anomaly,
                               Signal("bad-version", n, 14))
             leak(x)   == When(x.https.tls_ok /\ x.https.leak /\ ~CdnLb(x, o),
                               Signal("leak", n, 10))
             ct(x)     == When(CtAbsentFresh(x), Signal("ct", n, 10))
             canned(x) == When(Canned(x), Signal("canned", n, 12))
             old(x)    == When(BadVersion(x), Signal("j3-version", n, 12))
  <2>1. /\ Strong(n, pf, o, NoBrand) = proxy(pf) \cup self(pf) \cup steers(pf) \cup brand(pf)
               \cup bad(pf) \cup leak(pf) \cup ct(pf) \cup canned(pf) \cup old(pf)
        /\ Strong(n, qf, o, NoBrand) = proxy(qf) \cup self(qf) \cup steers(qf) \cup brand(qf)
               \cup bad(qf) \cup leak(qf) \cup ct(qf) \cup canned(qf) \cup old(qf)
    BY Zenon DEF Strong
  <2>2. proxy(pf) \subseteq proxy(qf) /\ brand(pf) \subseteq brand(qf)
    BY <1>4, Zenon DEF When
  <2>3. ct(pf) \subseteq ct(qf) /\ canned(pf) \subseteq canned(qf) /\ old(pf) \subseteq old(qf)
    BY <1>1, <1>2, Zenon DEF When
  <2>4. self(pf) \subseteq self(qf)
    BY Zenon DEF When
  <2>5. bad(pf) \subseteq bad(qf)
    BY <1>5, Zenon DEF When
  <2>6. leak(pf) \subseteq leak(qf)
    BY <1>5, Zenon DEF When
  <2>7. steers(pf) \subseteq steers(qf)
    <3> DEFINE weight(x) == Signal("reality", n, IF x.sni.passthrough_mode THEN 20 ELSE 16)
    <3>1. Reality(pf, o) => weight(pf) = weight(qf)
      BY <1>3, Zenon
    <3> HIDE DEF weight
    <3>2. When(Reality(pf, o), weight(pf)) \subseteq When(Reality(qf, o), weight(qf))
      BY <1>3, <3>1, Zenon DEF When
    <3> QED BY <3>2 DEF weight
  <2> HIDE DEF proxy, self, steers, brand, bad, leak, ct, canned, old
  <2> QED BY <2>1, <2>2, <2>3, <2>4, <2>5, <2>6, <2>7
<1>7. ASSUME NEW n
      PROVE  Soft(n, pf) \subseteq Soft(n, qf)
  <2> DEFINE old(x)    == When(x.tls.ok /\ ~x.tls.v13, Signal("old-tls", n, 5))
             mute(x)   == When(x.https.tls_ok /\ ~x.https.responded, Signal("no-http", n, 8))
             silent(x) == When(/\ x.https.tls_ok /\ x.https.responded
                               /\ ~x.https.anomaly /\ ~x.https.server,
                               Signal("no-server", n, 4))
             raw(x)    == When(x.j3a.raw_non_http >= 2 /\ x.j3a.http_real = 0,
                               Signal("raw", n, 6))
  <2>1. /\ Soft(n, pf) = old(pf) \cup mute(pf) \cup silent(pf) \cup raw(pf)
        /\ Soft(n, qf) = old(qf) \cup mute(qf) \cup silent(qf) \cup raw(qf)
    BY Zenon DEF Soft
  <2>2. old(pf) \subseteq old(qf)
    BY Zenon DEF When
  <2>3. mute(pf) \subseteq mute(qf) /\ silent(pf) \subseteq silent(qf)
    BY <1>5, Zenon DEF When
  <2>4. raw(pf) \subseteq raw(qf)
    <3>1. Mute(pf.j3a) => ~(pf.j3a.raw_non_http >= 2)
      BY DEF Mute
    <3> QED BY <3>1, Zenon DEF When
  <2> HIDE DEF old, mute, silent, raw
  <2> QED BY <2>1, <2>2, <2>3, <2>4
<1> QED BY <1>1, <1>2, <1>3, <1>4, <1>6, <1>7 DEF SaysMore

(* What is lost on a port takes away from what its entry says.             *)
LEMMA MissedSaysLess ==
    ASSUME NEW port, NEW x, NEW y, NEW o, Missed(x, y)
    PROVE  SaysMore(Entry(port, x), Entry(port, y), o)
<1> DEFINE pf == Entry(port, x)   qf == Entry(port, y)
           sx == SniConsistency(Host, x.base, x.entries)
           sy == SniConsistency(Host, y.base, y.entries)
           T  == port \in TlsPorts /\ x.tls.ok
           U  == port \in TlsPorts /\ y.tls.ok
<1>0. NothingKnown.base = Lost /\ ~NothingKnown.reality_like
  BY DEF NothingKnown
<1>1. x.base = Lost => sx = NothingKnown
  BY Zenon DEF SniConsistency
<1>2. x.base = y.base /\ x.entries = y.entries => sx = sy
  OBVIOUS
<1> HIDE DEF sx, sy
<1>a. /\ Tells(pf, port, x.connect, x.socks, x.tls, sx, x.https, x.ct) /\ pf.j3a = x.j3a
      /\ Tells(qf, port, y.connect, y.socks, y.tls, sy, y.https, y.ct) /\ qf.j3a = y.j3a
  <2>1. sx = SniConsistency(Host, x.base, x.entries) /\ sy = SniConsistency(Host, y.base, y.entries)
    BY DEF sx, sy
  <2> QED BY <2>1, EntryIs
<1> HIDE DEF pf, qf
<1>3. /\ OpenProxy(pf) <=> \/ port \in HttpPorts /\ x.connect = "granted"
                           \/ port \in SocksPorts /\ x.socks = "socks5"
      /\ T => /\ pf.tls = x.tls /\ pf.sni = sx /\ pf.https = x.https
              /\ pf.ct = IF "no-ct" \in options \/ sx.base = Lost THEN "none" ELSE x.ct
      /\ ~T => /\ pf.tls = IF port \in TlsPorts THEN x.tls ELSE NoTls
               /\ pf.sni = NothingKnown /\ pf.https = NoHttps /\ pf.ct = "none"
  BY <1>a DEF Tells
<1>4. /\ OpenProxy(qf) <=> \/ port \in HttpPorts /\ y.connect = "granted"
                           \/ port \in SocksPorts /\ y.socks = "socks5"
      /\ U => /\ qf.tls = y.tls /\ qf.sni = sy /\ qf.https = y.https
              /\ qf.ct = IF "no-ct" \in options \/ sy.base = Lost THEN "none" ELSE y.ct
  BY <1>a DEF Tells
<1>5. /\ OpenProxy(pf) => OpenProxy(qf)
      /\ pf.j3a = qf.j3a \/ Mute(pf.j3a)
  BY <1>a, <1>3, <1>4 DEF Missed
<1>6. /\ pf.tls = qf.tls \/ ~pf.tls.ok
      /\ pf.https = qf.https \/ ~pf.https.tls_ok
      /\ ~pf.sni.reality_like \/ (pf.sni = qf.sni /\ (pf.https.cdn <=> qf.https.cdn))
      /\ CtAbsentFresh(pf) => CtAbsentFresh(qf)
  <2>1. ~NoTls.ok /\ ~NoHttps.tls_ok /\ ~NoHttps.cdn
    BY DEF NoTls, NoHttps
  <2>2. CASE ~T
    <3>1. ~pf.tls.ok
      BY <1>3, <2>1, <2>2
    <3>2. ~pf.https.tls_ok /\ ~pf.sni.reality_like /\ ~CtAbsentFresh(pf)
      BY <1>0, <1>3, <2>1, <2>2 DEF CtAbsentFresh
    <3> QED BY <3>1, <3>2
  <2>3. CASE T
    <3>1. /\ x.tls = y.tls /\ U
          /\ x.https = y.https \/ (x.https = NoHttps /\ ~y.https.cdn)
          /\ x.base = Lost \/ (x.base = y.base /\ x.entries = y.entries)
          /\ x.ct = "absent" => y.ct = "absent"
      BY <2>3 DEF Missed
    <3>2. pf.tls = qf.tls
      BY <1>3, <1>4, <2>3, <3>1
    <3>3. pf.https = qf.https \/ (pf.https = NoHttps /\ ~qf.https.cdn)
      BY <1>3, <1>4, <2>3, <3>1
    <3> HIDE DEF T, U
    <3>4. CASE x.base = Lost
      <4>1. ~pf.sni.reality_like /\ pf.ct = "none"
        BY <1>0, <1>1, <1>3, <2>3, <3>4
      <4> QED BY <2>1, <3>2, <3>3, <4>1 DEF CtAbsentFresh
    <3>5. CASE x.base = y.base /\ x.entries = y.entries
      <4>1. pf.sni = qf.sni /\ (pf.ct = "absent" => qf.ct = "absent")
        BY <1>2, <1>3, <1>4, <2>3, <3>1, <3>5
      <4>2. CtAbsentFresh(pf) => CtAbsentFresh(qf)
        BY <3>2, <4>1, Zenon DEF CtAbsentFresh
      <4>3. ~pf.sni.reality_like \/ (pf.sni = qf.sni /\ (pf.https.cdn <=> qf.https.cdn))
        BY <2>1, <3>3, <4>1
      <4>4. pf.https = qf.https \/ ~pf.https.tls_ok
        BY <2>1, <3>3
      <4> QED BY <3>2, <4>2, <4>3, <4>4
    <3> QED BY <3>1, <3>4, <3>5
  <2> QED BY <2>2, <2>3
<1>7. SaysMore(pf, qf, o)
  BY <1>5, <1>6, LessSaid
<1> QED BY <1>7 DEF pf, qf

(* Every entry is that of something seen on its port.                      *)
Recorded == \A n \in DOMAIN fps : \E x : fps[n] = Entry(open[n], x)

(* Phase 5 appends the entry of what it saw on the port.                   *)
LEMMA FingerprintRecords ==
    ASSUME Inv, Fingerprint
    PROVE  /\ UNCHANGED <<open, options>> /\ Len(fps) \in Nat
           /\ DOMAIN fps = 1..Len(fps) /\ DOMAIN fps' = 1..(Len(fps) + 1)
           /\ \A n \in DOMAIN fps : fps'[n] = fps[n]
           /\ \E x : fps'[Len(fps) + 1] = Entry(open[Len(fps) + 1], x)
<1>1. PICK S : fps \in Seq(S)
  BY DEF Inv, Entries
<1> DEFINE port == open[Len(fps) + 1]
<1>2. \E hello, get, connect, socks, tls, base, entries, ct, https :
         fps' = Append(fps, Probed(port, hello, get, connect, socks, tls, base,
                                   entries, ct, https))
  BY DEF Fingerprint, Probed
<1>3. PICK hello, get, connect, socks, tls, base, entries, ct, https :
         fps' = Append(fps, Probed(port, hello, get, connect, socks, tls, base,
                                   entries, ct, https))
  BY <1>2
<1> HIDE DEF port
<1> DEFINE e == Probed(port, hello, get, connect, socks, tls, base, entries, ct, https)
           x == [hello |-> hello, get |-> get, connect |-> connect, socks |-> socks,
                 tls |-> tls, base |-> base, entries |-> entries, ct |-> ct,
                 https |-> https, j3a |-> NoJ3]
<1>4. IsEntry(e) /\ e.j3a = NoJ3
  <2> DEFINE sc == SniConsistency(Host, base, entries)
  <2>1. Tells(e, port, connect, socks, tls, sc, https, ct) /\ e.j3a = NoJ3
    BY ProbedIs
  <2> QED BY <2>1 DEF Tells
<1>5. Entry(port, x) = [e EXCEPT !.j3a = NoJ3]
  BY DEF Entry
<1> HIDE DEF e, x
<1>6. Entry(port, x) = e
  BY <1>4, <1>5 DEF IsEntry
<1>7. fps' = Append(fps, e)
  BY <1>3 DEF e
<1>8. UNCHANGED <<open, options>>
  BY DEF Fingerprint
<1>9. \E z : e = Entry(port, z)
  BY <1>6
<1> QED BY <1>1, <1>7, <1>8, <1>9, Appended DEF port

(* Phase 6 puts the junk analysis into an entry.                           *)
Tested(pf, j) == [pf EXCEPT !.j3a = j]

LEMMA JunkSets ==
    ASSUME Inv, Junk
    PROVE  /\ UNCHANGED <<open, options>> /\ DOMAIN fps' = DOMAIN fps
           /\ \A n \in DOMAIN fps :
                 fps'[n] = fps[n] \/ \E j : fps'[n] = Tested(fps[n], j)
<1>1. PICK S : fps \in Seq(S)
  BY DEF Inv, Entries
<1> DEFINE m == probed + 1
<1>2. UNCHANGED <<open, options>>
  BY DEF Junk
<1>3. fps' = fps \/ \E j : fps' = [fps EXCEPT ![m].j3a = j]
  BY DEF Junk, m
<1> HIDE DEF m
<1>4. ASSUME NEW j, fps' = [fps EXCEPT ![m].j3a = j]
      PROVE  /\ DOMAIN fps' = DOMAIN fps
             /\ \A n \in DOMAIN fps : fps'[n] = IF n = m THEN Tested(fps[m], j) ELSE fps[n]
  BY <1>1, <1>4 DEF Tested
<1>5. CASE fps' = fps
  BY <1>2, <1>5
<1>6. ASSUME NEW j, fps' = [fps EXCEPT ![m].j3a = j]
      PROVE  \A n \in DOMAIN fps :
                fps'[n] = fps[n] \/ \E k : fps'[n] = Tested(fps[n], k)
  BY <1>4, <1>6
<1> QED BY <1>2, <1>3, <1>4, <1>5, <1>6

LEMMA TestedEntry ==
    ASSUME NEW port, NEW x, NEW j, NEW pf, pf = Entry(port, x),
           NEW qf, qf = Tested(pf, j)
    PROVE  \E z : qf = Entry(port, z)
<1> DEFINE rf == Probed(port, x.hello, x.get, x.connect, x.socks, x.tls, x.base, x.entries,
                        x.ct, x.https)
           z == [hello |-> x.hello, get |-> x.get, connect |-> x.connect, socks |-> x.socks,
                 tls |-> x.tls, base |-> x.base, entries |-> x.entries, ct |-> x.ct,
                 https |-> x.https, j3a |-> j]
<1>1. Entry(port, x) = [rf EXCEPT !.j3a = x.j3a]
  BY DEF Entry
<1>2. Entry(port, z) = [rf EXCEPT !.j3a = j]
  BY DEF Entry
<1> HIDE DEF rf, z
<1>3. qf = Entry(port, z)
  BY <1>1, <1>2 DEF Tested
<1> QED BY <1>3

(* The options do not change, and with them what an entry is made of.      *)
LEMMA TlsStays ==
    ASSUME UNCHANGED options, NEW pf, NEW tls, NEW base, NEW entries, NEW ct, NEW https
    PROVE  Tls(pf, tls, base, entries, ct, https)' = Tls(pf, tls, base, entries, ct, https)
<1> DEFINE with(opts) ==
              IF pf.port \notin TlsPorts THEN pf
              ELSE IF ~tls.ok THEN [pf EXCEPT !.service = "TLS-FAIL", !.tls = tls]
              ELSE LET sc == SniConsistency(Host, base, entries)
                   IN  [pf EXCEPT !.service = "TLS", !.tls = tls, !.sni = sc, !.https = https,
                                  !.ct = IF "no-ct" \in opts \/ sc.base = Lost
                                         THEN "none" ELSE ct]
<1>1. /\ Tls(pf, tls, base, entries, ct, https) = with(options)
      /\ Tls(pf, tls, base, entries, ct, https)' = with(options')
  BY Zenon DEF Tls
<1> HIDE DEF with
<1> QED BY <1>1

LEMMA EntryStays ==
    ASSUME UNCHANGED options, NEW port, NEW x
    PROVE  Entry(port, x)' = Entry(port, x)
<1> DEFINE a == Ssh(NewFp(port), FpSsh(x.hello))
           rest(b) == [OrUnknown(Socks(Http(b, FpHttpPlain(x.get), FpHttpConnect(x.connect)),
                                       FpSocks5(x.socks))) EXCEPT !.j3a = x.j3a]
<1>1. /\ Entry(port, x) = rest(Tls(a, x.tls, x.base, x.entries, x.ct, x.https))
      /\ Entry(port, x)' = rest(Tls(a, x.tls, x.base, x.entries, x.ct, x.https)')
  BY Zenon DEF Entry, Probed
<1> HIDE DEF a, rest
<1> QED BY <1>1, TlsStays

LEMMA RecordedStays ==
    ASSUME UNCHANGED <<open, options>>,
           \A n \in DOMAIN fps' : \E x : fps'[n] = Entry(open[n], x)
    PROVE  Recorded'
<1>1. ASSUME NEW n \in DOMAIN fps' PROVE (\E x : fps[n] = Entry(open[n], x))'
  <2>1. PICK x : fps'[n] = Entry(open[n], x)
    OBVIOUS
  <2> DEFINE port == open[n]
  <2>2. port = open'[n]
    OBVIOUS
  <2> QED BY <2>1, <2>2, EntryStays
<1> QED BY <1>1 DEF Recorded

LEMMA RecordedInductive == Inv /\ Recorded /\ [Next]_vars => Recorded'
<1> SUFFICES ASSUME Inv, Recorded, [Next]_vars PROVE Recorded'
  OBVIOUS
<1>1. CASE Resolve \/ GeoIP \/ ProbeUdp \/ FingerprintDone \/ Decide \/ UNCHANGED vars
  <2>1. UNCHANGED <<fps, open, options>>
    BY <1>1 DEF Resolve, GeoIP, ProbeUdp, FingerprintDone, Decide, vars
  <2> QED BY <2>1, RecordedStays DEF Recorded
<1>2. CASE ScanTcp
  <2>1. fps' = <<>>
    BY <1>2 DEF ScanTcp, Inv, Progress
  <2> QED BY <2>1 DEF Recorded
<1>3. CASE Fingerprint
  <2>1. ASSUME NEW n \in DOMAIN fps'
        PROVE  \E x : fps'[n] = Entry(open[n], x)
    <3>1. n \in DOMAIN fps \/ n = Len(fps) + 1
      BY <1>3, FingerprintRecords
    <3> QED BY <1>3, <3>1, FingerprintRecords DEF Recorded
  <2>2. UNCHANGED <<open, options>>
    BY <1>3, FingerprintRecords
  <2> QED BY <2>1, <2>2, RecordedStays
<1>4. CASE Junk
  <2>1. ASSUME NEW n \in DOMAIN fps'
        PROVE  \E x : fps'[n] = Entry(open[n], x)
    <3>1. PICK x : fps[n] = Entry(open[n], x)
      BY <1>4, <2>1, JunkSets DEF Recorded
    <3>2. fps'[n] = fps[n] \/ \E j : fps'[n] = Tested(fps[n], j)
      BY <1>4, <2>1, JunkSets
    <3>3. ASSUME NEW j, fps'[n] = Tested(fps[n], j)
          PROVE  \E z : fps'[n] = Entry(open[n], z)
      BY <3>1, <3>3, TestedEntry
    <3> QED BY <3>1, <3>2, <3>3
  <2>2. UNCHANGED <<open, options>>
    BY <1>4, JunkSets
  <2> QED BY <2>1, <2>2, RecordedStays
<1> QED BY <1>1, <1>2, <1>3, <1>4 DEF Next

(* What was seen, port by port, that the entries are made of.              *)
Explains(x) == DOMAIN x = DOMAIN fps /\ \A n \in DOMAIN fps : fps[n] = Entry(open[n], x[n])

(* The verdict of a scan that saw y on `ports' and had the UDP answers v.  *)
VerdictOf(y, ports, v) == Judge([n \in DOMAIN y |-> Entry(ports[n], y[n])], v, orgs, NoBrand)

(* What is lost on the way never makes the verdict worse: a scan that saw  *)
(* y, of which this one missed replies, handshakes, CT answers, UDP        *)
(* answers, and ports found after the others, gives every signal this one  *)
(* gives, no higher score and no lower tier.  In particular what a probe   *)
(* that was answered writes over the entry never hides a proxy.            *)
THEOREM LossNeverAccuses ==
    Spec => [](phase = "done" =>
                 /\ \E x : Explains(x)
                 /\ \A x, y, ports, v :
                       /\ Explains(x)
                       /\ IsFiniteSet(DOMAIN y) /\ DOMAIN x \subseteq DOMAIN y
                       /\ \A n \in DOMAIN x : ports[n] = open[n] /\ Missed(x[n], y[n])
                       /\ udp \subseteq v
                       => AsBad(report, VerdictOf(y, ports, v)))
<1> DEFINE Claim(x, y, ports, v) ==
              /\ Explains(x)
              /\ IsFiniteSet(DOMAIN y) /\ DOMAIN x \subseteq DOMAIN y
              /\ \A n \in DOMAIN x : ports[n] = open[n] /\ Missed(x[n], y[n])
              /\ udp \subseteq v
              => AsBad(report, VerdictOf(y, ports, v))
<1>1. ASSUME Inv, Recorded PROVE \E x : Explains(x)
  <2> DEFINE x == [n \in DOMAIN fps |-> CHOOSE z : fps[n] = Entry(open[n], z)]
  <2>1. ASSUME NEW n \in DOMAIN fps PROVE fps[n] = Entry(open[n], x[n])
    <3>1. \E z : fps[n] = Entry(open[n], z)
      BY <1>1 DEF Recorded
    <3>2. fps[n] = Entry(open[n], CHOOSE z : fps[n] = Entry(open[n], z))
      BY <3>1, Zenon
    <3> QED BY <3>2
  <2>2. DOMAIN x = DOMAIN fps
    OBVIOUS
  <2> HIDE DEF x
  <2> QED BY <2>1, <2>2 DEF Explains
<1>2. ASSUME Inv, phase = "done", NEW x, NEW y, NEW ports, NEW v,
             Explains(x), IsFiniteSet(DOMAIN y), DOMAIN x \subseteq DOMAIN y,
             \A n \in DOMAIN x : ports[n] = open[n] /\ Missed(x[n], y[n]),
             udp \subseteq v
      PROVE  AsBad(report, VerdictOf(y, ports, v))
  <2> DEFINE h == [n \in DOMAIN y |-> Entry(ports[n], y[n])]
  <2>1. report = Judge(fps, udp, orgs, NoBrand)
    BY <1>2 DEF Inv, Reported
  <2>2. IsFiniteSet(DOMAIN fps)
    BY <1>2, EntriesFinite
  <2>3. DOMAIN h = DOMAIN y /\ DOMAIN fps \subseteq DOMAIN h
    BY <1>2 DEF Explains
  <2>4. ASSUME NEW n \in DOMAIN fps PROVE SaysMore(fps[n], h[n], orgs)
    <3>1. /\ n \in DOMAIN x /\ n \in DOMAIN y /\ fps[n] = Entry(open[n], x[n])
          /\ ports[n] = open[n] /\ Missed(x[n], y[n])
      BY <1>2, <2>4 DEF Explains
    <3>2. SaysMore(Entry(open[n], x[n]), Entry(open[n], y[n]), orgs)
      BY <3>1, MissedSaysLess
    <3>3. h[n] = Entry(open[n], y[n])
      BY <3>1
    <3> HIDE DEF h
    <3> QED BY <3>1, <3>2, <3>3
  <2>5. VerdictOf(y, ports, v) = Judge(h, v, orgs, NoBrand)
    BY DEF VerdictOf
  <2> HIDE DEF h
  <2>6. AsBad(Judge(fps, udp, orgs, NoBrand), Judge(h, v, orgs, NoBrand))
    BY <1>2, <2>2, <2>3, <2>4, MoreEvidenceIsWorse
  <2> QED BY <2>1, <2>5, <2>6
<1>3. Inv /\ Recorded =>
        (phase = "done" => (\E x : Explains(x)) /\ \A x, y, ports, v : Claim(x, y, ports, v))
  BY <1>1, <1>2
<1>4. Init => Recorded
  BY DEF Init, Recorded
<1>5. Spec => [](Inv /\ Recorded)
  BY Invariance, RecordedInductive, <1>4, PTL DEF Spec
<1> QED BY <1>3, <1>5, PTL
=============================================================================
