------------------------------- MODULE Probes -------------------------------
(***************************************************************************)
(* The blocking probes of the network directory, as functions of what the  *)
(* resolver, the network and the peer do in answer to each of their calls. *)
(*                                                                         *)
(* A reply to a plain probe is told apart as the code tells it:            *)
(*   "none"     nothing before the timeout, or the connection is closed    *)
(*   "blank"    an empty first line and no Server header                   *)
(*   "text"     some other text                                            *)
(*   "ssh"      SSH-...                                                    *)
(*   "granted"  HTTP/... with the status 200, 201 or 202                   *)
(*   "http"     HTTP/... with another status, or one that cannot be read   *)
(*   "socks5", "socks4"   a first byte 5 or 4                              *)
(***************************************************************************)
EXTENDS Naturals, Sequences, FiniteSets, SequencesExt

-----------------------------------------------------------------------------
(* resolve_host and tcp_connect.                                           *)

V4First(s) == SelectSeq(s, LAMBDA a : a.family = "v4")
                \o SelectSeq(s, LAMBDA a : a.family = "v6")

(* What getaddrinfo gave (nothing: an error), each address once; an address*)
(* given literally is an answer of one.                                    *)
ResolveHost(answer) ==
    LET new    == SelectSeq([n \in DOMAIN answer |-> [a |-> answer[n], n |-> n]],
                            LAMBDA x : x.a \notin {answer[m] : m \in 1..(x.n - 1)})
        ips    == V4First([n \in DOMAIN new |-> new[n].a])
        of(f)  == \E n \in DOMAIN ips : ips[n].family = f
    IN  [ips    |-> ips,
         family |-> CASE of("v4") /\ of("v6")   -> "mixed"
                      [] of("v4") /\ ~of("v6")  -> "v4"
                      [] ~of("v4") /\ of("v6")  -> "v6"
                      [] ~of("v4") /\ ~of("v6") -> ""]

(* One connect after the other, IPv4 first, until one is accepted: `end`   *)
(* is how it would end, in the call itself or in select.  The result is    *)
(* the place of the socket's address in this order, or 0 and an error.     *)
TcpConnect(tried) ==
    LET order == V4First(tried)
        up    == SelectInSeq(order, LAMBDA a : a.end = "accepted")
        ends  == {order[n].end : n \in DOMAIN order}
    IN  [socket |-> up,
         err    |-> CASE up # 0                      -> ""
                      [] up = 0 /\ tried = <<>>      -> "dns"
                      [] up = 0 /\ "refused" \in ends -> "refused"
                      [] up = 0 /\ "refused" \notin ends /\ "timeout" \in ends -> "timeout"
                      [] up = 0 /\ tried # <<>> /\ ends \cap {"refused", "timeout"} = {} -> "other"]

(* tcp_connect, tcp_send_all and one tcp_recv_to: the reply a probe has.   *)
Exchange(tried, sent, reply) ==
    IF TcpConnect(tried).socket # 0 /\ sent THEN reply ELSE "none"

-----------------------------------------------------------------------------
(* service_probes.cpp.  A fingerprint is a service, and whether there is   *)
(* something to show of it (`details`, or that it is silent).              *)

FpHttpPlain(got) ==
    [service |-> IF got = "none" THEN "HTTP?" ELSE "HTTP", shown |-> got # "blank"]

(* SSH when the banner is one, read by the port scan or here               *)
FpSsh(got) == [service |-> IF got = "ssh" THEN "SSH" ELSE "SSH?", shown |-> TRUE]

(* (fault: any version is taken for 5)                                     *)
FpSocksAny(got) == [service |-> IF got = "none" THEN "SOCKS?" ELSE "SOCKS5", shown |-> TRUE]

(* Version 5 is SOCKS5 whatever method it chooses, and without any.        *)
FpSocks5(got) ==
    [service |-> CASE got = "socks5" -> "SOCKS5"
                   [] got = "socks4" -> "SOCKS4"
                   [] got \notin {"socks5", "socks4"} -> "SOCKS?",
     shown   |-> TRUE]

FpHttpConnect(got) ==
    [service |-> CASE got = "granted" -> "HTTP-PROXY"
                   [] got = "http"    -> "HTTP-CONNECT-DENY"
                   [] got \notin {"granted", "http"} -> "HTTP-PROXY?",
     shown   |-> TRUE]

-----------------------------------------------------------------------------
(* tls_probe and https_probe.                                              *)

(* The handshake of tls_probe, on a non-blocking socket: each turn is an   *)
(* SSL_connect and, when it wants more, whether the deadline has passed    *)
(* and how the select for the time that is left ended.                     *)
TurnEnds(t) == t.ssl # "want" \/ t.late \/ t.select # "ready"

HandshakeEnd(turns) ==
    LET last == turns[SelectInSeq(turns, TurnEnds)]
    IN  CASE last.ssl = "done"  -> ""
          [] last.ssl = "error" -> "tls handshake failed"
          [] last.ssl = "want" /\ (last.late \/ last.select = "nothing") -> "timeout"
          [] last.ssl = "want" /\ ~last.late /\ last.select = "error"   -> "select error"

(* setup: the steps between the connect and the handshake went well.       *)
TlsProbe(tried, setup, turns) ==
    LET conn == TcpConnect(tried)
        err  == IF conn.socket = 0 THEN conn.err
                ELSE IF ~setup THEN "ssl" ELSE HandshakeEnd(turns)
    IN  [ok |-> err = "", err |-> err]

(* https_probe: six SSL_reads of 1024 bytes at most, until 4096 bytes are  *)
(* there, the end of the session or an error; a timeout is read again.     *)
(* The result is how many of them brought something.                       *)
ReadsMost == 6
BodyParts == 4

PartsRead(reads) ==
    LET data(n)  == Cardinality({m \in 1..n : reads[m] = "data"})
        stops(n) == reads[n] \in {"closed", "error"} \/ data(n) = BodyParts
        made     == {n \in 1..ReadsMost : \A m \in 1..(n - 1) : ~stops(m)}
    IN  Cardinality({n \in made : reads[n] = "data"})

NoHttps == [tls_ok |-> FALSE, responded |-> FALSE, anomaly |-> FALSE,
            server |-> FALSE, leak |-> FALSE, cdn |-> FALSE]

(* page: the part by which a known version of HTTP can be read, and the    *)
(* part each kind of header is in (0: in none).                            *)
HttpsProbe(tried, shaken, written, reads, page) ==
    LET parts   == IF written THEN PartsRead(reads) ELSE 0
        in(n)   == n \in 1..parts
    IN  IF TcpConnect(tried).socket = 0 \/ ~shaken THEN NoHttps
        ELSE [tls_ok    |-> TRUE,
              responded |-> parts > 0,
              anomaly   |-> parts > 0 /\ ~in(page.http),
              server    |-> in(page.server),
              leak      |-> in(page.leak),
              cdn       |-> in(page.cdn)]

-----------------------------------------------------------------------------
(* udp_probe and the packets of vpn_probes.cpp.                            *)

(* step: the call that failed, or how recv ended.  A datagram of any       *)
(* content, the empty one too, is an answer.                               *)
UdpProbe(step) ==
    [responded |-> step \in {"datagram", "empty datagram"},
     err       |-> CASE step \in {"datagram", "empty datagram"} -> ""
                     [] step \in {"dns", "socket", "connect", "send"} -> step
                     [] step = "timeout"     -> "no-reply / filtered"
                     [] step = "unreachable" -> "ICMP port-unreachable (port closed)"
                     [] step = "error"       -> "wsa"]

(* wireguard_probe, and amneziawg_probe with its junk in front: no packet  *)
(* is sent if the random bytes for it cannot be had.                       *)
VpnProbe(random, step) ==
    IF random THEN UdpProbe(step) ELSE [responded |-> FALSE, err |-> "rng"]
=============================================================================
