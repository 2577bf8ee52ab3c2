------------------------------ MODULE Verdict ------------------------------
(***************************************************************************)
(* Phase 7 of run_full_target: from the evidence of the other phases to    *)
(* the signals, the score and its label, the stack and the tier.           *)
(*                                                                         *)
(* The evidence on a port is a record with the fields of PortFp that count *)
(* here.  A signal is [what, at, penalty], with the place in R.fps it comes*)
(* from (0: UDP), which gives each kind once; a port that is there twice   *)
(* counts twice.                                                           *)
(***************************************************************************)
EXTENDS Integers, Sequences, FiniteSets, FiniteSetsExt

CONSTANTS
    CdnOrgs,      (* AS organisations is_known_cdn_asn knows               *)
    Owns          (* the brands each organisation owns (asn_owns_brand)    *)

Signal(what, at, penalty) == [what |-> what, at |-> at, penalty |-> penalty]
When(cond, s) == IF cond THEN {s} ELSE {}

(* (fault: only the port's own headers are looked at)                      *)
CdnByHeadersOnly(pf, orgs) == pf.https.cdn

(* looks_like_cdn_lb                                                       *)
CdnLb(pf, orgs) == orgs \cap CdnOrgs # {} \/ pf.https.cdn

Reality(pf, orgs) == pf.sni.reality_like /\ ~CdnLb(pf, orgs)

OwnsBrand(brand, orgs) == \E o \in orgs : brand \in Owns[o]

Impersonation(pf, orgs, none) ==
    /\ Reality(pf, orgs)
    /\ pf.sni.cert_impersonation /\ pf.sni.brand # none
    /\ ~OwnsBrand(pf.sni.brand, orgs)

OpenProxy(pf) == pf.service \in {"HTTP-PROXY", "SOCKS5"}

CtAbsentFresh(pf) == pf.ct = "absent" /\ pf.tls.ok /\ pf.tls.fresh

Canned(pf)     == pf.j3a.canned_identical >= 2
BadVersion(pf) == pf.j3a.http_bad_version >= 1

(* book.strong, for one entry                                                *)
Strong(n, pf, orgs, none) ==
    When(OpenProxy(pf), Signal("proxy", n, 15))
      \cup When(pf.tls.ok /\ pf.tls.self_signed, Signal("self-signed", n, 8))
      \cup When(Reality(pf, orgs),
                Signal("reality", n, IF pf.sni.passthrough_mode THEN 20 ELSE 16))
      \cup When(Impersonation(pf, orgs, none), Signal("impersonation", n, 18))
      \cup When(pf.https.tls_ok /\ pf.https.responded /\ pf.https.anomaly,
                Signal("bad-version", n, 14))
      \cup When(pf.https.tls_ok /\ pf.https.leak /\ ~CdnLb(pf, orgs),
                Signal("leak", n, 10))
      \cup When(CtAbsentFresh(pf), Signal("ct", n, 10))
      \cup When(Canned(pf), Signal("canned", n, 12))
      \cup When(BadVersion(pf), Signal("j3-version", n, 12))

(* book.soft, for one entry                                                 *)
Soft(n, pf) ==
    When(pf.tls.ok /\ ~pf.tls.v13, Signal("old-tls", n, 5))
      \cup When(pf.https.tls_ok /\ ~pf.https.responded, Signal("no-http", n, 8))
      \cup When(/\ pf.https.tls_ok /\ pf.https.responded
                /\ ~pf.https.anomaly /\ ~pf.https.server, Signal("no-server", n, 4))
      \cup When(pf.j3a.raw_non_http >= 2 /\ pf.j3a.http_real = 0, Signal("raw", n, 6))

UdpStrong(udp) == When(51820 \in udp, Signal("wireguard", 0, 22))
                    \cup When(55555 \in udp, Signal("amneziawg", 0, 18))
UdpSoft(udp)   == When(41641 \in udp, Signal("wireguard-alt", 0, 4))

(* (fault: a threshold that a WireGuard variant alone does not cross)      *)
LabelLenient(score) ==
    CASE score >= 80 -> "CLEAN"
      [] score >= 70 /\ score < 80 -> "LOW-SIGNAL"
      [] score >= 50 /\ score < 70 -> "SUSPICIOUS"
      [] score < 50  -> "HIGH-CONFIDENCE"

(* R.label                                                                 *)
Label(score) ==
    CASE score >= 85 -> "CLEAN"
      [] score >= 70 /\ score < 85 -> "LOW-SIGNAL"
      [] score >= 50 /\ score < 70 -> "SUSPICIOUS"
      [] score < 50  -> "HIGH-CONFIDENCE"

Tier(a_hits, b_hits) ==
    CASE a_hits > 0                 -> "IMMEDIATE BLOCK"
      [] a_hits = 0 /\ b_hits >= 2  -> "BLOCK (accumulative)"
      [] a_hits = 0 /\ b_hits = 1   -> "MONITOR / THROTTLE"
      [] a_hits = 0 /\ b_hits = 0   -> "PASS / ALLOW"

Stack(reality, udp, tls443) ==
    CASE reality /\ 55555 \in udp    -> "Reality + AmneziaWG"
      [] reality /\ 55555 \notin udp -> "Reality"
      [] ~reality /\ 55555 \in udp   -> "AmneziaWG"
      [] ~reality /\ 55555 \notin udp /\ udp # {} -> "WireGuard"
      [] ~reality /\ udp = {} -> IF tls443 THEN "TLS origin" ELSE "none"

Rule(cond) == IF cond THEN 1 ELSE 0

Judge(fps, udp, orgs, none) ==
    LET pfs     == {fps[n] : n \in DOMAIN fps}
        strong  == UdpStrong(udp) \cup UNION {Strong(n, fps[n], orgs, none) : n \in DOMAIN fps}
        soft    == UdpSoft(udp) \cup UNION {Soft(n, fps[n]) : n \in DOMAIN fps}
        score   == Max({0, 100 - MapThenSumSet(LAMBDA s : s.penalty, strong \cup soft)})
        reality == \E pf \in pfs : Reality(pf, orgs)
        a_hits  == Rule(51820 \in udp) + Rule(55555 \in udp) + Rule(\E pf \in pfs : OpenProxy(pf))
        b_hits  == Rule(reality) + Rule(\E pf \in pfs : Impersonation(pf, orgs, none))
                     + Rule(\E pf \in pfs : Canned(pf) \/ BadVersion(pf))
    IN  [score  |-> score,
         label  |-> Label(score),
         strong |-> strong,
         soft   |-> soft,
         tier   |-> Tier(a_hits, b_hits),
         stack  |-> Stack(reality, udp, /\ \E pf \in pfs : pf.tls.ok
                                        /\ \E pf \in pfs : pf.port = 443)]
=============================================================================
