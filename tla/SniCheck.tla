------------------------------ MODULE SniCheck ------------------------------
(***************************************************************************)
(* analysis/sni_consistency.cpp: what is concluded from the certificates a *)
(* TLS server shows for its own name and for a list of foreign ones.  A    *)
(* handshake may be lost; the conclusion is drawn from those that were     *)
(* answered.                                                               *)
(***************************************************************************)
EXTENDS Naturals, Sequences, FiniteSets

CONSTANTS
    Certs,                    (* certificates                              *)
    Covers,                   (* the names each is for (cert_covers_name)  *)
    Brand,                    (* the brand each claims, or NoBrand         *)
    NoBrand,
    AltSnis,                  (* kAltSnis                                  *)
    MinAnswered, MinDistinct  (* 3 and 3                                   *)

Lost == "lost"

(* SniConsistency c, as it is when the first handshake is lost             *)
NothingKnown ==
    [base |-> Lost, entries |-> <<>>, brand |-> NoBrand, same_cert_always |-> FALSE,
     reality_like |-> FALSE, default_cert_only |-> FALSE,
     cert_impersonation |-> FALSE, passthrough_mode |-> FALSE]

(* (fault: one answer is enough)                                           *)
OneIsEnough(answered) == answered # {}

(* total >= 3                                                              *)
Enough(answered) == Cardinality(answered) >= MinAnswered

(* sni_consistency: base is the certificate for the host's own name,       *)
(* entries those for AltSnis.                                              *)
SniConsistency(host, base, entries) ==
    LET answered  == {n \in DOMAIN entries : entries[n] # Lost}
        same      == {n \in answered : entries[n] = base}
        distinct  == {base} \cup {entries[n] : n \in answered}
        enough    == Enough(answered)
        always    == enough /\ same = answered
        mixed     == /\ enough /\ ~always
                     /\ same # {} \/ Cardinality(distinct) >= MinDistinct
        claims    == Brand[base] # NoBrand
        foreign   == \E n \in DOMAIN AltSnis : AltSnis[n] # host /\ AltSnis[n] \in Covers[base]
        steered   == always /\ host \notin Covers[base] /\ (foreign \/ claims)
    IN  IF base = Lost THEN NothingKnown
        ELSE [base               |-> base,
              entries            |-> entries,
              brand              |-> Brand[base],
              same_cert_always   |-> always,
              reality_like       |-> steered \/ (mixed /\ claims),
              default_cert_only  |-> always /\ ~steered,
              cert_impersonation |-> (always \/ mixed) /\ claims,
              passthrough_mode   |-> mixed /\ claims]
=============================================================================
