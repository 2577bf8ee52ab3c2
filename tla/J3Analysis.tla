----------------------------- MODULE J3Analysis -----------------------------
(***************************************************************************)
(* network/j3_probes.cpp: the eight junk probes of a port, in their order, *)
(* and what j3_analyze counts in the replies.  A reply is its first line   *)
(* and its length; the lines are told apart as the code tells them.        *)
(***************************************************************************)
EXTENDS Naturals, Sequences, FiniteSets, FiniteSetsExt

CONSTANTS
    GoodHttp, BadHttp,   (* lines with a known and with another version    *)
    ShortLines           (* lines of up to three characters                *)

ProbeNames == <<"empty/close", "HTTP GET /", "HTTP CONNECT", "SSH banner",
                "random 512B", "TLS CH invalid-SNI", "HTTP abs-URI", "0xFF x128">>

(* is_valid_http_probe                                                     *)
ValidHttp == {"HTTP GET /", "HTTP abs-URI"}

(* Not made, and not in the results, if RAND_bytes fails                   *)
NeedRandom == {"random 512B", "TLS CH invalid-SNI"}

(* j3_send: no connection, a send cut short and no data are all silence.   *)
Silent            == [responded |-> FALSE, line |-> "", bytes |-> 0]
Reply(line, bytes) == [responded |-> TRUE, line |-> line, bytes |-> bytes]

(* j3_probes: seen is what each probe gets, drawn those with random bytes. *)
J3Probes(seen, drawn) ==
    LET made == SelectSeq(ProbeNames, LAMBDA p : p \in NeedRandom => p \in drawn)
    IN  [n \in DOMAIN made |-> [name |-> made[n], got |-> seen[made[n]]]]

(* J3Analysis a                                                            *)
NoJ3 == [silent |-> 0, resp |-> 0, http_real |-> 0, http_bad_version |-> 0,
         raw_non_http |-> 0, canned_identical |-> 0]

J3Analyze(probes) ==
    LET keys     == SelectSeq(probes, LAMBDA p : p.got.responded)
        starting(lines) == Cardinality({n \in DOMAIN keys : keys[n].got.line \in lines})
        alike(i) == {j \in DOMAIN keys : keys[j].got = keys[i].got}
        canned   == {i \in DOMAIN keys :
                        /\ Cardinality(alike(i)) >= 2
                        /\ keys[i].got.line \notin ShortLines
                        /\ \E j \in alike(i) : keys[j].name \in ValidHttp}
    IN  [silent           |-> Len(probes) - Len(keys),
         resp             |-> Len(keys),
         http_real        |-> starting(GoodHttp),
         http_bad_version |-> starting(BadHttp),
         raw_non_http     |-> Len(keys) - starting(GoodHttp \cup BadHttp),
         canned_identical |-> IF canned = {} THEN 0 ELSE Cardinality(alike(Min(canned)))]
=============================================================================
