----------------------------- MODULE MCFullScan -----------------------------
(* An instance of FullScan for TLC: a TLS port, a web port, a SOCKS port   *)
(* and an SSH port, and servers of each kind.                              *)
EXTENDS FullScan, TLC

MCCovers == "own" :> {"host"} @@ "foreign" :> {"alt2"} @@ "branded" :> {"host", "alt1"}
MCBrand  == "own" :> "none" @@ "foreign" :> "brand" @@ "branded" :> "brand"
MCAlt    == <<"alt1", "alt2">>
MCOwns   == "cdn" :> {} @@ "owner" :> {"brand"}
MCAnswers == {<<[family |-> "v6", ip |-> 2], [family |-> "v4", ip |-> 1],
                [family |-> "v6", ip |-> 2]>>}

MCTried == {<<[family |-> "v4", end |-> e]>> : e \in {"accepted", "refused", "timeout"}}
MCTurns == {<<[ssl |-> "want", late |-> FALSE, select |-> "ready"],
              [ssl |-> s, late |-> FALSE, select |-> "nothing"]>> : s \in {"done", "want", "error"}}
(* The whole page; cut by an error; cut by timeouts; nothing at all        *)
MCReads == {<<"data", "want", "data", "closed", "want", "want">>,
            <<"data", "error", "want", "want", "want", "want">>,
            <<"want", "want", "want", "want", "want", "data">>,
            <<"want", "want", "want", "want", "want", "want">>}

MCCut == "none" :> {} @@ "text" :> {} @@ "blank" :> {} @@ "ssh" :> {"text"}
           @@ "granted" :> {"http", "text"} @@ "http" :> {"text"}
           @@ "socks5" :> {} @@ "socks4" :> {}

Names == {"host", "alt1", "alt2"}
Junk8 == {ProbeNames[n] : n \in 1..8}
Quiet == [p \in Junk8 |-> Silent]
(* One page for everything; a wrong version, then raw bytes                *)
Canned8 == [p \in Junk8 |-> Reply("HTTP/1.1 400", 300)]
Odd8    == [p \in Junk8 |-> IF p \in ValidHttp THEN Reply("HTTP/3.1 200", 300)
                            ELSE IF p \in NeedRandom THEN Reply("raw", 7) ELSE Silent]

Plain(hello, get, connect, socks) ==
    [hello |-> hello, get |-> get, connect |-> connect, socks |-> socks, v13 |-> FALSE,
     certs |-> [n \in Names |-> {}], page |-> [http |-> 0, server |-> 0, leak |-> 0, cdn |-> 0],
     junk |-> Quiet]
OverTls(certs, v13, page, junk) ==
    [hello |-> "none", get |-> "text", connect |-> "text", socks |-> "text", v13 |-> v13,
     certs |-> certs, page |-> page, junk |-> junk]

MCIs ==
    "web"    :> Plain("none", "http", "http", "http")
 @@ "proxy"  :> Plain("none", "http", "granted", "none")
 @@ "ssh"    :> Plain("ssh", "ssh", "ssh", "ssh")
 @@ "socks"  :> Plain("none", "none", "none", "socks5")
 @@ "socks4" :> Plain("none", "blank", "none", "socks4")
 @@ "site"   :> OverTls([n \in Names |-> IF n = "host" THEN {"own"} ELSE {}], TRUE,
                        [http |-> 1, server |-> 1, leak |-> 0, cdn |-> 0], Canned8)
 @@ "edge"   :> OverTls([n \in Names |-> {"branded", "own"}], TRUE,
                        [http |-> 1, server |-> 0, leak |-> 1, cdn |-> 2], Quiet)
 @@ "steer"  :> OverTls([n \in Names |-> {"foreign"}], FALSE,
                        [http |-> 2, server |-> 2, leak |-> 2, cdn |-> 0], Odd8)
 @@ "relay"  :> OverTls([n \in Names |-> IF n = "host" THEN {"own", "foreign"} ELSE {"branded", "foreign"}],
                        TRUE, [http |-> 1, server |-> 1, leak |-> 0, cdn |-> 0], Quiet)
MCServers == DOMAIN MCIs
MCTargets ==
    {[open |-> <<>>, servers |-> <<>>],
     [open |-> <<1080, 1080>>, servers |-> 1080 :> "socks"]}
      \cup {[open |-> <<22, 80>>, servers |-> 22 :> "ssh" @@ 80 :> s] : s \in {"web", "proxy", "ssh"}}
      \cup {[open |-> <<443>>, servers |-> 443 :> s] : s \in {"web", "edge", "relay"}}
      \cup {[open |-> <<443, 1080>>, servers |-> 443 :> p[1] @@ 1080 :> p[2]] :
                p \in {<<"steer", "socks">>, <<"site", "socks4">>}}
=============================================================================
