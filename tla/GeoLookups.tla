----------------------------- MODULE GeoLookups -----------------------------
(***************************************************************************)
(* The program as a user meets it: the command line or the menu of main.cpp*)
(* (main_impl, interactive), the GeoIP lookups it starts, and the end.     *)
(* The lookups are one std::async thread per provider, each an http_get    *)
(* over TLS; the main thread takes their futures in a fixed order          *)
(* (run_full_target, menu item 6, the geoip command, safe_get_geo); the    *)
(* other phases and probes are one step here, but for the two places in    *)
(* them that may never end: the drain of the SYN scan and the requests to  *)
(* crt.sh.  OpenSSL is released when main_impl is left, normally or by an  *)
(* exception.                                                              *)
(*                                                                         *)
(* A provider answers in TLS records, the first of which completes the     *)
(* header; it may end the session properly (close_notify), drop the        *)
(* connection, or do nothing for ever.  How its JSON is read is in         *)
(* JsonRead; here, that JSON::parse comes to an end or does not.  Standard *)
(* input is a number of lines, then its end.                               *)
(***************************************************************************)
EXTENDS Naturals, Sequences

CONSTANTS
    N,           (* providers: seven in the program                        *)
    MaxRecords,  (* bound: records a provider sends                        *)
    TooMany,     (* records that make more than kMaxResponseSize           *)
    MaxLines     (* bound: lines on standard input                         *)

ASSUME GeoAssumption == /\ N \in Nat \ {0} /\ MaxRecords \in Nat
                        /\ TooMany \in Nat \ {0} /\ MaxLines \in Nat

Providers == 1..N

VARIABLES
    interactive, (* were there no positional arguments?                    *)
    lines,       (* lines left on standard input                           *)
    job,         (* what the lookups are for                               *)
    main,        (* the main thread                                        *)
    started,     (* how many lookups std::async has started                *)
    geos,        (* R.geos                                                 *)
    step,        (* where each lookup is                                   *)
    heard,       (* records in its resp_data                               *)
    result,      (* what its future holds                                  *)
    sent, ending,(* the provider: records sent, how it ended the session   *)
    openssl      (* the providers of the OpenSSL runtime                   *)

user == <<interactive, lines, job>>
vars == <<user, main, started, geos, step, heard, result, sent, ending, openssl>>

Results == {"answer", "error", "exception"}
Requesting == {"connect", "handshake", "request", "read"}   (* in http_get *)
Reading    == {"parse", "stuck"}                       (* in json_get_str *)
Running    == Requesting \cup Reading

(* Types; a future holds something exactly when its thread has returned.   *)
TypeOK ==
    /\ interactive \in BOOLEAN /\ lines \in 0..MaxLines /\ job \in {"full", "geoip"}
    /\ main \in {"command", "menu", "launch", "take", "scan", "draining",
                 "asking", "pause", "unwind", "leave", "over", "killed"}
    /\ started \in 0..N
    /\ geos \in Seq({"answer", "error"}) /\ Len(geos) <= started
    /\ step \in [Providers -> Running \cup {"none", "returned"}]
    /\ heard \in [Providers -> 0..MaxRecords]
    /\ result \in [Providers -> Results \cup {"none"}]
    /\ sent \in [Providers -> 0..MaxRecords]
    /\ ending \in [Providers -> {"open", "notify", "drop"}]
    /\ openssl \in {"up", "down"}
    /\ \A p \in Providers : /\ heard[p] <= sent[p]
                            /\ step[p] = "none" <=> p > started
                            /\ step[p] = "returned" <=> result[p] # "none"

Init ==
    /\ interactive \in BOOLEAN /\ lines \in 0..MaxLines /\ job = "full"
    /\ main = IF interactive THEN "menu" ELSE "command"
    /\ started = 0 /\ geos = <<>>
    /\ step = [p \in Providers |-> "none"]
    /\ heard = [p \in Providers |-> 0]
    /\ result = [p \in Providers |-> "none"]
    /\ sent = [p \in Providers |-> 0]
    /\ ending = [p \in Providers |-> "open"]
    /\ openssl = "up"

Alive == main \notin {"over", "killed"}

-----------------------------------------------------------------------------
(* The providers.                                                          *)

Send(p) ==
    /\ step[p] = "read" /\ ending[p] = "open" /\ sent[p] < MaxRecords
    /\ sent' = [sent EXCEPT ![p] = @ + 1]
    /\ UNCHANGED <<user, main, started, geos, step, heard, result, ending, openssl>>

End(p) ==
    /\ step[p] \in Requesting \ {"connect"} /\ ending[p] = "open"
    /\ \E how \in {"notify", "drop"} : ending' = [ending EXCEPT ![p] = how]
    /\ UNCHANGED <<user, main, started, geos, step, heard, result, sent, openssl>>

-----------------------------------------------------------------------------
(* The lookups: http_get, and the GeoInfo its caller makes of it.          *)

At(p, where) == Alive /\ step[p] = where

Move(p, where) ==
    /\ step' = [step EXCEPT ![p] = where]
    /\ UNCHANGED <<user, main, started, geos, result, sent, ending, openssl>>

Go(p, where) == Move(p, where) /\ UNCHANGED heard

Return(p, what) ==
    /\ step' = [step EXCEPT ![p] = "returned"]
    /\ result' = [result EXCEPT ![p] = what]
    /\ UNCHANGED <<user, main, started, geos, sent, ending, openssl>>

Connect(p) ==
    /\ At(p, "connect")
    /\ Go(p, "handshake") \/ (Return(p, "error") /\ UNCHANGED heard)

(* SSL_connect is called once: a timeout is an error here.                 *)
Handshake(p) ==
    /\ At(p, "handshake")
    /\ \/ ending[p] = "open" /\ Go(p, "request")
       \/ Return(p, "error") /\ UNCHANGED heard

(* SSL_write.  When the peer is gone the write fails, or raises SIGPIPE,   *)
(* which nothing ignores: the process ends.                                *)
Request(p) ==
    /\ At(p, "request")
    /\ \/ ending[p] # "drop" /\ Go(p, "read")
       \/ Return(p, "error") /\ UNCHANGED heard
       \/ /\ ending[p] = "drop"
          /\ main' = "killed"
          /\ UNCHANGED <<user, started, geos, step, heard, result, sent, ending, openssl>>

(* The socket is closed.  With a header, the status line is looked at; if  *)
(* it says 200, JSON::parse reads the body, which it never has done with   *)
(* when it meets a closer of the wrong kind (JsonReadProofs).              *)
Judge(p, records) ==
    \/ records > 0 /\ \E where \in Reading : Move(p, where)
    \/ Return(p, "error")

(* The body has been read: its fields are the GeoInfo.                     *)
Parse(p) ==
    /\ At(p, "parse")
    /\ Return(p, "answer") /\ UNCHANGED heard

ReadRecord(p) ==
    /\ At(p, "read") /\ heard[p] < sent[p]
    /\ heard' = [heard EXCEPT ![p] = @ + 1]
    /\ IF heard'[p] >= TooMany
       THEN Judge(p, heard'[p])
       ELSE UNCHANGED <<user, main, started, geos, step, result, sent, ending, openssl>>

(* (fault: a dropped connection ends the answer, as on the plain path)     *)
ReadEndAnyhow(p) ==
    /\ At(p, "read") /\ heard[p] = sent[p] /\ ending[p] # "open"
    /\ Judge(p, heard[p])
    /\ UNCHANGED heard

(* (fault: a dropped connection is taken for silence)                      *)
ReadEndOnNotify(p) ==
    /\ At(p, "read") /\ heard[p] = sent[p] /\ ending[p] = "notify"
    /\ Judge(p, heard[p])
    /\ UNCHANGED heard

(* SSL_ERROR_ZERO_RETURN ends the answer; an end of file without           *)
(* close_notify, or a reset, is an error, whatever was read: a reset may   *)
(* also discard what was not.                                              *)
ReadEnd(p) ==
    /\ At(p, "read") /\ UNCHANGED heard
    /\ \/ ending[p] = "notify" /\ heard[p] = sent[p] /\ Judge(p, heard[p])
       \/ ending[p] = "drop" /\ Return(p, "error")

(* A receive timeout is SSL_ERROR_WANT_READ: SSL_read is called again, for *)
(* as long as the provider is silent.  The lookup's state does not change. *)

(* The lookup throws: memory, of which a JSON::parse that is stuck in an   *)
(* array takes more and more.                                              *)
Throw(p) ==
    /\ Alive /\ step[p] \in Running
    /\ Return(p, "exception") /\ UNCHANGED heard

Lookup(p) == Connect(p) \/ Handshake(p) \/ Request(p) \/ ReadRecord(p) \/ ReadEnd(p)
             \/ Parse(p)

-----------------------------------------------------------------------------
(* The main thread.                                                        *)

lookups == <<started, geos, step, heard, result, sent, ending>>

(* The positional arguments: help, or a missing target, and main_impl      *)
(* returns; a full scan (of a target that resolves, with or without GeoIP),*)
(* geoip, and the commands of one probe.                                   *)
Command ==
    /\ main = "command"
    /\ \/ main' \in {"scan", "leave"} /\ job' = "full"
       \/ main' = "launch" /\ job' \in {"full", "geoip"}
    /\ UNCHANGED <<interactive, lines, lookups, openssl>>

(* What is left of standard input when n more lines were asked for         *)
After(n) == IF lines > n THEN lines - n ELSE 0

(* One choice, and the lines it asks for.  At the end of input the choice  *)
(* is empty and the menu is shown again: nothing changes, for ever.        *)
Menu ==
    /\ main = "menu" /\ lines > 0
    /\ \/ lines' = After(1) /\ main' \in {"menu", "leave"} /\ UNCHANGED job
       \/ lines' = After(2) /\ main' = "launch" /\ job' = "geoip"
       \/ lines' \in {After(2), After(3)} /\ main' = "pause" /\ UNCHANGED job
       \/ /\ lines > 1
          /\ lines' \in {After(2), After(3)}
          /\ main' \in {"scan", "launch"} /\ job' = "full"
    /\ UNCHANGED <<interactive, lookups, openssl>>

(* Launch the next, or fail to: then the futures made so far are destroyed *)
(* on the way out.                                                         *)
Launch ==
    /\ main = "launch"
    /\ IF started = N
       THEN main' = "take" /\ UNCHANGED <<started, step>>
       ELSE \/ /\ started' = started + 1
               /\ step' = [step EXCEPT ![started + 1] = "connect"]
               /\ UNCHANGED main
            \/ main' = "unwind" /\ UNCHANGED <<started, step>>
    /\ UNCHANGED <<user, geos, heard, result, sent, ending, openssl>>

(* (fault: the result is taken before it is there)                         *)
Taken(where) ==
    /\ main' = where
    /\ UNCHANGED <<user, started, step, heard, result, sent, ending, openssl>>
TakeTooSoon ==
    /\ main = "take"
    /\ \/ Len(geos) = N /\ UNCHANGED geos /\ Taken("pause")
       \/ /\ Len(geos) < N /\ Taken("take")
          /\ geos' = Append(geos, result[Len(geos) + 1])

(* safe_get_geo: an exception becomes a result that names its provider.    *)
GeoOf(p) == IF result[p] = "answer" THEN "answer" ELSE "error"

Take ==
    /\ main = "take"
    /\ IF Len(geos) = N
       THEN UNCHANGED geos /\ Taken(IF job = "full" THEN "scan" ELSE "pause")
       ELSE LET p == Len(geos) + 1
            IN  /\ step[p] = "returned"
                /\ geos' = Append(geos, GeoOf(p))
                /\ Taken("take")

(* The other phases, or the one probe asked for, as far as where they      *)
(* depend on others to go on, or to their end; an exception leaves the     *)
(* menu too.                                                               *)
Proceed(wheres) ==
    /\ main' \in wheres
    /\ UNCHANGED <<user, started, geos, step, heard, result, sent, ending, openssl>>

Scan == main = "scan" /\ Proceed({"draining", "asking", "pause", "leave"})

(* The raw socket of the SYN scan is empty at last: while packets come as  *)
(* fast as they are read, its loop goes on.                                *)
Drained == main = "draining" /\ Proceed({"asking", "pause", "leave"})

(* crt.sh has answered, or closed, every request of phase 5, which has the *)
(* same loop around SSL_read.                                              *)
Answered == main = "asking" /\ Proceed({"pause", "leave"})

(* The end of a command, or pause_for_enter and back to the menu; the      *)
(* futures and the report of this round are gone.                          *)
Pause ==
    /\ main = "pause"
    /\ IF interactive
       THEN /\ main' = "menu" /\ lines' = After(1)
            /\ started' = 0 /\ geos' = <<>>
            /\ step' = [p \in Providers |-> "none"]
            /\ result' = [p \in Providers |-> "none"]
            /\ heard' = [p \in Providers |-> 0]
            /\ sent' = [p \in Providers |-> 0]
            /\ ending' = [p \in Providers |-> "open"]
       ELSE main' = "leave" /\ UNCHANGED <<lines, lookups>>
    /\ UNCHANGED <<interactive, job, openssl>>

(* (fault: the futures' threads are left to themselves)                    *)
UnwindAtOnce ==
    /\ main = "unwind"
    /\ main' = "leave"
    /\ UNCHANGED <<user, started, geos, step, heard, result, sent, ending, openssl>>

(* The destructor of a future of std::async waits for its thread.          *)
Unwind ==
    /\ main = "unwind"
    /\ \A p \in 1..started : step[p] = "returned"
    /\ main' = "leave"
    /\ UNCHANGED <<user, started, geos, step, heard, result, sent, ending, openssl>>

(* ~OpenSSLGuard                                                           *)
CleanUp ==
    /\ main = "leave"
    /\ openssl' = "down" /\ main' = "over"
    /\ UNCHANGED <<user, started, geos, step, heard, result, sent, ending>>

Main == Command \/ Menu \/ Launch \/ Take \/ Scan \/ Pause \/ Unwind \/ CleanUp

Next == \/ Main \/ Drained \/ Answered
        \/ \E p \in Providers : Lookup(p) \/ Throw(p) \/ Send(p) \/ End(p)

(* Every thread of the program runs, and connects, handshakes and writes   *)
(* end by their timeouts.  Nothing is assumed of the providers, of crt.sh  *)
(* or of the network.                                                      *)
Spec == Init /\ [][Next]_vars /\ WF_vars(Main)
             /\ \A p \in Providers : WF_vars(Lookup(p))

-----------------------------------------------------------------------------
(* No thread is inside OpenSSL when its providers are unloaded, not even   *)
(* when a launch failed half way through.                                  *)
NoUseAfterCleanUp ==
    openssl = "down" => \A p \in Providers : step[p] \in {"none", "returned"}

(* An answer that is shown was ended by its provider, and all of it was    *)
(* read, or it was cut at the size limit: a dropped connection never       *)
(* passes for an answer.                                                   *)
AnswersAreFinished ==
    \A p \in DOMAIN geos :
       geos[p] = "answer" =>
          /\ result[p] = "answer" /\ heard[p] > 0
          /\ heard[p] >= TooMany \/ (ending[p] = "notify" /\ heard[p] = sent[p])

(* The program comes to an end, or one of five things it waits for without *)
(* a limit never comes: an answer of a provider that accepted a request and*)
(* neither answers nor closes; the end of JSON::parse on a body with a     *)
(* closer of the wrong kind; an answer of crt.sh; a pause in the packets   *)
(* the raw socket of the SYN scan delivers; a choice, when standard input  *)
(* ended while the menu waits for one.  Whatever is chosen and however     *)
(* often, whatever is dropped, refused or thrown, and in whatever order the*)
(* lookups and the main thread run, nothing else keeps it from its end.    *)
Silent(p) == step[p] = "read" /\ ending[p] = "open" /\ heard[p] = sent[p]
Stuck(p)  == step[p] = "stuck"
AtEof     == main = "menu" /\ lines = 0

EndsUnlessSilent == \/ <>(main \in {"over", "killed"})
                    \/ \E p \in Providers : <>[]Silent(p)
                    \/ \E p \in Providers : <>[]Stuck(p)
                    \/ <>[](main = "asking")
                    \/ <>[](main = "draining")
                    \/ <>[]AtEof
=============================================================================
