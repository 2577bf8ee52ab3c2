-------------------------- MODULE GeoLookupsProofs --------------------------
(***************************************************************************)
(* Proofs about GeoLookups.tla, for every number of providers, every size  *)
(* limit and every sequence of menu choices: OpenSSL is released only after*)
(* every lookup has returned, and what is shown as an answer was finished  *)
(* by its provider.                                                        *)
(***************************************************************************)
EXTENDS GeoLookups, TLAPS

Quiet == \A p \in Providers : step[p] \in {"none", "returned"}

(* Who has returned, by where the main thread is.                          *)
Order ==
    /\ \A p \in 1..Len(geos) : step[p] = "returned"
    /\ main = "take" => started = N
    /\ main \in {"command", "menu"} => started = 0 /\ geos = <<>>
    /\ main \in {"command", "menu", "scan", "draining", "asking", "pause", "leave", "over"}
         => Quiet
    /\ openssl = "down" => main = "over"

(* How an answer came to be one: by the time its body is read, it is.      *)
FinishedBy(p) ==
    heard[p] > 0 /\ (heard[p] >= TooMany \/ (ending[p] = "notify" /\ heard[p] = sent[p]))

Answers ==
    /\ \A p \in Providers : result[p] = "answer" \/ step[p] \in Reading => FinishedBy(p)
    /\ \A p \in DOMAIN geos : geos[p] = "answer" => result[p] = "answer"

Inv == TypeOK /\ Order /\ Answers

-----------------------------------------------------------------------------
LEMMA InitInv == Init => Inv
<1> SUFFICES ASSUME Init PROVE Inv
  OBVIOUS
<1> USE GeoAssumption
<1>1. TypeOK
  BY DEF Init, TypeOK, Providers, Running, Requesting, Reading, Results
<1>2. Order /\ Answers
  BY DEF Init, Order, Quiet, Answers, Reading
<1> QED BY <1>1, <1>2 DEF Inv

(* A lookup goes on, with what it has heard by then.                       *)
LEMMA MoveInv ==
    ASSUME Inv, NEW p \in Providers, NEW where \in Running,
           step[p] \in Running, Move(p, where),
           heard' \in [Providers -> 0..MaxRecords], heard'[p] <= sent[p],
           \A q \in Providers \ {p} : heard'[q] = heard[q],
           where \in Reading => FinishedBy(p)'
    PROVE  Inv'
<1>1. TypeOK'
  <2>1. step' \in [Providers -> Running \cup {"none", "returned"}]
    BY DEF Inv, TypeOK, Move
  <2>2. ASSUME NEW q \in Providers
        PROVE  /\ heard'[q] <= sent'[q]
               /\ step'[q] = "none" <=> q > started'
               /\ step'[q] = "returned" <=> result'[q] # "none"
    <3>1. CASE q = p
      <4>1. step[p] \notin {"none", "returned"} /\ step'[p] \notin {"none", "returned"}
        BY DEF Inv, TypeOK, Move, Running, Requesting, Reading
      <4> QED BY <3>1, <4>1 DEF Inv, TypeOK, Move
    <3>2. CASE q # p
      BY <3>2 DEF Inv, TypeOK, Move
    <3> QED BY <3>1, <3>2
  <2> QED BY <2>1, <2>2 DEF Inv, TypeOK, user, Move
<1>2. Order'
  BY DEF Inv, TypeOK, user, Order, Quiet, Move, Running, Requesting, Reading, Providers
<1>3. Answers'
  <2>1. result[p] # "answer"
    BY DEF Inv, TypeOK, user, Running, Requesting, Reading
  <2>2. ASSUME NEW q \in Providers, result'[q] = "answer" \/ step'[q] \in Reading
        PROVE  FinishedBy(q)'
    <3>1. CASE q = p
      BY <2>1, <2>2, <3>1 DEF Inv, TypeOK, Move
    <3>2. CASE q # p
      <4>1. result[q] = "answer" \/ step[q] \in Reading
        BY <2>2, <3>2 DEF Inv, TypeOK, Move
      <4> QED BY <3>2, <4>1 DEF Inv, Answers, FinishedBy, Move
    <3> QED BY <3>1, <3>2
  <2>3. \A q \in DOMAIN geos' : geos'[q] = "answer" => result'[q] = "answer"
    BY DEF Inv, Answers, Move
  <2> QED BY <2>2, <2>3 DEF Answers
<1> QED BY <1>1, <1>2, <1>3 DEF Inv

(* A lookup goes on in http_get, and has heard nothing new.                *)
LEMMA GoInv ==
    ASSUME Inv, NEW p \in Providers, NEW where \in Requesting,
           step[p] \in Requesting, Go(p, where)
    PROVE  Inv'
<1>1. where \in Running /\ where \notin Reading /\ step[p] \in Running
  BY DEF Running, Requesting, Reading
<1>2. heard' \in [Providers -> 0..MaxRecords] /\ heard'[p] <= sent[p]
  BY DEF Inv, TypeOK, Go
<1> QED BY <1>1, <1>2, MoveInv DEF Go

LEMMA ReturnInv ==
    ASSUME Inv, NEW p \in Providers, NEW what \in Results,
           step[p] \in Running, Return(p, what),
           heard' \in [Providers -> 0..MaxRecords], heard'[p] <= sent[p],
           \A q \in Providers \ {p} : heard'[q] = heard[q],
           what = "answer" => FinishedBy(p)'
    PROVE  Inv'
<1>1. TypeOK'
  <2>1. /\ step' \in [Providers -> Running \cup {"none", "returned"}]
        /\ result' \in [Providers -> Results \cup {"none"}]
    BY DEF Inv, TypeOK, Return
  <2>2. ASSUME NEW q \in Providers
        PROVE  /\ heard'[q] <= sent'[q]
               /\ step'[q] = "none" <=> q > started'
               /\ step'[q] = "returned" <=> result'[q] # "none"
    <3>1. CASE q = p
      <4>1. step[p] # "none" /\ what # "none"
        BY DEF Running, Requesting, Reading, Results
      <4> QED BY <3>1, <4>1 DEF Inv, TypeOK, Return
    <3>2. CASE q # p
      BY <3>2 DEF Inv, TypeOK, Return
    <3> QED BY <3>1, <3>2
  <2> QED BY <2>1, <2>2 DEF Inv, TypeOK, user, Return
<1>2. Order'
  BY DEF Inv, TypeOK, user, Order, Quiet, Return, Running, Requesting, Reading,
         Providers
<1>3. Answers'
  <2>1. ASSUME NEW q \in Providers, result'[q] = "answer" \/ step'[q] \in Reading
        PROVE  FinishedBy(q)'
    <3>1. CASE q = p
      BY <3>1, <2>1 DEF Inv, TypeOK, user, Return, Reading
    <3>2. CASE q # p
      <4>1. (result[q] = "answer" \/ step[q] \in Reading) /\ heard'[q] = heard[q]
        BY <2>1, <3>2 DEF Inv, TypeOK, user, Return
      <4> QED BY <4>1 DEF Inv, Answers, FinishedBy, Return
    <3> QED BY <3>1, <3>2
  <2>2. ASSUME NEW q \in DOMAIN geos', geos'[q] = "answer" PROVE result'[q] = "answer"
    <3>a. geos \in Seq({"answer", "error"}) /\ Len(geos) <= started /\ started \in 0..N
      BY DEF Inv, TypeOK, user
    <3>b. q \in 1..Len(geos) /\ geos[q] = "answer"
      BY <2>2, <3>a DEF Return
    <3>1. q \in 1..Len(geos) /\ geos[q] = "answer" /\ q \in Providers
      BY <3>a, <3>b, GeoAssumption DEF Providers
    <3>2. q # p
      BY <3>1 DEF Inv, Order, Running, Requesting, Reading
    <3> QED BY <3>1, <3>2 DEF Inv, TypeOK, user, Answers, Return
  <2> QED BY <2>1, <2>2 DEF Answers
<1> QED BY <1>1, <1>2, <1>3 DEF Inv

(* A lookup returns and has heard nothing new.                             *)
LEMMA ReturnsInv ==
    ASSUME Inv, NEW p \in Providers, NEW what \in {"error", "exception"},
           step[p] \in Running, Return(p, what), UNCHANGED heard
    PROVE  Inv'
  BY ReturnInv DEF Inv, TypeOK, user, Results

-----------------------------------------------------------------------------
LEMMA LookupInv ==
    ASSUME Inv, NEW p \in Providers, Lookup(p) PROVE Inv'
<1>1. CASE Connect(p)
  BY <1>1, GoInv, ReturnsInv DEF Connect, At, Running, Requesting
<1>2. CASE Handshake(p)
  BY <1>2, GoInv, ReturnsInv DEF Handshake, At, Running, Requesting
<1>3. CASE Request(p)
  <2>1. CASE main' = "killed" /\ UNCHANGED <<user, started, geos, step, heard, result, sent,
                                             ending, openssl>>
    <3>1. openssl # "down"
      BY <1>3 DEF Inv, Order, Request, At, Alive
    <3>2. TypeOK'
      BY <2>1 DEF Inv, TypeOK, user
    <3>3. Order'
      BY <2>1, <3>1 DEF Inv, TypeOK, user, Order, Quiet
    <3>4. Answers'
      BY <2>1 DEF Inv, Answers, FinishedBy
    <3> QED BY <3>2, <3>3, <3>4 DEF Inv
  <2>2. CASE Go(p, "read")
    BY <1>3, <2>2, GoInv DEF Request, At, Running, Requesting
  <2>3. CASE Return(p, "error") /\ UNCHANGED heard
    BY <1>3, <2>3, ReturnsInv DEF Request, At, Running, Requesting
  <2> QED BY <1>3, <2>1, <2>2, <2>3 DEF Request
<1>4. CASE ReadRecord(p)
  <2>1. /\ step[p] = "read" /\ step[p] \in Running /\ heard[p] < sent[p]
        /\ heard' = [heard EXCEPT ![p] = @ + 1] /\ Alive
    BY <1>4 DEF ReadRecord, At, Running, Requesting
  <2>2. heard[p] \in Nat /\ sent[p] \in 0..MaxRecords /\ MaxRecords \in Nat
    BY GeoAssumption DEF Inv, TypeOK, user
  <2>3. /\ heard' \in [Providers -> 0..MaxRecords] /\ heard'[p] = heard[p] + 1
        /\ heard'[p] <= sent[p] /\ heard'[p] > 0
        /\ \A q \in Providers \ {p} : heard'[q] = heard[q]
    BY <2>1, <2>2 DEF Inv, TypeOK, user
  <2>4. CASE heard'[p] >= TooMany
    <3>1. FinishedBy(p)'
      BY <2>3, <2>4 DEF FinishedBy
    <3>2. Judge(p, heard'[p])
      BY <1>4, <2>4 DEF ReadRecord
    <3>3. CASE Return(p, "error")
      BY <2>1, <2>3, <3>3, ReturnInv DEF Results
    <3>4. ASSUME NEW where \in Reading, Move(p, where) PROVE Inv'
      BY <2>1, <2>3, <3>1, <3>4, MoveInv DEF Running
    <3> QED BY <3>2, <3>3, <3>4 DEF Judge
  <2>5. CASE ~(heard'[p] >= TooMany)
    <3>1. UNCHANGED <<user, main, started, geos, step, result, sent, ending, openssl>>
      BY <1>4, <2>5 DEF ReadRecord
    <3>2. TypeOK'
      BY <3>1, <2>3 DEF Inv, TypeOK, user
    <3>3. Order'
      BY <3>1 DEF Inv, Order, Quiet
    <3>4. result[p] # "answer" /\ step[p] \notin Reading
      BY <2>1 DEF Inv, TypeOK, user, Reading
    <3>5. Answers'
      BY <3>1, <3>4, <2>3 DEF Inv, Answers, FinishedBy
    <3> QED BY <3>2, <3>3, <3>5 DEF Inv
  <2> QED BY <2>4, <2>5
<1>5. CASE ReadEnd(p)
  <2>1. step[p] = "read" /\ step[p] \in Running /\ UNCHANGED heard
    BY <1>5 DEF ReadEnd, At, Running, Requesting
  <2>2. CASE Return(p, "error")
    BY <2>1, <2>2, ReturnsInv
  <2>3. ASSUME NEW where \in Reading, Move(p, where),
               ending[p] = "notify", heard[p] = sent[p], heard[p] > 0
        PROVE  Inv'
    <3>1. FinishedBy(p)'
      BY <2>1, <2>3 DEF FinishedBy, Move
    <3>2. heard' \in [Providers -> 0..MaxRecords] /\ heard'[p] <= sent[p]
      BY <2>1 DEF Inv, TypeOK, user
    <3> QED BY <2>1, <2>3, <3>1, <3>2, MoveInv DEF Running
  <2> QED BY <1>5, <2>2, <2>3 DEF ReadEnd, Judge
<1>6. CASE Parse(p)
  <2>1. /\ step[p] \in Reading /\ step[p] \in Running /\ UNCHANGED heard
        /\ Return(p, "answer")
    BY <1>6 DEF Parse, At, Running, Reading
  <2>2. FinishedBy(p)'
    BY <2>1 DEF Inv, Answers, FinishedBy, Return
  <2>3. heard' \in [Providers -> 0..MaxRecords] /\ heard'[p] <= sent[p]
    BY <2>1 DEF Inv, TypeOK, user
  <2> QED BY <2>1, <2>2, <2>3, ReturnInv DEF Results
<1> QED BY <1>1, <1>2, <1>3, <1>4, <1>5, <1>6 DEF Lookup

LEMMA ProviderInv ==
    ASSUME Inv, NEW p \in Providers, Send(p) \/ End(p) PROVE Inv'
<1>1. result[p] # "answer" /\ step[p] \notin Reading
  BY DEF Inv, TypeOK, user, Send, End, Running, Requesting, Reading
<1>2. CASE Send(p)
  <2>1. sent[p] \in Nat /\ heard[p] \in Nat /\ MaxRecords \in Nat
    BY GeoAssumption DEF Inv, TypeOK, user
  <2>2. TypeOK'
    BY <1>2, <2>1 DEF Inv, TypeOK, user, Send
  <2>3. Order'
    BY <1>2 DEF Inv, Order, Quiet, Send
  <2>4. Answers'
    BY <1>1, <1>2 DEF Inv, TypeOK, user, Answers, FinishedBy, Send
  <2> QED BY <2>2, <2>3, <2>4 DEF Inv
<1>3. CASE End(p)
  <2>1. TypeOK'
    BY <1>3 DEF Inv, TypeOK, user, End
  <2>2. Order'
    BY <1>3 DEF Inv, Order, Quiet, End
  <2>3. Answers'
    BY <1>1, <1>3 DEF Inv, TypeOK, user, Answers, FinishedBy, End
  <2> QED BY <2>1, <2>2, <2>3 DEF Inv
<1> QED BY <1>2, <1>3

(* The phases after GeoIP, which start when every lookup has returned.     *)
LEMMA ProceedInv ==
    ASSUME Inv, main \in {"scan", "draining", "asking"},
           NEW wheres \in SUBSET {"draining", "asking", "pause", "leave"}, Proceed(wheres)
    PROVE  Inv'
<1>1. main' \in {"draining", "asking", "pause", "leave"}
  BY DEF Proceed
<1>2. TypeOK'
  BY <1>1 DEF Inv, TypeOK, user, Proceed
<1>3. Quiet /\ openssl # "down"
  BY DEF Inv, Order
<1>4. Order' /\ Answers'
  BY <1>1, <1>3 DEF Inv, Order, Quiet, Answers, FinishedBy, Proceed
<1> QED BY <1>2, <1>4 DEF Inv

LEMMA MainInv == ASSUME Inv, Main PROVE Inv'
<1> USE GeoAssumption
<1>1. CASE Launch
  <2>1. UNCHANGED <<user, geos, heard, result, sent, ending, openssl>> /\ main = "launch"
    BY <1>1 DEF Launch
  <2>2. CASE started = N /\ main' = "take" /\ UNCHANGED <<started, step>>
    <3>1. TypeOK'
      BY <2>1, <2>2 DEF Inv, TypeOK, user
    <3>2. Order' /\ Answers'
      BY <2>1, <2>2 DEF Inv, Order, Quiet, Answers, FinishedBy
    <3> QED BY <3>1, <3>2 DEF Inv
  <2>3. CASE /\ started # N /\ started' = started + 1 /\ UNCHANGED main
             /\ step' = [step EXCEPT ![started + 1] = "connect"]
    <3>1. started + 1 \in Providers /\ started \in Nat /\ N \in Nat
      BY <2>3 DEF Inv, TypeOK, user, Providers
    <3>2. step[started + 1] = "none"
      BY <3>1 DEF Inv, TypeOK, user
    <3>3. \A p \in Providers : step'[p] = "none" <=> p > started'
      BY <2>3, <3>1 DEF Inv, TypeOK, user, Providers
    <3>4. \A p \in Providers : step'[p] = "returned" <=> result[p] # "none"
      BY <2>3, <3>1, <3>2 DEF Inv, TypeOK, user
    <3>a. /\ step' \in [Providers -> Running \cup {"none", "returned"}]
          /\ started' \in 0..N
      BY <2>3, <3>1 DEF Inv, TypeOK, Running, Requesting, Providers
    <3>b. Len(geos') <= started'
      BY <2>1, <2>3, <3>1 DEF Inv, TypeOK
    <3>5. TypeOK'
      BY <2>1, <2>3, <3>3, <3>4, <3>a, <3>b DEF Inv, TypeOK, user
    <3>6. Order'
      BY <2>1, <2>3, <3>1, <3>2 DEF Inv, TypeOK, user, Order, Quiet
    <3>c. \A p \in Providers : step'[p] \in Reading => step[p] \in Reading
      BY <2>3, <3>1 DEF Inv, TypeOK, Reading
    <3>7. Answers'
      BY <2>1, <3>c DEF Inv, Answers, FinishedBy
    <3> QED BY <3>5, <3>6, <3>7 DEF Inv
  <2>4. CASE main' = "unwind" /\ UNCHANGED <<started, step>>
    <3>1. TypeOK'
      BY <2>1, <2>4 DEF Inv, TypeOK, user
    <3>2. Order' /\ Answers'
      BY <2>1, <2>4 DEF Inv, Order, Quiet, Answers, FinishedBy
    <3> QED BY <3>1, <3>2 DEF Inv
  <2> QED BY <1>1, <2>2, <2>3, <2>4 DEF Launch
<1>2. CASE Take
  <2>1. UNCHANGED <<user, started, step, heard, result, sent, ending, openssl>> /\ main = "take"
    BY <1>2 DEF Take, Taken
  <2>2. started = N /\ Len(geos) \in Nat /\ N \in Nat /\ Len(geos) <= N
    BY <2>1 DEF Inv, TypeOK, user, Order
  <2>3. CASE Len(geos) = N
    <3>1. main' \in {"scan", "pause"} /\ UNCHANGED geos
      BY <1>2, <2>3 DEF Take, Taken
    <3>2. TypeOK'
      BY <2>1, <3>1 DEF Inv, TypeOK, user
    <3>3. Order'
      BY <2>1, <2>2, <2>3, <3>1 DEF Inv, Order, Quiet, Providers
    <3>4. Answers'
      BY <2>1, <3>1 DEF Inv, Answers, FinishedBy
    <3> QED BY <3>2, <3>3, <3>4 DEF Inv
  <2>4. CASE Len(geos) # N
    <3> DEFINE p == Len(geos) + 1
    <3>1. /\ step[p] = "returned" /\ geos' = Append(geos, GeoOf(p)) /\ UNCHANGED main
      BY <1>2, <2>1, <2>4 DEF Take, Taken
    <3>2. GeoOf(p) \in {"answer", "error"} /\ (GeoOf(p) = "answer" => result[p] = "answer")
      BY DEF GeoOf
    <3>3. geos \in Seq({"answer", "error"})
      BY DEF Inv, TypeOK, user
    <3>4. /\ geos' \in Seq({"answer", "error"}) /\ Len(geos') = p
          /\ \A q \in 1..Len(geos) : geos'[q] = geos[q]
          /\ geos'[p] = GeoOf(p)
      BY <3>1, <3>2, <3>3
    <3>5. Len(geos') <= started
      BY <2>2, <2>4, <3>4
    <3>6. TypeOK'
      BY <2>1, <3>1, <3>4, <3>5 DEF Inv, TypeOK, user
    <3>7. Order'
      BY <2>1, <2>2, <3>1, <3>4 DEF Inv, Order, Quiet
    <3>8. \A q \in DOMAIN geos' : geos'[q] = "answer" => result'[q] = "answer"
      BY <2>1, <2>2, <3>2, <3>3, <3>4 DEF Inv, Answers
    <3>9. Answers'
      BY <2>1, <3>8 DEF Inv, Answers, FinishedBy
    <3> QED BY <3>6, <3>7, <3>9 DEF Inv
  <2> QED BY <2>3, <2>4
<1>3. CASE Scan
  BY <1>3, ProceedInv DEF Scan
<1>4. CASE Unwind
  <2>1. Quiet
    BY <1>4 DEF Inv, TypeOK, user, Unwind, Quiet, Providers
  <2>2. TypeOK'
    BY <1>4 DEF Inv, TypeOK, user, Unwind
  <2>3. Order' /\ Answers'
    BY <1>4, <2>1 DEF Inv, Order, Quiet, Answers, FinishedBy, Unwind
  <2> QED BY <2>2, <2>3 DEF Inv
<1>5. CASE CleanUp
  <2>1. TypeOK'
    BY <1>5 DEF Inv, TypeOK, user, CleanUp
  <2>2. Order' /\ Answers'
    BY <1>5 DEF Inv, Order, Quiet, Answers, FinishedBy, CleanUp
  <2> QED BY <2>1, <2>2 DEF Inv
<1>6. CASE Command
  <2>1. /\ main = "command" /\ main' \in {"scan", "leave", "launch"}
        /\ job' \in {"full", "geoip"} /\ UNCHANGED <<interactive, lines, lookups, openssl>>
    BY <1>6 DEF Command
  <2>2. TypeOK'
    BY <2>1 DEF Inv, TypeOK, user, lookups
  <2>3. started = 0 /\ geos = <<>> /\ Quiet /\ openssl = "up"
    BY <2>1 DEF Inv, TypeOK, Order
  <2>4. Order'
    BY <2>1, <2>3 DEF Order, Quiet, lookups
  <2>5. Answers'
    BY <2>1 DEF Inv, Answers, FinishedBy, lookups
  <2> QED BY <2>2, <2>4, <2>5 DEF Inv
<1>7. CASE Menu
  <2>1. /\ main = "menu" /\ main' \in {"menu", "leave", "launch", "pause", "scan"}
        /\ job' \in {"full", "geoip"} /\ UNCHANGED <<interactive, lookups, openssl>>
        /\ lines' \in {After(1), After(2), After(3)}
    BY <1>7 DEF Menu, Inv, TypeOK
  <2>2. lines' \in 0..MaxLines
    BY <2>1 DEF Inv, TypeOK, user, After
  <2>3. TypeOK'
    BY <2>1, <2>2 DEF Inv, TypeOK, user, lookups
  <2>4. started = 0 /\ geos = <<>> /\ Quiet /\ openssl = "up"
    BY <2>1 DEF Inv, TypeOK, Order
  <2>5. Order'
    BY <2>1, <2>4 DEF Order, Quiet, lookups
  <2>6. Answers'
    BY <2>1 DEF Inv, Answers, FinishedBy, lookups
  <2> QED BY <2>3, <2>5, <2>6 DEF Inv
<1>8. CASE Pause
  <2>1. main = "pause" /\ Quiet /\ openssl = "up" /\ UNCHANGED <<interactive, job, openssl>>
    BY <1>8 DEF Pause, Inv, TypeOK, Order
  <2>2. CASE interactive
    <3>1. /\ main' = "menu" /\ lines' = After(1) /\ started' = 0 /\ geos' = <<>>
          /\ step' = [p \in Providers |-> "none"]
          /\ result' = [p \in Providers |-> "none"]
          /\ heard' = [p \in Providers |-> 0] /\ sent' = [p \in Providers |-> 0]
          /\ ending' = [p \in Providers |-> "open"]
      BY <1>8, <2>2 DEF Pause
    <3>2. lines' \in 0..MaxLines
      BY <3>1 DEF Inv, TypeOK, user, After
    <3>3. TypeOK'
      BY <2>1, <3>1, <3>2 DEF Inv, TypeOK, user, Providers
    <3>4. Order' /\ Answers'
      BY <2>1, <3>1 DEF Order, Quiet, Answers, Reading
    <3> QED BY <3>3, <3>4 DEF Inv
  <2>3. CASE ~interactive
    <3>1. main' = "leave" /\ UNCHANGED <<lines, lookups>>
      BY <1>8, <2>3 DEF Pause
    <3>2. TypeOK'
      BY <2>1, <3>1 DEF Inv, TypeOK, user, lookups
    <3>3. Order' /\ Answers'
      BY <2>1, <3>1 DEF Inv, Order, Quiet, Answers, FinishedBy, lookups
    <3> QED BY <3>2, <3>3 DEF Inv
  <2> QED BY <2>2, <2>3 DEF Inv, TypeOK, user
<1> QED BY <1>1, <1>2, <1>3, <1>4, <1>5, <1>6, <1>7, <1>8 DEF Main

LEMMA NextInv == Inv /\ [Next]_vars => Inv'
<1> SUFFICES ASSUME Inv, [Next]_vars PROVE Inv'
  OBVIOUS
<1>1. CASE Main
  BY <1>1, MainInv
<1>2. ASSUME NEW p \in Providers, Lookup(p) PROVE Inv'
  BY <1>2, LookupInv
<1>3. ASSUME NEW p \in Providers, Throw(p) PROVE Inv'
  BY <1>3, ReturnsInv DEF Throw
<1>4. ASSUME NEW p \in Providers, Send(p) \/ End(p) PROVE Inv'
  BY <1>4, ProviderInv
<1>6. CASE Drained \/ Answered
  BY <1>6, ProceedInv DEF Drained, Answered
<1>5. CASE UNCHANGED vars
  BY <1>5 DEF vars, user, Inv, TypeOK, Order, Quiet, Answers, FinishedBy
<1> QED BY <1>1, <1>2, <1>3, <1>4, <1>5, <1>6 DEF Next

-----------------------------------------------------------------------------
(* The types, and a future holds something when its thread has returned.   *)
THEOREM GeoTypeCorrect == Spec => []TypeOK
<1>1. Inv => TypeOK
  BY DEF Inv
<1> QED BY <1>1, InitInv, NextInv, PTL DEF Spec

(* Nothing is inside OpenSSL when it is released, however the program is   *)
(* left, with any number of lookups under way.                             *)
THEOREM ReleasedLast == Spec => []NoUseAfterCleanUp
<1>1. Inv => NoUseAfterCleanUp
  BY DEF Inv, Order, Quiet, NoUseAfterCleanUp
<1> QED BY <1>1, InitInv, NextInv, PTL DEF Spec

(* No dropped connection passes for an answer.                             *)
THEOREM ShownAnswersAreFinished == Spec => []AnswersAreFinished
<1>1. Inv => AnswersAreFinished
  <2> SUFFICES ASSUME Inv, NEW p \in DOMAIN geos, geos[p] = "answer"
               PROVE  result[p] = "answer" /\ FinishedBy(p)
    BY DEF AnswersAreFinished, FinishedBy
  <2>1. p \in Providers
    BY GeoAssumption DEF Inv, TypeOK, user, Providers
  <2> QED BY <2>1 DEF Inv, Answers
<1> QED BY <1>1, InitInv, NextInv, PTL DEF Spec
=============================================================================
