--------------------------- MODULE SynScanProofs ----------------------------
(***************************************************************************)
(* Proofs about SynScan, for any ports, windows, timeouts, source ports    *)
(* and word length, and with or without stale answers: types, what a scan  *)
(* holds while it runs, and the counters.                                  *)
(***************************************************************************)
EXTENDS SynScan, FiniteSetTheorems, WellFoundedInduction, TLAPS

-----------------------------------------------------------------------------
(* Source ports.                                                           *)

LEMMA Remainder ==
    ASSUME NEW a \in Nat, NEW b \in Nat \ {0}
    PROVE  a % b \in 0..(b - 1)
OBVIOUS

(* The signed remainder keeps within Span of Base on either side.          *)
LEMMA SrcPortInRange ==
    ASSUME NEW c \in Int
    PROVE  SrcPortAt(c) \in SrcPort
<1>1. /\ Span \in Nat \ {0} /\ Base \in Nat /\ Base >= Span
      /\ c - Base \in Int
  BY SynAssumption
<1>2. CASE c - Base >= 0
  <2>1. c - Base \in Nat
    BY <1>1, <1>2
  <2>2. (c - Base) % Span \in 0..(Span - 1)
    BY <1>1, <2>1, Remainder
  <2>3. SrcPortAt(c) = Base + ((c - Base) % Span)
    BY <1>2 DEF SrcPortAt, CRem
  <2> QED BY <1>1, <2>2, <2>3 DEF SrcPort
<1>3. CASE ~(c - Base >= 0)
  <2>1. -(c - Base) \in Nat
    BY <1>1, <1>3
  <2>2. (-(c - Base)) % Span \in 0..(Span - 1)
    BY <1>1, <2>1, Remainder
  <2>3. SrcPortAt(c) = Base + (-((-(c - Base)) % Span))
    BY <1>3 DEF SrcPortAt, CRem
  <2> QED BY <1>1, <2>2, <2>3 DEF SrcPort
<1> QED BY <1>2, <1>3

(* A set of naturals has a least element.                                  *)
LEMMA Least ==
    ASSUME NEW S, S \subseteq Nat, S # {}
    PROVE  \E i \in S : \A j \in S : i <= j
<1> DEFINE R == OpToRel(<, Nat)
<1>1. PICK i \in S : \A j \in S : ~(<<j, i>> \in R)
  <2>1. IsWellFoundedOn(R, Nat)
    BY NatLessThanWellFounded
  <2> HIDE DEF R
  <2> QED BY <2>1, WFMin
<1>2. \A j \in S : ~(j < i)
  BY <1>1 DEF OpToRel
<1> QED BY <1>2

LEMMA TriesFacts ==
    ASSUME NEW c \in 0..(Word - 1)
    PROVE  /\ Tries(c) \in 0..Span
           /\ Tries(c) # 0 => SrcPortAt((c + Tries(c) - 1) % Word) \notin InUse
<1> DEFINE Good == {i \in 1..Span : SrcPortAt((c + i - 1) % Word) \notin InUse}
           least == CHOOSE i \in Good : \A j \in Good : i <= j
<1>1. Span \in Nat \ {0}
  BY SynAssumption
<1>2. Tries(c) = IF Good = {} THEN 0 ELSE least
  BY DEF Tries
<1>3. CASE Good = {}
  BY <1>1, <1>2, <1>3
<1>4. CASE Good # {}
  <2>1. Good \subseteq Nat
    BY <1>1
  <2>2. \E i \in Good : \A j \in Good : i <= j
    <3> HIDE DEF Good
    <3> QED BY <1>4, <2>1, Least
  <2>3. least \in Good
    <3> HIDE DEF Good
    <3> QED BY <2>2
  <2> HIDE DEF least
  <2> QED BY <1>1, <1>2, <1>4, <2>3
<1> QED BY <1>3, <1>4

(* A source port that is given out is one, and is not pending.             *)
LEMMA AllocatedIsFree ==
    ASSUME NEW c \in 0..(Word - 1)
    PROVE  /\ Allocated(c) \in SrcPort \cup {0}
           /\ Allocated(c) # 0 => Allocated(c) \notin InUse
           /\ CursorAfter(c) \in 0..(Word - 1)
<1>1. /\ Word \in Nat \ {0} /\ Span \in Nat
      /\ Tries(c) \in 0..Span
      /\ Tries(c) # 0 => SrcPortAt((c + Tries(c) - 1) % Word) \notin InUse
  BY SynAssumption, TriesFacts
<1> DEFINE n == IF Tries(c) = 0 THEN Span ELSE Tries(c)
<1>2. c + n \in Nat /\ CursorAfter(c) = (c + n) % Word
  BY <1>1 DEF CursorAfter
<1>3. CursorAfter(c) \in 0..(Word - 1)
  <2> HIDE DEF n
  <2> QED BY <1>1, <1>2, Remainder
<1>4. CASE Tries(c) = 0
  BY <1>3, <1>4 DEF Allocated
<1>5. CASE Tries(c) # 0
  <2>1. c + Tries(c) - 1 \in Nat
    BY <1>1, <1>5
  <2>2. (c + Tries(c) - 1) % Word \in Int
    BY <1>1, <2>1, Remainder
  <2> QED BY <1>1, <1>3, <1>5, <2>2, SrcPortInRange DEF Allocated
<1> QED BY <1>4, <1>5

-----------------------------------------------------------------------------
(* Types.  An answer is owed only to a SYN that was sent.                  *)

Sent == \A p \in Port : owed[p] > 0 => via[p] # 0

TypeInv == TypeOK /\ Sent

Entry  == [port : Port, age : 0..Timeout]
Result == [open : SUBSET Port, scanned : Nat, timeouts : Nat,
           refused : Nat, other : Nat, aborted : BOOLEAN]

LEMMA PortsFacts ==
    /\ Len(Ports) \in Nat
    /\ \A k \in 1..Len(Ports) : Ports[k] \in Port
    /\ \A j, k \in 1..Len(Ports) : Ports[j] = Ports[k] => j = k
    /\ IsFiniteSet(Port)
<1>1. Ports \in Seq(Nat)
  BY SynAssumption
<1>2. Len(Ports) \in Nat /\ DOMAIN Ports = 1..Len(Ports)
  BY <1>1
<1>3. \A k \in 1..Len(Ports) : Ports[k] \in Port
  BY <1>2 DEF Port
<1>4. IsFiniteSet(1..Len(Ports))
  BY <1>2, FS_Interval
<1>5. IsFiniteSet(Port)
  <2> DEFINE f == [k \in 1..Len(Ports) |-> Ports[k]]
  <2>1. f \in [1..Len(Ports) -> Port]
    BY <1>3
  <2>2. \A p \in Port : \E k \in 1..Len(Ports) : f[k] = p
    BY <1>2 DEF Port
  <2> HIDE DEF f
  <2>3. f \in Surjection(1..Len(Ports), Port)
    BY <2>1, <2>2 DEF Surjection
  <2> QED BY <1>4, <2>3, FS_Surjection
<1> QED BY <1>2, <1>3, <1>5, SynAssumption

(* What is pending.                                                        *)
LEMMA PendingFacts ==
    ASSUME TypeOK
    PROVE  /\ IsFiniteSet(InUse) /\ Cardinality(InUse) \in Nat
           /\ InUse \subseteq SrcPort
           /\ \A s \in InUse : pending[s] \in Entry
<1>1. IsFiniteSet(SrcPort)
  BY SynAssumption, FS_Interval DEF SrcPort
<1>2. InUse \subseteq SrcPort
  BY DEF InUse
<1>3. \A s \in InUse : pending[s] \in Entry
  BY DEF TypeOK, InUse, Entry
<1> QED BY <1>1, <1>2, <1>3, FS_Subset, FS_CardinalityType

LEMMA MarkDoneType ==
    ASSUME TypeOK, NEW S \in SUBSET Port, NEW v \in Verdict, MarkDone(S, v)
    PROVE  out' \in Result /\ verdict' \in [Port -> Verdict]
<1>1. Cardinality(S) \in Nat
  BY PortsFacts, FS_Subset, FS_CardinalityType
<1>2. out \in Result
  BY DEF TypeOK, Result
<1> DEFINE n == Cardinality(S)
<1>3. /\ out.open \in SUBSET Port /\ out.scanned \in Nat /\ out.timeouts \in Nat
      /\ out.refused \in Nat /\ out.other \in Nat /\ out.aborted \in BOOLEAN
  BY <1>2 DEF Result
<1>4. Tally(out, S, v) \in Result
  <2> HIDE DEF n
  <2>1. Tally(out, S, v) =
          [open     |-> IF v = "open" THEN out.open \cup S ELSE out.open,
           scanned  |-> out.scanned + n,
           timeouts |-> IF v = "timeout" THEN out.timeouts + n ELSE out.timeouts,
           refused  |-> IF v = "refused" THEN out.refused + n ELSE out.refused,
           other    |-> IF v = "other" THEN out.other + n ELSE out.other,
           aborted  |-> out.aborted]
    BY DEF Tally, n
  <2> QED BY <1>1, <1>3, <2>1 DEF Result, n
<1> QED BY <1>4 DEF MarkDone, TypeOK

LEMMA InitTypeInv == Init => TypeInv
<1> SUFFICES ASSUME Init PROVE TypeInv
  OBVIOUS
<1>1. NoResult \in Result
  BY DEF NoResult, Result
<1>2. Base \in 0..(Word - 1) /\ 0 \in 0..Len(Ports) /\ 1 \in 1..Len(Stages)
  BY SynAssumption, PortsFacts DEF Stages
<1>3. \A p \in Port : owed[p] <= Answers[p]
  BY SynAssumption DEF Init
<1>4. TypeOK
  BY <1>1, <1>2, <1>3 DEF Init, TypeOK, Result, Signal, Verdict, Kind
<1>5. Sent
  BY DEF Init, Sent
<1> QED BY <1>4, <1>5 DEF TypeInv

LEMMA LaunchTypes == ASSUME TypeInv, Launch PROVE TypeInv'
<1> DEFINE p == Ports[next + 1]
           s == Allocated(cursor)
<1>1. next + 1 \in 1..Len(Ports) /\ next \in Nat /\ p \in Port /\ cursor \in 0..(Word - 1)
  <2>1. next \in 0..Len(Ports) /\ next < Len(Ports) /\ cursor \in 0..(Word - 1)
    BY DEF Launch, CanLaunch, TypeInv, TypeOK
  <2>2. next + 1 \in 1..Len(Ports) /\ next \in Nat
    BY <2>1, PortsFacts
  <2> QED BY <2>1, <2>2, PortsFacts
<1>2. s \in SrcPort /\ s \notin InUse /\ cursor' \in 0..(Word - 1)
  BY <1>1, AllocatedIsFree DEF Launch
<1>3. /\ pending' = [pending EXCEPT ![s] = [port |-> p, age |-> 0]]
      /\ via' = [via EXCEPT ![p] = s]
      /\ owed' = [q \in Port |-> CASE q = p                -> Answers[p]
                                   [] ~Stale /\ via[q] = s -> 0
                                   [] OTHER                -> owed[q]]
      /\ inbox' \subseteq inbox
      /\ next' = next + 1
      /\ UNCHANGED <<pc, stage, fds, handler, locked, out, report, verdict, abort, accepted>>
  BY <1>2 DEF Launch
<1> HIDE DEF p, s
<1>4. [port |-> p, age |-> 0] \in Entry /\ s # 0
  BY <1>1, <1>2, SynAssumption DEF Entry, SrcPort
<1>5. pending' \in [SrcPort -> {NoEntry} \cup Entry]
  BY <1>2, <1>3, <1>4 DEF TypeInv, TypeOK, Entry
<1>6. via' \in [Port -> SrcPort \cup {0}]
  BY <1>1, <1>2, <1>3 DEF TypeInv, TypeOK
<1>7. ASSUME NEW q \in Port
      PROVE  owed'[q] \in Nat /\ owed'[q] <= Answers[q] /\ (owed'[q] > 0 => via'[q] # 0)
  <2>1. owed'[q] = CASE q = p                -> Answers[p]
                     [] ~Stale /\ via[q] = s -> 0
                     [] OTHER                -> owed[q]
    BY <1>3
  <2>2. /\ Answers[q] \in Nat /\ owed[q] \in Nat /\ owed[q] <= Answers[q]
        /\ owed[q] > 0 => via[q] # 0
    BY SynAssumption DEF TypeInv, TypeOK, Sent
  <2>3. via'[q] = IF q = p THEN s ELSE via[q]
    BY <1>1, <1>3 DEF TypeInv, TypeOK
  <2>4. CASE q = p
    BY <1>4, <2>1, <2>2, <2>3, <2>4
  <2>5. CASE q # p
    <3>1. owed'[q] \in {0, owed[q]}
      BY <2>1, <2>5
    <3> QED BY <2>2, <2>3, <2>5, <3>1
  <2> QED BY <2>4, <2>5
<1>8. owed' \in [Port -> Nat] /\ \A q \in Port : owed'[q] <= Answers[q]
  BY <1>3, <1>7
<1>9. next' \in 0..Len(Ports) /\ inbox' \in SUBSET Segment
  BY <1>1, <1>3 DEF TypeInv, TypeOK
<1>10. TypeOK'
  BY <1>2, <1>3, <1>5, <1>6, <1>8, <1>9 DEF TypeInv, TypeOK, Entry
<1>11. Sent'
  BY <1>7 DEF Sent
<1> QED BY <1>10, <1>11 DEF TypeInv

(* A step that decides some ports and takes their SYNs out of pending.     *)
LEMMA DecideTypes ==
    ASSUME TypeInv, NEW S \in SUBSET Port, NEW v \in Verdict, MarkDone(S, v),
           pending' \in [SrcPort -> {NoEntry} \cup Entry],
           inbox' \subseteq inbox, next' \in 0..Len(Ports), cursor' \in 0..(Word - 1),
           pc' \in {"head", "launch", "drain"},
           UNCHANGED <<stage, fds, handler, locked, abort, via, owed, accepted>>
    PROVE  TypeInv'
<1>1. out' \in Result /\ verdict' \in [Port -> Verdict]
  BY MarkDoneType DEF TypeInv
<1>2. TypeOK'
  BY <1>1 DEF TypeInv, TypeOK, Entry, Result
<1>3. Sent'
  BY DEF TypeInv, Sent
<1> QED BY <1>2, <1>3 DEF TypeInv

LEMMA LaunchFailsTypes == ASSUME TypeInv, LaunchFails PROVE TypeInv'
<1>1. next + 1 \in 1..Len(Ports) /\ next \in Nat /\ cursor \in 0..(Word - 1)
  BY PortsFacts DEF LaunchFails, CanLaunch, TypeInv, TypeOK
<1>2. {Ports[next + 1]} \in SUBSET Port /\ CursorAfter(cursor) \in 0..(Word - 1)
  BY <1>1, PortsFacts, AllocatedIsFree
<1>3. pending \in [SrcPort -> {NoEntry} \cup Entry] /\ "other" \in Verdict
  BY DEF TypeInv, TypeOK, Entry, Verdict
<1> QED BY <1>1, <1>2, <1>3, DecideTypes DEF LaunchFails, network

LEMMA DrainTypes == ASSUME TypeInv, Drain PROVE TypeInv'
<1>1. PICK m \in inbox :
          /\ inbox' = inbox \ {m}
          /\ IF m.to \in InUse
             THEN /\ MarkDone({pending[m.to].port}, VerdictOf(m.kind))
                  /\ pending' = [pending EXCEPT ![m.to] = NoEntry]
             ELSE UNCHANGED <<out, verdict, pending>>
  BY DEF Drain
<1>2. /\ pc = "drain"
      /\ UNCHANGED <<pc, stage, fds, handler, locked, next, cursor, report,
                     abort, via, owed, accepted>>
  BY DEF Drain
<1>3. CASE m.to \in InUse
  <2>1. {pending[m.to].port} \in SUBSET Port
    BY <1>3, PendingFacts DEF TypeInv, Entry
  <2>2. VerdictOf(m.kind) \in Verdict
    BY DEF VerdictOf, Verdict
  <2>3. pending' \in [SrcPort -> {NoEntry} \cup Entry]
    BY <1>1, <1>3 DEF TypeInv, TypeOK, Entry
  <2>4. next' \in 0..Len(Ports) /\ cursor' \in 0..(Word - 1)
    BY <1>2 DEF TypeInv, TypeOK
  <2> QED BY <1>1, <1>2, <1>3, <2>1, <2>2, <2>3, <2>4, DecideTypes
<1>4. CASE m.to \notin InUse
  BY <1>1, <1>2, <1>4 DEF TypeInv, TypeOK, Sent
<1> QED BY <1>3, <1>4

(* The SYNs a sweep gives up                                               *)
Old == {s \in InUse : pending[s].age >= Timeout}

LEMMA SweepIs ==
    ASSUME Sweep
    PROVE  /\ pc = "sweep" /\ pc' = "head"
           /\ MarkDone({pending[s].port : s \in Old}, "timeout")
           /\ pending' = [s \in SrcPort |-> IF s \in Old THEN NoEntry ELSE pending[s]]
           /\ UNCHANGED <<stage, fds, handler, locked, next, cursor, report, abort, network>>
BY DEF Sweep, Old

LEMMA SweepTypes == ASSUME TypeInv, Sweep PROVE TypeInv'
<1>1. {pending[s].port : s \in Old} \in SUBSET Port
  BY PendingFacts DEF TypeInv, Entry, Old
<1>2. pending' \in [SrcPort -> {NoEntry} \cup Entry]
  BY SweepIs DEF TypeInv, TypeOK, Entry
<1>3. next' \in 0..Len(Ports) /\ cursor' \in 0..(Word - 1) /\ "timeout" \in Verdict
  BY SweepIs DEF TypeInv, TypeOK, Verdict
<1> QED BY <1>1, <1>2, <1>3, SweepIs, DecideTypes DEF network

LEMMA AnswerTypes == ASSUME TypeInv, NEW p \in Port, Answer(p) PROVE TypeInv'
<1>1. PICK k \in Kind :
          /\ inbox' = inbox \cup {[kind |-> k, from |-> p, to |-> via[p]]}
          /\ accepted' = IF k = "synack" THEN accepted \cup {p} ELSE accepted
  BY DEF Answer
<1>2. /\ owed[p] > 0 /\ owed' = [owed EXCEPT ![p] = @ - 1]
      /\ UNCHANGED <<scanner, abort, via>>
  BY DEF Answer
<1>3. via[p] \in SrcPort
  BY <1>2 DEF TypeInv, TypeOK, Sent
<1>4. inbox' \in SUBSET Segment /\ accepted' \in SUBSET Port
  BY <1>1, <1>3 DEF TypeInv, TypeOK, Segment
<1>5. ASSUME NEW q \in Port
      PROVE  owed'[q] \in Nat /\ owed'[q] <= owed[q] /\ owed[q] \in Nat
             /\ owed[q] <= Answers[q] /\ Answers[q] \in Nat
  <2>1. owed[q] \in Nat /\ owed[q] <= Answers[q] /\ Answers[q] \in Nat
    BY SynAssumption DEF TypeInv, TypeOK
  <2>2. owed'[q] = IF q = p THEN owed[p] - 1 ELSE owed[q]
    BY <1>2 DEF TypeInv, TypeOK
  <2> QED BY <1>2, <2>1, <2>2
<1>6. owed' \in [Port -> Nat] /\ \A q \in Port : owed'[q] <= Answers[q]
  BY <1>2, <1>5 DEF TypeInv, TypeOK
<1>7. TypeOK'
  BY <1>2, <1>4, <1>6 DEF TypeInv, TypeOK, scanner
<1>8. Sent'
  BY <1>2, <1>5 DEF TypeInv, Sent
<1> QED BY <1>7, <1>8 DEF TypeInv

LEMMA TickTypes == ASSUME TypeInv, Tick PROVE TypeInv'
<1>1. /\ pending' = [s \in SrcPort |-> Older(pending[s])]
      /\ UNCHANGED <<pc, stage, fds, handler, locked, next, cursor, out, report,
                     verdict, abort, network>>
  BY DEF Tick
<1>2. ASSUME NEW e \in {NoEntry} \cup Entry
      PROVE  Older(e) \in {NoEntry} \cup Entry
  <2>1. CASE e # NoEntry /\ e.age < Timeout
    BY <2>1, SynAssumption DEF Older, Entry
  <2>2. CASE ~(e # NoEntry /\ e.age < Timeout)
    BY <2>2 DEF Older
  <2> QED BY <2>1, <2>2
<1>3. \A s \in SrcPort : pending[s] \in {NoEntry} \cup Entry
  BY DEF TypeInv, TypeOK, Entry
<1>4. pending' \in [SrcPort -> {NoEntry} \cup Entry]
  BY <1>1, <1>2, <1>3
<1>5. TypeOK'
  BY <1>1, <1>4 DEF TypeInv, TypeOK, Entry, network
<1>6. Sent'
  BY <1>1 DEF TypeInv, Sent, network
<1> QED BY <1>5, <1>6 DEF TypeInv

(* The other steps of the scanner do not touch ports and pending SYNs.     *)
LEMMA SimpleTypes ==
    ASSUME TypeInv,
           \/ SetUp \/ SetUpFails \/ Guard \/ SigInt \/ SigTerm \/ Loop \/ LaunchEnd
           \/ Wait \/ DrainEnd \/ CloseFds \/ Unguard \/ Report \/ Interrupt
           \/ UNCHANGED vars
    PROVE  TypeInv'
<1> USE DEF TypeInv, TypeOK, Sent, network
<1>1. CASE SetUp
  <2>1. Opens(stage) \subseteq {"send_fd", "recv_fd", "epfd"}
    BY DEF Opens
  <2>2. fds' \subseteq {"send_fd", "recv_fd", "epfd"}
    BY <1>1, <2>1 DEF SetUp
  <2>3. Len(Stages) = 7
    BY DEF Stages
  <2>4. stage' \in 1..7 /\ pc' \in {"setup", "guard"}
    BY <1>1, <2>3 DEF SetUp
  <2> QED BY <1>1, <2>2, <2>3, <2>4 DEF SetUp
<1>2. CASE SetUpFails
  BY <1>2 DEF SetUpFails
<1>3. CASE Guard BY <1>3 DEF Guard
<1>4. CASE SigInt BY <1>4 DEF SigInt, Signal
<1>5. CASE SigTerm BY <1>5 DEF SigTerm, Signal
<1>6. CASE Loop
  <2>1. out' \in Result
    <3>1. out \in Result
      BY DEF Result
    <3>2. [out EXCEPT !.aborted = TRUE] \in Result
      BY <3>1 DEF Result
    <3> QED BY <1>6, <3>1, <3>2 DEF Loop
  <2> QED BY <1>6, <2>1 DEF Loop, Result
<1>7. CASE LaunchEnd BY <1>7 DEF LaunchEnd
<1>8. CASE Wait BY <1>8 DEF Wait
<1>9. CASE DrainEnd BY <1>9 DEF DrainEnd
<1>10. CASE CloseFds BY <1>10 DEF CloseFds
<1>11. CASE Unguard BY <1>11 DEF Unguard, Signal
<1>12. CASE Report BY <1>12 DEF Report
<1>13. CASE Interrupt BY <1>13 DEF Interrupt, scanner
<1>14. CASE UNCHANGED vars BY <1>14 DEF vars, scanner
<1> QED BY <1>1, <1>2, <1>3, <1>4, <1>5, <1>6, <1>7, <1>8, <1>9, <1>10, <1>11,
           <1>12, <1>13, <1>14

(* Types of the half-open scan.                                            *)
THEOREM SynTypeCorrect == Spec => []TypeOK
<1>1. TypeInv /\ [Next]_vars => TypeInv'
  BY LaunchTypes, LaunchFailsTypes, DrainTypes, SweepTypes, AnswerTypes, TickTypes,
     SimpleTypes DEF Next, Scanner, Over
<1>2. TypeInv => TypeOK
  BY DEF TypeInv
<1> QED BY InitTypeInv, <1>1, <1>2, PTL DEF Spec

-----------------------------------------------------------------------------
(* What the scan holds, step by step.                                      *)

HeldInSetUp == CASE stage <= 4 -> {}
                 [] stage \in {5, 6} -> {"send_fd"}
                 [] stage = 7 -> {"send_fd", "recv_fd"}

OldHandlers == \A s \in Signal : handler[s] = "old"

(* From the first handler to the last, SIGTERM's is only installed when    *)
(* SIGINT's is, and a SIGINT handler alone is only there in between.       *)
Guarded == {"head", "launch", "wait", "drain", "sweep", "close", "unguard"}

Held ==
    /\ pc = "setup" => fds = HeldInSetUp
    /\ pc \in {"setup", "guard"} => ~locked
    /\ pc \in {"setup", "guard", "sigint"} => OldHandlers
    /\ pc = "sigterm" => handler["term"] = "old"
    /\ pc \in Guarded => handler["term"] = "scan" \/ OldHandlers
    /\ pc = "unguard" => fds = {}
    /\ NothingHeld

LEMMA HandlersOf ==
    OldHandlers <=> handler["int"] = "old" /\ handler["term"] = "old"
BY DEF OldHandlers, Signal

LEMMA InitHeld == Init => Held
<1> SUFFICES ASSUME Init PROVE Held
  OBVIOUS
<1>1. pc = "setup" /\ stage = 1 /\ fds = {} /\ ~locked /\ OldHandlers
  BY DEF Init, OldHandlers
<1>2. HeldInSetUp = {}
  BY <1>1 DEF HeldInSetUp
<1> QED BY <1>1, <1>2 DEF Held, NothingHeld, Guarded

LEMMA SetUpHeld == ASSUME TypeOK, Held, SetUp PROVE Held'
<1>1. /\ pc = "setup" /\ fds = HeldInSetUp /\ ~locked /\ OldHandlers
      /\ UNCHANGED <<handler, locked>>
      /\ stage \in 1..7 /\ Len(Stages) = 7
  BY DEF SetUp, Held, TypeOK, Stages
<1>2. OldHandlers'
  BY <1>1 DEF OldHandlers
<1>3. CASE stage = 7
  BY <1>1, <1>2, <1>3 DEF SetUp, Held, NothingHeld, Guarded
<1>4. CASE stage # 7
  <2>1. stage \in 1..6 /\ stage' = stage + 1 /\ pc' = "setup"
    BY <1>1, <1>4 DEF SetUp
  <2>2. Opens(stage) = IF stage = 4 THEN {"send_fd"}
                       ELSE IF stage = 6 THEN {"recv_fd"} ELSE {}
    BY <2>1 DEF Opens, Stages
  <2>3. fds' = fds \cup Opens(stage)
    BY DEF SetUp
  <2>4. HeldInSetUp = IF stage <= 4 THEN {} ELSE {"send_fd"}
    BY <2>1 DEF HeldInSetUp
  <2>5. HeldInSetUp' = IF stage <= 3 THEN {} ELSE IF stage <= 5 THEN {"send_fd"}
                       ELSE {"send_fd", "recv_fd"}
    BY <2>1 DEF HeldInSetUp
  <2>6. fds' = HeldInSetUp'
    BY <1>1, <2>1, <2>2, <2>3, <2>4, <2>5
  <2> QED BY <1>1, <1>2, <2>1, <2>6 DEF Held, NothingHeld, Guarded
<1> QED BY <1>3, <1>4

LEMMA SetUpFailsHeld == ASSUME TypeOK, Held, SetUpFails PROVE Held'
<1>1. /\ pc = "setup" /\ pc' = "fallback" /\ fds = HeldInSetUp /\ ~locked /\ OldHandlers
      /\ fds' = fds \ Closes(stage)
      /\ UNCHANGED <<handler, locked>>
      /\ stage \in 1..7
  BY DEF SetUpFails, Held, TypeOK, Stages
<1>2. OldHandlers'
  BY <1>1 DEF OldHandlers
<1>3. Closes(stage) = IF stage \in {5, 6} THEN {"send_fd"}
                      ELSE IF stage = 7 THEN {"send_fd", "recv_fd"} ELSE {}
  BY <1>1 DEF Closes, Stages
<1>4. HeldInSetUp = IF stage <= 4 THEN {} ELSE IF stage <= 6 THEN {"send_fd"}
                    ELSE {"send_fd", "recv_fd"}
  BY <1>1 DEF HeldInSetUp
<1>5. fds' = {}
  BY <1>1, <1>3, <1>4
<1> QED BY <1>1, <1>2, <1>5 DEF Held, NothingHeld, OldHandlers, Guarded

LEMMA GuardHeld ==
    ASSUME TypeOK, Held, Guard \/ SigInt \/ SigTerm
    PROVE  Held'
<1> USE DEF TypeOK, Held, NothingHeld, OldHandlers, Signal, Guarded
<1>1. CASE Guard BY <1>1 DEF Guard
<1>2. CASE SigInt
  <2>1. pc = "sigint" /\ handler["int"] = "old" /\ handler["term"] = "old"
    BY <1>2 DEF SigInt
  <2>2. CASE handler' = [handler EXCEPT !["int"] = "scan"] /\ pc' = "sigterm"
    BY <1>2, <2>1, <2>2
  <2>3. CASE UNCHANGED handler /\ pc' = "head"
    BY <1>2, <2>1, <2>3
  <2> QED BY <1>2, <2>2, <2>3 DEF SigInt
<1>3. CASE SigTerm
  <2>1. pc = "sigterm" /\ pc' = "head" /\ handler["term"] = "old"
    BY <1>3 DEF SigTerm
  <2>2. CASE handler' = [handler EXCEPT !["term"] = "scan"]
    BY <2>1, <2>2
  <2>3. CASE handler' = [handler EXCEPT !["int"] = "old"]
    BY <2>1, <2>3
  <2> QED BY <1>3, <2>2, <2>3 DEF SigTerm
<1> QED BY <1>1, <1>2, <1>3

LEMMA ScanHeld ==
    ASSUME TypeOK, Held,
           \/ Loop \/ Launch \/ LaunchFails \/ LaunchEnd \/ Wait \/ Drain \/ DrainEnd
           \/ Sweep
    PROVE  Held'
<1>1. /\ pc \in Guarded \ {"unguard"} /\ pc' \in Guarded \ {"unguard"}
      /\ UNCHANGED <<handler, locked, fds>>
  BY SweepIs DEF Loop, Launch, LaunchFails, LaunchEnd, Wait, Drain, DrainEnd, Guarded, network
<1> QED BY <1>1 DEF Held, NothingHeld, OldHandlers, Guarded

LEMMA LeaveHeld ==
    ASSUME TypeOK, Held, CloseFds \/ Unguard \/ Report
    PROVE  Held'
<1> USE DEF TypeOK, Held, NothingHeld, OldHandlers, Signal, Guarded
<1>1. CASE CloseFds BY <1>1 DEF CloseFds
<1>2. CASE Unguard BY <1>2 DEF Unguard
<1>3. CASE Report BY <1>3 DEF Report
<1> QED BY <1>1, <1>2, <1>3

LEMMA OutsideHeld ==
    ASSUME Held, (\E p \in Port : Answer(p)) \/ Interrupt \/ Tick \/ UNCHANGED vars
    PROVE  Held'
<1>1. UNCHANGED <<pc, stage, fds, handler, locked>>
  BY DEF Answer, Interrupt, Tick, vars, scanner
<1> QED BY <1>1 DEF Held, NothingHeld, OldHandlers, Guarded, HeldInSetUp

(* However the scan ends, it holds no descriptor, no lock and no handler:  *)
(* whichever step of the set-up fails, and whichever signal handler could  *)
(* not be installed.                                                       *)
THEOREM SynLeavesNothing == Spec => []NothingHeld
<1>1. TypeOK /\ Held /\ [Next]_vars => Held'
  BY SetUpHeld, SetUpFailsHeld, GuardHeld, ScanHeld, LeaveHeld, OutsideHeld
     DEF Next, Scanner, Over
<1>2. Held => NothingHeld
  BY DEF Held
<1> QED BY InitHeld, <1>1, <1>2, SynTypeCorrect, PTL DEF Spec

-----------------------------------------------------------------------------
(* Counters.  A port of the list is not taken yet, or pending under one    *)
(* source port, or counted, and never two of these.                        *)

Taken(p) == \E k \in 1..next : Ports[k] = p
Pending(p) == \E s \in InUse : pending[s].port = p

Places ==
    /\ \A s \in InUse : Taken(pending[s].port)
    /\ \A s, t \in InUse : pending[s].port = pending[t].port => s = t
    /\ \A p \in out.open : Taken(p) /\ ~Pending(p)

Sums ==
    /\ IsFiniteSet(out.open)
    /\ out.scanned = Cardinality(out.open) + out.timeouts + out.refused + out.other

Counted == next = out.scanned + Cardinality(InUse)

CountInv == Places /\ Sums /\ Counted

LEMMA InitCount == Init => CountInv
<1> SUFFICES ASSUME Init PROVE CountInv
  OBVIOUS
<1>1. InUse = {} /\ out = NoResult /\ next = 0
  BY DEF Init, InUse
<1>2. out.open = {} /\ out.scanned = 0 /\ out.timeouts = 0 /\ out.refused = 0 /\ out.other = 0
  BY <1>1 DEF NoResult
<1>3. IsFiniteSet({}) /\ Cardinality({}) = 0
  BY FS_EmptySet
<1> QED BY <1>1, <1>2, <1>3 DEF CountInv, Places, Sums, Counted

LEMMA OutFacts ==
    ASSUME TypeOK
    PROVE  /\ out.open \in SUBSET Port /\ out.scanned \in Nat /\ out.timeouts \in Nat
           /\ out.refused \in Nat /\ out.other \in Nat
BY DEF TypeOK

LEMMA NextIsNew ==
    ASSUME TypeOK, next < Len(Ports)
    PROVE  ~Taken(Ports[next + 1]) /\ next + 1 \in 1..Len(Ports) /\ next \in Nat
<1>1. next \in Nat /\ next + 1 \in 1..Len(Ports)
  BY PortsFacts DEF TypeOK
<1>2. ASSUME NEW k \in 1..next, Ports[k] = Ports[next + 1] PROVE FALSE
  <2>1. k \in 1..Len(Ports) /\ k # next + 1
    BY <1>1, PortsFacts
  <2> QED BY <1>1, <1>2, <2>1, PortsFacts
<1> QED BY <1>1, <1>2 DEF Taken

(* Deciding ports that are not on the open list keeps the sums.            *)
LEMMA DecideSums ==
    ASSUME TypeOK, Sums, NEW S \in SUBSET Port, S \cap out.open = {},
           NEW v \in Verdict \ {"none"}, MarkDone(S, v)
    PROVE  /\ Sums' /\ Cardinality(S) \in Nat
           /\ out'.scanned = out.scanned + Cardinality(S)
           /\ out'.open \subseteq out.open \cup S
<1> DEFINE n == Cardinality(S)
<1>1. IsFiniteSet(S) /\ n \in Nat
  BY PortsFacts, FS_Subset, FS_CardinalityType
<1>2. /\ out'.scanned = out.scanned + n
      /\ out'.open = IF v = "open" THEN out.open \cup S ELSE out.open
      /\ out'.timeouts = IF v = "timeout" THEN out.timeouts + n ELSE out.timeouts
      /\ out'.refused = IF v = "refused" THEN out.refused + n ELSE out.refused
      /\ out'.other = IF v = "other" THEN out.other + n ELSE out.other
  BY DEF MarkDone, Tally
<1>3. IsFiniteSet(out.open) /\ Cardinality(out.open) \in Nat
  BY FS_CardinalityType DEF Sums
<1>4. /\ IsFiniteSet(out.open \cup S)
      /\ Cardinality(out.open \cup S) = Cardinality(out.open) + n
  <2>1. Cardinality(out.open \cap S) = 0
    <3>1. out.open \cap S = {}
      OBVIOUS
    <3> QED BY <3>1, FS_EmptySet
  <2>2. Cardinality(out.open \cup S) = Cardinality(out.open) + n - 0
    BY <1>1, <1>3, <2>1, FS_Union
  <2>3. IsFiniteSet(out.open \cup S)
    BY <1>1, <1>3, FS_Union
  <2> QED BY <1>1, <1>3, <2>2, <2>3
<1> HIDE DEF n
<1>5. /\ IsFiniteSet(out'.open)
      /\ Cardinality(out'.open) = IF v = "open" THEN Cardinality(out.open) + n
                                  ELSE Cardinality(out.open)
  BY <1>2, <1>3, <1>4
<1>6. v = "open" \/ v = "timeout" \/ v = "refused" \/ v = "other"
  BY DEF Verdict
<1>7. out'.scanned = Cardinality(out'.open) + out'.timeouts + out'.refused + out'.other
  BY <1>1, <1>2, <1>3, <1>5, <1>6, OutFacts DEF Sums
<1> QED BY <1>1, <1>2, <1>5, <1>7 DEF Sums, n

LEMMA LaunchCount == ASSUME TypeOK, CountInv, Launch PROVE CountInv'
<1> DEFINE p == Ports[next + 1]
           s == Allocated(cursor)
<1>1. next < Len(Ports) /\ cursor \in 0..(Word - 1)
  BY PortsFacts DEF Launch, CanLaunch, TypeOK
<1>2. ~Taken(p) /\ next + 1 \in 1..Len(Ports) /\ next \in Nat /\ p \in Port
  BY <1>1, NextIsNew, PortsFacts
<1>3. s \in SrcPort /\ s \notin InUse
  BY <1>1, AllocatedIsFree DEF Launch
<1>4. /\ pending' = [pending EXCEPT ![s] = [port |-> p, age |-> 0]]
      /\ next' = next + 1 /\ out' = out
  BY <1>3 DEF Launch
<1> HIDE DEF s
<1>5. [port |-> p, age |-> 0] # NoEntry
  BY <1>2, SynAssumption DEF NoEntry
<1>6. \A t \in SrcPort : pending'[t] = IF t = s THEN [port |-> p, age |-> 0] ELSE pending[t]
  BY <1>3, <1>4 DEF TypeOK
<1>7. InUse' = InUse \cup {s}
  BY <1>3, <1>5, <1>6 DEF InUse
<1>8. InUse \subseteq SrcPort /\ IsFiniteSet(InUse) /\ Cardinality(InUse) \in Nat
  BY PendingFacts
<1>9. Cardinality(InUse') = Cardinality(InUse) + 1
  BY <1>3, <1>7, <1>8, FS_AddElement
<1>10. \A q : Taken(q)' <=> Taken(q) \/ q = p
  BY <1>2, <1>4 DEF Taken
<1>11. pending'[s].port = p /\ \A t \in InUse : pending'[t] = pending[t]
  BY <1>3, <1>6, <1>8
<1> HIDE DEF p
<1>12. Places'
  BY <1>2, <1>4, <1>7, <1>10, <1>11 DEF CountInv, Places, Pending
<1>13. Sums'
  BY <1>4 DEF CountInv, Sums
<1>14. Counted'
  BY <1>2, <1>4, <1>8, <1>9, OutFacts DEF CountInv, Counted
<1> QED BY <1>12, <1>13, <1>14 DEF CountInv

LEMMA LaunchFailsCount == ASSUME TypeOK, CountInv, LaunchFails PROVE CountInv'
<1> DEFINE p == Ports[next + 1]
<1>1. next < Len(Ports)
  BY PortsFacts DEF LaunchFails, CanLaunch, TypeOK
<1>2. ~Taken(p) /\ next \in Nat /\ p \in Port
  BY <1>1, NextIsNew, PortsFacts
<1>3. MarkDone({p}, "other") /\ next' = next + 1 /\ pending' = pending
  BY DEF LaunchFails
<1>4. \A q : Taken(q)' <=> Taken(q) \/ q = p
  BY <1>2, <1>3 DEF Taken
<1> HIDE DEF p
<1>5. {p} \cap out.open = {} /\ {p} \in SUBSET Port /\ "other" \in Verdict \ {"none"}
  BY <1>2 DEF CountInv, Places, Verdict
<1>6. /\ Sums' /\ Cardinality({p}) = 1
      /\ out'.scanned = out.scanned + Cardinality({p})
      /\ out'.open \subseteq out.open \cup {p}
  BY <1>3, <1>5, DecideSums, FS_Singleton DEF CountInv
<1>7. InUse' = InUse /\ Cardinality(InUse) \in Nat
  BY <1>3, PendingFacts DEF InUse
<1>8. Places'
  BY <1>2, <1>3, <1>4, <1>6, <1>7 DEF CountInv, Places, Pending
<1>9. Counted'
  BY <1>2, <1>3, <1>6, <1>7, OutFacts DEF CountInv, Counted
<1> QED BY <1>6, <1>8, <1>9 DEF CountInv

(* Some pending SYNs are taken out and their ports decided, all alike.     *)
LEMMA TakeOutCount ==
    ASSUME TypeOK, CountInv, NEW S \in SUBSET InUse, NEW v \in Verdict \ {"none"},
           MarkDone({pending[s].port : s \in S}, v), next' = next,
           \A s \in SrcPort : pending'[s] = IF s \in S THEN NoEntry ELSE pending[s]
    PROVE  CountInv'
<1> DEFINE T == {pending[s].port : s \in S}
<1>1. /\ InUse \subseteq SrcPort /\ IsFiniteSet(InUse) /\ Cardinality(InUse) \in Nat
      /\ \A s \in InUse : pending[s].port \in Port
  BY PendingFacts DEF Entry
<1>2. InUse' = InUse \ S
  BY <1>1 DEF InUse
<1>3. IsFiniteSet(S) /\ Cardinality(S) \in Nat
  BY <1>1, FS_Subset, FS_CardinalityType
<1>4. Cardinality(InUse') = Cardinality(InUse) - Cardinality(S)
  <2>1. InUse \cap S = S
    OBVIOUS
  <2> QED BY <1>1, <1>2, <2>1, FS_Difference
<1>5. Cardinality(T) = Cardinality(S)
  <2> DEFINE f == [s \in S |-> pending[s].port]
  <2>1. f \in [S -> T] /\ \A t \in T : \E s \in S : f[s] = t
    OBVIOUS
  <2>2. \A s, t \in S : f[s] = f[t] => s = t
    BY DEF CountInv, Places
  <2> HIDE DEF f, T
  <2>3. f \in Bijection(S, T)
    <3>1. f \in Injection(S, T)
      BY <2>1, <2>2 DEF Injection, IsInjective
    <3>2. f \in Surjection(S, T)
      BY <2>1 DEF Surjection
    <3> QED BY <3>1, <3>2 DEF Bijection
  <2> QED BY <1>3, <2>3, FS_Bijection DEF ExistsBijection
<1>6. T \in SUBSET Port /\ T \cap out.open = {}
  BY <1>1 DEF CountInv, Places, Pending
<1>7. \A q \in T : Taken(q) /\ ~\E s \in InUse' : pending[s].port = q
  BY <1>2 DEF CountInv, Places
<1> HIDE DEF T
<1>8. /\ Sums' /\ out'.scanned = out.scanned + Cardinality(T)
      /\ out'.open \subseteq out.open \cup T
  BY <1>6, DecideSums DEF CountInv, T
<1>9. \A s \in InUse' : s \in InUse /\ pending'[s] = pending[s]
  BY <1>1, <1>2
<1>10. Places'
  <2>1. \A q : Taken(q)' <=> Taken(q)
    BY DEF Taken
  <2> QED BY <1>7, <1>8, <1>9, <2>1 DEF CountInv, Places, Pending
<1>11. Counted'
  BY <1>1, <1>3, <1>4, <1>5, <1>8, OutFacts DEF CountInv, Counted, TypeOK
<1> QED BY <1>8, <1>10, <1>11 DEF CountInv

LEMMA UntouchedCount ==
    ASSUME TypeOK, CountInv, next' = next,
           \A s \in SrcPort : /\ pending'[s].port = pending[s].port
                              /\ pending'[s] = NoEntry <=> pending[s] = NoEntry,
           out'.open = out.open, out'.scanned = out.scanned, out'.timeouts = out.timeouts,
           out'.refused = out.refused, out'.other = out.other
    PROVE  CountInv'
<1>1. InUse' = InUse /\ InUse \subseteq SrcPort
  BY DEF InUse
<1>2. \A q : (Taken(q)' <=> Taken(q)) /\ (Pending(q)' <=> Pending(q))
  BY <1>1 DEF Taken, Pending
<1>3. Places'
  BY <1>1, <1>2 DEF CountInv, Places
<1> QED BY <1>1, <1>3 DEF CountInv, Sums, Counted

LEMMA DrainCount == ASSUME TypeOK, CountInv, Drain PROVE CountInv'
<1>1. PICK m \in inbox :
          IF m.to \in InUse
          THEN /\ MarkDone({pending[m.to].port}, VerdictOf(m.kind))
               /\ pending' = [pending EXCEPT ![m.to] = NoEntry]
          ELSE UNCHANGED <<out, verdict, pending>>
  BY DEF Drain
<1>2. next' = next
  BY DEF Drain
<1>3. CASE m.to \in InUse
  <2> DEFINE S == {m.to}
  <2>1. {pending[s].port : s \in S} = {pending[m.to].port}
    OBVIOUS
  <2>2. VerdictOf(m.kind) \in Verdict \ {"none"}
    BY DEF VerdictOf, Verdict
  <2>3. \A s \in SrcPort : pending'[s] = IF s \in S THEN NoEntry ELSE pending[s]
    BY <1>1, <1>3 DEF TypeOK
  <2>4. S \in SUBSET InUse
    BY <1>3
  <2>5. MarkDone({pending[s].port : s \in S}, VerdictOf(m.kind))
    BY <1>1, <1>3, <2>1
  <2> HIDE DEF S
  <2> QED BY <1>2, <2>2, <2>3, <2>4, <2>5, TakeOutCount
<1>4. CASE m.to \notin InUse
  BY <1>1, <1>2, <1>4, UntouchedCount
<1> QED BY <1>3, <1>4

LEMMA SweepCount == ASSUME TypeOK, CountInv, Sweep PROVE CountInv'
<1>1. Old \in SUBSET InUse /\ "timeout" \in Verdict \ {"none"}
  BY DEF Old, Verdict
<1>2. \A s \in SrcPort : pending'[s] = IF s \in Old THEN NoEntry ELSE pending[s]
  BY SweepIs
<1> QED BY <1>1, <1>2, SweepIs, TakeOutCount

(* Time changes ages only.                                                 *)
LEMMA OlderKeeps ==
    ASSUME TypeOK, NEW s \in SrcPort
    PROVE  /\ Older(pending[s]).port = pending[s].port
           /\ Older(pending[s]) = NoEntry <=> pending[s] = NoEntry
<1>1. pending[s] = NoEntry \/ pending[s] \in Entry
  BY DEF TypeOK, Entry
<1>2. CASE pending[s] = NoEntry
  BY <1>2 DEF Older
<1>3. CASE pending[s] \in Entry
  <2>1. Older(pending[s]).port = pending[s].port
    BY <1>3 DEF Older, Entry
  <2>2. NoEntry.port = NoPort /\ pending[s].port # NoPort
    BY <1>3, SynAssumption DEF Entry, NoEntry
  <2> QED BY <2>1, <2>2
<1> QED BY <1>1, <1>2, <1>3

LEMMA TickCount == ASSUME TypeOK, CountInv, Tick PROVE CountInv'
<1>1. next' = next /\ out' = out /\ pending' = [s \in SrcPort |-> Older(pending[s])]
  BY DEF Tick
<1> QED BY <1>1, OlderKeeps, UntouchedCount

LEMMA OtherCount ==
    ASSUME TypeOK, CountInv,
           \/ SetUp \/ SetUpFails \/ Guard \/ SigInt \/ SigTerm \/ Loop \/ LaunchEnd
           \/ Wait \/ DrainEnd \/ CloseFds \/ Unguard \/ Report
           \/ (\E p \in Port : Answer(p)) \/ Interrupt \/ UNCHANGED vars
    PROVE  CountInv'
<1>1. next' = next /\ pending' = pending
  BY DEF SetUp, SetUpFails, Guard, SigInt, SigTerm, Loop, LaunchEnd, Wait, DrainEnd,
         CloseFds, Unguard, Report, Answer, Interrupt, vars, scanner
<1>2. out' = out \/ out' = [out EXCEPT !.aborted = TRUE]
  BY DEF SetUp, SetUpFails, Guard, SigInt, SigTerm, Loop, LaunchEnd, Wait, DrainEnd,
         CloseFds, Unguard, Report, Answer, Interrupt, vars, scanner
<1>3. /\ out'.open = out.open /\ out'.scanned = out.scanned
      /\ out'.timeouts = out.timeouts /\ out'.refused = out.refused
      /\ out'.other = out.other
  BY <1>2 DEF TypeOK
<1> QED BY <1>1, <1>3, UntouchedCount

(* No port is forgotten: each one taken from the list is counted or        *)
(* pending, so that no source port is ever given to two SYNs, although     *)
(* the cursor wraps and the remainder turns negative.                      *)
THEOREM SynCountersAddUp == Spec => []CountersAddUp
<1>1. TypeOK /\ CountInv /\ [Next]_vars => CountInv'
  BY LaunchCount, LaunchFailsCount, DrainCount, SweepCount, TickCount, OtherCount
     DEF Next, Scanner, Over
<1>2. CountInv => CountersAddUp
  BY DEF CountInv, Sums, Counted, CountersAddUp
<1> QED BY InitCount, <1>1, <1>2, SynTypeCorrect, PTL DEF Spec

-----------------------------------------------------------------------------
(* The half-open scan is a port scan, as long as no answer outlives the    *)
(* reuse of its source port.                                               *)

With(v) == {p \in Port : verdict[p] = v}

(* The counters count the verdicts, and what is pending or not taken yet   *)
(* has none.                                                               *)
Agree ==
    /\ out.open = With("open")
    /\ out.timeouts = Cardinality(With("timeout"))
    /\ out.refused = Cardinality(With("refused"))
    /\ out.other = Cardinality(With("other"))
    /\ out.scanned = Cardinality(Port \ With("none"))
    /\ \A s \in InUse : verdict[pending[s].port] = "none"
    /\ \A k \in 1..Len(Ports) : k > next => verdict[Ports[k]] = "none"

(* Who answers a pending source port is who was asked from it.             *)
Traced ==
    /\ \A m \in inbox : m.kind = "synack" => m.from \in accepted
    /\ \A m \in inbox : m.to \in InUse => pending[m.to].port = m.from
    /\ \A p \in Port : owed[p] > 0 /\ via[p] \in InUse => pending[via[p]].port = p

Unreported == pc # "done" => report = NoReport

ScanInv == Agree /\ Traced /\ Unreported

LEMMA InitScan == Init => ScanInv /\ Scan!ScanInit
<1> SUFFICES ASSUME Init PROVE ScanInv /\ Scan!ScanInit
  OBVIOUS
<1>1. InUse = {} /\ out = NoResult /\ inbox = {} /\ owed = [p \in Port |-> 0]
  BY DEF Init, InUse
<1>2. With("open") = {} /\ With("timeout") = {} /\ With("refused") = {} /\ With("other") = {}
      /\ Port \ With("none") = {}
  BY DEF Init, With
<1>3. Cardinality({}) = 0
  BY FS_EmptySet
<1>4. Agree
  <2>1. out.open = {} /\ out.scanned = 0 /\ out.timeouts = 0 /\ out.refused = 0 /\ out.other = 0
    BY <1>1 DEF NoResult
  <2>2. \A k \in 1..Len(Ports) : verdict[Ports[k]] = "none"
    BY PortsFacts DEF Init
  <2> QED BY <1>1, <1>2, <1>3, <2>1, <2>2 DEF Agree
<1>5. Traced
  BY <1>1 DEF Traced
<1>6. Unreported /\ Scan!ScanInit
  BY DEF Init, Unreported, Scan!ScanInit
<1> QED BY <1>4, <1>5, <1>6 DEF ScanInv

LEMMA WithFinite ==
    ASSUME NEW S \in SUBSET Port
    PROVE  IsFiniteSet(S) /\ Cardinality(S) \in Nat
BY PortsFacts, FS_Subset, FS_CardinalityType

LEMMA DisjointUnion ==
    ASSUME NEW S \in SUBSET Port, NEW T \in SUBSET Port, S \cap T = {}
    PROVE  Cardinality(S \cup T) = Cardinality(S) + Cardinality(T)
<1>1. Cardinality(S \cap T) = 0
  BY FS_EmptySet
<1>2. Cardinality(S \cup T) = Cardinality(S) + Cardinality(T) - Cardinality(S \cap T)
  BY WithFinite, FS_Union
<1>3. Cardinality(S) \in Nat /\ Cardinality(T) \in Nat
  BY WithFinite
<1> QED BY <1>1, <1>2, <1>3

(* Deciding undecided ports is a step of PortScan, and the counters follow.*)
LEMMA DecideAgrees ==
    ASSUME TypeOK, Agree, Unreported, pc # "done",
           NEW S \in SUBSET Port, \A p \in S : verdict[p] = "none",
           NEW v \in Verdict \ {"none"}, v = "open" => S \subseteq accepted,
           MarkDone(S, v), UNCHANGED <<accepted, report>>
    PROVE  /\ [Scan!ScanNext]_(Scan!scanVars)
           /\ out'.open = With("open")'
           /\ out'.timeouts = Cardinality(With("timeout")')
           /\ out'.refused = Cardinality(With("refused")')
           /\ out'.other = Cardinality(With("other")')
           /\ out'.scanned = Cardinality(Port \ With("none")')
           /\ \A p \in Port \ S : verdict'[p] = verdict[p]
<1>1. verdict' = [p \in Port |-> IF p \in S THEN v ELSE verdict[p]]
  BY DEF MarkDone
<1>2. v \in {"open", "timeout", "refused", "other"}
  BY DEF Verdict
<1>3. [Scan!ScanNext]_(Scan!scanVars)
  <2>1. CASE S = {}
    BY <1>1, <2>1 DEF TypeOK, Scan!scanVars
  <2>2. CASE S # {}
    <3>1. Scan!Decide(S, v)
      BY <1>1, <2>2 DEF Scan!Decide, Unreported
    <3>2. v \in Scan!Verdict \ {"none"}
      BY <1>2 DEF Scan!Verdict
    <3> QED BY <3>1, <3>2 DEF Scan!ScanNext
  <2> QED BY <2>1, <2>2
<1>4. ASSUME NEW x \in {"open", "timeout", "refused", "other"}
      PROVE  /\ With(x)' = IF v = x THEN With(x) \cup S ELSE With(x)
             /\ With(x) \cap S = {} /\ With(x) \in SUBSET Port
  BY <1>1, <1>2 DEF With
<1>5. /\ Port \ With("none")' = (Port \ With("none")) \cup S
      /\ (Port \ With("none")) \cap S = {}
  BY <1>1, <1>2 DEF With
<1> DEFINE n == Cardinality(S)
<1>6. ASSUME NEW x \in {"open", "timeout", "refused", "other"}
      PROVE  Cardinality(With(x)') = IF v = x THEN Cardinality(With(x)) + n
                                     ELSE Cardinality(With(x))
  BY <1>4, DisjointUnion
<1>7. Cardinality(Port \ With("none")') = Cardinality(Port \ With("none")) + n
  BY <1>5, DisjointUnion
<1>8. /\ out'.scanned = out.scanned + n
      /\ out'.open = IF v = "open" THEN out.open \cup S ELSE out.open
      /\ out'.timeouts = IF v = "timeout" THEN out.timeouts + n ELSE out.timeouts
      /\ out'.refused = IF v = "refused" THEN out.refused + n ELSE out.refused
      /\ out'.other = IF v = "other" THEN out.other + n ELSE out.other
  BY DEF MarkDone, Tally
<1> HIDE DEF n
<1>9. /\ out'.open = With("open")'
      /\ out'.timeouts = Cardinality(With("timeout")')
      /\ out'.refused = Cardinality(With("refused")')
      /\ out'.other = Cardinality(With("other")')
      /\ out'.scanned = Cardinality(Port \ With("none")')
  <2>1. out'.open = With("open")'
    BY <1>4, <1>8 DEF Agree
  <2>2. out'.timeouts = Cardinality(With("timeout")')
    BY <1>6, <1>8 DEF Agree
  <2>3. out'.refused = Cardinality(With("refused")')
    BY <1>6, <1>8 DEF Agree
  <2>4. out'.other = Cardinality(With("other")')
    BY <1>6, <1>8 DEF Agree
  <2>5. out'.scanned = Cardinality(Port \ With("none")')
    BY <1>7, <1>8 DEF Agree
  <2> QED BY <2>1, <2>2, <2>3, <2>4, <2>5
<1> QED BY <1>1, <1>3, <1>9

LEMMA LaunchScans ==
    ASSUME ~Stale, TypeInv, CountInv, ScanInv, Launch
    PROVE  ScanInv' /\ UNCHANGED <<accepted, verdict, report>>
<1> DEFINE p == Ports[next + 1]
           s == Allocated(cursor)
<1>1. next < Len(Ports) /\ cursor \in 0..(Word - 1) /\ TypeOK /\ next \in Nat
  BY PortsFacts DEF Launch, CanLaunch, TypeInv, TypeOK
<1>2. next + 1 \in 1..Len(Ports) /\ p \in Port
  BY <1>1, PortsFacts
<1>3. s \in SrcPort /\ s \notin InUse
  BY <1>1, AllocatedIsFree DEF Launch
<1>4. /\ pending' = [pending EXCEPT ![s] = [port |-> p, age |-> 0]]
      /\ via' = [via EXCEPT ![p] = s]
      /\ owed' = [q \in Port |-> CASE q = p                -> Answers[p]
                                   [] ~Stale /\ via[q] = s -> 0
                                   [] OTHER                -> owed[q]]
      /\ inbox' = {m \in inbox : m.to # s}
      /\ next' = next + 1
      /\ UNCHANGED <<pc, out, report, verdict, accepted>>
  BY <1>3 DEF Launch
<1> HIDE DEF s
<1>5. [port |-> p, age |-> 0] # NoEntry
  BY <1>2, SynAssumption DEF NoEntry
<1>6. \A t \in SrcPort : pending'[t] = IF t = s THEN [port |-> p, age |-> 0] ELSE pending[t]
  BY <1>1, <1>3, <1>4 DEF TypeOK
<1>7. InUse' = InUse \cup {s} /\ InUse \subseteq SrcPort
  BY <1>3, <1>5, <1>6 DEF InUse
<1>8. pending'[s].port = p /\ \A t \in InUse : pending'[t] = pending[t]
  BY <1>3, <1>6, <1>7
<1>9. verdict[p] = "none"
  BY <1>1, <1>2 DEF ScanInv, Agree
<1>10. \A x : With(x)' = With(x)
  BY <1>4 DEF With
<1>11. Agree'
  <2>1. \A k \in 1..Len(Ports) : k > next' => verdict'[Ports[k]] = "none"
    BY <1>1, <1>4, PortsFacts DEF ScanInv, Agree
  <2>2. \A t \in InUse' : verdict'[pending'[t].port] = "none"
    BY <1>4, <1>7, <1>8, <1>9 DEF ScanInv, Agree
  <2> QED BY <1>4, <1>10, <2>1, <2>2 DEF ScanInv, Agree
<1>12. Traced'
  <2>1. ASSUME NEW m \in inbox'
        PROVE  /\ m.kind = "synack" => m.from \in accepted'
               /\ m.to \in InUse' => pending'[m.to].port = m.from
    BY <1>4, <1>7, <1>8, <2>1 DEF ScanInv, Traced
  <2>2. ASSUME NEW q \in Port, owed'[q] > 0, via'[q] \in InUse'
        PROVE  pending'[via'[q]].port = q
    <3>1. via'[q] = IF q = p THEN s ELSE via[q]
      BY <1>1, <1>2, <1>4 DEF TypeOK
    <3>2. CASE q = p
      BY <1>8, <3>1, <3>2
    <3>3. CASE q # p
      <4>1. owed'[q] = IF via[q] = s THEN 0 ELSE owed[q]
        BY <1>4, <3>3
      <4>2. via[q] # s /\ owed[q] > 0
        BY <2>2, <4>1
      <4> QED BY <1>7, <1>8, <2>2, <3>1, <3>3, <4>2 DEF ScanInv, Traced
    <3> QED BY <3>2, <3>3
  <2> QED BY <2>1, <2>2 DEF Traced
<1>13. Unreported'
  BY <1>4 DEF ScanInv, Unreported
<1> QED BY <1>4, <1>11, <1>12, <1>13 DEF ScanInv

LEMMA LaunchFailsScans ==
    ASSUME TypeInv, CountInv, ScanInv, LaunchFails
    PROVE  ScanInv' /\ [Scan!ScanNext]_(Scan!scanVars)
<1> DEFINE p == Ports[next + 1]
<1>1. next < Len(Ports) /\ TypeOK /\ next \in Nat
  BY PortsFacts DEF LaunchFails, CanLaunch, TypeInv, TypeOK
<1>2. next + 1 \in 1..Len(Ports) /\ p \in Port /\ ~Taken(p)
  BY <1>1, PortsFacts, NextIsNew
<1>3. /\ MarkDone({p}, "other") /\ next' = next + 1 /\ pc = "launch"
      /\ UNCHANGED <<pc, pending, report, network>>
  BY DEF LaunchFails
<1>4. verdict[p] = "none" /\ \A k \in 1..Len(Ports) : k > next + 1 => Ports[k] # p
  BY <1>1, <1>2, PortsFacts DEF ScanInv, Agree
<1>5. \A s \in InUse : pending[s].port # p /\ pending[s].port \in Port
  BY <1>1, <1>2, PendingFacts DEF CountInv, Places, Entry
<1> HIDE DEF p
<1>6. /\ [Scan!ScanNext]_(Scan!scanVars)
      /\ out'.open = With("open")'
      /\ out'.timeouts = Cardinality(With("timeout")')
      /\ out'.refused = Cardinality(With("refused")')
      /\ out'.other = Cardinality(With("other")')
      /\ out'.scanned = Cardinality(Port \ With("none")')
      /\ \A q \in Port \ {p} : verdict'[q] = verdict[q]
  <2>1. "other" \in Verdict \ {"none"} /\ {p} \in SUBSET Port
    BY <1>2 DEF Verdict
  <2> QED BY <1>1, <1>3, <1>4, <2>1, DecideAgrees DEF ScanInv, network
<1>7. InUse' = InUse
  BY <1>3 DEF InUse
<1>8. Agree'
  <2>1. \A k \in 1..Len(Ports) : k > next' => verdict'[Ports[k]] = "none"
    BY <1>1, <1>3, <1>4, <1>6, PortsFacts DEF ScanInv, Agree
  <2>2. \A s \in InUse' : verdict'[pending'[s].port] = "none"
    BY <1>3, <1>5, <1>6, <1>7 DEF ScanInv, Agree
  <2> QED BY <1>6, <2>1, <2>2 DEF Agree
<1>9. Traced' /\ Unreported'
  BY <1>3, <1>7 DEF ScanInv, Traced, Unreported, network
<1> QED BY <1>6, <1>8, <1>9 DEF ScanInv

(* SYNs leave pending, and their ports are decided alike.                  *)
LEMMA TakeOutScans ==
    ASSUME TypeInv, CountInv, ScanInv, NEW S \in SUBSET InUse,
           NEW v \in Verdict \ {"none"},
           v = "open" => {pending[s].port : s \in S} \subseteq accepted,
           MarkDone({pending[s].port : s \in S}, v), next' = next,
           \A s \in SrcPort : pending'[s] = IF s \in S THEN NoEntry ELSE pending[s],
           inbox' \subseteq inbox, pc \notin {"report", "done"}, pc' # "done",
           UNCHANGED <<accepted, report, via, owed>>
    PROVE  ScanInv' /\ [Scan!ScanNext]_(Scan!scanVars)
<1> DEFINE T == {pending[s].port : s \in S}
<1>1. /\ InUse \subseteq SrcPort /\ TypeOK
      /\ \A s \in InUse : pending[s].port \in Port
  BY PendingFacts DEF Entry, TypeInv
<1>2. InUse' = InUse \ S
  BY <1>1 DEF InUse
<1>3. T \in SUBSET Port /\ \A p \in T : verdict[p] = "none" /\ Taken(p)
  BY <1>1 DEF ScanInv, Agree, CountInv, Places
<1>4. \A s \in InUse' : /\ s \in InUse /\ pending'[s] = pending[s]
                        /\ pending[s].port \in Port \ T
  BY <1>1, <1>2 DEF CountInv, Places
<1>5. MarkDone(T, v) /\ (v = "open" => T \subseteq accepted)
  OBVIOUS
<1> HIDE DEF T
<1>6. /\ [Scan!ScanNext]_(Scan!scanVars)
      /\ out'.open = With("open")'
      /\ out'.timeouts = Cardinality(With("timeout")')
      /\ out'.refused = Cardinality(With("refused")')
      /\ out'.other = Cardinality(With("other")')
      /\ out'.scanned = Cardinality(Port \ With("none")')
      /\ \A p \in Port \ T : verdict'[p] = verdict[p]
  BY <1>1, <1>3, <1>5, DecideAgrees DEF ScanInv
<1>7. Agree'
  <2>1. ASSUME NEW k \in 1..Len(Ports), k > next'
        PROVE  verdict'[Ports[k]] = "none"
    <3>1. next \in Nat /\ next <= Len(Ports) /\ Len(Ports) \in Nat
      BY <1>1, PortsFacts DEF TypeOK
    <3>2. Ports[k] \in Port /\ ~Taken(Ports[k])
      <4>1. \A j \in 1..next : j \in 1..Len(Ports) /\ j # k
        BY <2>1, <3>1
      <4> QED BY <4>1, PortsFacts DEF Taken
    <3>3. Ports[k] \in Port \ T
      BY <1>3, <3>2
    <3> QED BY <1>6, <2>1, <3>3 DEF ScanInv, Agree
  <2>2. \A s \in InUse' : verdict'[pending'[s].port] = "none"
    BY <1>4, <1>6 DEF ScanInv, Agree
  <2> QED BY <1>6, <2>1, <2>2 DEF Agree
<1>8. Traced'
  BY <1>2, <1>4 DEF ScanInv, Traced
<1>9. Unreported'
  BY DEF ScanInv, Unreported
<1> QED BY <1>6, <1>7, <1>8, <1>9 DEF ScanInv

LEMMA DrainScans ==
    ASSUME TypeInv, CountInv, ScanInv, Drain
    PROVE  ScanInv' /\ [Scan!ScanNext]_(Scan!scanVars)
<1>1. PICK m \in inbox :
          /\ inbox' = inbox \ {m}
          /\ IF m.to \in InUse
             THEN /\ MarkDone({pending[m.to].port}, VerdictOf(m.kind))
                  /\ pending' = [pending EXCEPT ![m.to] = NoEntry]
             ELSE UNCHANGED <<out, verdict, pending>>
  BY DEF Drain
<1>2. /\ pc = "drain" /\ pc' = "drain" /\ next' = next
      /\ UNCHANGED <<accepted, report, via, owed>>
  BY DEF Drain
<1>3. CASE m.to \in InUse
  <2> DEFINE S == {m.to}
  <2>1. {pending[s].port : s \in S} = {pending[m.to].port}
    OBVIOUS
  <2>2. VerdictOf(m.kind) \in Verdict \ {"none"}
    BY DEF VerdictOf, Verdict
  <2>3. \A s \in SrcPort : pending'[s] = IF s \in S THEN NoEntry ELSE pending[s]
    BY <1>1, <1>3 DEF TypeInv, TypeOK
  <2>4. S \in SUBSET InUse
    BY <1>3
  <2>5. MarkDone({pending[s].port : s \in S}, VerdictOf(m.kind))
    BY <1>1, <1>3, <2>1
  <2>6. VerdictOf(m.kind) = "open" => pending[m.to].port \in accepted
    <3>1. VerdictOf(m.kind) = "open" => m.kind = "synack"
      BY DEF VerdictOf
    <3> QED BY <1>3, <3>1 DEF ScanInv, Traced
  <2>7. VerdictOf(m.kind) = "open" => {pending[s].port : s \in S} \subseteq accepted
    BY <2>1, <2>6
  <2> HIDE DEF S
  <2> QED BY <1>1, <1>2, <2>2, <2>3, <2>4, <2>5, <2>7, TakeOutScans
<1>4. CASE m.to \notin InUse
  <2>1. UNCHANGED <<out, verdict, pending, next, accepted, report, via, owed, pc>>
    BY <1>1, <1>2, <1>4
  <2>2. inbox' \subseteq inbox
    BY <1>1
  <2>3. InUse' = InUse /\ \A x : With(x)' = With(x)
    BY <2>1 DEF InUse, With
  <2>4. Agree'
    BY <2>1, <2>3 DEF ScanInv, Agree
  <2>5. Traced' /\ Unreported'
    BY <2>1, <2>2, <2>3 DEF ScanInv, Traced, Unreported
  <2> QED BY <2>1, <2>4, <2>5 DEF ScanInv, Scan!scanVars
<1> QED BY <1>3, <1>4

LEMMA SweepScans ==
    ASSUME TypeInv, CountInv, ScanInv, Sweep
    PROVE  ScanInv' /\ [Scan!ScanNext]_(Scan!scanVars)
<1>1. Old \in SUBSET InUse /\ "timeout" \in Verdict \ {"none"}
  BY DEF Old, Verdict
<1>2. \A s \in SrcPort : pending'[s] = IF s \in Old THEN NoEntry ELSE pending[s]
  BY SweepIs
<1>3. /\ pc = "sweep" /\ pc' = "head" /\ next' = next /\ inbox' = inbox
      /\ MarkDone({pending[s].port : s \in Old}, "timeout")
      /\ UNCHANGED <<accepted, report, via, owed>>
  BY SweepIs DEF network
<1> QED BY <1>1, <1>2, <1>3, TakeOutScans

(* The abstract scan counts with the same cardinality as the detailed one. *)
LEMMA SameCardinality ==
    ASSUME NEW S
    PROVE  Scan!Cardinality(S) = Cardinality(S)
BY Zenon DEF Scan!Cardinality, Cardinality

(* Everything else leaves the verdicts and what they rest on alone, but    *)
(* for Answer, which is Accept if it is a SYN-ACK.                         *)
LEMMA AnswerScans ==
    ASSUME TypeInv, ScanInv, NEW p \in Port, Answer(p)
    PROVE  ScanInv' /\ [Scan!ScanNext]_(Scan!scanVars)
<1>1. PICK k \in Kind :
          /\ inbox' = inbox \cup {[kind |-> k, from |-> p, to |-> via[p]]}
          /\ accepted' = IF k = "synack" THEN accepted \cup {p} ELSE accepted
  BY DEF Answer
<1>2. /\ owed[p] > 0 /\ owed' = [owed EXCEPT ![p] = @ - 1] /\ pc \notin {"report", "done"}
      /\ UNCHANGED <<pc, next, pending, out, report, verdict, via>>
  BY DEF Answer, scanner
<1>3. InUse' = InUse /\ \A x : With(x)' = With(x)
  BY <1>2 DEF InUse, With
<1>4. Agree'
  BY <1>2, <1>3 DEF ScanInv, Agree
<1>5. Traced'
  <2>1. ASSUME NEW m \in inbox'
        PROVE  /\ m.kind = "synack" => m.from \in accepted'
               /\ m.to \in InUse' => pending'[m.to].port = m.from
    <3>1. CASE m \in inbox
      BY <1>1, <1>2, <1>3, <3>1 DEF ScanInv, Traced
    <3>2. CASE m = [kind |-> k, from |-> p, to |-> via[p]]
      <4>1. m.kind = k /\ m.from = p /\ m.to = via[p]
        BY <3>2
      <4>2. m.kind = "synack" => m.from \in accepted'
        BY <1>1, <4>1
      <4>3. m.to \in InUse' => pending'[m.to].port = m.from
        BY <1>2, <1>3, <4>1 DEF ScanInv, Traced
      <4> QED BY <4>2, <4>3
    <3> QED BY <1>1, <2>1, <3>1, <3>2
  <2>2. \A q \in Port : owed'[q] > 0 => owed[q] > 0
    <3> TAKE q \in Port
    <3>1. owed[q] \in Nat /\ owed'[q] = IF q = p THEN owed[p] - 1 ELSE owed[q]
      BY <1>2 DEF TypeInv, TypeOK
    <3> QED BY <1>2, <3>1
  <2> QED BY <1>2, <1>3, <2>1, <2>2 DEF ScanInv, Traced
<1>6. Unreported' /\ report = NoReport
  BY <1>2 DEF ScanInv, Unreported
<1>7. [Scan!ScanNext]_(Scan!scanVars)
  <2>1. CASE k = "synack"
    <3>1. Scan!Accept(p)
      BY <1>1, <1>2, <1>6, <2>1 DEF Scan!Accept
    <3> QED BY <3>1 DEF Scan!ScanNext
  <2>2. CASE k # "synack"
    BY <1>1, <1>2, <2>2 DEF Scan!scanVars
  <2> QED BY <2>1, <2>2
<1> QED BY <1>4, <1>5, <1>6, <1>7 DEF ScanInv

LEMMA ReportScans ==
    ASSUME TypeInv, ScanInv, Report
    PROVE  ScanInv' /\ Scan!ScanNext
<1>1. /\ report' = [open     |-> out.open,
                    scanned  |-> out.scanned,
                    timeouts |-> out.timeouts,
                    refused  |-> out.refused,
                    other    |-> out.other,
                    skipped  |-> out.aborted \/ out.scanned < Len(Ports)]
      /\ pc = "report" /\ pc' = "done"
      /\ UNCHANGED <<next, pending, out, verdict, via, owed, inbox, accepted>>
  BY DEF Report, network
<1>2. InUse' = InUse /\ \A x : With(x)' = With(x)
  BY <1>1 DEF InUse, With
<1>3. ScanInv'
  <2>1. Agree'
    BY <1>1, <1>2 DEF ScanInv, Agree
  <2>2. Traced'
    BY <1>1, <1>2 DEF ScanInv, Traced
  <2>3. Unreported'
    BY <1>1 DEF Unreported
  <2> QED BY <2>1, <2>2, <2>3 DEF ScanInv
<1>4. With("none") # {} => out.scanned < Len(Ports)
  <2>1. Len(Ports) = Cardinality(Port)
    <3> DEFINE f == [k \in 1..Len(Ports) |-> Ports[k]]
    <3>1. f \in [1..Len(Ports) -> Port] /\ \A j, k \in 1..Len(Ports) : f[j] = f[k] => j = k
      BY PortsFacts
    <3>2. \A q \in Port : \E k \in 1..Len(Ports) : f[k] = q
      <4>1. DOMAIN Ports = 1..Len(Ports)
        BY SynAssumption
      <4> QED BY <4>1 DEF Port
    <3> HIDE DEF f
    <3>3. f \in Injection(1..Len(Ports), Port)
      BY <3>1 DEF Injection, IsInjective
    <3>4. f \in Surjection(1..Len(Ports), Port)
      BY <3>1, <3>2 DEF Surjection
    <3>5. ExistsBijection(1..Len(Ports), Port)
      BY <3>3, <3>4 DEF ExistsBijection, Bijection
    <3>6. IsFiniteSet(1..Len(Ports)) /\ Cardinality(1..Len(Ports)) = Len(Ports)
      <4> DEFINE n == Len(Ports)
      <4>1. n \in Int /\ n >= 0 /\ 1 \in Int
        BY PortsFacts
      <4> HIDE DEF n
      <4>2. /\ IsFiniteSet(1..n)
            /\ Cardinality(1..n) = IF 1 > n THEN 0 ELSE n - 1 + 1
        BY ONLY <4>1, FS_Interval, Zenon
      <4>3. Cardinality(1..n) = n
        BY <4>1, <4>2
      <4> QED BY <4>2, <4>3 DEF n
    <3> QED BY <3>5, <3>6, FS_Bijection
  <2>2. /\ Cardinality(Port \ With("none")) <= Cardinality(Port)
        /\ Cardinality(Port) = Cardinality(Port \ With("none")) => Port = Port \ With("none")
    BY PortsFacts, FS_Subset
  <2>3. Cardinality(Port) \in Nat /\ Cardinality(Port \ With("none")) \in Nat
    BY PortsFacts, WithFinite
  <2>4. With("none") # {} => Port # Port \ With("none")
    BY DEF With
  <2> QED BY <2>1, <2>2, <2>3, <2>4 DEF ScanInv, Agree
<1>5. \A v : Scan!With(v) = With(v)
  BY DEF With, Scan!With
<1>6. Scan!Report
  <2> DEFINE skipped == out.aborted \/ out.scanned < Len(Ports)
  <2>1. skipped \in BOOLEAN /\ (With("none") # {} => skipped)
    BY <1>4
  <2>2. report' = [open     |-> With("open"),
                   scanned  |-> Cardinality(Port \ With("none")),
                   timeouts |-> Cardinality(With("timeout")),
                   refused  |-> Cardinality(With("refused")),
                   other    |-> Cardinality(With("other")),
                   skipped  |-> skipped]
    BY <1>1 DEF ScanInv, Agree
  <2>3. report = NoReport
    BY <1>1 DEF ScanInv, Unreported
  <2> HIDE DEF skipped
  <2>4. report' = [open     |-> Scan!With("open"),
                   scanned  |-> Scan!Cardinality(Port \ Scan!With("none")),
                   timeouts |-> Scan!Cardinality(Scan!With("timeout")),
                   refused  |-> Scan!Cardinality(Scan!With("refused")),
                   other    |-> Scan!Cardinality(Scan!With("other")),
                   skipped  |-> skipped]
    BY <1>5, <2>2, SameCardinality
  <2>5. Scan!With("none") # {} => skipped
    BY <1>5, <2>1
  <2>6. accepted' = accepted /\ verdict' = verdict
    BY <1>1
  <2> QED BY <2>1, <2>3, <2>4, <2>5, <2>6, Zenon DEF Scan!Report
<1> QED BY <1>3, <1>6 DEF Scan!ScanNext

LEMMA StillScans ==
    ASSUME TypeInv, ScanInv,
           \/ SetUp \/ SetUpFails \/ Guard \/ SigInt \/ SigTerm \/ Loop \/ LaunchEnd
           \/ Wait \/ DrainEnd \/ CloseFds \/ Unguard \/ Interrupt \/ Tick
           \/ UNCHANGED vars
    PROVE  ScanInv' /\ UNCHANGED Scan!scanVars
<1>1. /\ UNCHANGED <<next, report, verdict, network>>
      /\ pc = "done" <=> pc' = "done"
      /\ pending' = pending \/ pending' = [s \in SrcPort |-> Older(pending[s])]
      /\ out' = out \/ out' = [out EXCEPT !.aborted = TRUE]
  BY DEF SetUp, SetUpFails, Guard, SigInt, SigTerm, Loop, LaunchEnd, Wait, DrainEnd,
         CloseFds, Unguard, Interrupt, Tick, vars, scanner, network
<1>2. /\ out'.open = out.open /\ out'.scanned = out.scanned
      /\ out'.timeouts = out.timeouts /\ out'.refused = out.refused
      /\ out'.other = out.other
  BY <1>1 DEF TypeInv, TypeOK
<1>3. \A s \in SrcPort : /\ pending'[s].port = pending[s].port
                         /\ pending'[s] = NoEntry <=> pending[s] = NoEntry
  <2> TAKE s \in SrcPort
  <2>1. CASE pending' = pending
    BY <2>1
  <2>2. CASE pending' = [t \in SrcPort |-> Older(pending[t])]
    BY <2>2, OlderKeeps DEF TypeInv
  <2> QED BY <1>1, <2>1, <2>2
<1>4. InUse' = InUse /\ InUse \subseteq SrcPort
  BY <1>3 DEF InUse
<1>5. \A x : With(x)' = With(x)
  BY <1>1 DEF With
<1>6. Agree'
  BY <1>1, <1>2, <1>3, <1>4, <1>5 DEF ScanInv, Agree
<1>7. Traced'
  BY <1>1, <1>3, <1>4 DEF ScanInv, Traced, network
<1>8. Unreported'
  BY <1>1 DEF ScanInv, Unreported
<1> QED BY <1>1, <1>6, <1>7, <1>8 DEF ScanInv, Scan!scanVars, network

LEMMA SynSteps ==
    ASSUME ~Stale
    PROVE  /\ Init => TypeInv /\ CountInv /\ ScanInv /\ Scan!ScanInit
           /\ TypeInv /\ CountInv /\ ScanInv /\ [Next]_vars
                 => /\ TypeInv' /\ CountInv' /\ ScanInv'
                    /\ [Scan!ScanNext]_(Scan!scanVars)
<1>1. TypeInv /\ [Next]_vars => TypeInv'
  BY LaunchTypes, LaunchFailsTypes, DrainTypes, SweepTypes, AnswerTypes, TickTypes,
     SimpleTypes DEF Next, Scanner, Over
<1>2. TypeInv /\ CountInv /\ [Next]_vars => CountInv'
  BY LaunchCount, LaunchFailsCount, DrainCount, SweepCount, TickCount, OtherCount
     DEF TypeInv, Next, Scanner, Over
<1>3. TypeInv /\ CountInv /\ ScanInv /\ [Next]_vars
         => ScanInv' /\ [Scan!ScanNext]_(Scan!scanVars)
  <2>1. TypeInv /\ CountInv /\ ScanInv /\ Launch
           => ScanInv' /\ [Scan!ScanNext]_(Scan!scanVars)
    BY LaunchScans DEF Scan!scanVars
  <2> QED BY <2>1, LaunchFailsScans, DrainScans, SweepScans, AnswerScans, ReportScans,
             StillScans DEF Next, Scanner, Over
<1> QED BY <1>1, <1>2, <1>3, InitTypeInv, InitCount, InitScan

(* While no answer outlives the reuse of its source port, the half-open    *)
(* scan implements PortScan: a port decided stays decided, "open" is only  *)
(* said of a port that answered with a SYN-ACK, and the report agrees with *)
(* the verdicts and announces gaps.                                        *)
THEOREM SynImplementsPortScan == ASSUME ~Stale PROVE Spec => RefinesPortScan
BY SynSteps, PTL DEF Spec, RefinesPortScan, Scan!ScanSpec

(* Whatever is open was accepted: a promise of PortScan itself.            *)
Listed == \A p \in Port : verdict[p] = "open" => p \in accepted

LEMMA ListedStep ==
    ASSUME Listed, [Scan!ScanNext]_(Scan!scanVars), TypeInv
    PROVE  Listed'
<1>1. verdict \in [Port -> Scan!Verdict]
  BY DEF TypeInv, TypeOK, Verdict, Scan!Verdict
<1>2. CASE \E p \in Port : Scan!Accept(p)
  BY <1>2 DEF Scan!Accept, Listed
<1>3. ASSUME NEW S \in SUBSET Port, NEW v, Scan!Decide(S, v)
      PROVE  Listed'
  BY <1>3 DEF Scan!Decide, Listed
<1>4. CASE Scan!Report \/ UNCHANGED Scan!scanVars
  BY <1>4 DEF Scan!Report, Scan!scanVars, Listed
<1> QED BY <1>2, <1>3, <1>4 DEF Scan!ScanNext

(* The claim of TcpOpen::ok that TLC refutes for stale answers holds       *)
(* without them: a port on the open list accepted a connection, for any    *)
(* ports, window, retries and any wrap of the source-port cursor.          *)
THEOREM SynOpenMeansAnswered == ASSUME ~Stale PROVE Spec => []OpenMeansAnswered
<1>1. Init => Listed
  BY DEF Init, Listed
<1>2. TypeInv /\ CountInv /\ ScanInv /\ Listed /\ [Next]_vars => Listed'
  BY SynSteps, ListedStep
<1>3. ScanInv /\ Listed => OpenMeansAnswered
  BY DEF ScanInv, Agree, With, Listed, OpenMeansAnswered
<1> QED BY <1>1, <1>2, <1>3, SynSteps, PTL DEF Spec
=============================================================================
