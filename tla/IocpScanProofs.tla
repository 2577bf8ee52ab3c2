--------------------------- MODULE IocpScanProofs ---------------------------
(***************************************************************************)
(* Proofs about IocpScan, for any ports, window, time-out and addresses:   *)
(* types and where a port can be, the counters, who owns a connect's       *)
(* memory and socket, and that the worker implements PortScan.             *)
(***************************************************************************)
EXTENDS IocpScan, FiniteSetTheorems, TLAPS

Entry    == [port : Port, age : 0..Timeout]
Connect  == [at : Addr \cup {NoAddr}, st : {"none", "ok", "failed"} \cup Owned]
Result   == [open : SUBSET Port, scanned : Nat, timeouts : Nat,
             refused : Nat, other : Nat, aborted : BOOLEAN]
Decision == {"open", "timeout", "refused", "other"}

(* The list and its ports.                                                 *)
LEMMA PortsFacts ==
    /\ Len(Ports) \in Nat
    /\ \A k \in 1..Len(Ports) : Ports[k] \in Port
    /\ \A j, k \in 1..Len(Ports) : Ports[j] = Ports[k] => j = k
    /\ \A p \in Port : \E k \in 1..Len(Ports) : Ports[k] = p
    /\ IsFiniteSet(Port)
<1>1. Ports \in Seq(Nat)
  BY IocpAssumption
<1>2. Len(Ports) \in Nat /\ DOMAIN Ports = 1..Len(Ports)
  BY <1>1
<1>3. /\ \A k \in 1..Len(Ports) : Ports[k] \in Port
      /\ \A p \in Port : \E k \in 1..Len(Ports) : Ports[k] = p
  BY <1>2 DEF Port
<1>4. IsFiniteSet(1..Len(Ports))
  BY <1>2, FS_Interval
<1>5. IsFiniteSet(Port)
  <2> DEFINE f == [k \in 1..Len(Ports) |-> Ports[k]]
  <2>1. f \in [1..Len(Ports) -> Port] /\ \A p \in Port : \E k \in 1..Len(Ports) : f[k] = p
    BY <1>3
  <2> HIDE DEF f
  <2>2. f \in Surjection(1..Len(Ports), Port)
    BY <2>1 DEF Surjection
  <2> QED BY <1>4, <2>2, FS_Surjection
<1> QED BY <1>2, <1>3, <1>5, IocpAssumption

LEMMA SetFacts ==
    ASSUME NEW S \in SUBSET Port
    PROVE  IsFiniteSet(S) /\ Cardinality(S) \in Nat
BY PortsFacts, FS_Subset, FS_CardinalityType

LEMMA DisjointUnion ==
    ASSUME NEW S \in SUBSET Port, NEW T \in SUBSET Port, S \cap T = {}
    PROVE  Cardinality(S \cup T) = Cardinality(S) + Cardinality(T)
<1>1. Cardinality(S \cap T) = 0
  BY FS_EmptySet
<1>2. Cardinality(S \cup T) = Cardinality(S) + Cardinality(T) - Cardinality(S \cap T)
  BY SetFacts, FS_Union
<1>3. Cardinality(S) \in Nat /\ Cardinality(T) \in Nat
  BY SetFacts
<1> QED BY <1>1, <1>2, <1>3

-----------------------------------------------------------------------------
(* Types, and where a port of the list is: not launched yet, in `active`   *)
(* at one address, or decided.                                             *)

Launched == IF pc = "call" THEN next + 1 ELSE next
Ended    == {"drain", "ready", "done"}

Calling == pc = "call" => /\ next < Len(Ports)
                          /\ at \in Active
                          /\ active[at].port = Ports[next + 1]

Placed ==
    /\ \A a \in Active : \E k \in 1..Launched : Ports[k] = active[a].port
    /\ \A a, b \in Active : active[a].port = active[b].port => a = b
    /\ pc \notin {"ready", "done"} =>
          \A k \in 1..Len(Ports) : k > Launched => verdict[Ports[k]] = "none"
    /\ pc \notin Ended =>
          \A k \in 1..Launched : verdict[Ports[k]] = "none" => Ports[k] \in PortsAt(Active)

Leaving ==
    /\ pc = "begin" => next = 0 /\ out = NoResult
    /\ pc \in Ended \cup {"begin"} => Active = {}
    /\ pc = "exit" => stop \/ (Active = {} /\ next = Len(Ports))

TypeInv == TypeOK /\ Calling /\ Placed /\ Leaving

Undecided == \A a \in Addr : active[a] # NoEntry => verdict[active[a].port] = "none"

LEMMA ActiveFacts ==
    ASSUME TypeOK
    PROVE  /\ Active \subseteq Addr
           /\ \A a \in Active : active[a] \in Entry /\ active[a].port \in Port
           /\ \A a \in Active : verdict[active[a].port] = "none"
           /\ \A S \in SUBSET Active : PortsAt(S) \in SUBSET Port
BY DEF TypeOK, Active, Entry, PortsAt

LEMMA LaunchedFacts ==
    ASSUME TypeInv
    PROVE  Launched \in 0..Len(Ports)
BY PortsFacts DEF TypeInv, TypeOK, Calling, Launched

LEMMA InitTypeInv == Init => TypeInv
<1> SUFFICES ASSUME Init PROVE TypeInv
  OBVIOUS
<1>1. NoResult \in Result /\ NoOp \in Connect
  BY DEF NoResult, Result, NoOp, Connect
<1>2. 0 \in 0..Len(Ports) /\ Active = {} /\ Launched = 0
  BY PortsFacts DEF Init, Active, Launched
<1>3. TypeOK
  BY <1>1, <1>2 DEF Init, TypeOK, Result, Connect
<1>4. \A k \in 1..Len(Ports) : verdict[Ports[k]] = "none"
  BY PortsFacts DEF Init
<1> QED BY <1>2, <1>3, <1>4 DEF Init, TypeInv, Calling, Placed, Leaving

(* A step that launches nothing and decides nothing.                       *)
LEMMA StillPlaced ==
    ASSUME TypeInv, verdict' = verdict, Launched' = Launched,
           active' = active \/ active' = [a \in Addr |-> Older(active[a])],
           pc' \notin {"ready", "done"} => pc \notin {"ready", "done"},
           pc' \notin Ended => pc \notin Ended
    PROVE  /\ active' \in [Addr -> {NoEntry} \cup Entry]
           /\ Active' = Active /\ \A a \in Addr : active'[a].port = active[a].port
           /\ Placed' /\ Undecided'
<1>1. active \in [Addr -> {NoEntry} \cup Entry]
  BY DEF TypeInv, TypeOK, Entry
<1>2. \A e \in {NoEntry} \cup Entry : /\ Older(e) \in {NoEntry} \cup Entry
                                      /\ Older(e).port = e.port
                                      /\ Older(e) = NoEntry <=> e = NoEntry
  BY IocpAssumption DEF Older, NoEntry, Entry
<1>3. /\ active' \in [Addr -> {NoEntry} \cup Entry]
      /\ \A a \in Addr : /\ active'[a].port = active[a].port
                         /\ active'[a] = NoEntry <=> active[a] = NoEntry
  BY <1>1, <1>2
<1>4. Active' = Active /\ PortsAt(Active)' = PortsAt(Active)
  BY <1>3 DEF Active, PortsAt
<1>5. Placed'
  BY <1>3, <1>4, ActiveFacts DEF TypeInv, Placed
<1>6. Undecided'
  BY <1>3 DEF TypeInv, TypeOK, Undecided
<1> QED BY <1>3, <1>4, <1>5, <1>6

(* Connects leave `active` and their ports are decided.                    *)
LEMMA DropPlaced ==
    ASSUME TypeInv, NEW D \in SUBSET Active, NEW v \in Decision,
           active' = [a \in Addr |-> IF a \in D THEN NoEntry ELSE active[a]],
           verdict' = [p \in Port |-> IF p \in PortsAt(D) THEN v ELSE verdict[p]],
           Launched' = Launched,
           pc \notin Ended, pc' \notin Ended
    PROVE  /\ active' \in [Addr -> {NoEntry} \cup Entry]
           /\ verdict' \in [Port -> Decision \cup {"none"}]
           /\ Active' = Active \ D /\ \A a \in Active' : active'[a] = active[a]
           /\ PortsAt(Active)' = PortsAt(Active) \ PortsAt(D)
           /\ \A p \in PortsAt(D) : verdict[p] = "none"
           /\ Placed' /\ Undecided'
<1>1. /\ active \in [Addr -> {NoEntry} \cup Entry]
      /\ verdict \in [Port -> Decision \cup {"none"}]
      /\ TypeOK /\ Placed /\ pc \notin {"ready", "done"}
  BY DEF TypeInv, TypeOK, Entry, Decision, Ended
<1>2. /\ active' \in [Addr -> {NoEntry} \cup Entry]
      /\ verdict' \in [Port -> Decision \cup {"none"}]
  BY <1>1
<1>3. Active' = Active \ D /\ \A a \in Active' : active'[a] = active[a]
  BY DEF Active
<1>4. PortsAt(Active)' = PortsAt(Active) \ PortsAt(D)
  <2>1. PortsAt(Active)' = {active[a].port : a \in Active \ D}
    BY <1>3 DEF PortsAt
  <2>2. \A a \in Active \ D, b \in D : active[a].port # active[b].port
    BY <1>1 DEF Placed
  <2> QED BY <2>1, <2>2 DEF PortsAt
<1>5. \A p \in PortsAt(D) : verdict[p] = "none" /\ p \in Port
  BY <1>1, ActiveFacts DEF PortsAt
<1>6. Placed'
  <2>1. \A a \in Active' : \E k \in 1..Launched' : Ports[k] = active'[a].port
    BY <1>1, <1>3 DEF Placed
  <2>2. \A a, b \in Active' : active'[a].port = active'[b].port => a = b
    BY <1>1, <1>3 DEF Placed
  <2>3. \A k \in 1..Len(Ports) : k > Launched' => verdict'[Ports[k]] = "none"
    <3> SUFFICES ASSUME NEW k \in 1..Len(Ports), k > Launched
                 PROVE  verdict'[Ports[k]] = "none"
      OBVIOUS
    <3>1. verdict[Ports[k]] = "none" /\ Ports[k] \in Port
      BY <1>1, PortsFacts DEF Placed
    <3>2. Ports[k] \notin PortsAt(D)
      <4> SUFFICES ASSUME NEW a \in D, active[a].port = Ports[k] PROVE FALSE
        BY DEF PortsAt
      <4>1. PICK j \in 1..Launched : Ports[j] = Ports[k]
        BY <1>1 DEF Placed
      <4>2. j \in 1..Len(Ports) /\ j # k
        BY <4>1, LaunchedFacts, PortsFacts
      <4> QED BY <4>1, <4>2, PortsFacts
    <3> QED BY <3>1, <3>2
  <2>4. \A k \in 1..Launched' : verdict'[Ports[k]] = "none" => Ports[k] \in PortsAt(Active)'
    <3> SUFFICES ASSUME NEW k \in 1..Launched, verdict'[Ports[k]] = "none"
                 PROVE  Ports[k] \in PortsAt(Active)'
      OBVIOUS
    <3>1. k \in 1..Len(Ports) /\ Ports[k] \in Port
      BY LaunchedFacts, PortsFacts
    <3>2. Ports[k] \notin PortsAt(D) /\ verdict[Ports[k]] = "none"
      BY <3>1 DEF Decision
    <3> QED BY <1>1, <1>4, <3>2 DEF Placed
  <2> QED BY <2>1, <2>2, <2>3, <2>4 DEF Placed
<1>7. Undecided'
  <2> SUFFICES ASSUME NEW a \in Addr, active'[a] # NoEntry
               PROVE  verdict'[active'[a].port] = "none"
    BY DEF Undecided
  <2>1. a \in Active \ D /\ active'[a] = active[a]
    BY <1>3 DEF Active
  <2>2. active[a].port \in Port /\ verdict[active[a].port] = "none"
    BY <1>1, <2>1, ActiveFacts
  <2>3. active[a].port \notin PortsAt(D)
    BY <1>1, <2>1 DEF PortsAt, Placed
  <2> QED BY <2>1, <2>2, <2>3
<1> QED BY <1>2, <1>3, <1>4, <1>5, <1>6, <1>7

(* The next port becomes pending.                                          *)
LEMMA LaunchPlaced ==
    ASSUME TypeInv, pc = "launch", next < Len(Ports), NEW a \in Addr \ Active,
           active' = [active EXCEPT ![a] = [port |-> Ports[next + 1], age |-> 0]],
           pc' = "call", next' = next, at' = a, verdict' = verdict
    PROVE  /\ active' \in [Addr -> {NoEntry} \cup Entry]
           /\ Active' = Active \cup {a}
           /\ active'[a].port = Ports[next + 1]
           /\ \A b \in Active : active'[b] = active[b]
           /\ PortsAt(Active)' = PortsAt(Active) \cup {Ports[next + 1]}
           /\ Calling' /\ Placed' /\ Undecided'
<1> DEFINE p == Ports[next + 1]
           e == [port |-> p, age |-> 0]
<1>1. /\ active \in [Addr -> {NoEntry} \cup Entry] /\ TypeOK /\ Placed
      /\ Launched = next /\ Launched' = next + 1 /\ next \in Nat
      /\ next + 1 \in 1..Len(Ports) /\ p \in Port
  BY PortsFacts DEF TypeInv, TypeOK, Entry, Launched
<1>2. e \in Entry /\ e # NoEntry /\ e.port = p
  BY <1>1, IocpAssumption DEF Entry, NoEntry
<1> HIDE DEF e
<1>3. \A b \in Addr : active'[b] = IF b = a THEN e ELSE active[b]
  BY <1>1 DEF e
<1>4. active' \in [Addr -> {NoEntry} \cup Entry]
  BY <1>1, <1>2 DEF e
<1>5. Active' = Active \cup {a} /\ \A b \in Active : active'[b] = active[b]
  BY <1>2, <1>3 DEF Active
<1>6. PortsAt(Active)' = PortsAt(Active) \cup {p}
  BY <1>2, <1>3, <1>5 DEF PortsAt
<1>7. Calling'
  BY <1>1, <1>2, <1>3, <1>5 DEF Calling
<1>8. \A b \in Active : active[b].port # p
  <2> SUFFICES ASSUME NEW b \in Active, active[b].port = p PROVE FALSE
    OBVIOUS
  <2>1. PICK j \in 1..next : Ports[j] = p
    BY <1>1 DEF Placed
  <2>2. j \in 1..Len(Ports) /\ j # next + 1
    BY <1>1, <2>1, PortsFacts
  <2> QED BY <1>1, <2>1, <2>2, PortsFacts
<1>9. verdict[p] = "none"
  BY <1>1 DEF Placed
<1>10. Placed'
  <2>1. \A b \in Active' : \E k \in 1..Launched' : Ports[k] = active'[b].port
    <3> SUFFICES ASSUME NEW b \in Active' PROVE \E k \in 1..Launched' : Ports[k] = active'[b].port
      OBVIOUS
    <3>1. CASE b = a
      BY <1>1, <1>2, <1>3, <3>1
    <3>2. CASE b \in Active
      BY <1>1, <1>5, <3>2 DEF Placed
    <3> QED BY <1>5, <3>1, <3>2
  <2>2. \A b, c \in Active' : active'[b].port = active'[c].port => b = c
    BY <1>1, <1>2, <1>3, <1>5, <1>8 DEF Placed
  <2>3. \A k \in 1..Len(Ports) : k > Launched' => verdict'[Ports[k]] = "none"
    BY <1>1, PortsFacts DEF Placed
  <2>4. \A k \in 1..Launched' : verdict'[Ports[k]] = "none" => Ports[k] \in PortsAt(Active)'
    <3> SUFFICES ASSUME NEW k \in 1..Launched', verdict[Ports[k]] = "none"
                 PROVE  Ports[k] \in PortsAt(Active)'
      OBVIOUS
    <3>1. k \in 1..next \/ k = next + 1
      BY <1>1
    <3> QED BY <1>1, <1>6, <3>1 DEF Placed, Ended
  <2> QED BY <2>1, <2>2, <2>3, <2>4 DEF Placed
<1>11. Undecided'
  BY <1>2, <1>3, <1>9 DEF TypeInv, TypeOK, Undecided
<1> QED BY <1>2, <1>3, <1>4, <1>5, <1>6, <1>7, <1>10, <1>11

(* The next port is decided without having been launched.                  *)
LEMMA GiveUpPlaced ==
    ASSUME TypeInv, pc = "launch", pc' = pc, next < Len(Ports), next' = next + 1,
           active' = active, NEW v \in Decision,
           verdict' = [verdict EXCEPT ![Ports[next + 1]] = v]
    PROVE  /\ verdict' = [q \in Port |-> IF q \in {Ports[next + 1]} THEN v ELSE verdict[q]]
           /\ verdict' \in [Port -> Decision \cup {"none"}]
           /\ verdict[Ports[next + 1]] = "none" /\ Ports[next + 1] \in Port
           /\ next' \in 0..Len(Ports)
           /\ Active' = Active /\ PortsAt(Active)' = PortsAt(Active)
           /\ Placed' /\ Undecided'
<1> DEFINE p == Ports[next + 1]
<1>1. /\ verdict \in [Port -> Decision \cup {"none"}] /\ TypeOK /\ Placed
      /\ Launched = next /\ Launched' = next + 1 /\ next \in Nat
      /\ next + 1 \in 1..Len(Ports) /\ p \in Port
  BY PortsFacts DEF TypeInv, TypeOK, Decision, Launched
<1>2. /\ verdict' \in [Port -> Decision \cup {"none"}]
      /\ verdict' = [q \in Port |-> IF q \in {p} THEN v ELSE verdict[q]]
  BY <1>1
<1>3. verdict[p] = "none"
  BY <1>1 DEF Placed
<1>4. next' \in 0..Len(Ports)
  BY <1>1
<1>5. Active' = Active /\ PortsAt(Active)' = PortsAt(Active)
  BY DEF Active, PortsAt
<1>6. \A a \in Active : active[a].port # p
  <2> SUFFICES ASSUME NEW a \in Active, active[a].port = p PROVE FALSE
    OBVIOUS
  <2>1. PICK j \in 1..next : Ports[j] = p
    BY <1>1 DEF Placed
  <2>2. j \in 1..Len(Ports) /\ j # next + 1
    BY <1>1, <2>1, PortsFacts
  <2> QED BY <1>1, <2>1, <2>2, PortsFacts
<1>7. Placed'
  <2>1. \A a \in Active' : \E k \in 1..Launched' : Ports[k] = active'[a].port
    BY <1>1, <1>5 DEF Placed
  <2>2. \A a, b \in Active' : active'[a].port = active'[b].port => a = b
    BY <1>1, <1>5 DEF Placed
  <2>3. \A k \in 1..Len(Ports) : k > Launched' => verdict'[Ports[k]] = "none"
    <3> SUFFICES ASSUME NEW k \in 1..Len(Ports), k > next + 1 PROVE verdict'[Ports[k]] = "none"
      BY <1>1
    <3>1. Ports[k] # p /\ Ports[k] \in Port /\ k > Launched
      BY <1>1, PortsFacts
    <3> QED BY <1>1, <1>2, <3>1 DEF Placed
  <2>4. \A k \in 1..Launched' : verdict'[Ports[k]] = "none" => Ports[k] \in PortsAt(Active)'
    <3> SUFFICES ASSUME NEW k \in 1..(next + 1), verdict'[Ports[k]] = "none"
                 PROVE  Ports[k] \in PortsAt(Active)
      BY <1>1, <1>5
    <3>1. k \in 1..Len(Ports) /\ Ports[k] \in Port
      BY <1>1, PortsFacts
    <3>2. Ports[k] # p /\ verdict[Ports[k]] = "none"
      BY <1>2, <3>1 DEF Decision
    <3>3. k \in 1..Launched
      BY <1>1, <3>1, <3>2
    <3> QED BY <1>1, <3>2, <3>3 DEF Placed, Ended
  <2> QED BY <2>1, <2>2, <2>3, <2>4 DEF Placed
<1>8. Undecided'
  BY <1>1, <1>2, <1>6, ActiveFacts DEF Undecided, Active
<1> QED BY <1>1, <1>2, <1>3, <1>4, <1>5, <1>7, <1>8

(* The result after the ports of S are decided.                            *)
Tallied(r, S, v) ==
    [open     |-> IF v = "open" THEN r.open \cup S ELSE r.open,
     scanned  |-> r.scanned + Cardinality(S),
     timeouts |-> IF v = "timeout" THEN r.timeouts + Cardinality(S) ELSE r.timeouts,
     refused  |-> IF v = "refused" THEN r.refused + Cardinality(S) ELSE r.refused,
     other    |-> IF v = "other" THEN r.other + Cardinality(S) ELSE r.other,
     aborted  |-> r.aborted]

LEMMA TalliedType ==
    ASSUME TypeOK, NEW S \in SUBSET Port, NEW v \in Decision
    PROVE  Tallied(out, S, v) \in Result
<1>1. Cardinality(S) \in Nat
  BY SetFacts
<1>2. /\ out.open \in SUBSET Port /\ out.scanned \in Nat /\ out.timeouts \in Nat
      /\ out.refused \in Nat /\ out.other \in Nat /\ out.aborted \in BOOLEAN
  BY DEF TypeOK
<1> QED BY <1>1, <1>2 DEF Tallied, Result

LEMMA DecidedTallies ==
    ASSUME NEW r, NEW p, NEW v, v # "timeout"
    PROVE  Decided(r, p, v) = Tallied(r, {p}, v)
BY FS_Singleton DEF Decided, Tallied

LEMMA TimedOutTallies ==
    ASSUME NEW r, NEW S
    PROVE  TimedOut(r, Cardinality(S)) = Tallied(r, S, "timeout")
BY DEF TimedOut, Tallied

(* What is cancelled, and only that, stops being pending.                  *)
LEMMA CancelFacts ==
    ASSUME TypeOK, NEW S, Cancel(S)
    PROVE  /\ op' \in [Port -> Connect]
           /\ \A p \in Port : /\ op'[p].at = op[p].at
                              /\ op'[p].st = IF p \in S /\ op[p].st = "pending"
                                             THEN "cancelled" ELSE op[p].st
<1>1. op \in [Port -> Connect]
  BY DEF TypeOK, Connect
<1>2. ASSUME NEW p \in Port
      PROVE  /\ op'[p] \in Connect /\ op'[p].at = op[p].at
             /\ op'[p].st = IF p \in S /\ op[p].st = "pending" THEN "cancelled" ELSE op[p].st
  BY <1>1 DEF Cancel, Connect, Owned
<1> QED BY <1>2 DEF Cancel

(* The ports of S, undecided so far, are decided as v.                     *)
Decides(S, v) ==
    /\ S \in SUBSET Port /\ \A p \in S : verdict[p] = "none"
    /\ out' = Tallied(out, S, v)
    /\ verdict' = [p \in Port |-> IF p \in S THEN v ELSE verdict[p]]

(* One connect leaves `active` and its port is decided.                    *)
LEMMA DropOne ==
    ASSUME TypeInv, NEW a \in Active, NEW v \in Decision \ {"timeout"},
           MarkDone(active[a].port, v), Drop(a)
    PROVE  /\ PortsAt({a}) = {active[a].port} /\ active[a].port \in Port
           /\ active' = [b \in Addr |-> IF b \in {a} THEN NoEntry ELSE active[b]]
           /\ Decides(PortsAt({a}), v)
<1>1. /\ a \in Addr /\ active[a].port \in Port /\ verdict[active[a].port] = "none"
  BY ActiveFacts DEF TypeInv
<1>2. PortsAt({a}) = {active[a].port}
  BY DEF PortsAt
<1>3. /\ active \in [Addr -> {NoEntry} \cup Entry] /\ verdict \in [Port -> Decision \cup {"none"}]
  BY DEF TypeInv, TypeOK, Entry, Decision
<1>4. active' = [b \in Addr |-> IF b \in {a} THEN NoEntry ELSE active[b]]
  BY <1>1, <1>3 DEF Drop
<1>5. verdict' = [p \in Port |-> IF p \in PortsAt({a}) THEN v ELSE verdict[p]]
  BY <1>1, <1>2, <1>3 DEF MarkDone
<1>6. out' = Tallied(out, PortsAt({a}), v)
  BY <1>2, DecidedTallies DEF MarkDone
<1> QED BY <1>1, <1>2, <1>4, <1>5, <1>6 DEF Decides

LEMMA BeginTypes == ASSUME TypeInv, Begin PROVE TypeInv'
<1>1. /\ pc = "begin" /\ next = 0 /\ Active = {} /\ Launched = 0 /\ Launched' = 0
      /\ pc' \in {"head", "ready"} /\ active' = active /\ TypeOK
      /\ UNCHANGED <<next, at, active, retired, report, socks, stop, op, queue, accepted>>
  BY DEF Begin, TypeInv, Leaving, Launched, kernel
<1>2. /\ out' \in Result /\ verdict' \in [Port -> Decision \cup {"none"}]
      /\ pc' = "head" => UNCHANGED <<out, verdict>>
  <2>1. CASE UNCHANGED <<out, verdict>>
    BY <1>1, <2>1 DEF TypeOK, Result, Decision
  <2>2. CASE /\ pc' = "ready"
             /\ out' = [NoResult EXCEPT !.scanned = Len(Ports), !.other = Len(Ports)]
             /\ verdict' = [p \in Port |-> "other"]
    BY <2>2, PortsFacts DEF NoResult, Result, Decision
  <2> QED BY <2>1, <2>2 DEF Begin
<1>3. Active' = {}
  BY <1>1 DEF Active
<1>4. Undecided'
  BY <1>1 DEF Active, Undecided
<1>5. TypeOK'
  BY <1>1, <1>2, <1>4 DEF TypeOK, Result, Decision, Undecided
<1>6. Placed'
  <2>1. pc' = "head" => \A k \in 1..Len(Ports) : verdict'[Ports[k]] = "none"
    BY <1>1, <1>2 DEF TypeInv, Placed
  <2> QED BY <1>1, <1>3, <2>1 DEF Placed, Ended
<1> QED BY <1>1, <1>3, <1>5, <1>6 DEF TypeInv, Calling, Leaving

LEMMA LaunchFailsTypes ==
    ASSUME TypeInv, LaunchFails
    PROVE  TypeInv' /\ Decides({Ports[next + 1]}, "other")
<1> DEFINE p == Ports[next + 1]
<1>1. /\ pc = "launch" /\ pc' = pc /\ next < Len(Ports) /\ next' = next + 1
      /\ active' = active /\ verdict' = [verdict EXCEPT ![p] = "other"]
      /\ out' = Tallied(out, {p}, "other") /\ "other" \in Decision
      /\ UNCHANGED <<at, retired, report, socks, stop, op, queue, accepted>>
  BY DecidedTallies DEF LaunchFails, CanLaunch, MarkDone, kernel, Decision
<1>2. /\ verdict' = [q \in Port |-> IF q \in {p} THEN "other" ELSE verdict[q]]
      /\ verdict' \in [Port -> Decision \cup {"none"}]
      /\ verdict[p] = "none" /\ p \in Port /\ next' \in 0..Len(Ports)
      /\ Active' = Active /\ Placed' /\ Undecided'
  <2>1. PICK v \in Decision : v = "other"
    BY <1>1
  <2> QED BY ONLY TypeInv, <1>1, <2>1, GiveUpPlaced
<1>3. out' \in Result
  BY <1>1, <1>2, TalliedType DEF TypeInv
<1>4. TypeOK'
  <2>1. TypeOK
    BY DEF TypeInv
  <2>2. out' \in [open : SUBSET Port, scanned : Nat, timeouts : Nat,
                  refused : Nat, other : Nat, aborted : BOOLEAN]
        /\ verdict' \in [Port -> {"none", "open", "timeout", "refused", "other"}]
    BY <1>2, <1>3 DEF Result, Decision
  <2> HIDE DEF p
  <2> QED BY ONLY <1>1, <1>2, <2>1, <2>2 DEF TypeOK, Undecided
<1>5. Calling' /\ Leaving'
  BY <1>1 DEF Calling, Leaving, Ended
<1> QED BY <1>1, <1>2, <1>4, <1>5 DEF TypeInv, Decides

LEMMA LaunchTypes == ASSUME TypeInv, Launch PROVE TypeInv'
<1> DEFINE p == Ports[next + 1]
<1>1. PICK a \in Addr : /\ Allocatable(a)
                        /\ active' = [active EXCEPT ![a] = [port |-> p, age |-> 0]]
                        /\ op' = [op EXCEPT ![p] = [at |-> a, st |-> "pending"]]
                        /\ socks' = socks \cup {p} /\ at' = a
  BY DEF Launch
<1>2. /\ pc = "launch" /\ pc' = "call" /\ next < Len(Ports) /\ a \in Addr \ Active
      /\ UNCHANGED <<next, retired, out, report, stop, queue, accepted, verdict>>
  BY <1>1 DEF Launch, CanLaunch, Allocatable
<1>3. /\ active' \in [Addr -> {NoEntry} \cup Entry]
      /\ Calling' /\ Placed' /\ Undecided'
  BY <1>1, <1>2, LaunchPlaced
<1>4. p \in Port
  BY <1>2, PortsFacts DEF TypeInv, TypeOK
<1>5. op' \in [Port -> Connect]
  BY <1>1, <1>4 DEF TypeInv, TypeOK, Connect, Owned
<1>6. TypeOK'
  BY <1>1, <1>2, <1>3, <1>4, <1>5, IocpAssumption
     DEF TypeInv, TypeOK, Entry, Connect, Undecided
<1> QED BY <1>2, <1>3, <1>6 DEF TypeInv, Leaving, Ended

LEMMA CallDecidesTypes ==
    ASSUME TypeInv, CallDecides
    PROVE  /\ TypeInv'
           /\ active' = [b \in Addr |-> IF b \in {at} THEN NoEntry ELSE active[b]]
           /\ \E v \in {"open", "refused", "other"} :
                 /\ Decides({Ports[next + 1]}, v)
                 /\ v = "open" => op[Ports[next + 1]].st = "ok"
<1> DEFINE p == Ports[next + 1]
<1>1. /\ pc = "call" /\ pc' = "launch" /\ at' = NoAddr /\ next' = next + 1
      /\ next < Len(Ports) /\ at \in Active /\ active[at].port = p /\ Drop(at)
      /\ socks' = socks \ {p} /\ next \in Nat /\ p \in Port
      /\ UNCHANGED <<retired, report, stop, queue, accepted>>
  BY PortsFacts DEF CallDecides, CloseSocket, TypeInv, TypeOK, Calling
<1>2. PICK v \in {"open", "refused", "other"} :
         /\ MarkDone(p, v)
         /\ v = "open" => op[p].st = "ok"
         /\ op' = op \/ op' = [op EXCEPT ![p] = NoOp]
  BY DEF CallDecides
<1>3. /\ PortsAt({at}) = {p} /\ Decides({p}, v) /\ v \in Decision
      /\ active' = [b \in Addr |-> IF b \in {at} THEN NoEntry ELSE active[b]]
  <2>1. MarkDone(active[at].port, v) /\ v \in Decision \ {"timeout"}
    BY <1>1, <1>2 DEF Decision, MarkDone
  <2>2. /\ PortsAt({at}) = {active[at].port} /\ Decides(PortsAt({at}), v)
        /\ active' = [b \in Addr |-> IF b \in {at} THEN NoEntry ELSE active[b]]
    BY <1>1, <2>1, DropOne
  <2>3. PortsAt({at}) = {p}
    BY <1>1, <2>2
  <2> QED BY <2>1, <2>2, <2>3
<1>4. Launched = next + 1 /\ Launched' = next + 1 /\ pc \notin Ended /\ pc' \notin Ended
  BY <1>1 DEF Launched, Ended
<1>5. /\ active' \in [Addr -> {NoEntry} \cup Entry]
      /\ verdict' \in [Port -> Decision \cup {"none"}]
      /\ Placed' /\ Undecided'
  <2>1. {at} \in SUBSET Active
    BY <1>1
  <2>2. verdict' = [q \in Port |-> IF q \in PortsAt({at}) THEN v ELSE verdict[q]]
    BY <1>3 DEF Decides
  <2> QED BY <1>3, <1>4, <2>1, <2>2, DropPlaced
<1>6. out' \in Result
  BY <1>1, <1>3, TalliedType DEF TypeInv, Decides
<1>7. op' \in [Port -> Connect]
  BY <1>1, <1>2 DEF TypeInv, TypeOK, Connect, NoOp
<1>8. next' \in 0..Len(Ports)
  BY <1>1, PortsFacts
<1>9. TypeOK'
  BY <1>1, <1>5, <1>6, <1>7, <1>8
     DEF TypeInv, TypeOK, Entry, Result, Connect, Decision, Undecided
<1>10. TypeInv'
  BY <1>1, <1>5, <1>9 DEF TypeInv, Calling, Leaving, Ended
<1>11. Decides({p}, v)
  BY <1>3
<1>12. v = "open" => op[p].st = "ok"
  BY <1>2
<1> QED BY <1>3, <1>10, <1>11, <1>12

LEMMA PacketTypes ==
    ASSUME TypeInv, NEW q \in queue, pc = "wait", pc' = "sweep",
           NEW a, a = op[q].at, NEW p, p = active[a].port, queue' = queue \ {q},
           \/ /\ a \in Active
              /\ \E se \in SoErrors(p) : MarkDone(p, VerdictOf(op[q].st = "ok", se))
              /\ Drop(a) /\ CloseSocket(p) /\ Cancel({p})
              /\ UNCHANGED retired
           \/ /\ a \notin Active
              /\ retired' = retired \ {a}
              /\ UNCHANGED <<active, out, verdict, socks, op>>,
           UNCHANGED <<next, at, report, stop, accepted>>
    PROVE  /\ TypeInv'
           /\ \/ /\ a \in Active
                 /\ active' = [b \in Addr |-> IF b \in {a} THEN NoEntry ELSE active[b]]
                 /\ \E v \in Decision : /\ Decides({p}, v)
                                        /\ v = "open" => op[q].st = "ok"
              \/ UNCHANGED <<out, verdict>>
<1>1. /\ Launched' = Launched /\ pc \notin Ended /\ pc' \notin Ended /\ TypeOK
      /\ queue' \subseteq Port
  BY DEF TypeInv, TypeOK, Launched, Ended
<1>2. CASE a \notin Active
  <2>1. /\ retired' = retired \ {a} /\ UNCHANGED <<active, out, verdict, socks, op>>
    BY <1>2
  <2>2. active' \in [Addr -> {NoEntry} \cup Entry] /\ Active' = Active /\ Placed' /\ Undecided'
    BY <1>1, <2>1, StillPlaced DEF Ended
  <2>3. TypeOK'
    BY <1>1, <2>1, <2>2 DEF TypeOK, Entry, Undecided
  <2> QED BY <2>1, <2>2, <2>3 DEF TypeInv, Calling, Leaving, Ended
<1>3. CASE a \in Active
  <2>1. PICK se \in SoErrors(p) : MarkDone(p, VerdictOf(op[q].st = "ok", se))
    BY <1>3
  <2> DEFINE v == VerdictOf(op[q].st = "ok", se)
  <2>2. v \in Decision \ {"timeout"} /\ (v = "open" => op[q].st = "ok")
    BY DEF VerdictOf, Decision
  <2> HIDE DEF v
  <2>3. MarkDone(active[a].port, v) /\ Drop(a) /\ Cancel({p}) /\ socks' = socks \ {p}
        /\ retired' = retired
    BY <1>3, <2>1 DEF v, CloseSocket
  <2>4. /\ PortsAt({a}) = {p} /\ Decides(PortsAt({a}), v)
        /\ active' = [b \in Addr |-> IF b \in {a} THEN NoEntry ELSE active[b]]
    BY <1>3, <2>2, <2>3, DropOne
  <2>5. /\ active' \in [Addr -> {NoEntry} \cup Entry]
        /\ verdict' \in [Port -> Decision \cup {"none"}]
        /\ Placed' /\ Undecided'
    <3>1. {a} \in SUBSET Active
      BY <1>3
    <3>2. verdict' = [r \in Port |-> IF r \in PortsAt({a}) THEN v ELSE verdict[r]]
      BY <2>4 DEF Decides
    <3> QED BY <1>1, <2>2, <2>4, <3>1, <3>2, DropPlaced
  <2>6. out' \in Result
    BY <1>1, <2>2, <2>4, TalliedType DEF Decides
  <2>7. op' \in [Port -> Connect]
    BY <1>1, <2>3, CancelFacts
  <2>8. TypeOK'
    <3>1. /\ active' \in [Addr -> {NoEntry} \cup [port : Port, age : 0..Timeout]]
          /\ out' \in [open : SUBSET Port, scanned : Nat, timeouts : Nat,
                       refused : Nat, other : Nat, aborted : BOOLEAN]
          /\ op' \in [Port -> [at : Addr \cup {NoAddr},
                               st : {"none", "ok", "failed"} \cup Owned]]
          /\ verdict' \in [Port -> {"none", "open", "timeout", "refused", "other"}]
      BY <2>5, <2>6, <2>7 DEF Entry, Result, Connect, Decision
    <3> QED BY <1>1, <2>3, <2>5, <3>1 DEF TypeOK, Undecided
  <2>9. TypeInv'
    BY <2>5, <2>8 DEF TypeInv, Calling, Leaving, Ended
  <2>10. Decides({p}, v)
    BY <2>4
  <2> QED BY <1>3, <2>2, <2>4, <2>9, <2>10
<1> QED BY <1>2, <1>3

LEMMA ExpiredFacts ==
    ASSUME TypeInv, NEW D \in SUBSET Active
    PROVE  /\ PortsAt(D) \in SUBSET Port
           /\ IsFiniteSet(D) /\ Cardinality(PortsAt(D)) = Cardinality(D)
<1>1. PortsAt(D) \in SUBSET Port
  BY ActiveFacts DEF TypeInv
<1> DEFINE f == [a \in D |-> active[a].port]
<1>2. f \in [D -> PortsAt(D)] /\ (\A a, b \in D : f[a] = f[b] => a = b)
      /\ \A p \in PortsAt(D) : \E a \in D : f[a] = p
  BY DEF PortsAt, TypeInv, Placed
<1> HIDE DEF f
<1>3. f \in Bijection(D, PortsAt(D))
  BY <1>2 DEF Bijection, Injection, Surjection, IsInjective
<1>4. IsFiniteSet(PortsAt(D))
  BY <1>1, SetFacts
<1>5. f \in Injection(D, PortsAt(D)) /\ ExistsBijection(D, PortsAt(D))
  BY <1>3 DEF Bijection, ExistsBijection
<1>6. IsFiniteSet(D)
  BY <1>4, <1>5, FS_Injection
<1> QED BY <1>1, <1>5, <1>6, FS_Bijection

LEMMA SweepTypes ==
    ASSUME TypeInv, Sweep
    PROVE  /\ TypeInv'
           /\ active' = [b \in Addr |-> IF b \in Expired THEN NoEntry ELSE active[b]]
           /\ Decides(PortsAt(Expired), "timeout")
<1>1. /\ pc = "sweep" /\ pc' = "head" /\ Expired \in SUBSET Active
      /\ out' = TimedOut(out, Cardinality(Expired))
      /\ verdict' = [p \in Port |-> IF p \in PortsAt(Expired) THEN "timeout" ELSE verdict[p]]
      /\ Cancel(PortsAt(Expired))
      /\ socks' = socks \ PortsAt(Expired) /\ retired' = retired \cup Expired
      /\ active' = [a \in Addr |-> IF a \in Expired THEN NoEntry ELSE active[a]]
      /\ UNCHANGED <<next, at, report, stop, queue, accepted>> /\ TypeOK
  BY DEF Sweep, Retire, Expired, TypeInv
<1>2. /\ active' \in [Addr -> {NoEntry} \cup Entry]
      /\ verdict' \in [Port -> Decision \cup {"none"}]
      /\ \A p \in PortsAt(Expired) : verdict[p] = "none"
      /\ Placed' /\ Undecided'
  <2>1. Launched' = Launched /\ pc \notin Ended /\ pc' \notin Ended /\ "timeout" \in Decision
    BY <1>1 DEF Launched, Ended, Decision
  <2> QED BY <1>1, <2>1, DropPlaced
<1>3. PortsAt(Expired) \in SUBSET Port /\ Cardinality(PortsAt(Expired)) = Cardinality(Expired)
  BY <1>1, ExpiredFacts
<1>4. Decides(PortsAt(Expired), "timeout")
  BY <1>1, <1>2, <1>3, TimedOutTallies DEF Decides
<1>5. out' \in Result
  BY <1>1, <1>4, TalliedType DEF Decides, Decision
<1>6. op' \in [Port -> Connect]
  BY <1>1, CancelFacts
<1>7. TypeOK'
  <2>1. Expired \subseteq Addr
    BY <1>1, ActiveFacts
  <2> QED BY <1>1, <1>2, <1>5, <1>6, <2>1
          DEF TypeOK, Entry, Result, Connect, Decision, Undecided
<1> QED BY <1>1, <1>2, <1>4, <1>7 DEF TypeInv, Calling, Leaving, Ended

LEMMA ExitTypes == ASSUME TypeInv, Exit PROVE TypeInv'
<1>1. /\ pc = "exit" /\ pc' = "drain" /\ TypeOK /\ Launched' = Launched
      /\ UNCHANGED <<next, at, report, verdict, stop, queue, accepted>>
  BY DEF Exit, TypeInv, Launched
<1>2. CASE ~stop
  <2>1. UNCHANGED <<out, op, socks, retired, active>> /\ Active = {}
    BY <1>1, <1>2 DEF Exit, TypeInv, Leaving
  <2>2. Active' = {}
    BY <2>1 DEF Active
  <2>3. TypeOK'
    BY <1>1, <2>1 DEF TypeOK
  <2>4. Placed'
    BY <1>1, <2>2 DEF TypeInv, Placed, Ended
  <2> QED BY <1>1, <2>2, <2>3, <2>4 DEF TypeInv, Calling, Leaving
<1>3. CASE stop
  <2>1. /\ out' = [out EXCEPT !.aborted = TRUE]
        /\ Cancel(PortsAt(Active))
        /\ socks' = socks \ PortsAt(Active)
        /\ retired' = retired \cup Active
        /\ active' = [a \in Addr |-> NoEntry]
    BY <1>1, <1>3 DEF Exit, Retire
  <2>2. Active' = {} /\ Undecided'
    BY <2>1 DEF Active, Undecided
  <2>3. op' \in [Port -> Connect]
    BY <1>1, <2>1, CancelFacts
  <2>4. TypeOK'
    BY <1>1, <2>1, <2>2, <2>3, ActiveFacts DEF TypeOK, Connect, Undecided
  <2>5. Placed'
    BY <1>1, <2>2 DEF TypeInv, Placed, Ended
  <2> QED BY <1>1, <2>2, <2>4, <2>5 DEF TypeInv, Calling, Leaving
<1> QED BY <1>2, <1>3

(* The steps that neither launch nor decide.                               *)
StillStep ==
    \/ Loop \/ CallPending \/ LaunchEnd \/ Quiet \/ Drain \/ DrainEnd \/ Return \/ Stop
    \/ Tick \/ (\E p \in Port : Complete(p) \/ Cancelled(p)) \/ UNCHANGED vars

LEMMA StillFacts ==
    ASSUME TypeInv, StillStep
    PROVE  /\ UNCHANGED <<verdict, out, socks>> /\ Launched' = Launched
           /\ active' = active \/ active' = [a \in Addr |-> Older(active[a])]
           /\ pc' \notin {"ready", "done"} => pc \notin {"ready", "done"}
           /\ pc' \notin Ended => pc \notin Ended
           /\ pc' \in Ended => pc \in Ended
           /\ retired' \subseteq retired /\ (retired' = retired \/ pc = "drain")
<1> USE DEF worker, kernel, Launched, Ended
<1>1. CASE Loop BY <1>1 DEF Loop
<1>2. CASE CallPending BY <1>2 DEF CallPending
<1>3. CASE LaunchEnd BY <1>3 DEF LaunchEnd
<1>4. CASE Quiet BY <1>4 DEF Quiet
<1>5. CASE Drain BY <1>5 DEF Drain
<1>6. CASE DrainEnd BY <1>6 DEF DrainEnd
<1>7. CASE Return BY <1>7 DEF Return
<1>8. CASE Stop BY <1>8 DEF Stop
<1>9. CASE Tick BY <1>9 DEF Tick
<1>10. CASE \E p \in Port : Complete(p) \/ Cancelled(p) BY <1>10 DEF Complete, Cancelled
<1>11. CASE UNCHANGED vars BY <1>11 DEF vars
<1> QED BY <1>1, <1>2, <1>3, <1>4, <1>5, <1>6, <1>7, <1>8, <1>9, <1>10, <1>11 DEF StillStep

LEMMA StillTypes == ASSUME TypeInv, StillStep PROVE TypeInv'
<1>1. /\ active' \in [Addr -> {NoEntry} \cup Entry]
      /\ Active' = Active /\ \A a \in Addr : active'[a].port = active[a].port
      /\ Placed' /\ Undecided'
  BY StillFacts, StillPlaced
<1>2. UNCHANGED <<verdict, out, socks>> /\ retired' \subseteq retired /\ TypeOK
  BY StillFacts DEF TypeInv
<1>3. op' \in [Port -> Connect]
  <2>1. op \in [Port -> Connect]
    BY <1>2 DEF TypeOK, Connect
  <2>2. CASE op' = op
    BY <2>1, <2>2
  <2>3. ASSUME NEW p \in Port, Complete(p) \/ Cancelled(p) PROVE op' \in [Port -> Connect]
    <3>1. PICK st \in {"ok", "failed"} : op' = [op EXCEPT ![p] = [at |-> op[p].at, st |-> st]]
      BY <2>3 DEF Complete, Cancelled
    <3>2. [at |-> op[p].at, st |-> st] \in Connect
      BY <2>1 DEF Connect
    <3> QED BY <2>1, <3>1, <3>2
  <2> QED BY <2>2, <2>3
          DEF StillStep, Loop, CallPending, LaunchEnd, Quiet, Drain, DrainEnd, Return, Stop,
              Tick, vars, worker, kernel
<1>4. /\ pc' \in {"begin", "head", "launch", "call", "wait", "sweep", "exit",
                  "drain", "ready", "done"}
      /\ next' \in 0..Len(Ports)
      /\ at' \in Addr \cup {NoAddr} /\ (at' = NoAddr <=> pc' # "call")
      /\ stop' \in BOOLEAN /\ queue' \subseteq Port /\ accepted' \subseteq Port
      /\ Calling' /\ Leaving'
  <2> USE <1>2 DEF TypeInv, TypeOK, Calling, Leaving, Ended, worker, kernel
  <2>1. CASE Loop BY <1>1, <2>1 DEF Loop, KeepGoing
  <2>2. CASE CallPending
    <3>1. next' \in 0..Len(Ports)
      BY <2>2, PortsFacts DEF CallPending
    <3> QED BY <1>1, <2>2, <3>1 DEF CallPending
  <2>3. CASE LaunchEnd BY <1>1, <2>3 DEF LaunchEnd
  <2>4. CASE Quiet BY <1>1, <2>4 DEF Quiet
  <2>5. CASE Drain BY <1>1, <2>5 DEF Drain
  <2>6. CASE DrainEnd BY <1>1, <2>6 DEF DrainEnd
  <2>7. CASE Return BY <1>1, <2>7 DEF Return
  <2>8. CASE Stop BY <1>1, <2>8 DEF Stop
  <2>9. CASE Tick
    <3>1. UNCHANGED <<pc, next, at, stop, queue, accepted>>
      BY <2>9 DEF Tick
    <3> QED BY <1>1, <3>1, ActiveFacts
  <2>10. CASE \E p \in Port : Complete(p) \/ Cancelled(p)
    <3>1. UNCHANGED <<pc, next, at, stop, active>> /\ queue' \subseteq Port
          /\ accepted' \subseteq Port
      BY <2>10 DEF Complete, Cancelled
    <3> QED BY <1>1, <3>1
  <2>11. CASE UNCHANGED vars BY <1>1, <2>11 DEF vars
  <2> QED BY <2>1, <2>2, <2>3, <2>4, <2>5, <2>6, <2>7, <2>8, <2>9, <2>10, <2>11 DEF StillStep
<1>5. TypeOK'
  BY <1>1, <1>2, <1>3, <1>4 DEF TypeOK, Entry, Connect, Undecided
<1> QED BY <1>1, <1>4, <1>5 DEF TypeInv

LEMMA TypeStep == TypeInv /\ [Next]_vars => TypeInv'
<1> SUFFICES ASSUME TypeInv, [Next]_vars PROVE TypeInv'
  OBVIOUS
<1>1. CASE Packet
  BY <1>1, PacketTypes DEF Packet
<1>2. CASE StillStep
  BY <1>2, StillTypes
<1>3. CASE Over
  BY <1>3, StillTypes DEF Over, StillStep
<1> QED BY <1>1, <1>2, <1>3, BeginTypes, LaunchFailsTypes, LaunchTypes, CallDecidesTypes,
           SweepTypes, ExitTypes DEF Next, WorkerStep, StillStep

(* Types, and a port in `active` is undecided.                             *)
THEOREM IocpTypeCorrect == Spec => []TypeOK
<1>1. TypeInv => TypeOK
  BY DEF TypeInv
<1> QED BY InitTypeInv, TypeStep, <1>1, PTL DEF Spec

-----------------------------------------------------------------------------
(* Counters.  They count the verdicts, and a worker past its loop has      *)
(* decided every port or says it was aborted.  That they add up with what  *)
(* is in `active` follows from where a port can be.                        *)

With(v) == {p \in Port : verdict[p] = v}

Agree ==
    /\ out.open = With("open")
    /\ out.timeouts = Cardinality(With("timeout"))
    /\ out.refused = Cardinality(With("refused"))
    /\ out.other = Cardinality(With("other"))
    /\ out.scanned = Cardinality(Port \ With("none"))

Announced == pc \in Ended /\ out.scanned < Len(Ports) => out.aborted

CountInv == Agree /\ Announced

(* The first n ports of the list are n ports.                              *)
LEMMA FirstPorts ==
    ASSUME NEW n \in 0..Len(Ports)
    PROVE  Cardinality({Ports[k] : k \in 1..n}) = n
<1> DEFINE S == {Ports[k] : k \in 1..n}
           f == [k \in 1..n |-> Ports[k]]
<1>1. n \in Int /\ n >= 0 /\ 1..n \subseteq 1..Len(Ports)
  BY PortsFacts
<1>2. f \in [1..n -> S] /\ (\A j, k \in 1..n : f[j] = f[k] => j = k)
      /\ \A p \in S : \E k \in 1..n : f[k] = p
  BY <1>1, PortsFacts
<1> HIDE DEF f, S
<1>3. ExistsBijection(1..n, S)
  BY <1>2 DEF ExistsBijection, Bijection, Injection, Surjection, IsInjective
<1>4. /\ IsFiniteSet(1..n)
      /\ Cardinality(1..n) = IF 1 > n THEN 0 ELSE n - 1 + 1
  BY ONLY <1>1, 1 \in Int, FS_Interval, Zenon
<1>5. Cardinality(1..n) = n
  BY <1>1, <1>4
<1>6. Cardinality(S) = n
  BY <1>3, <1>4, <1>5, FS_Bijection
<1> QED BY <1>6 DEF S

LEMMA PortCount == Cardinality(Port) = Len(Ports)
<1>1. Port = {Ports[k] : k \in 1..Len(Ports)} /\ Len(Ports) \in 0..Len(Ports)
  BY PortsFacts
<1> QED BY <1>1, FirstPorts

LEMMA DecideAgrees ==
    ASSUME Agree, NEW S, NEW v \in Decision, Decides(S, v)
    PROVE  Agree'
<1>1. /\ S \in SUBSET Port /\ \A p \in S : verdict[p] = "none"
      /\ verdict' = [p \in Port |-> IF p \in S THEN v ELSE verdict[p]]
      /\ out' = Tallied(out, S, v)
  BY DEF Decides
<1>2. ASSUME NEW x \in Decision
      PROVE  /\ With(x)' = IF v = x THEN With(x) \cup S ELSE With(x)
             /\ With(x) \cap S = {} /\ With(x) \in SUBSET Port
  BY <1>1 DEF With, Decision
<1>3. /\ Port \ With("none")' = (Port \ With("none")) \cup S
      /\ (Port \ With("none")) \cap S = {}
  BY <1>1 DEF With, Decision
<1> DEFINE n == Cardinality(S)
<1>4. ASSUME NEW x \in Decision
      PROVE  Cardinality(With(x)') = IF v = x THEN Cardinality(With(x)) + n
                                     ELSE Cardinality(With(x))
  BY <1>1, <1>2, DisjointUnion
<1>5. Cardinality(Port \ With("none")') = Cardinality(Port \ With("none")) + n
  BY <1>1, <1>3, DisjointUnion
<1>6. /\ out'.scanned = out.scanned + n
      /\ out'.open = IF v = "open" THEN out.open \cup S ELSE out.open
      /\ out'.timeouts = IF v = "timeout" THEN out.timeouts + n ELSE out.timeouts
      /\ out'.refused = IF v = "refused" THEN out.refused + n ELSE out.refused
      /\ out'.other = IF v = "other" THEN out.other + n ELSE out.other
  BY <1>1 DEF Tallied
<1>7. "open" \in Decision /\ "timeout" \in Decision /\ "refused" \in Decision
      /\ "other" \in Decision
  BY DEF Decision
<1> HIDE DEF n
<1>8. out'.open = With("open")'
  BY <1>2, <1>6, <1>7 DEF Agree
<1>9. out'.timeouts = Cardinality(With("timeout")')
  BY <1>4, <1>6, <1>7 DEF Agree
<1>10. out'.refused = Cardinality(With("refused")')
  BY <1>4, <1>6, <1>7 DEF Agree
<1>11. out'.other = Cardinality(With("other")')
  BY <1>4, <1>6, <1>7 DEF Agree
<1>12. out'.scanned = Cardinality(Port \ With("none")')
  BY <1>5, <1>6 DEF Agree
<1> QED BY <1>8, <1>9, <1>10, <1>11, <1>12 DEF Agree

LEMMA InitCountInv == Init => CountInv
<1> SUFFICES ASSUME Init PROVE CountInv
  OBVIOUS
<1>1. /\ With("open") = {} /\ With("timeout") = {} /\ With("refused") = {}
      /\ With("other") = {} /\ Port \ With("none") = {}
  BY DEF Init, With
<1>2. Cardinality({}) = 0
  BY FS_EmptySet
<1>3. out.open = {} /\ out.scanned = 0 /\ out.timeouts = 0 /\ out.refused = 0 /\ out.other = 0
  BY DEF Init, NoResult
<1> QED BY <1>1, <1>2, <1>3 DEF Init, CountInv, Agree, Announced, Ended

(* Without a completion port every port is decided, as `other`.            *)
LEMMA BeginDecides ==
    ASSUME TypeInv, Begin
    PROVE  \/ pc' = "head" /\ UNCHANGED <<out, verdict>>
           \/ /\ pc' = "ready" /\ Port # {} /\ Decides(Port, "other")
              /\ out'.scanned = Len(Ports)
<1>1. CASE pc' = "head" /\ UNCHANGED <<out, verdict>>
  BY <1>1
<1>2. CASE /\ Ports # <<>> /\ pc' = "ready"
           /\ out' = [NoResult EXCEPT !.scanned = Len(Ports), !.other = Len(Ports)]
           /\ verdict' = [p \in Port |-> "other"]
  <2>1. out = NoResult /\ Launched = 0 /\ pc = "begin"
    BY DEF Begin, TypeInv, Leaving, Launched
  <2>2. \A p \in Port : verdict[p] = "none"
    BY <2>1, PortsFacts DEF TypeInv, Placed
  <2>3. Port # {}
    <3>1. Len(Ports) # 0
      BY <1>2, IocpAssumption
    <3>2. Len(Ports) \in Nat
      BY PortsFacts
    <3> QED BY <3>1, <3>2, PortsFacts
  <2>4. out' = Tallied(out, Port, "other") /\ out'.scanned = Len(Ports)
    <3> DEFINE n == Len(Ports)
    <3>1. n \in Nat /\ Cardinality(Port) = n /\ 0 + n = n
      BY PortCount, PortsFacts
    <3> HIDE DEF n
    <3>2. out' = [open |-> {}, scanned |-> n, timeouts |-> 0, refused |-> 0,
                  other |-> n, aborted |-> FALSE]
      BY <1>2 DEF NoResult, n
    <3>3. Tallied(NoResult, Port, "other") =
             [open |-> {}, scanned |-> n, timeouts |-> 0, refused |-> 0,
              other |-> n, aborted |-> FALSE]
      BY <3>1 DEF NoResult, Tallied
    <3> QED BY <2>1, <3>2, <3>3 DEF n
  <2> QED BY <1>2, <2>2, <2>3, <2>4 DEF Decides
<1> QED BY <1>1, <1>2 DEF Begin

LEMMA SameAgree == ASSUME Agree, verdict' = verdict, UNCHANGED <<out.open, out.scanned,
                          out.timeouts, out.refused, out.other>>
                   PROVE  Agree'
BY DEF Agree, With

LEMMA ExitAnnounces == ASSUME TypeInv, Agree, Exit PROVE Agree' /\ Announced'
<1>1. verdict' = verdict /\ TypeOK /\ pc = "exit"
  BY DEF Exit, TypeInv
<1>2. CASE stop
  <2>1. out' = [out EXCEPT !.aborted = TRUE]
    BY <1>2 DEF Exit
  <2>2. /\ out'.aborted = TRUE
        /\ UNCHANGED <<out.open, out.scanned, out.timeouts, out.refused, out.other>>
    BY <1>1, <2>1 DEF TypeOK
  <2> QED BY <1>1, <2>2, SameAgree DEF Announced
<1>3. CASE ~stop
  <2>1. out' = out /\ Active = {} /\ next = Len(Ports) /\ Launched = Len(Ports)
    BY <1>1, <1>3 DEF Exit, TypeInv, Leaving, Launched
  <2>2. With("none") = {}
    <3> SUFFICES ASSUME NEW p \in Port, verdict[p] = "none" PROVE FALSE
      BY DEF With
    <3>1. PICK k \in 1..Len(Ports) : Ports[k] = p
      BY PortsFacts
    <3>2. p \in PortsAt({})
      BY <1>1, <2>1, <3>1 DEF TypeInv, Placed, Ended
    <3> QED BY <3>2 DEF PortsAt
  <2>3. out.scanned = Len(Ports)
    BY <2>2, PortCount DEF Agree
  <2>4. ~(out'.scanned < Len(Ports))
    BY <2>1, <2>3, PortsFacts
  <2> QED BY <1>1, <2>1, <2>4, SameAgree DEF Announced
<1> QED BY <1>2, <1>3

LEMMA CountStep == TypeInv /\ CountInv /\ [Next]_vars => CountInv'
<1> SUFFICES ASSUME TypeInv, CountInv, [Next]_vars PROVE CountInv'
  OBVIOUS
<1>1. Agree /\ Announced
  BY DEF CountInv
<1>2. CASE Begin
  <2>1. CASE pc' = "head" /\ UNCHANGED <<out, verdict>>
    BY <1>1, <2>1, SameAgree DEF CountInv, Announced, Ended
  <2>2. CASE pc' = "ready" /\ Decides(Port, "other") /\ out'.scanned = Len(Ports)
    BY <1>1, <2>2, DecideAgrees, PortsFacts DEF CountInv, Announced, Decision
  <2> QED BY <1>2, <2>1, <2>2, BeginDecides
<1>3. CASE LaunchFails
  <2>1. Decides({Ports[next + 1]}, "other") /\ pc' \notin Ended
    BY <1>3, LaunchFailsTypes DEF LaunchFails, Ended
  <2> QED BY <1>1, <2>1, DecideAgrees DEF CountInv, Announced, Decision
<1>4. CASE Launch
  <2>1. UNCHANGED <<out, verdict>> /\ pc' \notin Ended
    BY <1>4 DEF Launch, Ended
  <2> QED BY <1>1, <2>1, SameAgree DEF CountInv, Announced
<1>5. CASE CallDecides
  <2>1. PICK v \in {"open", "refused", "other"} : Decides({Ports[next + 1]}, v)
    BY <1>5, CallDecidesTypes
  <2>2. pc' \notin Ended /\ v \in Decision
    BY <1>5 DEF CallDecides, Ended, Decision
  <2> QED BY <1>1, <2>1, <2>2, DecideAgrees DEF CountInv, Announced
<1>6. CASE Packet
  <2>1. \/ \E S \in SUBSET Port, v \in Decision : Decides(S, v)
        \/ UNCHANGED <<out, verdict>>
    <3>1. PICK q \in queue :
             LET a == op[q].at
                 p == active[a].port
             IN  /\ queue' = queue \ {q}
                 /\ \/ /\ a \in Active
                       /\ \E se \in SoErrors(p) : MarkDone(p, VerdictOf(op[q].st = "ok", se))
                       /\ Drop(a) /\ CloseSocket(p) /\ Cancel({p})
                       /\ UNCHANGED retired
                    \/ /\ a \notin Active
                       /\ retired' = retired \ {a}
                       /\ UNCHANGED <<active, out, verdict, socks, op>>
      BY <1>6 DEF Packet
    <3>2. pc = "wait" /\ pc' = "sweep" /\ UNCHANGED <<next, at, report, stop, accepted>>
      BY <1>6 DEF Packet
    <3> DEFINE p == active[op[q].at].port
    <3>3. (\E v \in Decision : Decides({p}, v)) \/ UNCHANGED <<out, verdict>>
      BY <3>1, <3>2, PacketTypes
    <3> QED BY <3>3 DEF Decides
  <2>2. pc' \notin Ended
    BY <1>6 DEF Packet, Ended
  <2> QED BY <1>1, <2>1, <2>2, DecideAgrees, SameAgree DEF CountInv, Announced
<1>7. CASE Sweep
  <2>1. Decides(PortsAt(Expired), "timeout") /\ pc' \notin Ended
    BY <1>7, SweepTypes DEF Sweep, Ended
  <2> QED BY <1>1, <2>1, DecideAgrees DEF CountInv, Announced, Decision
<1>8. CASE Exit
  BY <1>1, <1>8, ExitAnnounces DEF CountInv
<1>9. CASE StillStep
  <2>1. UNCHANGED <<verdict, out>> /\ (pc' \in Ended => pc \in Ended)
    BY <1>9, StillFacts
  <2> QED BY <1>1, <2>1, SameAgree DEF CountInv, Announced
<1> QED BY <1>2, <1>3, <1>4, <1>5, <1>6, <1>7, <1>8, <1>9
        DEF Next, WorkerStep, Over, StillStep

LEMMA CountsAddUp == TypeInv /\ CountInv => CountersAddUp
<1> SUFFICES ASSUME TypeInv, CountInv PROVE CountersAddUp
  OBVIOUS
<1>1. TypeOK /\ Agree /\ Announced /\ verdict \in [Port -> Decision \cup {"none"}]
  BY DEF TypeInv, TypeOK, CountInv, Decision
<1>2. out.scanned = Cardinality(out.open) + out.timeouts + out.refused + out.other
  <2> DEFINE A == With("open") \cup With("timeout")
             B == With("refused") \cup With("other")
  <2>1. /\ Port \ With("none") = A \cup B /\ A \cap B = {}
        /\ A \in SUBSET Port /\ B \in SUBSET Port
        /\ With("open") \cap With("timeout") = {} /\ With("refused") \cap With("other") = {}
        /\ \A v : With(v) \in SUBSET Port
    BY <1>1 DEF With, Decision
  <2>2. /\ Cardinality(A) = Cardinality(With("open")) + Cardinality(With("timeout"))
        /\ Cardinality(B) = Cardinality(With("refused")) + Cardinality(With("other"))
    BY <2>1, DisjointUnion
  <2>3. Cardinality(A \cup B) = Cardinality(A) + Cardinality(B)
    <3> HIDE DEF A, B
    <3> QED BY <2>1, DisjointUnion
  <2>4. \A v : Cardinality(With(v)) \in Nat
    BY <2>1, SetFacts
  <2>5. Cardinality(Port \ With("none")) =
           Cardinality(With("open")) + Cardinality(With("timeout"))
             + Cardinality(With("refused")) + Cardinality(With("other"))
    <3> HIDE DEF A, B
    <3>1. Cardinality(Port \ With("none")) = Cardinality(A) + Cardinality(B)
      BY <2>1, <2>3
    <3> QED BY <2>2, <2>4, <3>1
  <2> QED BY <1>1, <2>5 DEF Agree
<1>3. ASSUME pc \notin Ended PROVE Launched = out.scanned + Cardinality(Active)
  <2> DEFINE D == Port \ With("none")
             L == {Ports[k] : k \in 1..Launched}
  <2>1. Launched \in 0..Len(Ports) /\ Launched \in Nat
    BY LaunchedFacts, PortsFacts
  <2>2. D \cap PortsAt(Active) = {} /\ D \in SUBSET Port /\ PortsAt(Active) \in SUBSET Port
    BY <1>1, ActiveFacts DEF With, PortsAt
  <2>3. L \subseteq D \cup PortsAt(Active)
    <3> SUFFICES ASSUME NEW k \in 1..Launched PROVE Ports[k] \in D \cup PortsAt(Active)
      OBVIOUS
    <3>1. Ports[k] \in Port
      BY <2>1, PortsFacts
    <3>2. verdict[Ports[k]] = "none" => Ports[k] \in PortsAt(Active)
      BY <1>3 DEF TypeInv, Placed
    <3> QED BY <3>1, <3>2 DEF With
  <2>4. PortsAt(Active) \subseteq L
    BY DEF TypeInv, Placed, PortsAt
  <2>5. D \subseteq L
    <3> SUFFICES ASSUME NEW p \in Port, verdict[p] # "none" PROVE p \in L
      BY DEF With
    <3>1. PICK k \in 1..Len(Ports) : Ports[k] = p
      BY PortsFacts
    <3>2. ~(k > Launched)
      BY <1>3, <3>1 DEF TypeInv, Placed, Ended
    <3>3. k \in 1..Launched
      BY <2>1, <3>2
    <3> QED BY <3>1, <3>3
  <2>6. L = D \cup PortsAt(Active)
    BY <2>3, <2>4, <2>5
  <2>7. Cardinality(L) = Launched
    BY <2>1, FirstPorts
  <2> HIDE DEF L
  <2>8. Launched = Cardinality(D) + Cardinality(PortsAt(Active))
    BY <2>2, <2>6, <2>7, DisjointUnion
  <2>9. Cardinality(PortsAt(Active)) = Cardinality(Active)
    BY ExpiredFacts
  <2> QED BY <1>1, <2>8, <2>9 DEF Agree
<1>4. pc \notin {"begin", "call", "drain", "ready", "done"} =>
         next = out.scanned + Cardinality(Active)
  BY <1>3 DEF Ended, Launched
<1>5. pc \in {"ready", "done"} /\ out.scanned < Len(Ports) => out.aborted
  BY <1>1 DEF Announced, Ended
<1> QED BY <1>2, <1>4, <1>5 DEF CountersAddUp

(* The counters add up, every port launched is counted once or in `active`,*)
(* and a worker that returns with gaps says so: also when packets come late*)
(* or carry the address of another connect.                                *)
THEOREM IocpCountersAddUp == Spec => []CountersAddUp
BY InitTypeInv, TypeStep, InitCountInv, CountStep, CountsAddUp, PTL DEF Spec

-----------------------------------------------------------------------------
(* Who owns what, while no address is allocated that a packet still holds: *)
(* a connect the kernel has not finished, or whose packet is queued, has   *)
(* its address for itself, and what is in `active` there is that connect.  *)

Live(p) == op[p].st \in Owned \/ p \in queue

Finished ==
    /\ \A p \in queue : op[p].st \in {"ok", "failed"}
    /\ \A p \in Port : op[p].st # "none" => op[p].at \in Addr
    /\ \A p \in Port : op[p].st = "ok" => p \in accepted

NotYet == \A k \in 1..Len(Ports) : k > Launched => op[Ports[k]] = NoOp

Apart == \A p, q \in Port : Live(p) /\ Live(q) /\ op[p].at = op[q].at => p = q

Matching == \A p \in Port : Live(p) /\ op[p].at \in Active => active[op[p].at].port = p

Kept ==
    /\ \A p \in Port : op[p].st = "pending" => op[p].at \in Active
    /\ \A p \in Port : op[p].st = "cancelled" =>
          /\ op[p].at \notin Active
          /\ Prompt => op[p].at \in retired
    /\ retired \cap Active = {}

Sockets == socks = PortsAt(Active)

KernelInv == Finished /\ NotYet /\ Apart /\ Matching /\ Kept /\ Sockets

LEMMA InitKernelInv == Init => KernelInv
<1> SUFFICES ASSUME Init PROVE KernelInv
  OBVIOUS
<1>1. Active = {} /\ queue = {} /\ retired = {} /\ socks = {} /\ \A p \in Port : op[p] = NoOp
  BY DEF Init, Active
<1>2. \A p \in Port : op[p].st = "none" /\ ~Live(p)
  BY <1>1 DEF NoOp, Live, Owned
<1> QED BY <1>1, <1>2, PortsFacts
        DEF KernelInv, Finished, NotYet, Apart, Matching, Kept, Sockets, PortsAt

(* Connects that end, and entries that go, disturb no other's address.     *)
LEMMA FewerLive ==
    ASSUME Apart, Matching,
           \A p \in Port : Live(p)' => Live(p) /\ op'[p].at = op[p].at,
           \A a \in Active' : a \in Active /\ active'[a].port = active[a].port
    PROVE  Apart' /\ Matching'
BY DEF Apart, Matching

(* The address of a connect in `active` is known by its port.              *)
LEMMA PendingAt ==
    ASSUME KernelInv, NEW p \in Port, op[p].st = "pending"
    PROVE  op[p].at \in Active /\ active[op[p].at].port = p /\ p \notin queue
BY DEF KernelInv, Finished, Matching, Kept, Live, Owned

LEMMA LaunchKernel ==
    ASSUME ~Reuse, TypeInv, KernelInv, Launch
    PROVE  KernelInv'
<1> DEFINE p == Ports[next + 1]
<1>1. PICK a \in Addr : /\ Allocatable(a)
                        /\ active' = [active EXCEPT ![a] = [port |-> p, age |-> 0]]
                        /\ op' = [op EXCEPT ![p] = [at |-> a, st |-> "pending"]]
                        /\ socks' = socks \cup {p} /\ at' = a
  BY DEF Launch
<1>2. /\ pc = "launch" /\ pc' = "call" /\ next < Len(Ports) /\ a \in Addr \ Active
      /\ a \notin retired
      /\ UNCHANGED <<next, retired, queue, accepted, verdict>>
  BY <1>1 DEF Launch, CanLaunch, Allocatable
<1>3. \A q \in Port : op[q].at = a => ~Live(q)
  BY <1>1 DEF Allocatable, Live
<1>4. /\ Active' = Active \cup {a} /\ active'[a].port = p
      /\ \A b \in Active : active'[b] = active[b]
      /\ PortsAt(Active)' = PortsAt(Active) \cup {p}
  BY <1>1, <1>2, LaunchPlaced
<1>5. /\ p \in Port /\ next + 1 \in 1..Len(Ports) /\ next \in Nat
      /\ Launched = next /\ Launched' = next + 1
  BY <1>2, PortsFacts DEF TypeInv, TypeOK, Launched
<1>6. op[p] = NoOp
  BY <1>5 DEF KernelInv, NotYet
<1>7. /\ op'[p].at = a /\ op'[p].st = "pending"
      /\ \A q \in Port \ {p} : op'[q] = op[q]
  BY <1>1, <1>5 DEF TypeInv, TypeOK
<1>8. /\ p \notin queue /\ Live(p)'
      /\ \A q \in Port \ {p} : Live(q)' => Live(q) /\ op[q].at # a
  BY <1>2, <1>3, <1>6, <1>7 DEF KernelInv, Finished, NoOp, Live, Owned
<1>9. Finished'
  BY <1>1, <1>2, <1>7, <1>8 DEF KernelInv, Finished
<1>10. NotYet'
  BY <1>5, <1>7, PortsFacts DEF KernelInv, NotYet
<1>11. Apart'
  BY <1>7, <1>8 DEF KernelInv, Apart
<1>12. Matching'
  BY <1>4, <1>7, <1>8 DEF KernelInv, Matching
<1>13. Kept'
  BY <1>2, <1>3, <1>4, <1>7 DEF KernelInv, Kept, Live, Owned
<1>14. Sockets'
  BY <1>1, <1>4 DEF KernelInv, Sockets
<1> QED BY <1>9, <1>10, <1>11, <1>12, <1>13, <1>14 DEF KernelInv

LEMMA CallDecidesKernel ==
    ASSUME TypeInv, KernelInv, CallDecides
    PROVE  KernelInv'
<1> DEFINE p == Ports[next + 1]
<1>1. /\ pc = "call" /\ pc' = "launch" /\ next' = next + 1 /\ next < Len(Ports)
      /\ at \in Active /\ active[at].port = p /\ p \in Port /\ next \in Nat
      /\ socks' = socks \ {p} /\ TypeOK
      /\ UNCHANGED <<retired, queue, accepted>>
  BY PortsFacts DEF CallDecides, CloseSocket, TypeInv, TypeOK, Calling
<1>2. /\ op[p].st \in {"ok", "pending"}
      /\ \/ op' = op /\ op[p].st = "ok"
         \/ op' = [op EXCEPT ![p] = NoOp] /\ op[p].st = "pending"
  BY DEF CallDecides
<1>3. active' = [b \in Addr |-> IF b \in {at} THEN NoEntry ELSE active[b]]
  BY CallDecidesTypes
<1>4. /\ Active' = Active \ {at} /\ \A b \in Active' : active'[b] = active[b]
      /\ PortsAt(Active)' = PortsAt(Active) \ {p}
  <2>1. PICK v \in {"open", "refused", "other"} : Decides({p}, v)
    BY CallDecidesTypes
  <2>2. PortsAt({at}) = {p} /\ {at} \in SUBSET Active
    BY <1>1 DEF PortsAt
  <2>3. /\ verdict' = [q \in Port |-> IF q \in PortsAt({at}) THEN v ELSE verdict[q]]
        /\ v \in Decision
    BY <2>1, <2>2 DEF Decides, Decision
  <2>4. Launched' = Launched /\ pc \notin Ended /\ pc' \notin Ended
    BY <1>1 DEF Launched, Ended
  <2>5. PICK D \in SUBSET Active : D = {at}
    BY <2>2
  <2>6. /\ Active' = Active \ D /\ \A b \in Active' : active'[b] = active[b]
        /\ PortsAt(Active)' = PortsAt(Active) \ PortsAt(D)
    BY ONLY TypeInv, <1>3, <2>3, <2>4, <2>5, DropPlaced
  <2> QED BY <2>2, <2>5, <2>6
<1>5. \A q \in Port \ {p} : op'[q] = op[q]
  BY <1>1, <1>2 DEF TypeOK
<1>6. \/ op'[p] = op[p] /\ op[p].st = "ok"
      \/ op'[p] = NoOp /\ p \notin queue
  BY <1>1, <1>2, PendingAt DEF TypeOK
<1>7. \A q \in Port : Live(q)' => Live(q) /\ op'[q].at = op[q].at
  BY <1>1, <1>5, <1>6 DEF Live, NoOp, Owned
<1>8. Finished'
  <2>1. /\ \A q \in queue : op[q].st \in {"ok", "failed"}
        /\ \A q \in Port : op[q].st # "none" => op[q].at \in Addr
        /\ \A q \in Port : op[q].st = "ok" => q \in accepted
    BY DEF KernelInv, Finished
  <2>2. \A q \in Port : op'[q] = op[q] \/ (q = p /\ op'[q].st = "none" /\ p \notin queue)
    BY <1>5, <1>6 DEF NoOp
  <2>3. queue \subseteq Port /\ queue' = queue /\ accepted' = accepted
    BY <1>1 DEF TypeOK
  <2>4. \A q \in queue' : op'[q].st \in {"ok", "failed"}
    BY <2>1, <2>2, <2>3
  <2>5. \A q \in Port : op'[q].st # "none" => op'[q].at \in Addr
    BY <2>1, <2>2
  <2>6. \A q \in Port : op'[q].st = "ok" => q \in accepted'
    BY <2>1, <2>2, <2>3
  <2> QED BY <2>4, <2>5, <2>6 DEF Finished
<1>9. NotYet'
  <2>1. Launched' = next + 1 /\ Launched = next + 1
    BY <1>1 DEF Launched
  <2>2. \A k \in 1..Len(Ports) : k > next + 1 => Ports[k] # p
    BY <1>1, PortsFacts
  <2> QED BY <1>5, <2>1, <2>2, PortsFacts DEF KernelInv, NotYet
<1>10. Apart' /\ Matching'
  BY <1>4, <1>7, FewerLive DEF KernelInv
<1>11. Kept'
  <2>1. ASSUME NEW q \in Port, op'[q].st = "pending" PROVE op'[q].at \in Active'
    <3>1. q # p /\ op[q].st = "pending"
      BY <1>5, <1>6, <2>1 DEF NoOp
    <3>2. op[q].at \in Active /\ active[op[q].at].port = q
      BY <3>1, PendingAt
    <3> QED BY <1>1, <1>4, <1>5, <3>1, <3>2
  <2>2. \A q \in Port : op'[q].st = "cancelled" => op'[q] = op[q]
    BY <1>5, <1>6 DEF NoOp
  <2> QED BY <1>1, <1>4, <2>1, <2>2 DEF KernelInv, Kept
<1>12. Sockets'
  BY <1>1, <1>4 DEF KernelInv, Sockets
<1> QED BY <1>8, <1>9, <1>10, <1>11, <1>12 DEF KernelInv

(* The entries at D go and what is pending there is cancelled.             *)
LEMMA CancelKernel ==
    ASSUME TypeInv, KernelInv, NEW D \in SUBSET Active, Cancel(PortsAt(D)),
           active' = [a \in Addr |-> IF a \in D THEN NoEntry ELSE active[a]],
           PortsAt(Active)' = PortsAt(Active) \ PortsAt(D), socks' = socks \ PortsAt(D),
           queue' \subseteq queue, accepted' = accepted, Launched' = Launched,
           retired' \subseteq retired \cup D,
           \A p \in Port : op[p].st = "pending" /\ op[p].at \in D => op[p].at \in retired',
           \A p \in Port : op[p].st = "cancelled" /\ op[p].at \in retired =>
                              op[p].at \in retired'
    PROVE  KernelInv'
<1>1. TypeOK /\ Active' = Active \ D /\ \A a \in Active' : active'[a] = active[a]
  BY DEF TypeInv, Active
<1>2. \A p \in Port : /\ op'[p].at = op[p].at
                      /\ op'[p].st = IF p \in PortsAt(D) /\ op[p].st = "pending"
                                     THEN "cancelled" ELSE op[p].st
  BY <1>1, CancelFacts
<1>3. \A p \in Port : Live(p)' => Live(p)
  BY <1>2 DEF Live, Owned
<1>4. ASSUME NEW p \in Port, op[p].st = "pending"
      PROVE  op[p].at \in Active /\ (op[p].at \in D <=> p \in PortsAt(D))
  <2>1. op[p].at \in Active /\ active[op[p].at].port = p
    BY <1>4, PendingAt
  <2>2. \A a, b \in Active : active[a].port = active[b].port => a = b
    BY DEF TypeInv, Placed
  <2> QED BY <2>1, <2>2 DEF PortsAt
<1>5. Finished'
  <2>1. queue \subseteq Port
    BY <1>1 DEF TypeOK
  <2> QED BY <1>2, <2>1 DEF KernelInv, Finished
<1>6. NotYet'
  <2> SUFFICES ASSUME NEW k \in 1..Len(Ports), k > Launched PROVE op'[Ports[k]] = NoOp
    BY DEF NotYet
  <2>1. Ports[k] \in Port /\ op[Ports[k]] = NoOp
    BY PortsFacts DEF KernelInv, NotYet
  <2> QED BY <2>1 DEF Cancel, NoOp
<1>7. Apart' /\ Matching'
  BY <1>1, <1>2, <1>3, FewerLive DEF KernelInv
<1>8. Kept'
  <2>1. ASSUME NEW p \in Port, op'[p].st = "pending" PROVE op'[p].at \in Active'
    <3>1. op[p].st = "pending" /\ p \notin PortsAt(D)
      BY <1>2, <2>1
    <3> QED BY <1>1, <1>2, <1>4, <3>1
  <2>2. ASSUME NEW p \in Port, op'[p].st = "cancelled"
        PROVE  op'[p].at \notin Active' /\ (Prompt => op'[p].at \in retired')
    <3>1. CASE op[p].st = "cancelled"
      BY <1>1, <1>2, <3>1 DEF KernelInv, Kept
    <3>2. CASE op[p].st = "pending"
      <4>1. op[p].at \in D
        BY <1>2, <1>4, <2>2, <3>2
      <4> QED BY <1>1, <1>2, <3>2, <4>1
    <3> QED BY <1>2, <2>2, <3>1, <3>2
  <2>3. retired' \cap Active' = {}
    BY <1>1 DEF KernelInv, Kept
  <2> QED BY <2>1, <2>2, <2>3 DEF Kept
<1>9. Sockets'
  BY DEF KernelInv, Sockets
<1> QED BY <1>5, <1>6, <1>7, <1>8, <1>9 DEF KernelInv

(* Only packets and retired addresses go: not those of cancelled connects. *)
LEMMA SameKernel ==
    ASSUME TypeInv, KernelInv, UNCHANGED <<op, socks, accepted>>, Launched' = Launched,
           Active' = Active, \A a \in Active : active'[a].port = active[a].port,
           queue' \subseteq queue, retired' \subseteq retired,
           Prompt => \A p \in Port : op[p].st = "cancelled" => op[p].at \in retired'
    PROVE  KernelInv'
<1>1. Finished'
  BY DEF KernelInv, Finished
<1>2. NotYet'
  BY DEF KernelInv, NotYet
<1>3. Apart' /\ Matching'
  <2>1. \A p \in Port : Live(p)' => Live(p) /\ op'[p].at = op[p].at
    BY DEF Live
  <2> QED BY <2>1, FewerLive DEF KernelInv
<1>4. Kept'
  BY DEF KernelInv, Kept
<1>5. Sockets'
  BY DEF KernelInv, Sockets, PortsAt
<1> QED BY <1>1, <1>2, <1>3, <1>4, <1>5 DEF KernelInv

(* A connect is over and its packet queued, or its queue gone.             *)
LEMMA OverKernel ==
    ASSUME TypeInv, KernelInv, NEW p \in Port, op[p].st \in Owned,
           NEW st \in {"ok", "failed"},
           op' = [op EXCEPT ![p] = [at |-> op[p].at, st |-> st]],
           st = "ok" => p \in accepted', accepted \subseteq accepted',
           queue' \in {queue, queue \cup {p}}, UNCHANGED worker
    PROVE  KernelInv'
<1>1. /\ op'[p].at = op[p].at /\ op'[p].st = st
      /\ \A q \in Port \ {p} : op'[q] = op[q]
  BY DEF TypeInv, TypeOK
<1>2. /\ Launched' = Launched /\ Active' = Active
      /\ UNCHANGED <<active, retired, socks>>
  BY DEF worker, Launched, Active
<1>3. op[p].at \in Addr
  BY DEF KernelInv, Finished, Owned
<1>4. Finished'
  <2>1. \A q \in Port : op'[q].st # "none" => op'[q].at \in Addr
    BY <1>1, <1>3 DEF KernelInv, Finished
  <2>2. \A q \in queue' : op'[q].st \in {"ok", "failed"}
    <3>1. queue \subseteq Port
      BY DEF TypeInv, TypeOK
    <3> QED BY <1>1, <3>1 DEF KernelInv, Finished
  <2>3. \A q \in Port : op'[q].st = "ok" => q \in accepted'
    BY <1>1 DEF KernelInv, Finished
  <2> QED BY <2>1, <2>2, <2>3 DEF Finished
<1>5. NotYet'
  <2> SUFFICES ASSUME NEW k \in 1..Len(Ports), k > Launched PROVE op'[Ports[k]] = NoOp
    BY <1>2 DEF NotYet
  <2>1. Ports[k] \in Port /\ op[Ports[k]] = NoOp
    BY PortsFacts DEF KernelInv, NotYet
  <2> QED BY <1>1, <2>1 DEF NoOp, Owned
<1>6. Apart' /\ Matching'
  <2>1. \A q \in Port : Live(q)' => Live(q) /\ op'[q].at = op[q].at
    BY <1>1 DEF Live, Owned
  <2> QED BY <1>2, <2>1, FewerLive DEF KernelInv
<1>7. Kept'
  BY <1>1, <1>2 DEF KernelInv, Kept
<1>8. Sockets'
  BY <1>2 DEF KernelInv, Sockets, PortsAt
<1> QED BY <1>4, <1>5, <1>6, <1>7, <1>8 DEF KernelInv

LEMMA PacketKernel ==
    ASSUME TypeInv, KernelInv, Packet
    PROVE  KernelInv'
<1>1. PICK q \in queue :
         LET a == op[q].at
             p == active[a].port
         IN  /\ queue' = queue \ {q}
             /\ \/ /\ a \in Active
                   /\ \E se \in SoErrors(p) : MarkDone(p, VerdictOf(op[q].st = "ok", se))
                   /\ Drop(a) /\ CloseSocket(p) /\ Cancel({p})
                   /\ UNCHANGED retired
                \/ /\ a \notin Active
                   /\ retired' = retired \ {a}
                   /\ UNCHANGED <<active, out, verdict, socks, op>>
  BY DEF Packet
<1>2. /\ pc = "wait" /\ pc' = "sweep" /\ UNCHANGED <<next, at, report, stop, accepted>>
      /\ Launched' = Launched /\ pc \notin Ended /\ pc' \notin Ended
  BY DEF Packet, Launched, Ended
<1> DEFINE a == op[q].at
           p == active[a].port
<1>3. q \in Port /\ op[q].st \in {"ok", "failed"} /\ Live(q)
  BY DEF TypeInv, TypeOK, KernelInv, Finished, Live
<1>4. \A r \in Port : op[r].st \in Owned => op[r].at # a
  BY <1>3 DEF KernelInv, Apart, Live, Owned
<1>5. CASE a \in Active
  <2>1. /\ Cancel({p}) /\ socks' = socks \ {p} /\ retired' = retired
        /\ queue' \subseteq queue
    BY <1>1, <1>5 DEF CloseSocket
  <2>2. PICK v \in Decision :
           /\ active' = [b \in Addr |-> IF b \in {a} THEN NoEntry ELSE active[b]]
           /\ Decides({p}, v)
    <3>1. PICK se \in SoErrors(p) : MarkDone(p, VerdictOf(op[q].st = "ok", se))
      BY <1>1, <1>5
    <3> DEFINE v == VerdictOf(op[q].st = "ok", se)
    <3>2. v \in Decision \ {"timeout"}
      BY DEF VerdictOf, Decision
    <3> HIDE DEF v
    <3>3. MarkDone(p, v) /\ Drop(a)
      BY <1>1, <1>5, <3>1 DEF v
    <3>4. /\ PortsAt({a}) = {p} /\ Decides(PortsAt({a}), v)
          /\ active' = [b \in Addr |-> IF b \in {a} THEN NoEntry ELSE active[b]]
      BY <1>5, <3>2, <3>3, DropOne
    <3> QED BY <3>2, <3>4
  <2>3. PortsAt({a}) = {p} /\ {a} \in SUBSET Active
    BY <1>5 DEF PortsAt
  <2>4. PortsAt(Active)' = PortsAt(Active) \ PortsAt({a})
    <3>1. PICK D \in SUBSET Active : D = {a}
      BY <2>3
    <3>2. verdict' = [r \in Port |-> IF r \in PortsAt(D) THEN v ELSE verdict[r]]
      BY <2>2, <2>3, <3>1 DEF Decides
    <3>3. active' = [b \in Addr |-> IF b \in D THEN NoEntry ELSE active[b]]
      BY <2>2, <3>1
    <3>4. PortsAt(Active)' = PortsAt(Active) \ PortsAt(D)
      BY <1>2, <3>2, <3>3, DropPlaced
    <3> QED BY <3>1, <3>4
  <2> QED BY <1>2, <1>4, <2>1, <2>2, <2>3, <2>4, CancelKernel DEF Owned
<1>6. CASE a \notin Active
  <2>1. /\ retired' = retired \ {a} /\ UNCHANGED <<active, socks, op>>
        /\ queue' \subseteq queue /\ Active' = Active
    BY <1>1, <1>6 DEF Active
  <2>2. Prompt => \A r \in Port : op[r].st = "cancelled" => op[r].at \in retired'
    BY <1>4, <2>1 DEF KernelInv, Kept, Owned
  <2> QED BY <1>2, <2>1, <2>2, SameKernel
<1> QED BY <1>5, <1>6

LEMMA SweepKernel ==
    ASSUME TypeInv, KernelInv, Sweep
    PROVE  KernelInv'
<1>1. /\ Expired \in SUBSET Active /\ Cancel(PortsAt(Expired))
      /\ socks' = socks \ PortsAt(Expired) /\ retired' = retired \cup Expired
      /\ UNCHANGED <<queue, accepted>>
  BY DEF Sweep, Retire, Expired
<1>2. /\ active' = [b \in Addr |-> IF b \in Expired THEN NoEntry ELSE active[b]]
      /\ Decides(PortsAt(Expired), "timeout")
  BY SweepTypes
<1>3. Launched' = Launched /\ pc \notin Ended /\ pc' \notin Ended /\ "timeout" \in Decision
  BY DEF Sweep, Launched, Ended, Decision
<1>4. PortsAt(Active)' = PortsAt(Active) \ PortsAt(Expired)
  BY <1>1, <1>2, <1>3, DropPlaced DEF Decides
<1> QED BY <1>1, <1>2, <1>3, <1>4, CancelKernel

LEMMA ExitKernel ==
    ASSUME TypeInv, KernelInv, Exit
    PROVE  KernelInv'
<1>1. UNCHANGED <<queue, accepted>> /\ Launched' = Launched
  BY DEF Exit, Launched
<1>2. CASE stop
  <2>1. /\ Cancel(PortsAt(Active)) /\ socks' = socks \ PortsAt(Active)
        /\ retired' = retired \cup Active /\ active' = [a \in Addr |-> NoEntry]
    BY <1>2 DEF Exit, Retire
  <2>2. Active' = {} /\ PortsAt(Active)' = PortsAt(Active) \ PortsAt(Active)
    BY <2>1 DEF Active, PortsAt
  <2>3. active' = [a \in Addr |-> IF a \in Active THEN NoEntry ELSE active[a]]
    BY <2>1 DEF Active
  <2> QED BY <1>1, <2>1, <2>2, <2>3, CancelKernel
<1>3. CASE ~stop
  <2>1. UNCHANGED <<op, socks, retired, active>> /\ Active' = Active
    BY <1>3 DEF Exit, Active
  <2> QED BY <1>1, <2>1, SameKernel DEF KernelInv, Kept
<1> QED BY <1>2, <1>3

LEMMA StillKernel ==
    ASSUME TypeInv, KernelInv, StillStep
    PROVE  KernelInv'
<1>1. CASE \E p \in Port : Complete(p)
  <2>1. PICK p \in Port : Complete(p)
    BY <1>1
  <2>2. PICK st \in {"ok", "failed"} :
           /\ op' = [op EXCEPT ![p] = [at |-> op[p].at, st |-> st]]
           /\ accepted' = IF st = "ok" THEN accepted \cup {p} ELSE accepted
    BY <2>1 DEF Complete
  <2>3. op[p].st \in Owned /\ queue' \in {queue, queue \cup {p}} /\ UNCHANGED worker
    BY <2>1 DEF Complete, Owned
  <2> QED BY <2>2, <2>3, OverKernel
<1>2. CASE \E p \in Port : Cancelled(p)
  <2>1. PICK p \in Port : Cancelled(p)
    BY <1>2
  <2>2. /\ op[p].st \in Owned /\ queue' \in {queue, queue \cup {p}} /\ UNCHANGED worker
        /\ op' = [op EXCEPT ![p] = [at |-> op[p].at, st |-> "failed"]]
        /\ accepted' = accepted
    BY <2>1 DEF Cancelled, Owned
  <2> QED BY <2>2, OverKernel
<1>3. CASE ~(\E p \in Port : Complete(p) \/ Cancelled(p))
  <2>1. /\ UNCHANGED <<verdict, out, socks>> /\ Launched' = Launched
        /\ retired' \subseteq retired
    BY StillFacts
  <2>2. Active' = Active /\ \A a \in Addr : active'[a].port = active[a].port
    BY StillFacts, StillPlaced
  <2>3. /\ UNCHANGED <<op, accepted>> /\ queue' \subseteq queue
        /\ Prompt => \A p \in Port : op[p].st = "cancelled" => op[p].at \in retired'
    <3> USE DEF worker, kernel, KernelInv, Kept
    <3>1. CASE Drain
      <4>1. PICK q \in queue : /\ queue' = queue \ {q}
                               /\ retired' = retired \ {op[q].at}
        BY <3>1 DEF Drain
      <4>2. \A r \in Port : op[r].st = "cancelled" => op[r].at # op[q].at
        BY DEF TypeInv, TypeOK, Finished, Apart, Live, Owned
      <4> QED BY <3>1, <4>1, <4>2 DEF Drain
    <3>2. CASE DrainEnd
      BY <3>2 DEF DrainEnd, Drained
    <3>3. CASE Loop BY <3>3 DEF Loop
    <3>4. CASE CallPending BY <3>4 DEF CallPending
    <3>5. CASE LaunchEnd BY <3>5 DEF LaunchEnd
    <3>6. CASE Quiet BY <3>6 DEF Quiet
    <3>7. CASE Return BY <3>7 DEF Return
    <3>8. CASE Stop BY <3>8 DEF Stop
    <3>9. CASE Tick BY <3>9 DEF Tick
    <3>10. CASE UNCHANGED vars BY <3>10 DEF vars
    <3> QED BY <1>3, <3>1, <3>2, <3>3, <3>4, <3>5, <3>6, <3>7, <3>8, <3>9, <3>10
            DEF StillStep
  <2>4. \A a \in Active : active'[a].port = active[a].port
    BY <2>2 DEF Active
  <2> QED BY <2>1, <2>2, <2>3, <2>4, SameKernel
<1> QED BY <1>1, <1>2, <1>3

LEMMA KernelStep ==
    ASSUME ~Reuse
    PROVE  TypeInv /\ KernelInv /\ [Next]_vars => KernelInv'
<1> SUFFICES ASSUME TypeInv, KernelInv, [Next]_vars PROVE KernelInv'
  OBVIOUS
<1>1. CASE Begin
  <2>1. UNCHANGED <<op, socks, accepted, active, queue, retired>>
        /\ Launched' = Launched /\ Active' = Active
    BY <1>1 DEF Begin, kernel, Launched, Active
  <2> QED BY <2>1, SameKernel DEF KernelInv, Kept
<1>2. CASE LaunchFails
  <2>1. /\ UNCHANGED <<op, socks, accepted, active, queue, retired>>
        /\ Launched = next /\ Launched' = next + 1
    BY <1>2 DEF LaunchFails, kernel, Launched
  <2>2. Active' = Active /\ PortsAt(Active)' = PortsAt(Active)
    BY <2>1 DEF Active, PortsAt
  <2>3. next \in Nat
    BY PortsFacts DEF TypeInv, TypeOK
  <2>4. NotYet'
    BY <2>1, <2>3, PortsFacts DEF KernelInv, NotYet
  <2>5. Finished' /\ Kept' /\ Sockets'
    BY <2>1, <2>2 DEF KernelInv, Finished, Kept, Sockets
  <2>6. Apart' /\ Matching'
    BY <2>1, <2>2, FewerLive DEF KernelInv, Live
  <2> QED BY <2>4, <2>5, <2>6 DEF KernelInv
<1>3. CASE StillStep
  BY <1>3, StillKernel
<1>4. CASE Over
  BY <1>4, StillKernel DEF Over, StillStep
<1> QED BY <1>1, <1>2, <1>3, <1>4, LaunchKernel, CallDecidesKernel, PacketKernel,
           SweepKernel, ExitKernel DEF Next, WorkerStep, StillStep

LEMMA OwnershipHolds == ASSUME Prompt PROVE TypeInv /\ KernelInv => ResourcesOwned
<1> SUFFICES ASSUME TypeInv, KernelInv PROVE ResourcesOwned
  OBVIOUS
<1>1. MemoryOutlivesKernel
  <2> SUFFICES ASSUME NEW p \in Port, op[p].st \in Owned
               PROVE  /\ \/ op[p].st = "pending" /\ op[p].at \in Active
                                /\ active[op[p].at].port = p
                         \/ op[p].st = "cancelled" /\ op[p].at \in retired
                      /\ \A q \in Port \ {p} :
                            op[q].st \in Owned \/ q \in queue => op[q].at # op[p].at
    BY DEF MemoryOutlivesKernel
  <2>1. CASE op[p].st = "pending"
    BY <2>1, PendingAt DEF KernelInv, Apart, Live
  <2>2. CASE op[p].st = "cancelled"
    BY <2>2 DEF KernelInv, Kept, Apart, Live
  <2> QED BY <2>1, <2>2 DEF Owned
<1>2. pc \in {"drain", "ready", "done"} => PortsAt(Active) = {}
  BY DEF TypeInv, Leaving, Ended, PortsAt
<1> QED BY <1>1, <1>2 DEF ResourcesOwned, KernelInv, Sockets

(* Memory outlives the kernel's use of it and sockets are closed, if       *)
(* cancelled connects complete promptly and the allocator hands out no     *)
(* address that a queued packet holds.                                     *)
THEOREM IocpResourcesOwned ==
    ASSUME Prompt, ~Reuse
    PROVE  Spec => []ResourcesOwned
BY InitTypeInv, TypeStep, InitKernelInv, KernelStep, OwnershipHolds, PTL DEF Spec

-----------------------------------------------------------------------------
(* The worker implements PortScan.  Every decision is a Decide, a          *)
(* connection the target accepts an Accept, the return the Report.         *)

Unreported == pc # "done" => report = NoReport

LEMMA SameCardinality ==
    ASSUME NEW S
    PROVE  Scan!Cardinality(S) = Cardinality(S)
BY Zenon DEF Scan!Cardinality, Cardinality

LEMMA UnreportedStep == Unreported /\ [Next]_vars => Unreported'
BY DEF Unreported, Next, WorkerStep, Over, vars, worker, kernel, Begin, Loop, LaunchFails,
       Launch, CallPending, CallDecides, LaunchEnd, Packet, Quiet, Sweep, Exit, Drain,
       DrainEnd, Return, Stop, Tick, Complete, Cancelled

LEMMA DecidesScans ==
    ASSUME TypeInv, NEW S, NEW v \in Decision, Decides(S, v), report = NoReport,
           v = "open" => S \subseteq accepted, UNCHANGED <<accepted, report>>
    PROVE  [Scan!ScanNext]_(Scan!scanVars)
<1>1. /\ S \in SUBSET Port /\ \A p \in S : verdict[p] = "none"
      /\ verdict' = [p \in Port |-> IF p \in S THEN v ELSE verdict[p]]
      /\ verdict \in [Port -> Decision \cup {"none"}]
  BY DEF Decides, TypeInv, TypeOK, Decision
<1>2. CASE S = {}
  BY <1>1, <1>2 DEF Scan!scanVars
<1>3. CASE S # {}
  <2>1. Scan!Decide(S, v)
    BY <1>1, <1>3 DEF Scan!Decide
  <2>2. v \in Scan!Verdict \ {"none"}
    BY DEF Scan!Verdict, Decision
  <2> QED BY <1>1, <2>1, <2>2 DEF Scan!ScanNext
<1> QED BY <1>2, <1>3

LEMMA PacketScans ==
    ASSUME TypeInv, KernelInv, Unreported, Packet
    PROVE  [Scan!ScanNext]_(Scan!scanVars)
<1>1. PICK q \in queue :
         LET a == op[q].at
             p == active[a].port
         IN  /\ queue' = queue \ {q}
             /\ \/ /\ a \in Active
                   /\ \E se \in SoErrors(p) : MarkDone(p, VerdictOf(op[q].st = "ok", se))
                   /\ Drop(a) /\ CloseSocket(p) /\ Cancel({p})
                   /\ UNCHANGED retired
                \/ /\ a \notin Active
                   /\ retired' = retired \ {a}
                   /\ UNCHANGED <<active, out, verdict, socks, op>>
  BY DEF Packet
<1>2. /\ pc = "wait" /\ pc' = "sweep" /\ UNCHANGED <<next, at, report, stop, accepted>>
  BY DEF Packet
<1> DEFINE a == op[q].at
           p == active[a].port
<1>3. \/ /\ a \in Active
         /\ \E v \in Decision : Decides({p}, v) /\ (v = "open" => op[q].st = "ok")
      \/ UNCHANGED <<out, verdict>>
  BY <1>1, <1>2, PacketTypes
<1>4. CASE UNCHANGED <<out, verdict>>
  BY <1>2, <1>4 DEF Scan!scanVars
<1>5. CASE a \in Active /\ \E v \in Decision :
              Decides({p}, v) /\ (v = "open" => op[q].st = "ok")
  <2>1. PICK v \in Decision : Decides({p}, v) /\ (v = "open" => op[q].st = "ok")
    BY <1>5
  <2>2. q \in Port /\ p = q
    BY <1>5 DEF TypeInv, TypeOK, KernelInv, Matching, Live
  <2>3. v = "open" => {p} \subseteq accepted
    BY <2>1, <2>2 DEF KernelInv, Finished
  <2>4. report = NoReport
    BY <1>2 DEF Unreported
  <2> HIDE DEF p
  <2> QED BY <1>2, <2>1, <2>3, <2>4, DecidesScans
<1> QED BY <1>3, <1>4, <1>5

LEMMA ReturnScans ==
    ASSUME CountInv, Unreported, Return
    PROVE  [Scan!ScanNext]_(Scan!scanVars)
<1>1. /\ report' = [open     |-> out.open,
                    scanned  |-> out.scanned,
                    timeouts |-> out.timeouts,
                    refused  |-> out.refused,
                    other    |-> out.other,
                    skipped  |-> out.aborted \/ out.scanned < Len(Ports)]
      /\ report = NoReport /\ UNCHANGED <<verdict, accepted>>
  BY DEF Return, Unreported, kernel
<1> DEFINE skipped == out.aborted \/ out.scanned < Len(Ports)
<1>2. With("none") # {} => out.scanned < Len(Ports)
  <2>1. With("none") \in SUBSET Port /\ Port \ With("none") \in SUBSET Port
    BY DEF With
  <2>2. /\ Cardinality(Port \ With("none")) <= Cardinality(Port)
        /\ Cardinality(Port) = Cardinality(Port \ With("none")) => Port = Port \ With("none")
    BY <2>1, PortsFacts, FS_Subset
  <2>3. Cardinality(Port) \in Nat /\ Cardinality(Port \ With("none")) \in Nat
    BY <2>1, SetFacts
  <2>4. With("none") # {} => Port # Port \ With("none")
    BY DEF With
  <2> QED BY <2>2, <2>3, <2>4, PortCount DEF CountInv, Agree
<1>3. \A v : Scan!With(v) = With(v)
  BY DEF With, Scan!With
<1>4. skipped \in BOOLEAN /\ (Scan!With("none") # {} => skipped)
  BY <1>2, <1>3
<1> HIDE DEF skipped
<1>5. report' = [open     |-> Scan!With("open"),
                 scanned  |-> Scan!Cardinality(Port \ Scan!With("none")),
                 timeouts |-> Scan!Cardinality(Scan!With("timeout")),
                 refused  |-> Scan!Cardinality(Scan!With("refused")),
                 other    |-> Scan!Cardinality(Scan!With("other")),
                 skipped  |-> skipped]
  BY <1>1, <1>3, SameCardinality DEF CountInv, Agree, skipped
<1>6. Scan!Report
  BY <1>1, <1>4, <1>5, Zenon DEF Scan!Report
<1> QED BY <1>6 DEF Scan!ScanNext

LEMMA ScanStep ==
    ASSUME ~Reuse
    PROVE  TypeInv /\ CountInv /\ KernelInv /\ Unreported /\ [Next]_vars
              => [Scan!ScanNext]_(Scan!scanVars)
<1> SUFFICES ASSUME TypeInv, CountInv, KernelInv, Unreported, [Next]_vars
             PROVE  [Scan!ScanNext]_(Scan!scanVars)
  OBVIOUS
<1>1. CASE Begin
  <2>1. report = NoReport /\ UNCHANGED <<report, accepted>>
    BY <1>1 DEF Begin, Unreported, kernel
  <2>2. Decides(Port, "other") \/ UNCHANGED <<out, verdict>>
    BY <1>1, BeginDecides
  <2> QED BY <2>1, <2>2, DecidesScans DEF Scan!scanVars, Decision
<1>2. CASE LaunchFails
  <2>1. report = NoReport /\ UNCHANGED <<report, accepted>>
    BY <1>2 DEF LaunchFails, Unreported, kernel
  <2>2. Decides({Ports[next + 1]}, "other")
    BY <1>2, LaunchFailsTypes
  <2> QED BY <2>1, <2>2, DecidesScans DEF Decision
<1>3. CASE Launch
  BY <1>3 DEF Launch, Scan!scanVars
<1>4. CASE CallDecides
  <2>1. report = NoReport /\ UNCHANGED <<report, accepted>>
    BY <1>4 DEF CallDecides, Unreported
  <2>2. PICK v \in {"open", "refused", "other"} :
           /\ Decides({Ports[next + 1]}, v)
           /\ v = "open" => op[Ports[next + 1]].st = "ok"
    BY <1>4, CallDecidesTypes
  <2>3. v \in Decision /\ (v = "open" => {Ports[next + 1]} \subseteq accepted)
    BY <2>2 DEF Decides, Decision, KernelInv, Finished
  <2> QED BY <2>1, <2>2, <2>3, DecidesScans
<1>5. CASE Packet
  BY <1>5, PacketScans
<1>6. CASE Sweep
  <2>1. report = NoReport /\ UNCHANGED <<report, accepted>>
    BY <1>6 DEF Sweep, Unreported
  <2>2. Decides(PortsAt(Expired), "timeout")
    BY <1>6, SweepTypes
  <2> QED BY <2>1, <2>2, DecidesScans DEF Decision
<1>7. CASE Exit
  BY <1>7 DEF Exit, Scan!scanVars
<1>8. CASE Return
  BY <1>8, ReturnScans
<1>9. CASE \E p \in Port : Complete(p)
  <2>1. PICK p \in Port : Complete(p)
    BY <1>9
  <2>2. pc # "done"
    <3>1. op[p].at \in Active
      BY <2>1, PendingAt DEF Complete
    <3> QED BY <3>1 DEF TypeInv, Leaving, Ended
  <2>3. report = NoReport /\ UNCHANGED <<verdict, report>>
        /\ (accepted' = accepted \/ accepted' = accepted \cup {p})
    BY <2>1, <2>2 DEF Complete, Unreported, worker
  <2>4. UNCHANGED Scan!scanVars \/ Scan!Accept(p)
    BY <2>3 DEF Scan!scanVars, Scan!Accept
  <2> QED BY <2>4 DEF Scan!ScanNext
<1>10. CASE StillStep /\ ~Return /\ ~(\E p \in Port : Complete(p))
  BY <1>10 DEF StillStep, Loop, CallPending, LaunchEnd, Quiet, Drain, DrainEnd, Stop, Tick,
               Cancelled, vars, worker, kernel, Scan!scanVars
<1> QED BY <1>1, <1>2, <1>3, <1>4, <1>5, <1>6, <1>7, <1>8, <1>9, <1>10
        DEF Next, WorkerStep, Over, StillStep

(* While no address is allocated that a queued packet still holds, the     *)
(* Windows worker implements PortScan: a packet only decides the port it   *)
(* was queued for, "open" is only said of a port whose connection the      *)
(* target accepted, a decided port stays decided, and the report agrees    *)
(* with the verdicts and announces gaps, however late cancelled connects   *)
(* complete.                                                               *)
THEOREM IocpImplementsPortScan ==
    ASSUME ~Reuse
    PROVE  Spec => RefinesPortScan
<1>1. Init => Unreported /\ Scan!ScanInit
  BY DEF Init, Unreported, Scan!ScanInit
<1> QED BY <1>1, InitTypeInv, TypeStep, InitCountInv, CountStep, InitKernelInv, KernelStep,
           UnreportedStep, ScanStep, PTL DEF Spec, RefinesPortScan, Scan!ScanSpec

(* Whatever is open was accepted: a promise of PortScan itself.            *)
Listed == \A p \in Port : verdict[p] = "open" => p \in accepted

LEMMA ListedStep ==
    ASSUME Listed, [Scan!ScanNext]_(Scan!scanVars), TypeInv
    PROVE  Listed'
<1>1. verdict \in [Port -> Scan!Verdict]
  BY DEF TypeInv, TypeOK, Scan!Verdict
<1>2. CASE \E p \in Port : Scan!Accept(p)
  BY <1>2 DEF Scan!Accept, Listed
<1>3. ASSUME NEW S \in SUBSET Port, NEW v, Scan!Decide(S, v)
      PROVE  Listed'
  BY <1>3 DEF Scan!Decide, Listed
<1>4. CASE Scan!Report \/ UNCHANGED Scan!scanVars
  BY <1>4 DEF Scan!Report, Scan!scanVars, Listed
<1> QED BY <1>2, <1>3, <1>4 DEF Scan!ScanNext

(* The claim of port_scan.h that TLC refutes for reused addresses holds    *)
(* without them: a port on the open list accepted a connection, for any    *)
(* ports, window and limits, whether or not cancelled connects complete    *)
(* before the drain gives up.                                              *)
THEOREM IocpOpenMeansAccepted ==
    ASSUME ~Reuse
    PROVE  Spec => []OpenMeansAccepted
<1>1. Init => Unreported /\ Listed
  BY DEF Init, Unreported, Listed
<1>2. TypeInv /\ CountInv /\ KernelInv /\ Unreported /\ Listed /\ [Next]_vars => Listed'
  BY ScanStep, ListedStep
<1>3. CountInv /\ Listed => OpenMeansAccepted
  BY DEF CountInv, Agree, With, Listed, OpenMeansAccepted
<1> QED BY <1>1, <1>2, <1>3, InitTypeInv, TypeStep, InitCountInv, CountStep, InitKernelInv,
           KernelStep, UnreportedStep, PTL DEF Spec
=============================================================================
