-------------------------- MODULE ScanSizingProofs --------------------------
(***************************************************************************)
(* Proofs about ScanSizing.tla, for every value of the code's constants    *)
(* that SizingAssumption admits, every descriptor limit, every machine and *)
(* every port list: dealing the ports out one by one partitions the list,  *)
(* evenly, and the windows chosen stay within what was asked for and what  *)
(* the descriptor limit leaves.                                            *)
(***************************************************************************)
EXTENDS ScanSizing, Integers, TLAPS

(* Dealing.  What has been dealt is in its shard, once; a shard holds      *)
(* nothing else; the first dealt % workers shards are one longer.          *)
Dealing == pc \in {"deal", "ready"}

Held ==
    \A i \in 1..dealt : \E k \in DOMAIN shards[(i - 1) % workers] :
       shards[(i - 1) % workers][k] = i
Placed ==
    \A w \in Workers : \A k \in DOMAIN shards[w] :
       shards[w][k] <= dealt /\ (shards[w][k] - 1) % workers = w
Once ==
    \A w \in Workers : \A j, k \in DOMAIN shards[w] :
       shards[w][j] = shards[w][k] => j = k
Even ==
    \A w \in Workers : Len(shards[w]) = (dealt \div workers)
                                           + (IF w < dealt % workers THEN 1 ELSE 0)

DealInv == /\ Dealing => workers >= 1 /\ workers <= Len(ports)
           /\ Dealing => Held /\ Placed /\ Once /\ Even
           /\ pc = "ready" => dealt = Len(ports)
           /\ pc \in {"args", "clamp", "ports", "size"} => dealt = 0 /\ workers = 0
           /\ pc \in {"size", "deal", "ready"} => Len(ports) >= 1

(* Sizing: the values chosen are those of the formulas.                    *)
SizeInv == /\ pc \in {"ports", "size", "deal", "ready"} /\ limit # 0 =>
                 threads + Reserve <= limit \/ threads <= MinThreads
           /\ Dealing => /\ total = Clamp(threads, Floor, Ceiling)
                         /\ workers = WorkersFor(total, Len(ports))
                         /\ each = Window(total, workers)

-----------------------------------------------------------------------------
(* Division.                                                               *)

LEMMA DivBounds ==
    ASSUME NEW n \in Nat, NEW w \in Nat \ {0}
    PROVE  n \div w \in Nat /\ w * (n \div w) <= n
  OBVIOUS

LEMMA DivAtLeast ==
    ASSUME NEW n \in Nat, NEW w \in Nat \ {0}, NEW q \in Nat, q * w <= n
    PROVE  q <= n \div w
  OBVIOUS

LEMMA DivMonotone ==
    ASSUME NEW n \in Nat, NEW m \in Nat, NEW w \in Nat \ {0}, n <= m
    PROVE  n \div w <= m \div w
  OBVIOUS

LEMMA ModRange ==
    ASSUME NEW n \in Nat, NEW w \in Nat \ {0}
    PROVE  n % w \in 0..(w - 1)
  OBVIOUS

LEMMA ModSmall ==
    ASSUME NEW n \in Nat, NEW w \in Nat \ {0}, n < w
    PROVE  n % w = n /\ n \div w = 0
  OBVIOUS

(* One more: the remainder moves on by one, or the quotient does.          *)
LEMMA DivModNext ==
    ASSUME NEW n \in Nat, NEW w \in Nat \ {0}
    PROVE  IF n % w = w - 1
           THEN (n + 1) \div w = (n \div w) + 1 /\ (n + 1) % w = 0
           ELSE (n + 1) \div w = n \div w /\ (n + 1) % w = (n % w) + 1
  OBVIOUS

-----------------------------------------------------------------------------
(* The formulas.                                                           *)

LEMMA ClampRange ==
    ASSUME NEW x \in Nat, NEW lo \in Nat, NEW hi \in Nat, lo <= hi
    PROVE  /\ Clamp(x, lo, hi) \in lo..hi
           /\ Clamp(x, lo, hi) <= AtLeast(x, lo)
  BY DEF Clamp, AtMost, AtLeast

LEMMA BuiltTyped == ASSUME NEW l \in Built PROVE l \in Seq(1..MaxPort) /\ Len(l) >= 1
<1>1. CASE l = [i \in 1..MaxPort |-> i]
  BY <1>1, SizingAssumption
<1>2. CASE l \in {FastPorts} \cup Lists
  BY <1>2, SizingAssumption
<1>3. CASE \E r \in {q \in (1..MaxPort) \X (1..MaxPort) : q[1] <= q[2]} :
              l = [i \in 1..(r[2] - r[1] + 1) |-> r[1] + i - 1]
  <2>1. PICK a \in 1..MaxPort, b \in 1..MaxPort :
               a <= b /\ l = [i \in 1..(b - a + 1) |-> a + i - 1]
    BY <1>3
  <2>2. b - a + 1 \in Nat /\ b - a + 1 >= 1
    BY <2>1, SizingAssumption
  <2>3. \A i \in 1..(b - a + 1) : a + i - 1 \in 1..MaxPort
    BY <2>1, <2>2, SizingAssumption
  <2> QED BY <2>1, <2>2, <2>3
<1> QED BY <1>1, <1>2, <1>3 DEF Built

LEMMA WorkersRange ==
    ASSUME NEW n \in Nat, NEW many \in Nat, many >= 1, hw \in Nat
    PROVE  /\ WorkersFor(n, many) \in 1..many
           /\ WorkersFor(n, many) <= 2 \/ WorkersFor(n, many) <= n \div PerWorker
<1> DEFINE cores == IF hw = 0 THEN 4 ELSE hw
           q == n \div PerWorker
           w == Clamp(q, 1, cores * 2)
<1>1. q \in Nat
  BY DivBounds, SizingAssumption
<1>2. cores * 2 \in Nat /\ 1 <= cores * 2
  OBVIOUS
<1> HIDE DEF q, cores
<1>3. w \in Nat /\ w >= 1 /\ (w <= q \/ w = 1)
  BY <1>1, <1>2 DEF Clamp, AtMost, AtLeast
<1>4. WorkersFor(n, many) = AtMost(IF many >= ManyPorts THEN AtLeast(2, w) ELSE w, many)
  BY DEF WorkersFor, q, cores
<1> HIDE DEF w
<1>5. AtMost(IF many >= ManyPorts THEN AtLeast(2, w) ELSE w, many) \in 1..many
  BY <1>3 DEF AtMost, AtLeast
<1>6. LET x == AtMost(IF many >= ManyPorts THEN AtLeast(2, w) ELSE w, many)
      IN  x <= 2 \/ x <= q
  BY <1>3, <1>1, SizingAssumption DEF AtMost, AtLeast
<1> QED BY <1>4, <1>5, <1>6 DEF q

LEMMA AffordableRange ==
    ASSUME NEW n \in 1..MaxThreads, limit \in Nat
    PROVE  /\ Affordable(n) \in 1..MaxThreads
           /\ limit # 0 => \/ Affordable(n) + Reserve <= limit
                           \/ Affordable(n) <= MinThreads
<1>1. /\ MinThreads \in 1..MaxThreads /\ n \in Nat /\ n <= MaxThreads /\ n >= 1
      /\ MaxThreads \in Nat /\ Reserve \in Nat
  BY SizingAssumption
<1>2. CASE limit = 0
  BY <1>1, <1>2 DEF Affordable
<1>3. CASE limit # 0 /\ limit <= Reserve
  <2>1. Affordable(n) = MinThreads
    BY <1>3 DEF Affordable
  <2> QED BY <2>1, <1>1, <1>3
<1>4. CASE limit # 0 /\ ~(limit <= Reserve)
  <2>1. Affordable(n) = AtMost(n, limit - Reserve)
    BY <1>4 DEF Affordable
  <2>2. limit - Reserve \in Nat /\ limit - Reserve >= 1
    BY <1>4, <1>1
  <2>3. /\ AtMost(n, limit - Reserve) \in 1..MaxThreads
        /\ AtMost(n, limit - Reserve) <= limit - Reserve
    BY <1>1, <2>2 DEF AtMost
  <2> QED BY <2>1, <2>3, <1>1, <1>4
<1> QED BY <1>2, <1>3, <1>4

-----------------------------------------------------------------------------
(* Types.                                                                  *)

Typed == TypeOK /\ DealInv

LEMMA InitTyped == Init => Typed
  BY SizingAssumption DEF Init, Typed, TypeOK, DealInv, Dealing, Workers

LEMMA SizeTyped == ASSUME Typed, Size PROVE TypeOK' /\ workers' \in 1..Len(ports)
<1> USE SizingAssumption
<1>1. threads \in 1..MaxThreads /\ Len(ports) \in Nat /\ Len(ports) >= 1 /\ hw \in Nat
  BY DEF Typed, TypeOK, DealInv, Size
<1>2. total' \in Floor..Ceiling
  BY <1>1, ClampRange DEF Size
<1>3. workers' \in 1..Len(ports)
  BY <1>1, <1>2, WorkersRange DEF Size
<1>4. total' \div workers' \in Nat
  <2>1. total' \in Nat /\ workers' \in Nat \ {0}
    BY <1>2, <1>3, SizingAssumption
  <2> QED BY <2>1, DivBounds
<1>5. each' \in Nat
  BY <1>4 DEF Size, Window, AtLeast
<1>6. shards' \in [0..(workers' - 1) -> Seq(DOMAIN ports')]
  BY DEF Size
<1> QED BY <1>1, <1>2, <1>3, <1>5, <1>6 DEF Typed, TypeOK, Size, Workers

LEMMA DealTyped == ASSUME Typed, Deal PROVE TypeOK'
<1>1. dealt + 1 \in 1..Len(ports) /\ workers \in Nat \ {0}
  BY DEF Typed, TypeOK, DealInv, Dealing, Deal
<1>2. dealt + 1 \in DOMAIN ports
  BY <1>1 DEF Typed, TypeOK
<1>3. shards' \in [Workers -> Seq(DOMAIN ports)]
  <2> DEFINE v == ShardOf(dealt)
             longer == Append(shards[v], dealt + 1)
  <2>1. v \in Workers
    <3>1. dealt \in Nat
      BY DEF Typed, TypeOK
    <3>2. dealt % workers \in 0..(workers - 1)
      BY <3>1, <1>1, ModRange
    <3> QED BY <3>2 DEF ShardOf, Workers
  <2>2. shards \in [Workers -> Seq(DOMAIN ports)] /\ shards[v] \in Seq(DOMAIN ports)
    BY <2>1 DEF Typed, TypeOK
  <2>3. longer \in Seq(DOMAIN ports)
    BY <2>2, <1>2
  <2>4. shards' = [shards EXCEPT ![v] = longer]
    BY DEF Deal
  <2> HIDE DEF v, longer
  <2> QED BY <2>1, <2>2, <2>3, <2>4
<1> QED BY <1>1, <1>3 DEF Typed, TypeOK, Deal, Workers

LEMMA OthersTyped ==
    ASSUME Typed,
           NoOption \/ ThreadsOption \/ ClampThreads \/ BuildPorts \/ DealEnd \/ UNCHANGED vars
    PROVE  TypeOK'
<1> USE SizingAssumption
<1>1. CASE NoOption
  BY <1>1 DEF NoOption, Typed, TypeOK, Workers
<1>2. CASE ThreadsOption
  <2>1. threads' \in 1..MaxThreads /\ pc' \in {"clamp", "error"}
    <3>1. PICK n \in 0..(MaxThreads + 1) :
                 IF InRange(n) THEN pc' = "clamp" /\ threads' = n
                               ELSE pc' = "error" /\ UNCHANGED threads
      BY <1>2 DEF ThreadsOption
    <3>2. CASE InRange(n)
      BY <3>1, <3>2 DEF InRange
    <3>3. CASE ~InRange(n)
      BY <3>1, <3>3 DEF Typed, TypeOK
    <3> QED BY <3>2, <3>3
  <2> QED BY <1>2, <2>1 DEF ThreadsOption, Typed, TypeOK, Workers
<1>3. CASE ClampThreads
  <2>1. limit \in Nat /\ threads \in 1..MaxThreads
    BY DEF Typed, TypeOK
  <2> QED BY <1>3, <2>1, AffordableRange DEF ClampThreads, Typed, TypeOK, Workers
<1>4. CASE BuildPorts
  <2>1. ports' \in Seq(1..MaxPort) /\ Len(ports') >= 1
    BY <1>4, BuiltTyped DEF BuildPorts
  <2>2. dealt' \in 0..Len(ports')
    BY <1>4, <2>1 DEF BuildPorts, Typed, DealInv
  <2>3. Workers = {} /\ workers' = workers /\ shards' = shards
    BY <1>4 DEF BuildPorts, Typed, TypeOK, DealInv, Workers
  <2>4. shards' \in [Workers' -> Seq(DOMAIN ports')]
    <3>1. Workers' = {} /\ shards \in [{} -> Seq(DOMAIN ports)]
      BY <2>3 DEF Workers, Typed, TypeOK
    <3> QED BY <2>3, <3>1
  <2> QED BY <1>4, <2>1, <2>2, <2>4 DEF BuildPorts, Typed, TypeOK
<1>5. CASE DealEnd
  BY <1>5 DEF DealEnd, Typed, TypeOK, Workers
<1>6. CASE UNCHANGED vars
  BY <1>6 DEF vars, Typed, TypeOK, Workers
<1> QED BY <1>1, <1>2, <1>3, <1>4, <1>5, <1>6

-----------------------------------------------------------------------------
(* Dealing.                                                                *)

(* What a shard is after one more port.                                    *)
LEMMA DealtShard ==
    ASSUME Typed, Deal
    PROVE  /\ ShardOf(dealt) \in Workers
           /\ \A w \in Workers :
                 /\ shards[w] \in Seq(DOMAIN ports)
                 /\ w # ShardOf(dealt) => shards'[w] = shards[w]
           /\ LET old == shards[ShardOf(dealt)]
                  new == shards'[ShardOf(dealt)]
              IN  /\ Len(new) = Len(old) + 1
                  /\ DOMAIN new = 1..(Len(old) + 1)
                  /\ DOMAIN old = 1..Len(old)
                  /\ new[Len(old) + 1] = dealt + 1
                  /\ \A k \in 1..Len(old) : new[k] = old[k]
<1>1. dealt \in Nat /\ workers \in Nat \ {0}
  BY DEF Typed, TypeOK, DealInv, Dealing, Deal
<1>2. dealt % workers \in 0..(workers - 1)
  BY <1>1, ModRange
<1>3. ShardOf(dealt) \in Workers
  BY <1>2 DEF ShardOf, Workers
<1>4. \A w \in Workers : shards[w] \in Seq(DOMAIN ports)
  BY DEF Typed, TypeOK
<1>5. /\ \A w \in Workers : w # ShardOf(dealt) => shards'[w] = shards[w]
      /\ shards'[ShardOf(dealt)] = Append(shards[ShardOf(dealt)], dealt + 1)
  BY <1>3 DEF Deal, Typed, TypeOK
<1> QED BY <1>1, <1>3, <1>4, <1>5

LEMMA DealKeeps == ASSUME Typed, Deal PROVE DealInv'
<1> DEFINE v == ShardOf(dealt)
           m == Len(shards[v])
<1>1. /\ dealt \in Nat /\ dealt < Len(ports) /\ Len(ports) \in Nat
      /\ workers \in Nat \ {0} /\ workers <= Len(ports)
      /\ Held /\ Placed /\ Once /\ Even
      /\ dealt' = dealt + 1 /\ workers' = workers /\ ports' = ports
      /\ pc' = "deal" /\ pc = "deal" /\ Workers' = Workers
  BY DEF Typed, TypeOK, DealInv, Dealing, Deal, Workers
<1>2. /\ v \in Workers /\ m \in Nat
      /\ \A w \in Workers : w # v => shards'[w] = shards[w]
      /\ Len(shards'[v]) = m + 1
      /\ DOMAIN shards'[v] = 1..(m + 1) /\ DOMAIN shards[v] = 1..m
      /\ shards'[v][m + 1] = dealt + 1
      /\ \A k \in 1..m : shards'[v][k] = shards[v][k]
  BY DealtShard
<1>3. v = dealt % workers
  BY DEF ShardOf
<1>4. \A w \in Workers : shards[w] \in Seq(DOMAIN ports) /\ w \in Nat
  <2>1. \A w \in Workers : w \in Nat
    BY <1>1 DEF Workers
  <2> QED BY <2>1, DealtShard
<1>5. \A w \in Workers : \A k \in DOMAIN shards[w] : shards[w][k] \in Nat
  BY <1>4, <1>1
<1> HIDE DEF v, m
<1>6. Held'
  <2> SUFFICES ASSUME NEW i \in 1..(dealt + 1)
               PROVE  \E k \in DOMAIN shards'[(i - 1) % workers] :
                         shards'[(i - 1) % workers][k] = i
    BY <1>1 DEF Held
  <2>1. CASE i = dealt + 1
    <3>1. (i - 1) % workers = v
      BY <2>1, <1>1, <1>3
    <3> QED BY <3>1, <1>2, <2>1
  <2>2. CASE i \in 1..dealt
    <3>1. i - 1 \in Nat
      BY <2>2, <1>1
    <3>2. PICK w \in Workers : w = (i - 1) % workers
      BY <3>1, <1>1, ModRange DEF Workers
    <3>3. PICK k \in DOMAIN shards[w] : shards[w][k] = i
      BY <3>2, <1>1, <2>2 DEF Held
    <3>4. k \in DOMAIN shards'[w] /\ shards'[w][k] = i
      <4>1. CASE w = v
        BY <3>3, <4>1, <1>2
      <4>2. CASE w # v
        BY <3>3, <4>2, <1>2
      <4> QED BY <4>1, <4>2
    <3> QED BY <3>2, <3>4
  <2> QED BY <2>1, <2>2, <1>1
<1>7. Placed'
  <2> SUFFICES ASSUME NEW w \in Workers, NEW k \in DOMAIN shards'[w]
               PROVE  shards'[w][k] <= dealt + 1 /\ (shards'[w][k] - 1) % workers = w
    BY <1>1 DEF Placed
  <2>1. CASE w # v
    <3>1. shards'[w] = shards[w]
      BY <2>1, <1>2
    <3>2. shards[w][k] <= dealt /\ (shards[w][k] - 1) % workers = w /\ shards[w][k] \in Nat
      BY <3>1, <1>1, <1>5 DEF Placed
    <3> QED BY <3>1, <3>2, <1>1
  <2>2. CASE w = v /\ k \in 1..m
    <3>1. shards'[w][k] = shards[w][k] /\ k \in DOMAIN shards[w]
      BY <2>2, <1>2
    <3>2. shards[w][k] <= dealt /\ (shards[w][k] - 1) % workers = w /\ shards[w][k] \in Nat
      BY <3>1, <1>1, <1>5 DEF Placed
    <3> QED BY <3>1, <3>2, <1>1
  <2>3. CASE w = v /\ k = m + 1
    <3>1. shards'[w][k] = dealt + 1
      BY <2>3, <1>2
    <3>2. (dealt + 1) - 1 = dealt
      BY <1>1
    <3> QED BY <3>1, <3>2, <2>3, <1>1, <1>3
  <2> QED BY <2>1, <2>2, <2>3, <1>2
<1>8. Once'
  <2> SUFFICES ASSUME NEW w \in Workers, NEW j \in DOMAIN shards'[w],
                      NEW k \in DOMAIN shards'[w], shards'[w][j] = shards'[w][k]
               PROVE  j = k
    BY <1>1 DEF Once
  <2>1. CASE w # v
    <3>1. shards'[w] = shards[w]
      BY <2>1, <1>2
    <3> QED BY <3>1, <1>1 DEF Once
  <2>2. CASE w = v
    <3>1. \A l \in 1..m : shards'[v][l] = shards[v][l] /\ shards[v][l] <= dealt /\ shards[v][l] \in Nat
      BY <1>1, <1>2, <1>5 DEF Placed
    <3>2. \A l \in 1..m : shards'[v][l] # shards'[v][m + 1]
      <4>1. shards'[v][m + 1] = dealt + 1 /\ dealt \in Nat
        BY <1>1, <1>2
      <4>2. \A x \in Nat : x <= dealt => x # dealt + 1
        BY <4>1
      <4> QED BY <3>1, <4>1, <4>2
    <3>3. CASE j \in 1..m /\ k \in 1..m
      <4>1. /\ j \in DOMAIN shards[v] /\ k \in DOMAIN shards[v]
            /\ shards[v][j] = shards[v][k]
        BY <2>2, <3>1, <3>3, <1>2
      <4> QED BY <4>1, <1>1, <1>2 DEF Once
    <3>4. CASE j = m + 1 \/ k = m + 1
      <4>1. j \in 1..(m + 1) /\ k \in 1..(m + 1) /\ shards'[v][j] = shards'[v][k]
        BY <2>2, <1>2
      <4>2. j \in 1..m \/ j = m + 1
        BY <4>1, <1>2
      <4>3. k \in 1..m \/ k = m + 1
        BY <4>1, <1>2
      <4> QED BY <3>2, <3>4, <4>1, <4>2, <4>3
    <3> QED BY <3>3, <3>4, <2>2, <1>2
  <2> QED BY <2>1, <2>2
<1>9. Even'
  <2> DEFINE q == dealt \div workers
             r == dealt % workers
  <2>1. q \in Nat /\ r \in 0..(workers - 1)
    BY <1>1, DivBounds, ModRange
  <2>2. IF r = workers - 1
        THEN (dealt + 1) \div workers = q + 1 /\ (dealt + 1) % workers = 0
        ELSE (dealt + 1) \div workers = q /\ (dealt + 1) % workers = r + 1
    BY <1>1, DivModNext
  <2>3. \A w \in Workers : Len(shards[w]) = q + (IF w < r THEN 1 ELSE 0)
    BY <1>1 DEF Even
  <2>4. \A w \in Workers : Len(shards'[w]) = IF w = r THEN q + 1 ELSE Len(shards[w])
    <3>1. Len(shards[v]) = q
      BY <2>3, <2>1, <1>2, <1>3
    <3> QED BY <3>1, <1>2, <1>3 DEF m
  <2> HIDE DEF q, r
  <2>5. \A w \in Workers : w \in 0..(workers - 1)
    BY DEF Workers
  <2>6. \A w \in Workers : Len(shards'[w]) = (dealt + 1) \div workers
                               + (IF w < (dealt + 1) % workers THEN 1 ELSE 0)
    <3>1. CASE r = workers - 1
      BY <3>1, <2>1, <2>2, <2>3, <2>4, <2>5, <1>1
    <3>2. CASE r # workers - 1
      BY <3>2, <2>1, <2>2, <2>3, <2>4, <2>5, <1>1
    <3> QED BY <3>1, <3>2
  <2> QED BY <2>6, <1>1 DEF Even
<1>10. Len(ports') >= 1
  BY <1>1
<1> QED BY <1>1, <1>6, <1>7, <1>8, <1>9, <1>10 DEF DealInv, Dealing

LEMMA SizeStartsDealing == ASSUME Typed, Size PROVE DealInv'
<1>1. /\ workers' \in 1..Len(ports) /\ Len(ports) \in Nat /\ ports' = ports
      /\ dealt' = 0 /\ pc' = "deal"
  BY SizeTyped DEF Size, Typed, TypeOK, DealInv
<1>2. \A w \in Workers' : shards'[w] = <<>>
  BY DEF Size, Workers
<1>3. 0 \div workers' = 0 /\ 0 % workers' = 0
  <2>1. 0 \in Nat /\ workers' \in Nat \ {0} /\ 0 < workers'
    BY <1>1
  <2> QED BY <2>1, ModSmall
<1>4. Held' /\ Placed' /\ Once'
  BY <1>1, <1>2 DEF Held, Placed, Once
<1>5. Even'
  <2> SUFFICES ASSUME NEW w \in Workers'
               PROVE  Len(shards'[w]) = (dealt' \div workers')
                                           + (IF w < dealt' % workers' THEN 1 ELSE 0)
    BY DEF Even
  <2>1. Len(shards'[w]) = 0
    BY <1>2
  <2>2. ~(w < 0)
    <3>1. workers' \in Nat
      BY <1>1
    <3>2. w \in 0..(workers' - 1)
      BY DEF Workers
    <3> QED BY <3>1, <3>2
  <2>3. dealt' \div workers' = 0 /\ dealt' % workers' = 0
    BY <1>1, <1>3
  <2> QED BY <2>1, <2>2, <2>3
<1> QED BY <1>1, <1>4, <1>5 DEF DealInv, Dealing

LEMMA OthersKeep ==
    ASSUME Typed,
           NoOption \/ ThreadsOption \/ ClampThreads \/ BuildPorts \/ DealEnd \/ UNCHANGED vars
    PROVE  DealInv'
<1>1. CASE NoOption
  BY <1>1 DEF NoOption, Typed, DealInv, Dealing
<1>2. CASE ThreadsOption
  BY <1>2 DEF ThreadsOption, Typed, DealInv, Dealing
<1>3. CASE ClampThreads
  BY <1>3 DEF ClampThreads, Typed, DealInv, Dealing
<1>4. CASE BuildPorts
  <2>1. Len(ports') >= 1
    BY <1>4, BuiltTyped DEF BuildPorts
  <2> QED BY <1>4, <2>1 DEF BuildPorts, Typed, DealInv, Dealing
<1>5. CASE DealEnd
  <2>1. Held' /\ Placed' /\ Once' /\ Even'
    BY <1>5 DEF DealEnd, Typed, DealInv, Dealing, Held, Placed, Once, Even, Workers
  <2> QED BY <1>5, <2>1 DEF DealEnd, Typed, DealInv, Dealing
<1>6. CASE UNCHANGED vars
  <2>1. (Held /\ Placed /\ Once /\ Even) => (Held' /\ Placed' /\ Once' /\ Even')
    BY <1>6 DEF vars, Held, Placed, Once, Even, Workers
  <2> QED BY <1>6, <2>1 DEF vars, Typed, DealInv, Dealing
<1> QED BY <1>1, <1>2, <1>3, <1>4, <1>5, <1>6

(* Every definite step preserves types and dealing.                        *)
LEMMA NextTyped == Typed /\ [Next]_vars => Typed'
<1> SUFFICES ASSUME Typed, [Next]_vars PROVE Typed'
  OBVIOUS
<1>1. CASE Size
  BY <1>1, SizeTyped, SizeStartsDealing DEF Typed
<1>2. CASE Deal
  BY <1>2, DealTyped, DealKeeps DEF Typed
<1>3. CASE NoOption \/ ThreadsOption \/ ClampThreads \/ BuildPorts \/ DealEnd \/ UNCHANGED vars
  BY <1>3, OthersTyped, OthersKeep DEF Typed
<1> QED BY <1>1, <1>2, <1>3 DEF Next, Over

LEMMA AlwaysTyped == Spec => []Typed
  BY InitTyped, NextTyped, PTL DEF Spec

(* Types, for every instance.                                              *)
THEOREM SizingTypeCorrect == Spec => []TypeOK
<1>1. Typed => TypeOK
  BY DEF Typed
<1> QED BY <1>1, AlwaysTyped, PTL

(* run_connect_scan_with_pool's shards partition the requested ports,      *)
(* whatever the list and the number of workers.                            *)
THEOREM ShardsAlwaysPartition == Spec => []ShardsPartition
<1>1. Typed => ShardsPartition
  <2> SUFFICES ASSUME Typed, pc = "ready" PROVE ShardsPartition
    BY DEF ShardsPartition
  <2>1. /\ Held /\ Placed /\ Once
        /\ dealt = Len(ports) /\ workers >= 1 /\ workers <= Len(ports)
        /\ workers \in Nat /\ ports \in Seq(1..MaxPort) /\ Len(ports) \in Nat
        /\ shards \in [Workers -> Seq(DOMAIN ports)]
    BY DEF Typed, TypeOK, DealInv, Dealing
  <2>2. \A i \in 1..dealt : (i - 1) % workers \in Workers
    <3> SUFFICES ASSUME NEW i \in 1..dealt PROVE (i - 1) % workers \in Workers
      OBVIOUS
    <3>1. i - 1 \in Nat /\ workers \in Nat \ {0}
      BY <2>1
    <3> QED BY <3>1, <2>1, ModRange DEF Workers
  <2>3. DOMAIN ports = 1..dealt
    BY <2>1
  <2>4. \A i \in DOMAIN ports : \E w \in Workers : \E k \in DOMAIN shards[w] : shards[w][k] = i
    BY <2>1, <2>2, <2>3 DEF Held
  <2>5. \A w \in Workers : shards[w] # <<>>
    <3> SUFFICES ASSUME NEW w \in Workers PROVE shards[w] # <<>>
      OBVIOUS
    <3>1. w \in Nat /\ w < workers /\ w + 1 \in 1..dealt /\ (w + 1) - 1 = w
      BY <2>1 DEF Workers
    <3>2. w % workers = w
      BY <3>1, <2>1, ModSmall
    <3>3. \E k \in DOMAIN shards[w] : shards[w][k] = w + 1
      BY <3>1, <3>2, <2>1 DEF Held
    <3> QED BY <3>3
  <2>6. \A w, v \in Workers : \A j \in DOMAIN shards[w], k \in DOMAIN shards[v] :
           shards[w][j] = shards[v][k] => w = v /\ j = k
    <3> SUFFICES ASSUME NEW w \in Workers, NEW v \in Workers,
                        NEW j \in DOMAIN shards[w], NEW k \in DOMAIN shards[v],
                        shards[w][j] = shards[v][k]
                 PROVE  w = v /\ j = k
      OBVIOUS
    <3>1. w = v
      BY <2>1 DEF Placed
    <3> QED BY <3>1, <2>1 DEF Once
  <2> QED BY <2>4, <2>5, <2>6 DEF ShardsPartition
<1> QED BY <1>1, AlwaysTyped, PTL

(* ... and no worker gets two ports more than another.                     *)
THEOREM ShardsAlwaysEven == Spec => []ShardsEven
<1>1. Typed => ShardsEven
  <2> SUFFICES ASSUME Typed, pc = "ready", NEW w \in Workers, NEW v \in Workers
               PROVE  Len(shards[w]) <= Len(shards[v]) + 1
    BY DEF ShardsEven
  <2>1. Even /\ dealt \in Nat /\ workers \in Nat \ {0}
    BY DEF Typed, TypeOK, DealInv, Dealing
  <2>2. dealt \div workers \in Nat
    BY <2>1, DivBounds
  <2> DEFINE q == dealt \div workers
  <2>3. /\ Len(shards[w]) = q \/ Len(shards[w]) = q + 1
        /\ Len(shards[v]) = q \/ Len(shards[v]) = q + 1
    BY <2>1 DEF Even
  <2> HIDE DEF q
  <2>4. q \in Nat
    BY <2>2 DEF q
  <2> QED BY <2>3, <2>4
<1> QED BY <1>1, AlwaysTyped, PTL

-----------------------------------------------------------------------------
(* Sizes.                                                                  *)

Sized == Typed /\ SizeInv

LEMMA InitSized == Init => Sized
<1>1. Init => SizeInv
  BY DEF Init, SizeInv, Dealing
<1> QED BY <1>1, InitTyped DEF Sized

LEMMA NextSized == Sized /\ [Next]_vars => Sized'
<1> SUFFICES ASSUME Sized, [Next]_vars PROVE SizeInv'
  BY NextTyped DEF Sized
<1>1. CASE NoOption
  BY <1>1 DEF NoOption, Sized, SizeInv, Dealing
<1>2. CASE ThreadsOption
  BY <1>2 DEF ThreadsOption, Sized, SizeInv, Dealing
<1>3. CASE ClampThreads
  <2>1. limit \in Nat /\ threads \in 1..MaxThreads
    BY SizingAssumption DEF Sized, Typed, TypeOK
  <2> QED BY <1>3, <2>1, AffordableRange DEF ClampThreads, SizeInv, Dealing
<1>4. CASE BuildPorts
  BY <1>4 DEF BuildPorts, Sized, SizeInv, Dealing
<1>5. CASE Size
  BY <1>5 DEF Size, Sized, SizeInv, Dealing, WorkersFor
<1>6. CASE Deal
  BY <1>6 DEF Deal, Sized, SizeInv, Dealing, WorkersFor
<1>7. CASE DealEnd
  BY <1>7 DEF DealEnd, Sized, SizeInv, Dealing, WorkersFor
<1>8. CASE UNCHANGED vars
  BY <1>8 DEF vars, Sized, SizeInv, Dealing, WorkersFor
<1> QED BY <1>1, <1>2, <1>3, <1>4, <1>5, <1>6, <1>7, <1>8 DEF Next, Over

LEMMA AlwaysSized == Spec => []Sized
  BY InitSized, NextSized, PTL DEF Spec

(* n connects shared by w workers, where w > 2 only if each gets PerWorker. *)
LEMMA WindowSum ==
    ASSUME NEW n \in Nat, n >= Floor, NEW w \in Nat \ {0},
           w <= 2 \/ w <= n \div PerWorker
    PROVE  w * Window(n, w) <= AtLeast(n, 2 * Floor)
<1>1. n \div w \in Nat /\ w * (n \div w) <= n /\ Floor \in Nat /\ PerWorker \in Nat \ {0}
  BY DivBounds, SizingAssumption
<1>2. CASE w = 1
  <2>1. n \div w <= n
    BY <1>1, <1>2
  <2> QED BY <1>1, <1>2, <2>1 DEF Window, AtLeast
<1>3. CASE w = 2
  BY <1>1, <1>3 DEF Window, AtLeast
<1>4. CASE w <= n \div PerWorker
  <2>1. PerWorker * (n \div PerWorker) <= n /\ n \div PerWorker \in Nat
    BY <1>1, DivBounds
  <2>2. PerWorker * w <= PerWorker * (n \div PerWorker)
    BY <1>1, <1>4, <2>1
  <2>3. PerWorker * w <= n
    <3>1. PerWorker * w \in Nat
      BY <1>1
    <3> QED BY <2>1, <2>2, <3>1, <1>1
  <2>4. PerWorker <= n \div w
    BY <2>3, <1>1, DivAtLeast
  <2>5. Window(n, w) = n \div w
    BY <2>4, <1>1, SizingAssumption DEF Window, AtLeast
  <2> QED BY <2>5, <1>1 DEF AtLeast
<1> QED BY <1>2, <1>3, <1>4

(* What is known of the sizes of a scan about to start.                    *)
LEMMA SizesKnown ==
    ASSUME Sized, Dealing
    PROVE  /\ threads \in 1..MaxThreads /\ limit \in Nat
           /\ total \in Nat /\ total >= Floor /\ total = AtLeast(threads, Floor)
           /\ workers \in Nat \ {0} /\ each \in Nat
           /\ workers <= 2 \/ workers <= total \div PerWorker
           /\ workers * each <= AtLeast(total, 2 * Floor)
           /\ limit # 0 => threads + Reserve <= limit \/ threads <= MinThreads
<1> USE SizingAssumption
<1>1. /\ threads \in 1..MaxThreads /\ limit \in Nat /\ hw \in Nat
      /\ workers \in Nat \ {0} /\ each \in Nat
      /\ Len(ports) \in Nat /\ Len(ports) >= 1
  BY DEF Sized, Typed, TypeOK, DealInv, Dealing
<1>2. total = AtLeast(threads, Floor)
  BY <1>1 DEF Sized, SizeInv, Clamp, AtMost, AtLeast
<1>3. total \in Nat /\ total >= Floor
  BY <1>1, <1>2 DEF AtLeast
<1>4. workers <= 2 \/ workers <= total \div PerWorker
  <2>1. workers = WorkersFor(total, Len(ports))
    BY DEF Sized, SizeInv
  <2> QED BY <2>1, <1>1, <1>3, WorkersRange
<1>5. workers * each <= AtLeast(total, 2 * Floor)
  <2>1. each = Window(total, workers)
    BY DEF Sized, SizeInv
  <2> QED BY <2>1, <1>1, <1>3, <1>4, WindowSum
<1>6. limit # 0 => threads + Reserve <= limit \/ threads <= MinThreads
  BY DEF Sized, SizeInv, Dealing
<1> QED BY <1>1, <1>2, <1>3, <1>4, <1>5, <1>6

(* The workers' windows never exceed inflight_total, or two smallest ones. *)
THEOREM WindowsAlwaysBounded == Spec => []WindowsBounded
<1>1. Sized => WindowsBounded
  BY SizesKnown DEF WindowsBounded, Dealing
<1> QED BY <1>1, AlwaysSized, PTL

(* clamp_threads_to_nofile_limit's reserve is enough: a scan never needs   *)
(* more descriptors than the limit, if that admits two smallest windows.   *)
THEOREM DescriptorsAlwaysFit == Spec => []DescriptorsFit
<1>1. Sized => DescriptorsFit
  <2> SUFFICES ASSUME Sized, Dealing, limit >= 2 * Floor + 2 + Stdio
               PROVE  Descriptors <= limit
    BY DEF DescriptorsFit, Dealing
  <2> DEFINE sum == workers * each
  <2>1. /\ threads \in 1..MaxThreads /\ limit \in Nat
        /\ total = AtLeast(threads, Floor) /\ total \in Nat
        /\ workers \in Nat \ {0} /\ each \in Nat /\ sum \in Nat
        /\ workers <= 2 \/ workers <= total \div PerWorker
        /\ sum <= AtLeast(total, 2 * Floor)
        /\ limit # 0 => threads + Reserve <= limit \/ threads <= MinThreads
    BY SizesKnown
  <2>2. /\ Floor \in Nat \ {0} /\ Stdio \in Nat /\ Reserve \in Nat
        /\ MinThreads \in Nat /\ MinThreads <= 2 * Floor
        /\ 2 + Stdio <= Reserve /\ MaxThreads \div PerWorker + Stdio <= Reserve
        /\ PerWorker \in Nat \ {0} /\ Floor <= PerWorker
        /\ MaxThreads \in Nat
    BY SizingAssumption
  <2> HIDE DEF sum
  <2>3. sum <= AtLeast(threads, 2 * Floor)
    BY <2>1, <2>2 DEF AtLeast
  <2>4. CASE workers <= 2
    <3>1. sum + workers + Stdio <= AtLeast(threads, 2 * Floor) + 2 + Stdio
      BY <2>1, <2>2, <2>3, <2>4 DEF AtLeast
    <3>2. AtLeast(threads, 2 * Floor) + 2 + Stdio <= limit
      BY <2>1, <2>2 DEF AtLeast
    <3>3. AtLeast(threads, 2 * Floor) \in Nat
      BY <2>1, <2>2 DEF AtLeast
    <3> QED BY <3>1, <3>2, <3>3, <2>1, <2>2 DEF Descriptors, sum
  <2>5. CASE workers > 2
    <3>1. workers <= total \div PerWorker
      BY <2>1, <2>5
    <3>2. total \div PerWorker \in Nat /\ PerWorker * (total \div PerWorker) <= total
      BY <2>1, <2>2, DivBounds
    <3>3. 3 * PerWorker <= total
      <4>1. 3 <= total \div PerWorker
        BY <3>1, <3>2, <2>5, <2>1
      <4>2. PerWorker * 3 <= PerWorker * (total \div PerWorker)
        BY <4>1, <3>2, <2>2
      <4> QED BY <4>2, <3>2, <2>1, <2>2
    <3>4. total = threads /\ threads > 2 * Floor
      BY <3>3, <2>1, <2>2 DEF AtLeast
    <3>5. threads + Reserve <= limit /\ sum <= threads
      BY <3>4, <2>1, <2>2, <2>3 DEF AtLeast
    <3>6. workers <= MaxThreads \div PerWorker
      <4>1. total \div PerWorker <= MaxThreads \div PerWorker
        <5>1. total \in Nat /\ MaxThreads \in Nat /\ total <= MaxThreads
          <6>1. threads \in 1..MaxThreads /\ total \in Nat
            BY <2>1
          <6>2. MaxThreads \in Nat
            BY <2>2
          <6> QED BY <6>1, <6>2, <3>4
        <5> QED BY <5>1, <2>2, DivMonotone
      <4>2. MaxThreads \div PerWorker \in Nat
        BY <2>2, DivBounds
      <4> QED BY <4>1, <4>2, <3>1, <3>2, <2>1
    <3>7. workers + Stdio <= Reserve
      <4>1. MaxThreads \div PerWorker \in Nat
        BY <2>2, DivBounds
      <4> QED BY <4>1, <3>6, <2>1, <2>2
    <3> QED BY <3>5, <3>7, <2>1, <2>2 DEF Descriptors, sum
  <2> QED BY <2>4, <2>5, <2>1
<1> QED BY <1>1, AlwaysSized, PTL
=============================================================================
