--------------------------- MODULE JsonReadProofs ---------------------------
(***************************************************************************)
(* Proofs about JsonRead, for any bodies: what parse builds is whole, it   *)
(* ends unless it meets a closer of the wrong kind, which it then never    *)
(* gets past, and a body that has the shape of a document never brings it  *)
(* to one.  The last goes along the grammar of JsonPrefix: before every    *)
(* token the calls in progress are for the brackets that are open, and     *)
(* want what the grammar expects there.                                    *)
(***************************************************************************)
EXTENDS JsonRead, JsonPrefix, SequenceTheorems, WellFoundedInduction, TLAPS

(* All of a value and of a frame, for the EXCEPTs that the calls are.      *)
IsValue(v) ==
    v = [kind |-> v.kind, s |-> v.s, o |-> v.o, order |-> v.order, a |-> v.a]

(* order names each of these once.                                         *)
Lists(order, names) ==
    /\ order \in Seq(names)
    /\ \A k \in names : \E n \in DOMAIN order : order[n] = k
    /\ \A m, n \in DOMAIN order : order[m] = order[n] => m = n

(* Values whose order lists their members, and whose members and elements  *)
(* are among them.                                                         *)
IsFamily(W) ==
    \A v \in W : /\ IsValue(v)
                 /\ Lists(v.order, DOMAIN v.o)
                 /\ \A k \in DOMAIN v.o : v.o[k] \in W
                 /\ v.a \in Seq(W)

(* Order lists the members, however deep one looks.                        *)
Whole(v) == \E W : IsFamily(W) /\ v \in W

IsFrame(f) ==
    /\ f = [v |-> f.v, wants |-> f.wants, key |-> f.key]
    /\ IsValue(f.v)
    /\ \/ f.v.kind = "object" /\ f.wants \in {"key", "value"}
       \/ f.v.kind = "array" /\ f.wants = "element"
    /\ Lists(f.v.order, IF f.wants = "value" THEN DOMAIN f.v.o \cup {f.key} ELSE DOMAIN f.v.o)
    /\ \A k \in DOMAIN f.v.o : Whole(f.v.o[k])
    /\ \E E : f.v.a \in Seq(E) /\ \A e \in E : Whole(e)

IsCalls(c) == \E F : c \in Seq(F) /\ \A f \in F : IsFrame(f)

(* Where the calls are, when parse is at its entry or in a loop.           *)
Typed ==
    /\ body \in Seq(Tokens)
    /\ i \in 1..(Len(body) + 1)
    /\ pc \in {"parse", "loop", "done"}
    /\ IsCalls(stack)
    /\ Whole(value)
    /\ pc = "loop" => stack # <<>> /\ Last(stack).wants # "value"
    /\ pc = "done" => stack = <<>>

-----------------------------------------------------------------------------
(* Positions                                                               *)

LEMMA SmallestOf ==
    ASSUME NEW S, S \subseteq Nat, S # {}
    PROVE  \E n \in S : \A m \in S : n <= m
<1> DEFINE R == OpToRel(<, Nat)
<1>1. PICK n \in S : \A m \in S : ~(<<m, n>> \in R)
  <2>1. IsWellFoundedOn(R, Nat)
    BY NatLessThanWellFounded
  <2> HIDE DEF R
  <2> QED BY <2>1, WFMin
<1>2. \A m \in S : ~(m < n)
  BY <1>1 DEF OpToRel
<1> QED BY <1>2

(* The first position of b from n on that holds one of these tokens        *)
FirstOf(b, n, these) == Min({j \in n..Len(b) : b[j] \in these} \cup {Len(b) + 1})
Past(b, n, these)    == FirstOf(b, n, Tokens \ these)

LEMMA FirstOfIs ==
    ASSUME NEW b \in Seq(Tokens), NEW n \in 1..(Len(b) + 1), NEW these
    PROVE  /\ FirstOf(b, n, these) \in n..(Len(b) + 1)
           /\ \A j \in n..(FirstOf(b, n, these) - 1) : b[j] \notin these
           /\ FirstOf(b, n, these) <= Len(b) => b[FirstOf(b, n, these)] \in these
<1> DEFINE S == {j \in n..Len(b) : b[j] \in these} \cup {Len(b) + 1}
<1>1. Len(b) \in Nat
  OBVIOUS
<1>2. S \subseteq Nat /\ S # {}
  BY <1>1
<1>3. \E m \in S : \A j \in S : m <= j
  <2> HIDE DEF S
  <2> QED BY <1>2, SmallestOf
<1>4. Min(S) \in S /\ \A j \in S : Min(S) <= j
  <2> HIDE DEF S
  <2> QED BY <1>3, Zenon DEF Min
<1>5. FirstOf(b, n, these) = Min(S)
  BY DEF FirstOf
<1> DEFINE m == Min(S)
<1>6. m \in n..(Len(b) + 1)
  <2> HIDE DEF m
  <2>1. m \in S
    BY <1>4 DEF m
  <2> QED BY <1>1, <2>1
<1>7. m <= Len(b) => b[m] \in these
  <2> HIDE DEF m
  <2>1. m \in S
    BY <1>4 DEF m
  <2> QED BY <1>1, <2>1
<1>8. ASSUME NEW j \in n..(m - 1) PROVE b[j] \notin these
  <2> HIDE DEF m
  <2>1. \A l \in S : m <= l
    BY <1>4 DEF m
  <2>2. j <= Len(b)
    BY <1>1, <1>6
  <2> QED BY <1>1, <1>6, <2>1, <2>2
<1> QED BY <1>5, <1>6, <1>7, <1>8

(* Skipping passes over these tokens and stops at the first other one.     *)
LEMMA PastIs ==
    ASSUME NEW b \in Seq(Tokens), NEW n \in 1..(Len(b) + 1), NEW these
    PROVE  /\ Past(b, n, these) \in n..(Len(b) + 1)
           /\ \A j \in n..(Past(b, n, these) - 1) : b[j] \in these
           /\ Past(b, n, these) <= Len(b) => b[Past(b, n, these)] \notin these
           /\ n <= Len(b) /\ b[n] \notin these => Past(b, n, these) = n
<1> DEFINE m == Past(b, n, these)
<1>1. /\ m \in n..(Len(b) + 1)
      /\ \A j \in n..(m - 1) : b[j] \notin Tokens \ these
      /\ m <= Len(b) => b[m] \in Tokens \ these
  BY FirstOfIs DEF Past
<1> HIDE DEF m
<1>2. \A j \in n..(m - 1) : j \in 1..Len(b) /\ b[j] \in Tokens
  BY <1>1
<1>3. \A j \in n..(m - 1) : b[j] \in these
  BY <1>1, <1>2
<1>4. n <= Len(b) /\ b[n] \notin these => m = n
  BY <1>1, <1>3
<1> QED BY <1>1, <1>3, <1>4 DEF m

-----------------------------------------------------------------------------
(* Sequences of calls                                                      *)

LEMMA Pushed ==
    ASSUME NEW c, NEW f, IsCalls(c), IsFrame(f)
    PROVE  /\ IsCalls(Append(c, f))
           /\ Len(c) \in Nat /\ Len(Append(c, f)) = Len(c) + 1
           /\ Append(c, f) # <<>> /\ Last(Append(c, f)) = f
           /\ \A n \in 1..Len(c) : Append(c, f)[n] = c[n]
<1>1. PICK F : c \in Seq(F) /\ \A g \in F : IsFrame(g)
  BY DEF IsCalls
<1> DEFINE G == F \cup {f}
           d == Append(c, f)
<1>2. c \in Seq(G) /\ f \in G
  BY <1>1
<1>3. /\ d \in Seq(G) /\ d # <<>> /\ Len(d) = Len(c) + 1
      /\ \A n \in 1..Len(c) : d[n] = c[n]
      /\ d[Len(c) + 1] = f
  <2> HIDE DEF G
  <2> QED BY <1>2, AppendProperties
<1>4. \A g \in G : IsFrame(g)
  BY <1>1
<1>5. IsCalls(d)
  <2> HIDE DEF G
  <2> QED BY <1>3, <1>4 DEF IsCalls
<1>6. Last(d) = f
  BY <1>3 DEF Last
<1> QED BY <1>1, <1>3, <1>5, <1>6

LEMMA Replaced ==
    ASSUME NEW c, NEW f, IsCalls(c), c # <<>>, IsFrame(f)
    PROVE  /\ IsCalls(ReplaceAt(c, Len(c), f))
           /\ Len(ReplaceAt(c, Len(c), f)) = Len(c)
           /\ ReplaceAt(c, Len(c), f) # <<>> /\ Last(ReplaceAt(c, Len(c), f)) = f
           /\ \A n \in 1..(Len(c) - 1) : ReplaceAt(c, Len(c), f)[n] = c[n]
<1>1. PICK F : c \in Seq(F) /\ \A g \in F : IsFrame(g)
  BY DEF IsCalls
<1> DEFINE G == F \cup {f}
           d == [c EXCEPT ![Len(c)] = f]
<1>2. c \in Seq(G) /\ f \in G
  BY <1>1
<1>3. Len(c) \in 1..Len(c)
  BY <1>1
<1>4. /\ d \in Seq(G) /\ Len(d) = Len(c)
      /\ \A n \in 1..Len(c) : d[n] = IF n = Len(c) THEN f ELSE c[n]
  <2> HIDE DEF G
  <2> QED BY <1>2, <1>3, ExceptSeq
<1>5. \A g \in G : IsFrame(g)
  BY <1>1
<1>6. IsCalls(d)
  <2> HIDE DEF G
  <2> QED BY <1>4, <1>5 DEF IsCalls
<1>7. d # <<>> /\ Last(d) = f
  BY <1>3, <1>4 DEF Last
<1>8. ASSUME NEW n \in 1..(Len(c) - 1) PROVE d[n] = c[n]
  <2> HIDE DEF d
  <2>1. Len(c) \in Nat
    BY <1>1
  <2>2. n \in 1..Len(c) /\ n # Len(c)
    BY <2>1
  <2> QED BY <1>4, <2>2
<1> HIDE DEF d
<1>9. ReplaceAt(c, Len(c), f) = d
  BY DEF ReplaceAt, d
<1> QED BY <1>4, <1>6, <1>7, <1>8, <1>9

LEMMA FrontIs ==
    ASSUME NEW F, NEW c \in Seq(F), c # <<>>
    PROVE  /\ Len(c) \in Nat \ {0} /\ Front(c) \in Seq(F)
           /\ Len(Front(c)) = Len(c) - 1
           /\ \A n \in 1..(Len(c) - 1) : Front(c)[n] = c[n]
           /\ Front(c) = <<>> <=> Len(c) = 1
<1>2. Len(c) \in Nat \ {0}
  OBVIOUS
<1> DEFINE d == SubSeq(c, 1, Len(c) - 1)
<1>3. /\ d \in Seq(F)
      /\ Len(d) = Len(c) - 1
      /\ \A n \in 1..(Len(c) - 1) : d[n] = c[n]
  <2>1. \A n \in 1..(Len(c) - 1) : c[n] \in F
    BY <1>2
  <2>2. 1 \in Int /\ Len(c) - 1 \in Int
    BY <1>2
  <2>3. /\ d \in Seq(F)
        /\ Len(d) = IF 1 <= Len(c) - 1 THEN (Len(c) - 1) - 1 + 1 ELSE 0
        /\ \A n \in 1..((Len(c) - 1) - 1 + 1) : d[n] = c[1 + n - 1]
    BY <2>1, <2>2, SubSeqProperties
  <2>4. ASSUME NEW n \in 1..(Len(c) - 1) PROVE d[n] = c[n]
    <3>1. n \in 1..((Len(c) - 1) - 1 + 1) /\ 1 + n - 1 = n
      BY <1>2
    <3> QED BY <2>3, <3>1
  <2> HIDE DEF d
  <2>5. Len(d) = Len(c) - 1
    <3>1. \A x \in Nat \ {0} : (IF 1 <= x - 1 THEN (x - 1) - 1 + 1 ELSE 0) = x - 1
      OBVIOUS
    <3> QED BY <1>2, <2>3, <3>1
  <2> QED BY <2>3, <2>4, <2>5
<1>4. d = <<>> <=> Len(c) = 1
  <2> HIDE DEF d
  <2>1. Len(d) = 0 <=> d = <<>>
    BY <1>3, EmptySeq
  <2> QED BY <1>2, <1>3, <2>1
<1> QED BY <1>2, <1>3, <1>4 DEF Front

LEMMA Popped ==
    ASSUME NEW c, IsCalls(c), c # <<>>
    PROVE  /\ IsCalls(Front(c))
           /\ Len(c) \in Nat \ {0} /\ Len(Front(c)) = Len(c) - 1
           /\ \A n \in 1..(Len(c) - 1) : Front(c)[n] = c[n]
           /\ Front(c) = <<>> <=> Len(c) = 1
<1>1. PICK F : c \in Seq(F) /\ \A g \in F : IsFrame(g)
  BY DEF IsCalls
<1> QED BY <1>1, FrontIs DEF IsCalls

(* The innermost call is a frame, and so is any other.                     *)
LEMMA Top ==
    ASSUME NEW c, IsCalls(c)
    PROVE  /\ Len(c) \in Nat /\ DOMAIN c = 1..Len(c)
           /\ \A n \in 1..Len(c) : IsFrame(c[n])
           /\ c # <<>> => Len(c) \in Nat \ {0} /\ IsFrame(Last(c))
<1>1. PICK F : c \in Seq(F) /\ \A g \in F : IsFrame(g)
  BY DEF IsCalls
<1>2. /\ Len(c) \in Nat /\ DOMAIN c = 1..Len(c)
      /\ \A n \in 1..Len(c) : c[n] \in F
      /\ c # <<>> => Len(c) \in Nat \ {0}
  BY <1>1
<1> QED BY <1>1, <1>2 DEF Last

LEMMA NoCalls == IsCalls(<<>>)
<1>1. <<>> \in Seq({})
  OBVIOUS
<1> DEFINE F == {}
<1>2. <<>> \in Seq(F) /\ \A f \in F : IsFrame(f)
  BY <1>1
<1> HIDE DEF F
<1> QED BY <1>2 DEF IsCalls

-----------------------------------------------------------------------------
(* Values                                                                  *)

LEMMA WholeText == \A s : Whole(TextOf(s)) /\ Whole(Empty)
<1> SUFFICES ASSUME NEW s PROVE Whole(TextOf(s)) /\ Whole(Empty)
  OBVIOUS
<1> DEFINE W == {TextOf(s), Empty}
<1>1. ASSUME NEW v \in W
      PROVE  /\ v = [kind |-> v.kind, s |-> v.s, o |-> <<>>, order |-> <<>>, a |-> <<>>]
             /\ v.o = <<>> /\ v.order = <<>> /\ v.a = <<>>
  BY DEF Empty, TextOf
<1> HIDE DEF W
<1>2. IsFamily(W)
  <2> SUFFICES ASSUME NEW v \in W
               PROVE  /\ IsValue(v)
                      /\ Lists(v.order, DOMAIN v.o)
                      /\ \A k \in DOMAIN v.o : v.o[k] \in W
                      /\ v.a \in Seq(W)
    BY DEF IsFamily
  <2>0. DOMAIN <<>> = {} /\ <<>> \in Seq(W) /\ <<>> \in Seq({})
    OBVIOUS
  <2>1. DOMAIN v.o = {} /\ v.a \in Seq(W)
    BY <1>1, <2>0, Zenon
  <2>2. Lists(v.order, {})
    <3>1. Lists(<<>>, {})
      BY <2>0 DEF Lists
    <3> QED BY <1>1, <3>1
  <2> QED BY <1>1, <2>1, <2>2 DEF IsValue
<1> QED BY <1>2 DEF Whole, W

(* A frame that has all it wants is a value.                               *)
LEMMA WholeFrame ==
    ASSUME NEW f, IsFrame(f), f.wants # "value"
    PROVE  Whole(f.v)
<1> DEFINE Of(v)    == CHOOSE W : IsFamily(W) /\ v \in W
           Inner    == {f.v.o[k] : k \in DOMAIN f.v.o} \cup {f.v.a[n] : n \in DOMAIN f.v.a}
           W        == (UNION {Of(v) : v \in Inner}) \cup {f.v}
<1>1. PICK E : f.v.a \in Seq(E) /\ \A e \in E : Whole(e)
  BY DEF IsFrame
<1>2. ASSUME NEW v \in Inner PROVE Whole(v)
  <2>1. CASE \E k \in DOMAIN f.v.o : v = f.v.o[k]
    BY <2>1 DEF IsFrame
  <2>2. CASE \E n \in DOMAIN f.v.a : v = f.v.a[n]
    <3>1. \A n \in DOMAIN f.v.a : f.v.a[n] \in E
      BY <1>1
    <3> QED BY <1>1, <2>2, <3>1
  <2> QED BY <2>1, <2>2
<1>3. ASSUME NEW v \in Inner PROVE IsFamily(Of(v)) /\ v \in Of(v)
  BY <1>2, <1>3, Zenon DEF Whole
<1>4. /\ \A k \in DOMAIN f.v.o : f.v.o[k] \in Inner
      /\ \A n \in DOMAIN f.v.a : f.v.a[n] \in Inner
  OBVIOUS
<1> HIDE DEF Of, Inner
<1>5. Inner \subseteq W /\ f.v \in W /\ \A v \in Inner : Of(v) \subseteq W
  <2>1. \A v \in Inner : Of(v) \subseteq W
    OBVIOUS
  <2>2. f.v \in W
    OBVIOUS
  <2> HIDE DEF W
  <2> QED BY <1>3, <2>1, <2>2
<1>6. f.v.a \in Seq(W)
  <2>1. f.v.a \in Seq(Inner)
    BY <1>1, <1>4
  <2> HIDE DEF W
  <2> QED BY <1>5, <2>1, SeqMonotonic
<1>7. ASSUME NEW w \in W
      PROVE  /\ IsValue(w)
             /\ Lists(w.order, DOMAIN w.o)
             /\ \A k \in DOMAIN w.o : w.o[k] \in W
             /\ w.a \in Seq(W)
  <2>1. CASE w = f.v
    <3> HIDE DEF W
    <3> QED BY <1>4, <1>5, <1>6, <2>1 DEF IsFrame
  <2>2. CASE w # f.v
    <3>1. PICK v \in Inner : w \in Of(v)
      <4>1. \A x : x \in UNION {Of(v) : v \in Inner} => \E v \in Inner : x \in Of(v)
        BY Zenon
      <4>2. w \in UNION {Of(v) : v \in Inner}
        BY <2>2
      <4> QED BY <4>1, <4>2, Zenon
    <3> HIDE DEF W
    <3>2. /\ IsValue(w)
          /\ Lists(w.order, DOMAIN w.o)
          /\ \A k \in DOMAIN w.o : w.o[k] \in Of(v)
          /\ w.a \in Seq(Of(v))
      BY <1>3, <3>1 DEF IsFamily
    <3>3. w.a \in Seq(W)
      BY <1>5, <3>2, SeqMonotonic
    <3> QED BY <1>5, <3>2, <3>3
  <2> QED BY <2>1, <2>2
<1> QED BY <1>5, <1>7 DEF Whole, IsFamily

(* The frame spelled out                                                   *)
LEMMA Spelled ==
    ASSUME NEW f, IsFrame(f)
    PROVE  f = [v |-> [kind |-> f.v.kind, s |-> f.v.s, o |-> f.v.o, order |-> f.v.order,
                       a |-> f.v.a],
                wants |-> f.wants, key |-> f.key]
  BY DEF IsFrame, IsValue

(* What the caller makes of a value                                        *)
LEMMA KeyTaken ==
    ASSUME NEW f, NEW v, IsFrame(f), f.wants = "key"
    PROVE  /\ IsFrame(TakeKey(f, v))
           /\ TakeKey(f, v).wants = "value" /\ TakeKey(f, v).v.kind = f.v.kind
           /\ TakeKey(f, v).v.a = f.v.a
<1> DEFINE order == IF v.s \in DOMAIN f.v.o THEN f.v.order ELSE Append(f.v.order, v.s)
           g == [v |-> [kind |-> f.v.kind, s |-> f.v.s, o |-> f.v.o, order |-> order,
                        a |-> f.v.a],
                 wants |-> "value", key |-> v.s]
           names == DOMAIN f.v.o \cup {v.s}
<1>1. TakeKey(f, v) = g
  <2> DEFINE f1 == [f EXCEPT !.v.order = order]
             f2 == [f1 EXCEPT !.key = v.s]
             kept == [kind |-> f.v.kind, s |-> f.v.s, o |-> f.v.o, order |-> order,
                      a |-> f.v.a]
  <2>1. f1 = [v |-> kept, wants |-> f.wants, key |-> f.key]
    BY Spelled
  <2>2. f2 = [v |-> kept, wants |-> f.wants, key |-> v.s]
    <3> HIDE DEF f1, kept
    <3> QED BY <2>1
  <2>3. [f2 EXCEPT !.wants = "value"] = g
    <3> HIDE DEF f2, order
    <3> QED BY <2>2
  <2>4. TakeKey(f, v) = [f2 EXCEPT !.wants = "value"]
    BY Zenon DEF TakeKey
  <2> HIDE DEF f2, g
  <2> QED BY <2>3, <2>4
<1>2. Lists(f.v.order, DOMAIN f.v.o)
  BY DEF IsFrame
<1>3. Lists(order, names)
  <2>1. CASE v.s \in DOMAIN f.v.o
    <3>1. names = DOMAIN f.v.o
      BY <2>1
    <3> QED BY <1>2, <2>1, <3>1
  <2>2. CASE v.s \notin DOMAIN f.v.o
    <3> DEFINE old == f.v.order
               new == v.s
    <3>1. old \in Seq(names) /\ new \in names
      BY <1>2 DEF Lists
    <3>2. /\ order \in Seq(names) /\ Len(order) = Len(old) + 1 /\ Len(old) \in Nat
          /\ DOMAIN old = 1..Len(old) /\ DOMAIN order = 1..(Len(old) + 1)
          /\ \A n \in 1..Len(old) : order[n] = old[n]
          /\ order[Len(old) + 1] = new
      <4>1. order = Append(old, new)
        BY <2>2
      <4> HIDE DEF order, names, old, new
      <4> QED BY <3>1, <4>1, AppendProperties
    <3>3. \A n \in 1..Len(old) : old[n] \in DOMAIN f.v.o
      BY <1>2, <3>2 DEF Lists
    <3>4. \A k \in names : \E n \in DOMAIN order : order[n] = k
      <4> SUFFICES ASSUME NEW k \in names PROVE \E n \in DOMAIN order : order[n] = k
        OBVIOUS
      <4> HIDE DEF order
      <4>1. CASE k = new
        BY SMTT(20), <3>2, <4>1
      <4>2. CASE k \in DOMAIN f.v.o
        <5>1. PICK n \in DOMAIN old : old[n] = k
          BY <1>2, <4>2 DEF Lists
        <5>2. n \in 1..(Len(old) + 1)
          BY <3>2
        <5> QED BY <3>2, <5>1, <5>2
      <4> QED BY <4>1, <4>2
    <3>5. ASSUME NEW m \in DOMAIN order, NEW n \in DOMAIN order, order[m] = order[n]
          PROVE  m = n
      <4> HIDE DEF order
      <4>0. m \in 1..(Len(old) + 1) /\ n \in 1..(Len(old) + 1)
        BY <3>2
      <4>1. CASE m \in 1..Len(old) /\ n \in 1..Len(old)
        <5>1. old[m] = old[n] /\ m \in DOMAIN old /\ n \in DOMAIN old
          BY <3>2, <3>5, <4>1
        <5> QED BY <1>2, <5>1 DEF Lists
      <4>2. CASE ~(m \in 1..Len(old) /\ n \in 1..Len(old))
        <5> HIDE DEF old
        <5>1. new \notin DOMAIN f.v.o
          BY <2>2
        <5> HIDE DEF new
        <5> QED BY <3>2, <3>3, <3>5, <4>0, <4>2, <5>1
      <4> QED BY <4>1, <4>2
    <3> HIDE DEF order
    <3> QED BY <3>2, <3>4, <3>5 DEF Lists
  <2> QED BY <2>1, <2>2
<1> HIDE DEF order
<1>4. IsValue(g.v) /\ g.v.kind = "object"
  BY DEF IsFrame, IsValue
<1>5. \A k \in DOMAIN g.v.o : Whole(g.v.o[k])
  BY DEF IsFrame
<1>6. \E E : g.v.a \in Seq(E) /\ \A e \in E : Whole(e)
  BY DEF IsFrame
<1>7. IsFrame(g)
  BY <1>3, <1>4, <1>5, <1>6 DEF IsFrame
<1> QED BY <1>1, <1>7

LEMMA ValueTaken ==
    ASSUME NEW f, NEW v, IsFrame(f), f.wants = "value", Whole(v)
    PROVE  /\ IsFrame(TakeValue(f, v))
           /\ TakeValue(f, v).wants = "key" /\ TakeValue(f, v).v.kind = f.v.kind
           /\ TakeValue(f, v).v.a = f.v.a
<1> DEFINE o == Put(f.v.o, f.key, v)
           g == [v |-> [kind |-> f.v.kind, s |-> f.v.s, o |-> o, order |-> f.v.order,
                        a |-> f.v.a],
                 wants |-> "key", key |-> f.key]
<1>1. TakeValue(f, v) = g
  <2> DEFINE f1 == [f EXCEPT !.v.o = o]
  <2>1. f1 = [v |-> [kind |-> f.v.kind, s |-> f.v.s, o |-> o, order |-> f.v.order,
                     a |-> f.v.a],
              wants |-> f.wants, key |-> f.key]
    <3> HIDE DEF o
    <3> QED BY Spelled
  <2>2. [f1 EXCEPT !.wants = "key"] = g
    <3> HIDE DEF f1, o
    <3> QED BY <2>1
  <2>3. TakeValue(f, v) = [f1 EXCEPT !.wants = "key"]
    BY Zenon DEF TakeValue
  <2> HIDE DEF f1, g
  <2> QED BY <2>2, <2>3
<1>2. DOMAIN o = DOMAIN f.v.o \cup {f.key}
  BY DEF Put
<1>3. \A k \in DOMAIN o : Whole(o[k])
  BY DEF Put, IsFrame
<1> HIDE DEF o
<1>4. Lists(g.v.order, DOMAIN g.v.o)
  BY <1>2 DEF IsFrame
<1>5. IsValue(g.v) /\ g.v.kind = "object"
  BY DEF IsFrame, IsValue
<1>6. \E E : g.v.a \in Seq(E) /\ \A e \in E : Whole(e)
  BY DEF IsFrame
<1>7. IsFrame(g)
  BY <1>3, <1>4, <1>5, <1>6 DEF IsFrame
<1> QED BY <1>1, <1>7

LEMMA ElementTaken ==
    ASSUME NEW f, NEW v, IsFrame(f), f.wants = "element", Whole(v)
    PROVE  /\ IsFrame(TakeElement(f, v))
           /\ TakeElement(f, v).wants = "element" /\ TakeElement(f, v).v.kind = f.v.kind
           /\ Len(TakeElement(f, v).v.a) <= Len(f.v.a) + 1
<1> DEFINE a == IF Len(f.v.a) < MaxElements THEN Append(f.v.a, v) ELSE f.v.a
           g == [v |-> [kind |-> f.v.kind, s |-> f.v.s, o |-> f.v.o, order |-> f.v.order,
                        a |-> a],
                 wants |-> "element", key |-> f.key]
<1>1. TakeElement(f, v) = g
  BY SMTT(20), Spelled DEF TakeElement
<1>2. \E E : a \in Seq(E) /\ \A e \in E : Whole(e)
  <2>1. PICK E : f.v.a \in Seq(E) /\ \A e \in E : Whole(e)
    BY DEF IsFrame
  <2> DEFINE D == E \cup {v}
  <2>2. \A e \in D : Whole(e)
    BY <2>1
  <2>3. f.v.a \in Seq(D) /\ v \in D
    BY <2>1
  <2> HIDE DEF D
  <2>4. a \in Seq(D)
    BY <2>3, AppendProperties
  <2> QED BY <2>2, <2>4
<1>2a. Len(a) <= Len(f.v.a) + 1
  <2>1. PICK E : f.v.a \in Seq(E)
    BY DEF IsFrame
  <2>2. Len(f.v.a) \in Nat
    BY <2>1
  <2>3. f.v.a \in Seq(E \cup {v}) /\ v \in E \cup {v}
    BY <2>1
  <2>4. Len(Append(f.v.a, v)) = Len(f.v.a) + 1
    BY <2>3, AppendProperties
  <2> QED BY <2>2, <2>4
<1> HIDE DEF a
<1>3. Lists(g.v.order, DOMAIN g.v.o)
  BY DEF IsFrame
<1>4. IsValue(g.v) /\ g.v.kind = "array"
  BY DEF IsFrame, IsValue
<1>5. \A k \in DOMAIN g.v.o : Whole(g.v.o[k])
  BY DEF IsFrame
<1>6. IsFrame(g)
  BY <1>2, <1>3, <1>4, <1>5 DEF IsFrame
<1> QED BY <1>1, <1>2a, <1>6

-----------------------------------------------------------------------------
(* Steps                                                                   *)

(* The innermost of these calls goes on with what it was given at n.       *)
Resumes(calls, n) ==
    /\ calls # <<>> /\ IsCalls(stack') /\ Whole(value')
    /\ stack' # <<>> /\ Len(stack') = Len(calls)
    /\ \A m \in 1..(Len(calls) - 1) : stack'[m] = calls[m]
    /\ Last(stack').v.kind = Last(calls).v.kind
    /\ IF Last(calls).wants = "element"
       THEN Len(Last(stack').v.a) <= Len(Last(calls).v.a) + 1
       ELSE Last(stack').v.a = Last(calls).v.a
    /\ \/ /\ Last(calls).wants = "key" /\ Last(stack').wants = "value"
          /\ pc' = "parse" /\ i' = Past(body, n, {Space, Colon})
       \/ /\ Last(calls).wants = "value" /\ Last(stack').wants = "key"
          /\ pc' = "loop" /\ i' = Past(body, n, {Space, Comma})
       \/ /\ Last(calls).wants = "element" /\ Last(stack').wants = "element"
          /\ pc' = "loop" /\ i' = Past(body, n, {Space, Comma})

IsOver(n) == pc' = "done" /\ stack' = <<>> /\ i' = n /\ Whole(value')

LEMMA Returned ==
    ASSUME NEW v, NEW n, NEW calls, IsCalls(calls), Whole(v), Whole(value), Return(v, n, calls)
    PROVE  (calls = <<>> /\ IsOver(n)) \/ Resumes(calls, n)
<1>1. CASE calls = <<>>
  BY <1>1 DEF Return, IsOver
<1>2. CASE calls # <<>>
  <2> DEFINE f == Last(calls)
             g == CASE f.wants = "key"     -> TakeKey(f, v)
                    [] f.wants = "value"   -> TakeValue(f, v)
                    [] f.wants = "element" -> TakeElement(f, v)
  <2>1. /\ stack' = ReplaceAt(calls, Len(calls), g)
        /\ i' = Past(body, n, {Space, IF f.wants = "key" THEN Colon ELSE Comma})
        /\ pc' = IF f.wants = "key" THEN "parse" ELSE "loop"
        /\ value' = value
    BY <1>2 DEF Return, Skip, NextOf, Past, FirstOf
  <2>2. IsFrame(f)
    BY <1>2, Top
  <2>3. f.wants \in {"key", "value", "element"}
    BY <2>2 DEF IsFrame
  <2> HIDE DEF f
  <2>4. /\ IsFrame(g) /\ g.v.kind = f.v.kind
        /\ f.wants = "key" => g.wants = "value"
        /\ f.wants = "value" => g.wants = "key"
        /\ f.wants = "element" => g.wants = "element"
        /\ IF f.wants = "element" THEN Len(g.v.a) <= Len(f.v.a) + 1 ELSE g.v.a = f.v.a
    <3>1. CASE f.wants = "key"
      <4>1. g = TakeKey(f, v)
        BY <3>1
      <4> HIDE DEF g
      <4> QED BY <2>2, <3>1, <4>1, KeyTaken
    <3>2. CASE f.wants = "value"
      <4>1. g = TakeValue(f, v)
        BY <3>2
      <4> HIDE DEF g
      <4> QED BY <2>2, <3>2, <4>1, ValueTaken
    <3>3. CASE f.wants = "element"
      <4>1. g = TakeElement(f, v)
        BY <3>3
      <4> HIDE DEF g
      <4> QED BY <2>2, <3>3, <4>1, ElementTaken
    <3> HIDE DEF g
    <3> QED BY <2>3, <3>1, <3>2, <3>3
  <2> HIDE DEF g
  <2>5. /\ IsCalls(stack') /\ Len(stack') = Len(calls)
        /\ stack' # <<>> /\ Last(stack') = g
        /\ \A m \in 1..(Len(calls) - 1) : stack'[m] = calls[m]
    BY <1>2, <2>1, <2>4, Replaced
  <2> QED BY <1>2, <2>1, <2>3, <2>4, <2>5 DEF Resumes, f
<1> QED BY <1>1, <1>2

LEMMA HereIs ==
    ASSUME Typed
    PROVE  /\ Here = Past(body, i, {Space})
           /\ Here \in i..(Len(body) + 1)
           /\ \A j \in i..(Here - 1) : body[j] = Space
           /\ Here <= Len(body) => body[Here] \in Tokens /\ body[Here] # Space
           /\ i <= Len(body) /\ body[i] # Space => Here = i
           /\ AtEnd(Here) <=> Here = Len(body) + 1
           /\ AtEnd(i) <=> i = Len(body) + 1
<1>1. Here = Past(body, i, {Space})
  BY DEF Here, Skip, NextOf, Past, FirstOf
<1>2. body \in Seq(Tokens) /\ i \in 1..(Len(body) + 1) /\ Len(body) \in Nat
  BY DEF Typed
<1>3. /\ Here \in i..(Len(body) + 1)
      /\ \A j \in i..(Here - 1) : body[j] \in {Space}
      /\ Here <= Len(body) => body[Here] \notin {Space}
      /\ i <= Len(body) /\ body[i] \notin {Space} => Here = i
  BY <1>1, <1>2, PastIs
<1>4. Here <= Len(body) => body[Here] \in Tokens
  <2>1. Here \in 1..(Len(body) + 1)
    BY <1>2, <1>3
  <2>2. \A j \in 1..Len(body) : body[j] \in Tokens
    BY <1>2
  <2> QED BY <1>2, <2>1, <2>2
<1>5. /\ AtEnd(Here) <=> Here = Len(body) + 1
      /\ AtEnd(i) <=> i = Len(body) + 1
  BY <1>2, <1>3 DEF AtEnd
<1> QED BY <1>1, <1>3, <1>4, <1>5

(* A word that begins at Here ends where a comma, a closer or a space is;  *)
(* it is empty if one is at Here.                                          *)
LEMMA WordEndIs ==
    ASSUME Typed
    PROVE  /\ WordEnd \in Here..(Len(body) + 1)
           /\ ~AtEnd(Here) /\ WordEnd = Here => body[Here] \in {Comma, CloseObject, CloseArray}
           /\ ~AtEnd(Here) /\ body[Here] \in {Comma, CloseObject, CloseArray} => WordEnd = Here
           /\ \A j \in Here..(WordEnd - 1) : body[j] \notin {Comma, CloseObject, CloseArray, Space}
<1>1. body \in Seq(Tokens) /\ Len(body) \in Nat /\ Here \in 1..(Len(body) + 1)
  BY HereIs DEF Typed
<1>2. WordEnd = FirstOf(body, Here, {Comma, CloseObject, CloseArray, Space})
  BY DEF WordEnd, NextOf, FirstOf
<1>3. /\ WordEnd \in Here..(Len(body) + 1)
      /\ \A j \in Here..(WordEnd - 1) : body[j] \notin {Comma, CloseObject, CloseArray, Space}
      /\ WordEnd <= Len(body) => body[WordEnd] \in {Comma, CloseObject, CloseArray, Space}
  BY <1>1, <1>2, FirstOfIs
<1>4. ~AtEnd(Here) => Here <= Len(body) /\ body[Here] # Space
  BY <1>1, HereIs DEF AtEnd
<1>5. ~AtEnd(Here) /\ WordEnd = Here => body[Here] \in {Comma, CloseObject, CloseArray}
  BY <1>3, <1>4
<1>6. ~AtEnd(Here) /\ body[Here] \in {Comma, CloseObject, CloseArray} => WordEnd = Here
  <2> SUFFICES ASSUME body[Here] \in {Comma, CloseObject, CloseArray}, WordEnd # Here PROVE FALSE
    OBVIOUS
  <2>1. WordEnd \in Here..(Len(body) + 1)
    BY <1>3
  <2>2. Here \in Here..(WordEnd - 1)
    BY <1>1, <2>1
  <2> QED BY <1>3, <2>2
<1> QED BY <1>3, <1>5, <1>6

(* A scalar is read, which ends before n.                                  *)
Reads(n) ==
    /\ pc = "parse" /\ n \in Here..(Len(body) + 1) /\ body' = body
    /\ \/ AtEnd(Here) /\ n = Here
       \/ ~AtEnd(Here) /\ body[Here] \in Quoted /\ n = Here + 1
       \/ ~AtEnd(Here) /\ body[Here] = Quote /\ n = Len(body) + 1
       \/ /\ ~AtEnd(Here) /\ n = WordEnd
          /\ body[Here] \notin Quoted \cup {Quote, OpenObject, OpenArray}
    /\ (stack = <<>> /\ IsOver(n)) \/ Resumes(stack, n)

(* The innermost object or array is returned, from before n.               *)
Leaves(n) ==
    /\ pc = "loop" /\ stack # <<>> /\ body' = body
    /\ n = IF AtEnd(i) THEN i ELSE i + 1
    /\ ~AtEnd(i) => body[i] = Closer
    /\ (Front(stack) = <<>> /\ IsOver(n)) \/ Resumes(Front(stack), n)

(* An object or array is begun.                                            *)
Enters ==
    /\ pc = "parse" /\ ~AtEnd(Here) /\ body[Here] \in {OpenObject, OpenArray}
    /\ IsCalls(stack') /\ Len(stack') = Len(stack) + 1 /\ stack' # <<>>
    /\ \A m \in 1..Len(stack) : stack'[m] = stack[m]
    /\ Last(stack').v.kind  = IF body[Here] = OpenObject THEN "object" ELSE "array"
    /\ Last(stack').wants   = IF body[Here] = OpenObject THEN "key" ELSE "element"
    /\ Last(stack').v.a = <<>>
    /\ i' = Here + 1 /\ pc' = "loop" /\ body' = body /\ value' = value

LEMMA Steps ==
    ASSUME Typed, Next
    PROVE  (\E n : Reads(n)) \/ (\E n : Leaves(n)) \/ Enters \/ Again
<1>1. IsCalls(stack) /\ Whole(value) /\ Len(body) \in Nat /\ i \in 1..(Len(body) + 1)
  BY DEF Typed
<1>2. Here \in 1..(Len(body) + 1) /\ Here \in i..(Len(body) + 1)
  BY <1>1, HereIs
<1>3. ~AtEnd(Here) => Here <= Len(body)
  BY <1>1, <1>2 DEF AtEnd
<1>4. CASE ReadNothing
  <2>1. (stack = <<>> /\ IsOver(Here)) \/ Resumes(stack, Here)
    BY <1>1, <1>4, WholeText, Returned DEF ReadNothing
  <2>2. Reads(Here)
    BY <1>1, <1>2, <1>4, <2>1 DEF ReadNothing, Reads
  <2> QED BY <2>2
<1>5. CASE ReadQuoted
  <2>1. CASE body[Here] \in Quoted /\ Return(TextOf(Contents[body[Here]]), Here + 1, stack)
    <3>1. (stack = <<>> /\ IsOver(Here + 1)) \/ Resumes(stack, Here + 1)
      BY <1>1, <2>1, WholeText, Returned
    <3>2. Here + 1 \in Here..(Len(body) + 1)
      BY <1>1, <1>2, <1>3, <1>5 DEF ReadQuoted
    <3>3. Reads(Here + 1)
      BY <1>5, <2>1, <3>1, <3>2 DEF ReadQuoted, Reads
    <3> QED BY <3>3
  <2>2. CASE /\ body[Here] = Quote
             /\ Return(TextOf(SubSeq(body, Here + 1, Len(body))), Len(body) + 1, stack)
    <3>1. (stack = <<>> /\ IsOver(Len(body) + 1)) \/ Resumes(stack, Len(body) + 1)
      BY <1>1, <2>2, WholeText, Returned
    <3>2. Reads(Len(body) + 1)
      BY <1>1, <1>2, <1>5, <2>2, <3>1 DEF ReadQuoted, Reads
    <3> QED BY <3>2
  <2> QED BY <1>5, <2>1, <2>2 DEF ReadQuoted
<1>6. CASE ReadWord
  <2>1. (stack = <<>> /\ IsOver(WordEnd)) \/ Resumes(stack, WordEnd)
    BY <1>1, <1>6, WholeText, Returned DEF ReadWord
  <2>2. Reads(WordEnd)
    BY <1>6, <2>1, WordEndIs DEF ReadWord, Reads
  <2> QED BY <2>2
<1>7. CASE Enter
  <2> DEFINE object == body[Here] = OpenObject
             f == [v     |-> [Empty EXCEPT !.kind = IF object THEN "object" ELSE "array"],
                   wants |-> IF object THEN "key" ELSE "element",
                   key   |-> <<>>]
  <2>1. /\ f.v = [kind |-> IF object THEN "object" ELSE "array",
                  s |-> <<>>, o |-> <<>>, order |-> <<>>, a |-> <<>>]
    BY DEF Empty
  <2>2. IsFrame(f)
    <3>1. DOMAIN <<>> = {} /\ <<>> \in Seq({}) /\ Lists(<<>>, {})
      BY DEF Lists
    <3>2. IsValue(f.v)
      BY <2>1 DEF IsValue
    <3>3. \E E : f.v.a \in Seq(E) /\ \A e \in E : Whole(e)
      <4> DEFINE E == {}
      <4>1. f.v.a \in Seq(E) /\ \A e \in E : Whole(e)
        BY <2>1, <3>1
      <4> HIDE DEF E
      <4> QED BY <4>1
    <3>4. f = [v |-> f.v, wants |-> f.wants, key |-> f.key]
      OBVIOUS
    <3>5. f.wants = IF object THEN "key" ELSE "element"
      OBVIOUS
    <3>6. DOMAIN f.v.o = {} /\ f.v.order = <<>>
      BY <2>1, <3>1
    <3>7. f.v.kind = IF object THEN "object" ELSE "array"
      BY <2>1
    <3> HIDE DEF f, object
    <3>8. Lists(f.v.order, IF f.wants = "value" THEN DOMAIN f.v.o \cup {f.key} ELSE DOMAIN f.v.o)
      BY <3>1, <3>5, <3>6
    <3>9. \A k \in DOMAIN f.v.o : Whole(f.v.o[k])
      BY <3>6
    <3> QED BY <3>2, <3>3, <3>4, <3>5, <3>7, <3>8, <3>9 DEF IsFrame
  <2>3. stack' = Append(stack, f)
    BY <1>7 DEF Enter
  <2>4. /\ f.v.kind = IF object THEN "object" ELSE "array"
        /\ f.wants = IF object THEN "key" ELSE "element"
        /\ f.v.a = <<>>
    BY <2>1
  <2> HIDE DEF f
  <2>5. /\ IsCalls(stack') /\ Len(stack') = Len(stack) + 1 /\ stack' # <<>>
        /\ Last(stack') = f
        /\ \A m \in 1..Len(stack) : stack'[m] = stack[m]
    BY <1>1, <2>2, <2>3, Pushed
  <2> QED BY <1>7, <2>4, <2>5 DEF Enter, Enters
<1>8. CASE Again
  BY <1>8
<1>9. CASE Leave
  <2> DEFINE n == IF AtEnd(i) THEN i ELSE i + 1
  <2>1. stack # <<>> /\ Last(stack).wants # "value"
    BY <1>9 DEF Leave, Typed
  <2>2. IsCalls(Front(stack)) /\ Whole(Last(stack).v)
    BY <1>1, <2>1, Popped, Top, WholeFrame
  <2>3. Return(Last(stack).v, n, Front(stack))
    BY <1>9 DEF Leave
  <2> HIDE DEF n
  <2>4. (Front(stack) = <<>> /\ IsOver(n)) \/ Resumes(Front(stack), n)
    BY <1>1, <2>2, <2>3, Returned
  <2>5. Leaves(n)
    BY <1>9, <2>1, <2>4 DEF Leave, Leaves, n
  <2> QED BY <2>5
<1> QED BY <1>4, <1>5, <1>6, <1>7, <1>8, <1>9 DEF Next

-----------------------------------------------------------------------------
(* Type correctness                                                        *)

LEMMA InitTyped == Init => Typed
<1> SUFFICES ASSUME Init PROVE Typed
  OBVIOUS
<1>1. body \in Seq(Tokens) /\ i \in 1..(Len(body) + 1)
  <2>1. body \in Seq(Tokens)
    BY ReaderAssumption DEF Init
  <2> QED BY <2>1 DEF Init
<1> QED BY <1>1, NoCalls, WholeText DEF Init, Typed

(* Wherever parse goes on, it is not before n.                             *)
LEMMA ResumesAt ==
    ASSUME Typed, NEW calls, NEW n \in 1..(Len(body) + 1), Resumes(calls, n)
    PROVE  i' \in n..(Len(body) + 1) /\ i' \in 1..(Len(body) + 1)
<1>1. body \in Seq(Tokens) /\ Len(body) \in Nat
  BY DEF Typed
<1>2. \A these : Past(body, n, these) \in n..(Len(body) + 1)
  BY <1>1, PastIs
<1>3. i' \in n..(Len(body) + 1)
  BY <1>2 DEF Resumes
<1> QED BY <1>1, <1>3

LEMMA NextTyped == Typed /\ [Next]_vars => Typed'
<1> SUFFICES ASSUME Typed, Next PROVE Typed'
  BY Zenon DEF Typed, vars, IsCalls, Whole
<1>1. /\ body \in Seq(Tokens) /\ i \in 1..(Len(body) + 1) /\ Len(body) \in Nat
      /\ IsCalls(stack) /\ Whole(value)
  BY DEF Typed
<1>2. body' = body
  BY DEF Next, ReadNothing, ReadQuoted, ReadWord, Enter, Again, Leave
<1>3. ASSUME NEW n \in 1..(Len(body) + 1), NEW calls, Resumes(calls, n) PROVE Typed'
  <2>1. i' \in 1..(Len(body) + 1)
    BY <1>3, ResumesAt
  <2> QED BY <1>1, <1>2, <1>3, <2>1 DEF Typed, Resumes
<1>4. ASSUME NEW n \in 1..(Len(body) + 1), IsOver(n) PROVE Typed'
  BY <1>1, <1>2, <1>4, NoCalls DEF Typed, IsOver
<1>5. ASSUME NEW n, Reads(n) PROVE Typed'
  <2>1. n \in 1..(Len(body) + 1)
    <3>1. n \in Here..(Len(body) + 1) /\ Here \in i..(Len(body) + 1)
      BY <1>5, HereIs DEF Reads
    <3> QED BY <1>1, <3>1
  <2> QED BY <1>3, <1>4, <1>5, <2>1 DEF Reads
<1>6. ASSUME NEW n, Leaves(n) PROVE Typed'
  <2>1. n \in 1..(Len(body) + 1)
    BY <1>1, <1>6, HereIs DEF Leaves
  <2> QED BY <1>3, <1>4, <1>6, <2>1 DEF Leaves
<1>7. CASE Enters
  <2>1. Here + 1 \in 1..(Len(body) + 1)
    <3>1. Here \in i..(Len(body) + 1) /\ Here # Len(body) + 1
      BY <1>7, HereIs DEF Enters
    <3> QED BY <1>1, <3>1
  <2>2. Last(stack').wants # "value"
    BY <1>7 DEF Enters
  <2> QED BY <1>1, <1>2, <1>7, <2>1, <2>2 DEF Enters, Typed
<1>8. CASE Again
  BY <1>1, <1>2, <1>8 DEF Again, Typed
<1> QED BY <1>5, <1>6, <1>7, <1>8, Steps

LEMMA AlwaysTyped == Spec => []Typed
BY InitTyped, NextTyped, PTL DEF Spec

LEMMA TypedImplies == Typed => TypeOK
<1> SUFFICES ASSUME Typed PROVE TypeOK
  OBVIOUS
<1>1. ASSUME NEW n \in DOMAIN stack
      PROVE  LET f == stack[n]
             IN  /\ f.wants \in (IF f.v.kind = "object" THEN {"key", "value"} ELSE {"element"})
                 /\ ToSet(f.v.order) =
                       DOMAIN f.v.o \cup (IF f.wants = "value" THEN {f.key} ELSE {})
  <2> DEFINE f == stack[n]
             names == IF f.wants = "value" THEN DOMAIN f.v.o \cup {f.key} ELSE DOMAIN f.v.o
  <2>1. IsFrame(f)
    BY Top DEF Typed
  <2>2. Lists(f.v.order, names)
    BY <2>1 DEF IsFrame
  <2>3. f.wants \in IF f.v.kind = "object" THEN {"key", "value"} ELSE {"element"}
    BY <2>1 DEF IsFrame
  <2> HIDE DEF f
  <2>4. names = DOMAIN f.v.o \cup (IF f.wants = "value" THEN {f.key} ELSE {})
    OBVIOUS
  <2> HIDE DEF names
  <2>5. ToSet(f.v.order) = names
    <3>1. \A m \in DOMAIN f.v.order : f.v.order[m] \in names
      BY <2>2 DEF Lists
    <3>2. \A k \in names : \E m \in DOMAIN f.v.order : f.v.order[m] = k
      BY <2>2 DEF Lists
    <3> QED BY <3>1, <3>2 DEF ToSet
  <2> QED BY <2>3, <2>4, <2>5 DEF f
<1> QED BY <1>1 DEF Typed, TypeOK

(* The reader is type-correct on every body: the position stays in it or   *)
(* just after it, every call in progress wants a part of what it builds,   *)
(* and order names the members of each object that is being built.         *)
THEOREM JsonTypeCorrect == Spec => []TypeOK
BY AlwaysTyped, TypedImplies, PTL

(* In what parse returns, and in every object however deep inside it, order*)
(* names every member, each once, and nothing else: the find of find_key   *)
(* for a name of order always succeeds, and no member is looked at twice.  *)
THEOREM OrderListsMembers == Spec => [](pc = "done" => Whole(value))
<1>1. Typed => (pc = "done" => Whole(value))
  BY DEF Typed
<1> QED BY <1>1, AlwaysTyped, PTL

-----------------------------------------------------------------------------
(* Where parse gets stuck, and that it ends anywhere else                  *)

LEMMA MarksDiffer ==
    /\ OpenObject \notin {CloseObject, OpenArray, CloseArray, Comma, Colon, Space, Quote}
    /\ CloseObject \notin {OpenArray, CloseArray, Comma, Colon, Space, Quote}
    /\ OpenArray \notin {CloseArray, Comma, Colon, Space, Quote}
    /\ CloseArray \notin {Comma, Colon, Space, Quote}
    /\ Comma \notin {Colon, Space, Quote}
    /\ Colon \notin {Space, Quote}
    /\ Space # Quote
BY Zenon DEF OpenObject, CloseObject, OpenArray, CloseArray, Comma, Colon, Space, Quote

LEMMA MarksAreNoText == \A t \in Marks : t \notin Quoted /\ t \notin Words
BY TokenAssumption

(* The next token closes an object, and parse is in an array, or the       *)
(* reverse.                                                                *)
AtWrongCloser ==
    stack # <<>> /\ ~AtEnd(Here) /\ body[Here] \in {CloseObject, CloseArray} \ {Closer}

LEMMA HereStays == body' = body /\ i' = i => Here' = Here /\ AtEnd(Here)' = AtEnd(Here)
BY DEF Here, Skip, NextOf, AtEnd

LEMMA Stuck ==
    ASSUME Typed, AtWrongCloser
    PROVE  /\ pc # "done"
           /\ [Next]_vars => AtWrongCloser'
<1>1. /\ body[Here] \in {CloseObject, CloseArray}
      /\ body[Here] \notin Quoted \cup {Quote, OpenObject, OpenArray, Space, Comma, Colon}
      /\ body[Here] # Closer
  BY MarksDiffer, MarksAreNoText DEF AtWrongCloser, Marks
<1>2. pc # "done"
  BY DEF Typed, AtWrongCloser
<1>3. body \in Seq(Tokens) /\ Len(body) \in Nat /\ Here \in 1..Len(body)
  <2>1. Here \in i..(Len(body) + 1) /\ Here # Len(body) + 1 /\ i \in 1..(Len(body) + 1)
    BY HereIs DEF Typed, AtWrongCloser
  <2> QED BY <2>1 DEF Typed
<1>4. CASE UNCHANGED vars \/ Again
  <2>1. body' = body /\ i' = i /\ stack' = stack
    BY <1>4 DEF Again, vars
  <2>2. Here' = Here /\ AtEnd(Here)' = AtEnd(Here) /\ Closer' = Closer
    BY <2>1, HereStays DEF Closer
  <2> QED BY <1>2, <2>1, <2>2 DEF AtWrongCloser
<1>6. CASE Enters
  BY <1>1, <1>6 DEF Enters
<1>7. ASSUME NEW n, Leaves(n) PROVE FALSE
  <2>1. i \in 1..(Len(body) + 1) /\ Here \in i..(Len(body) + 1)
    BY HereIs DEF Typed
  <2>2. ~AtEnd(i) /\ i <= Len(body)
    BY <1>3, <2>1 DEF AtEnd
  <2>3. body[i] = Closer /\ Closer # Space
    BY <1>7, <2>2, MarksDiffer DEF Leaves, Closer
  <2>4. Here = i
    BY <2>2, <2>3, HereIs
  <2> QED BY <1>1, <2>3, <2>4
<1>8. ASSUME NEW n, Reads(n) PROVE AtWrongCloser'
  <2>1. n = Here
    BY <1>1, <1>8, WordEndIs DEF Reads, AtWrongCloser
  <2>2. Resumes(stack, Here) /\ body' = body
    BY <1>8, <2>1 DEF Reads, AtWrongCloser
  <2>3. ASSUME NEW t \in {Space, Comma, Colon} PROVE Past(body, Here, {Space, t}) = Here
    BY <1>1, <1>3, PastIs
  <2>4. i' = Here
    BY <2>2, <2>3 DEF Resumes
  <2>5. Here' = Here
    <3>1. Here' = Past(body, Here, {Space})
      BY <2>2, <2>4 DEF Here, Skip, NextOf, Past, FirstOf
    <3> QED BY <1>1, <1>3, <3>1, PastIs
  <2>6. Closer' = Closer /\ stack' # <<>>
    BY <2>2 DEF Resumes, Closer
  <2>7. ~AtEnd(Here)'
    BY <1>3, <2>2, <2>5 DEF AtEnd
  <2> QED BY <1>1, <2>2, <2>5, <2>6, <2>7 DEF AtWrongCloser
<1> QED BY <1>2, <1>4, <1>6, <1>7, <1>8, Steps

(* Once an array meets the end of an object, or the reverse, JSON::parse   *)
(* never returns: it stays before that token, whatever comes after it.     *)
THEOREM NeverPastWrongCloser ==
    Spec => [](AtWrongCloser => [](AtWrongCloser /\ pc # "done"))
<1>1. Typed /\ AtWrongCloser /\ [Next]_vars => AtWrongCloser'
  BY Stuck
<1>2. Typed /\ AtWrongCloser => pc # "done"
  BY Stuck
<1> QED BY <1>1, <1>2, AlwaysTyped, PTL DEF Spec

-----------------------------------------------------------------------------
(* 3 with something to read in an object or array, 0 at its end, 1 or 2    *)
(* while it is read                                                        *)
Phase ==
    CASE pc = "loop"  -> IF ~AtEnd(i) /\ body[i] # Closer THEN 3 ELSE 0
      [] pc = "parse" -> IF stack # <<>> /\ Last(stack).wants = "value" THEN 1 ELSE 2
      [] pc = "done"  -> 0

(* What is left to do at most                                              *)
Rank == IF pc = "done" THEN 0 ELSE 8 * (Len(body) + 1 - i) + 4 * Len(stack) + Phase

RankWith(left, calls, phase) == 8 * left + 4 * calls + phase

Ranked ==
    /\ Len(body) + 1 - i \in Nat /\ Len(stack) \in Nat /\ Phase \in 0..3
    /\ Rank = IF pc = "done" THEN 0 ELSE RankWith(Len(body) + 1 - i, Len(stack), Phase)
    /\ Rank \in Nat

LEMMA RankIs == Typed => Ranked
<1> SUFFICES ASSUME Typed PROVE Ranked
  OBVIOUS
<1>1. Len(body) + 1 - i \in Nat
  BY DEF Typed
<1>2. Len(stack) \in Nat
  BY Top DEF Typed
<1>3. Phase \in 0..3
  BY DEF Typed, Phase
<1>4. Rank = IF pc = "done" THEN 0 ELSE RankWith(Len(body) + 1 - i, Len(stack), Phase)
  BY DEF Rank, RankWith
<1>5. ASSUME NEW l \in Nat, NEW c \in Nat, NEW p \in 0..3 PROVE RankWith(l, c, p) \in Nat
  BY DEF RankWith
<1> QED BY <1>1, <1>2, <1>3, <1>4, <1>5 DEF Ranked

LEMMA RankDrops ==
    ASSUME NEW l \in Nat, NEW c \in Nat, NEW p \in 0..3,
           NEW m \in Nat, NEW d \in Nat, NEW q \in 0..3
    PROVE  /\ m = l /\ d = c /\ q < p => RankWith(m, d, q) < RankWith(l, c, p)
           /\ m < l /\ d = c + 1 /\ 1 <= p => RankWith(m, d, q) < RankWith(l, c, p)
           /\ m < l /\ d = c => RankWith(m, d, q) < RankWith(l, c, p)
           /\ m <= l /\ d = c /\ q < p => RankWith(m, d, q) < RankWith(l, c, p)
           /\ m <= l /\ d < c => RankWith(m, d, q) < RankWith(l, c, p)
           /\ 1 <= p \/ 1 <= c => 0 < RankWith(l, c, p)
BY DEF RankWith

LEMMA RankLower ==
    ASSUME Typed, Typed', Next, ~AtWrongCloser
    PROVE  Rank' < Rank
<1> DEFINE l == Len(body) + 1 - i   c == Len(stack)   p == Phase
           m == l'                  d == c'           q == p'
<1>1. /\ body \in Seq(Tokens) /\ i \in 1..(Len(body) + 1) /\ Len(body) \in Nat
      /\ i' \in 1..(Len(body) + 1) /\ body' = body
  BY DEF Typed, Next, ReadNothing, ReadQuoted, ReadWord, Enter, Again, Leave
<1>2. /\ l \in Nat /\ c \in Nat /\ p \in 0..3
      /\ pc # "done" => Rank = RankWith(l, c, p)
  BY RankIs DEF Ranked
<1>3. /\ m \in Nat /\ d \in Nat /\ q \in 0..3
      /\ Rank' = IF pc' = "done" THEN 0 ELSE RankWith(m, d, q)
  <2>1. Ranked'
    BY RankIs, PTL
  <2> QED BY <2>1 DEF Ranked
<1>4. /\ l = Len(body) + 1 - i /\ m = Len(body) + 1 - i'
      /\ (i <= i' => m <= l) /\ (i + 1 <= i' => m < l)
  BY <1>1
<1>5. /\ c = Len(stack) /\ d = Len(stack')
      /\ stack # <<>> => 1 <= c
  BY Top, <1>1 DEF Typed
<1>6. /\ pc = "parse" => p = IF stack # <<>> /\ Last(stack).wants = "value" THEN 1 ELSE 2
      /\ pc = "loop" => p = IF ~AtEnd(i) /\ body[i] # Closer THEN 3 ELSE 0
      /\ pc' = "parse" => q = IF stack' # <<>> /\ Last(stack').wants = "value" THEN 1 ELSE 2
      /\ pc' = "loop" => q = IF ~AtEnd(i)' /\ (body[i] # Closer)' THEN 3 ELSE 0
  BY DEF Phase
<1> HIDE DEF l, c, p, m, d, q
<1>7. CASE Again
  <2>1. p = 3 /\ pc = "loop" /\ pc' = "parse" /\ i' = i /\ stack' = stack
    BY <1>6, <1>7 DEF Again
  <2>2. q < p /\ m = l /\ d = c
    BY <1>3, <1>4, <1>5, <1>6, <2>1
  <2> QED BY <1>2, <1>3, <2>1, <2>2, RankDrops
<1>8. CASE Enters
  <2>1. Here \in i..(Len(body) + 1) /\ i' = Here + 1
    BY <1>8, HereIs DEF Enters
  <2>2. m < l
    BY <1>1, <1>4, <2>1
  <2>3. d = c + 1 /\ 1 <= p /\ pc = "parse" /\ pc' = "loop"
    BY <1>5, <1>6, <1>8 DEF Enters
  <2>4. RankWith(m, d, q) < RankWith(l, c, p)
    BY ONLY <1>2, <1>3, <2>2, <2>3, RankDrops
  <2> QED BY <1>2, <1>3, <2>3, <2>4
<1>9. ASSUME NEW n, Reads(n) PROVE Rank' < Rank
  <2>1. pc = "parse" /\ 1 <= p /\ body' = body
    BY <1>6, <1>9 DEF Reads
  <2>2. n \in Here..(Len(body) + 1) /\ Here \in i..(Len(body) + 1)
    BY <1>9, HereIs DEF Reads
  <2>3. n \in 1..(Len(body) + 1) /\ i <= Here /\ Here <= n /\ Here \in Int
    BY <1>1, <2>2
  <2>4. CASE IsOver(n)
    <3>1. pc' = "done"
      BY <2>4 DEF IsOver
    <3> QED BY <1>2, <1>3, <2>1, <3>1, RankDrops
  <2>5. CASE Resumes(stack, n)
    <3>1. n <= i' /\ d = c /\ i' \in Int
      <4>1. i' \in n..(Len(body) + 1)
        BY <2>3, <2>5, ResumesAt
      <4>2. d = c
        BY <1>5, <2>5 DEF Resumes
      <4> QED BY <1>1, <2>3, <4>1, <4>2
    <3>2. m <= l
      BY <1>1, <1>4, <2>3, <3>1
    <3>3. CASE Last(stack).wants = "key"
      <4>1. p = 2 /\ q = 1 /\ pc' = "parse"
        BY <1>6, <2>1, <2>5, <3>3 DEF Resumes
      <4> QED BY <1>2, <1>3, <2>1, <3>1, <3>2, <4>1, RankDrops
    <3>4. CASE Last(stack).wants # "key" /\ i + 1 <= i'
      <4>1. m < l /\ pc' = "loop"
        BY <1>4, <2>5, <3>4 DEF Resumes
      <4> QED BY <1>2, <1>3, <2>1, <3>1, <4>1, RankDrops
    <3>5. CASE Last(stack).wants # "key" /\ ~(i + 1 <= i')
      <4>1. i' = i /\ n = i /\ Here = i
        BY <1>1, <2>3, <3>1, <3>5
      <4>2. pc' = "loop" /\ i' = Past(body, n, {Space, Comma}) /\ Closer' = Closer
        BY <2>5, <3>5 DEF Resumes, Closer
      <4>3. i' <= Len(body) => body[i'] \notin {Space, Comma}
        BY <1>1, <2>3, <4>2, PastIs
      <4>4. ~AtEnd(i) => body[i] \in {Comma, CloseObject, CloseArray}
        <5>1. SUFFICES ASSUME ~AtEnd(Here) PROVE body[Here] \in {Comma, CloseObject, CloseArray}
          BY <4>1
        <5>2. ~(n = Here + 1) /\ ~(n = Len(body) + 1)
          BY <1>1, <4>1, <5>1 DEF AtEnd
        <5>3. n = WordEnd
          BY <1>9, <5>1, <5>2 DEF Reads
        <5> QED BY <4>1, <5>1, <5>3, WordEndIs
      <4>5. ~AtEnd(i) => body[i] = Closer
        <5> SUFFICES ASSUME ~AtEnd(i) PROVE body[i] = Closer
          OBVIOUS
        <5>1. i <= Len(body)
          BY <1>1 DEF AtEnd
        <5>2. body[i] \in {CloseObject, CloseArray}
          BY <4>1, <4>3, <4>4, <5>1
        <5>3. stack # <<>>
          BY <2>5 DEF Resumes
        <5> QED BY <4>1, <5>2, <5>3 DEF AtWrongCloser
      <4>6. q = 0
        <5>1. AtEnd(i)' = AtEnd(i) /\ (body[i] # Closer)' = (body[i] # Closer)
          BY <1>1, <4>1, <4>2 DEF AtEnd
        <5> QED BY <1>6, <4>2, <4>5, <5>1
      <4> QED BY <1>2, <1>3, <2>1, <3>1, <3>2, <4>2, <4>6, RankDrops
    <3> QED BY <3>3, <3>4, <3>5
  <2> QED BY <1>9, <2>4, <2>5 DEF Reads
<1>10. ASSUME NEW n, Leaves(n) PROVE Rank' < Rank
  <2>1. pc = "loop" /\ stack # <<>> /\ 1 <= c
    BY <1>5, <1>10 DEF Leaves
  <2>2. n \in 1..(Len(body) + 1) /\ i <= n
    <3>1. AtEnd(i) \/ i <= Len(body)
      BY <1>1 DEF AtEnd
    <3> QED BY <1>1, <1>10, <3>1 DEF Leaves
  <2>3. CASE IsOver(n)
    <3>1. pc' = "done"
      BY <2>3 DEF IsOver
    <3> QED BY <1>2, <1>3, <2>1, <3>1, RankDrops
  <2>4. CASE Resumes(Front(stack), n)
    <3>1. i' \in n..(Len(body) + 1)
      BY <2>2, <2>4, ResumesAt
    <3>2. m <= l
      BY <1>1, <1>4, <2>2, <3>1
    <3>3. Len(stack') = Len(Front(stack)) /\ Len(Front(stack)) = Len(stack) - 1
      BY <2>1, <2>4, Popped DEF Resumes, Typed
    <3>4. d < c /\ pc' # "done"
      BY <1>2, <1>3, <1>5, <2>4, <3>3 DEF Resumes
    <3> QED BY <1>2, <1>3, <2>1, <3>2, <3>4, RankDrops
  <2> QED BY <1>10, <2>3, <2>4 DEF Leaves
<1> QED BY <1>7, <1>8, <1>9, <1>10, Steps

(* Unless it is at a wrong closer, every step of JSON::parse lowers a rank *)
(* that is never negative and begins at 8 times the length of the body and *)
(* 2: no other body keeps it, and it ends within so many steps.            *)
THEOREM EveryStepAdvances ==
    Spec => /\ Rank = 8 * Len(body) + 2
            /\ [](Rank \in Nat)
            /\ [][AtWrongCloser \/ Rank' < Rank]_vars
<1>1. Init => Rank = 8 * Len(body) + 2
  <2> SUFFICES ASSUME Init PROVE Rank = 8 * Len(body) + 2
    OBVIOUS
  <2>1. body \in Seq(Tokens)
    BY ReaderAssumption DEF Init
  <2>2. Len(body) \in Nat /\ Len(stack) = 0 /\ i = 1
    BY <2>1 DEF Init
  <2>3. Phase = 2
    BY DEF Init, Phase
  <2> QED BY <2>2, <2>3 DEF Init, Rank
<1>2. Typed => Rank \in Nat
  BY RankIs DEF Ranked
<1>3. Typed /\ Typed' /\ [Next]_vars => [AtWrongCloser \/ Rank' < Rank]_vars
  BY RankLower
<1> QED BY <1>1, <1>2, <1>3, AlwaysTyped, PTL DEF Spec

-----------------------------------------------------------------------------
(* The bound on arrays                                                     *)

(* Every element of an array that is being built took a token at least,    *)
(* and so did its bracket and those of the arrays and objects in it; the   *)
(* next element is not at the end.                                         *)
Size(n) == Len(stack[n].v.a)

Paid ==
    /\ \A n \in 1..Len(stack) : Size(n) + (IF n = Len(stack) THEN 2 ELSE 3) <= i
    /\ pc = "parse" /\ stack # <<>> /\ Last(stack).wants = "element" =>
          ~AtEnd(i) /\ body[i] # Closer

LEMMA SizeIs ==
    ASSUME NEW c, IsCalls(c), NEW n \in 1..Len(c)
    PROVE  Len(c[n].v.a) \in Nat
<1>1. IsFrame(c[n])
  BY Top
<1>2. PICK E : c[n].v.a \in Seq(E)
  BY <1>1 DEF IsFrame
<1> QED BY <1>2

LEMMA PaidKept ==
    ASSUME Typed, Typed', Next, Paid \/ AtWrongCloser
    PROVE  (Paid \/ AtWrongCloser)'
<1> SUFFICES ASSUME Paid, ~AtWrongCloser PROVE Paid'
  BY Stuck
<1>1. /\ body \in Seq(Tokens) /\ i \in 1..(Len(body) + 1) /\ Len(body) \in Nat
      /\ i' \in 1..(Len(body) + 1) /\ body' = body
      /\ IsCalls(stack) /\ IsCalls(stack') /\ Len(stack) \in Nat /\ Len(stack') \in Nat
  BY Top DEF Typed, Next, ReadNothing, ReadQuoted, ReadWord, Enter, Again, Leave
<1>2. /\ \A n \in 1..Len(stack) : Size(n) \in Nat
      /\ \A n \in 1..Len(stack') : Len(stack'[n].v.a) \in Nat
  BY <1>1, SizeIs DEF Size
<1>3. CASE Again
  <2>1. i' = i /\ stack' = stack /\ pc = "loop" /\ pc' = "parse" /\ ~AtEnd(i) /\ body[i] # Closer
    BY <1>3 DEF Again
  <2> QED BY <1>1, <2>1 DEF Paid, Size, AtEnd, Closer
<1>4. CASE IsOver(i') /\ pc' = "done"
  <2>1. Len(stack') = 0
    BY <1>4 DEF IsOver
  <2> QED BY <1>4, <2>1 DEF Paid
<1>5. CASE Enters
  <2>1. Here \in i..(Len(body) + 1) /\ i' = Here + 1
    BY <1>5, HereIs DEF Enters
  <2>2. i + 1 <= i' /\ 2 <= i'
    BY <1>1, <2>1
  <2>3. /\ Len(stack') = Len(stack) + 1 /\ Len(stack'[Len(stack')].v.a) = 0
        /\ \A n \in 1..Len(stack) : stack'[n] = stack[n]
        /\ pc' = "loop"
    BY <1>5 DEF Enters, Last
  <2>4. ASSUME NEW n \in 1..Len(stack')
        PROVE  Len(stack'[n].v.a) + (IF n = Len(stack') THEN 2 ELSE 3) <= i'
    <3>1. CASE n = Len(stack')
      BY <2>2, <2>3, <3>1
    <3>2. CASE n # Len(stack')
      <4>1. n \in 1..Len(stack) /\ Len(stack'[n].v.a) = Size(n)
        BY <1>1, <2>3, <3>2 DEF Size
      <4>2. Size(n) + 2 <= i
        BY <1>1, <1>2, <4>1 DEF Paid
      <4> QED BY <1>1, <1>2, <2>2, <3>2, <4>1, <4>2
    <3> QED BY <3>1, <3>2
  <2> QED BY <2>3, <2>4 DEF Paid, Size
<1>6. ASSUME NEW n \in 1..(Len(body) + 1), NEW calls, Resumes(calls, n),
             Len(calls) \in 1..Len(stack), \A m \in 1..Len(calls) : calls[m] = stack[m],
             i <= n,
             Last(calls).wants = "element" => Size(Len(calls)) + 3 <= i'
      PROVE  Paid'
  <2>1. Len(stack') = Len(calls) /\ Len(calls) \in Nat
    BY <1>1, <1>6 DEF Resumes
  <2>2. i <= i'
    <3>1. i' \in n..(Len(body) + 1)
      BY <1>6, ResumesAt
    <3> QED BY <1>1, <1>6, <3>1
  <2>3. ASSUME NEW m \in 1..Len(stack')
        PROVE  Len(stack'[m].v.a) + (IF m = Len(stack') THEN 2 ELSE 3) <= i'
    <3>1. m \in 1..Len(stack) /\ m \in 1..Len(calls) /\ calls[m] = stack[m]
      BY <1>1, <1>6, <2>1
    <3>2. Size(m) + (IF m = Len(stack) THEN 2 ELSE 3) <= i /\ Size(m) \in Nat
      BY <1>2, <3>1 DEF Paid
    <3>3. CASE m # Len(stack')
      <4>1. m \in 1..(Len(calls) - 1) /\ m # Len(stack)
        BY <1>1, <1>6, <2>1, <3>1, <3>3
      <4>2. Len(stack'[m].v.a) = Size(m)
        BY <1>6, <3>1, <4>1 DEF Resumes, Size
      <4> QED BY <1>1, <2>2, <3>2, <3>3, <4>1, <4>2
    <3>4. CASE m = Len(stack')
      <4>1. Last(stack') = stack'[m] /\ Last(calls) = stack[m] /\ Size(m) = Len(stack[m].v.a)
        BY <2>1, <3>1, <3>4 DEF Last, Size
      <4>2. Len(stack'[m].v.a) \in Nat
        BY <1>2
      <4>3. CASE Last(calls).wants = "element"
        <5>1. Len(stack'[m].v.a) <= Size(m) + 1 /\ Size(m) + 3 <= i'
          BY <1>6, <2>1, <3>4, <4>1, <4>3 DEF Resumes
        <5> QED BY SMTT(20), <1>1, <3>2, <3>4, <4>2, <5>1
      <4>4. CASE Last(calls).wants # "element"
        <5>1. Len(stack'[m].v.a) = Size(m)
          BY <1>6, <4>1, <4>4 DEF Resumes
        <5> QED BY <1>1, <2>2, <3>2, <3>4, <5>1
      <4> QED BY <4>3, <4>4
    <3> QED BY <3>3, <3>4
  <2>4. pc' = "parse" => Last(stack').wants # "element"
    BY <1>6 DEF Resumes
  <2> QED BY <2>3, <2>4 DEF Paid, Size
<1>7. ASSUME NEW n, Reads(n) PROVE Paid'
  <2>1. n \in Here..(Len(body) + 1) /\ Here \in i..(Len(body) + 1) /\ pc = "parse"
    BY <1>7, HereIs DEF Reads
  <2>2. n \in 1..(Len(body) + 1) /\ i <= Here /\ Here <= n /\ Here \in Int /\ i <= n
    BY <1>1, <2>1
  <2>3. CASE IsOver(n)
    BY <1>4, <2>3 DEF IsOver
  <2>4. CASE Resumes(stack, n)
    <3>1. i' \in n..(Len(body) + 1) /\ stack # <<>>
      BY <2>2, <2>4, ResumesAt DEF Resumes
    <3>2. Len(stack) \in 1..Len(stack)
      BY <1>1, <3>1, Top
    <3>3. ASSUME Last(stack).wants = "element" PROVE i + 1 <= i'
      <4>1. ~AtEnd(i) /\ body[i] # Closer /\ i <= Len(body)
        BY <1>1, <2>1, <3>1, <3>3 DEF Paid, AtEnd
      <4> SUFFICES ASSUME i' = i PROVE FALSE
        BY <1>1, <2>2, <3>1
      <4>2. n = i /\ Here = i
        BY <1>1, <2>2, <3>1
      <4>3. ~(n = Here + 1) /\ ~(n = Len(body) + 1) /\ ~AtEnd(Here)
        BY <1>1, <4>1, <4>2
      <4>4. body[i] \in {Comma, CloseObject, CloseArray}
        BY <1>7, <4>2, <4>3, WordEndIs DEF Reads
      <4>5. body[i] \notin {CloseObject, CloseArray}
        BY <3>1, <4>1, <4>2, <4>3 DEF AtWrongCloser
      <4>6. i' = Past(body, n, {Space, Comma})
        BY <2>4, <3>3 DEF Resumes
      <4>7. body[i'] \notin {Space, Comma}
        BY <1>1, <2>2, <4>1, <4>6, PastIs
      <4> QED BY <4>4, <4>5, <4>7
    <3>4. Last(stack).wants = "element" => Size(Len(stack)) + 3 <= i'
      <4>1. Size(Len(stack)) + 2 <= i /\ Size(Len(stack)) \in Nat
        BY <1>2, <3>2 DEF Paid
      <4> QED BY <1>1, <3>3, <4>1
    <3> QED BY <1>6, <2>2, <2>4, <3>2, <3>4
  <2> QED BY <1>7, <2>3, <2>4 DEF Reads
<1>8. ASSUME NEW n, Leaves(n) PROVE Paid'
  <2>1. stack # <<>>
    BY <1>8 DEF Leaves
  <2>2. n \in 1..(Len(body) + 1) /\ i <= n
    <3>1. AtEnd(i) \/ i <= Len(body)
      BY <1>1 DEF AtEnd
    <3> QED BY <1>1, <1>8, <3>1 DEF Leaves
  <2>3. CASE IsOver(n)
    BY <1>4, <2>3 DEF IsOver
  <2>4. CASE Resumes(Front(stack), n)
    <3>1. i' \in n..(Len(body) + 1) /\ Front(stack) # <<>>
      BY <2>2, <2>4, ResumesAt DEF Resumes
    <3>2. /\ Len(Front(stack)) = Len(stack) - 1 /\ Len(stack) \in Nat \ {0}
          /\ \A m \in 1..(Len(stack) - 1) : Front(stack)[m] = stack[m]
          /\ Len(stack) # 1
      BY <1>1, <2>1, <3>1, Popped
    <3>3. Len(Front(stack)) \in 1..Len(stack) /\ Len(Front(stack)) # Len(stack)
      BY <3>2
    <3>4. Size(Len(Front(stack))) + 3 <= i'
      <4>1. Size(Len(Front(stack))) + 3 <= i /\ Size(Len(Front(stack))) \in Nat
        BY <1>2, <3>3 DEF Paid
      <4> QED BY <1>1, <2>2, <3>1, <4>1
    <3> QED BY <1>6, <2>2, <2>4, <3>2, <3>3, <3>4
  <2> QED BY <1>8, <2>3, <2>4 DEF Leaves
<1> QED BY <1>3, <1>5, <1>7, <1>8, Steps

(* The bound on arrays, which the code does not have, keeps no element out *)
(* unless parse is at a wrong closer, where the array grows for ever.      *)
THEOREM BoundKeepsNothingOut ==
    Spec => [](AtWrongCloser \/ \A n \in DOMAIN stack : Len(stack[n].v.a) < MaxElements)
<1>1. Init => Paid \/ AtWrongCloser
  <2> SUFFICES ASSUME Init PROVE Paid
    OBVIOUS
  <2>1. Len(stack) = 0 /\ stack = <<>>
    BY DEF Init
  <2> QED BY <2>1 DEF Paid
<1>2. Typed /\ Typed' /\ (Paid \/ AtWrongCloser) /\ [Next]_vars => (Paid \/ AtWrongCloser)'
  <2>1. CASE Next
    BY <2>1, PaidKept
  <2>2. CASE UNCHANGED vars
    <3>1. Typed /\ AtWrongCloser => AtWrongCloser'
      BY <2>2, Stuck
    <3>2. Paid => Paid'
      BY <2>2 DEF vars, Paid, Size, AtEnd, Closer
    <3> QED BY <3>1, <3>2
  <2> QED BY <2>1, <2>2
<1>3. Typed /\ Paid => \A n \in DOMAIN stack : Len(stack[n].v.a) < MaxElements
  <2> SUFFICES ASSUME Typed, Paid, NEW n \in DOMAIN stack
               PROVE  Len(stack[n].v.a) < MaxElements
    OBVIOUS
  <2>1. n \in 1..Len(stack) /\ IsCalls(stack)
    BY Top DEF Typed
  <2>2. Size(n) + 2 <= i /\ Size(n) \in Nat
    <3>1. Size(n) \in Nat
      BY <2>1, SizeIs DEF Size
    <3>2. Size(n) + 2 <= i \/ Size(n) + 3 <= i
      BY <2>1 DEF Paid
    <3> QED BY <3>1, <3>2 DEF Typed
  <2>3. i \in 1..(Len(body) + 1) /\ Len(body) \in Nat
    BY DEF Typed
  <2>4. Size(n) < Len(body)
    BY <2>2, <2>3
  <2> QED BY <2>4 DEF Size, MaxElements
<1> QED BY <1>1, <1>2, <1>3, AlwaysTyped, PTL DEF Spec

-----------------------------------------------------------------------------
(* The grammar's state                                                     *)

IsState(s) ==
    s = [open |-> s.open, expect |-> s.expect] /\ s.open \in Seq({OpenObject, OpenArray})

(* The ways in which the grammar goes on with a token, other than a space, *)
(* outside of a string that was cut.                                       *)
Grammar(s, t, r) ==
    \/ s.expect \in {"value", "element"} /\ t \in {OpenObject, OpenArray} /\ r = Opened(s, t)
    \/ s.expect \in {"value", "element"} /\ t \in Quoted \cup Words /\ r = Expect(s, "more")
    \/ s.expect \in {"member", "key"} /\ t \in Quoted /\ r = Expect(s, "colon")
    \/ s.expect \in {"value", "element", "member", "key"} /\ t = Quote /\ r = Expect(s, "text")
    \/ s.expect = "colon" /\ t = Colon /\ r = Expect(s, "value")
    \/ s.expect = "more" /\ t = Comma /\ In(s, OpenObject) /\ r = Expect(s, "key")
    \/ s.expect = "more" /\ t = Comma /\ In(s, OpenArray) /\ r = Expect(s, "value")
    \/ s.expect \in {"member", "more"} /\ t = CloseObject /\ In(s, OpenObject) /\ r = Closed(s)
    \/ s.expect \in {"element", "more"} /\ t = CloseArray /\ In(s, OpenArray) /\ r = Closed(s)

LEMMA StepIs ==
    ASSUME NEW s, NEW t \in Tokens
    PROVE  /\ t = Space \/ s.expect = "text" => Step(s, t) = s
           /\ t # Space /\ s.expect # "text" =>
                 Grammar(s, t, Step(s, t)) \/ Step(s, t) = Expect(s, "wrong")
<1>1. t = Space => Step(s, t) = s
  BY MarksDiffer, MarksAreNoText DEF Step, Marks
<1>2. ASSUME t # Space, s.expect = "text" PROVE Step(s, t) = s
  BY <1>2, Zenon DEF Step
<1>3. ASSUME t # Space, s.expect # "text"
      PROVE  Grammar(s, t, Step(s, t)) \/ Step(s, t) = Expect(s, "wrong")
  BY <1>3, MarksDiffer, MarksAreNoText, TokenAssumption DEF Step, Grammar, Marks
<1> QED BY <1>1, <1>2, <1>3

(* The recursion of States                                                 *)
Unfolds(f, b, k) == f = [n \in 0..k |-> IF n = 0 THEN Start ELSE Step(f[n - 1], b[n])]

LEMMA SomeUnfolds ==
    ASSUME NEW b, NEW k \in Nat
    PROVE  \E f : Unfolds(f, b, k)
<1> DEFINE Without == {j \in Nat : ~\E f : Unfolds(f, b, j)}
<1> SUFFICES ASSUME Without # {} PROVE FALSE
  OBVIOUS
<1>1. PICK j \in Without : \A m \in Without : j <= m
  <2>1. Without \subseteq Nat
    OBVIOUS
  <2> HIDE DEF Without
  <2> QED BY <2>1, SmallestOf
<1>2. j \in Nat /\ ~\E f : Unfolds(f, b, j)
  BY <1>1
<1>3. CASE j = 0
  <2> DEFINE g == [n \in 0..0 |-> Start]
  <2>1. g = [n \in 0..0 |-> IF n = 0 THEN Start ELSE Step(g[n - 1], b[n])]
    OBVIOUS
  <2> HIDE DEF g
  <2> QED BY <1>2, <1>3, <2>1 DEF Unfolds
<1>4. CASE j # 0
  <2>1. j - 1 \in Nat /\ j - 1 \notin Without
    <3>1. j - 1 \in Nat
      BY <1>2, <1>4
    <3> HIDE DEF Without
    <3> QED BY <1>1, <1>2, <3>1
  <2>2. PICK f : Unfolds(f, b, j - 1)
    BY <2>1
  <2> DEFINE h == [n \in 0..j |-> IF n = 0 THEN Start ELSE Step(f[n - 1], b[n])]
  <2>3. ASSUME NEW n \in 0..j, n # 0 PROVE f[n - 1] = h[n - 1]
    <3>1. n - 1 \in 0..(j - 1) /\ n - 1 \in 0..j
      BY <1>2, <2>3
    <3>2. f[n - 1] = IF n - 1 = 0 THEN Start ELSE Step(f[(n - 1) - 1], b[n - 1])
      BY <2>2, <3>1, Zenon DEF Unfolds
    <3> QED BY <3>1, <3>2
  <2>4. h = [n \in 0..j |-> IF n = 0 THEN Start ELSE Step(h[n - 1], b[n])]
    BY <2>3
  <2> HIDE DEF h
  <2> QED BY <1>2, <2>4 DEF Unfolds
<1> QED BY <1>3, <1>4

LEMMA StatesIs ==
    ASSUME NEW b, Len(b) \in Nat
    PROVE  /\ States(b)[0] = Start
           /\ \A n \in 1..Len(b) : States(b)[n] = Step(States(b)[n - 1], b[n])
<1> DEFINE g == CHOOSE f : Unfolds(f, b, Len(b))
<1>1. States(b) = g
  BY DEF States, Unfolds
<1>2. Unfolds(g, b, Len(b))
  <2>1. \E f : Unfolds(f, b, Len(b))
    BY SomeUnfolds
  <2> QED BY <2>1, Zenon
<1> HIDE DEF g
<1>3. \A n \in 0..Len(b) : g[n] = IF n = 0 THEN Start ELSE Step(g[n - 1], b[n])
  BY <1>2, Zenon DEF Unfolds
<1>4. g[0] = Start
  BY <1>3
<1>5. \A n \in 1..Len(b) : g[n] = Step(g[n - 1], b[n])
  BY <1>3
<1> QED BY <1>1, <1>4, <1>5

(* What holds before some tokens and is kept by each of them holds after   *)
(* them.                                                                   *)
LEMMA Along ==
    ASSUME NEW b, Len(b) \in Nat, NEW n \in 0..Len(b), NEW m \in n..Len(b),
           NEW Q, States(b)[n] \in Q,
           \A j \in (n + 1)..m : \A s \in Q : States(b)[j] = Step(s, b[j]) => Step(s, b[j]) \in Q
    PROVE  States(b)[m] \in Q
<1> DEFINE Missed == {j \in Nat : j \in n..m /\ States(b)[j] \notin Q}
<1> SUFFICES ASSUME Missed # {} PROVE FALSE
  OBVIOUS
<1>1. PICK j \in Missed : \A l \in Missed : j <= l
  <2>1. Missed \subseteq Nat
    OBVIOUS
  <2> HIDE DEF Missed
  <2> QED BY <2>1, SmallestOf
<1>2. j \in n..m /\ States(b)[j] \notin Q
  BY <1>1
<1>3. j # n
  BY <1>2
<1>4. j - 1 \in Nat /\ j - 1 \in n..m /\ j \in (n + 1)..m /\ j \in 1..Len(b)
  BY <1>2, <1>3
<1>5. States(b)[j - 1] \in Q
  <2>1. j - 1 \notin Missed
    <3> HIDE DEF Missed
    <3> QED BY <1>1, <1>2, <1>4
  <2> QED BY <1>4, <2>1
<1>6. States(b)[j] = Step(States(b)[j - 1], b[j])
  BY <1>4, StatesIs
<1> QED BY <1>2, <1>4, <1>5, <1>6

LEMMA StatesAre ==
    ASSUME NEW b \in Seq(Tokens), NEW m \in 0..Len(b)
    PROVE  IsState(States(b)[m])
<1> DEFINE Q == {s \in {States(b)[n] : n \in 0..Len(b)} \cup {Start} : IsState(s)}
<1>1. Len(b) \in Nat
  OBVIOUS
<1>2. IsState(Start)
  BY DEF Start, IsState
<1>3. States(b)[0] \in Q
  BY <1>1, <1>2, StatesIs
<1>4. ASSUME NEW j \in 1..m, NEW s \in Q, States(b)[j] = Step(s, b[j]) PROVE Step(s, b[j]) \in Q
  <2>1. IsState(s) /\ b[j] \in Tokens /\ j \in 0..Len(b)
    BY <1>1
  <2> DEFINE r == Step(s, b[j])
             kinds == {OpenObject, OpenArray}
  <2>2. s.open \in Seq(kinds)
    BY <2>1 DEF IsState
  <2>3. IsState(s) /\ \A what : IsState(Expect(s, what))
    BY <2>1, <2>2 DEF IsState, Expect
  <2>4. ASSUME NEW t \in kinds PROVE IsState(Opened(s, t))
    <3>1. Append(s.open, t) \in Seq(kinds)
      <4> HIDE DEF kinds
      <4> QED BY <2>2, AppendProperties
    <3> QED BY <3>1 DEF IsState, Opened
  <2>5. ASSUME NEW t, In(s, t) PROVE IsState(Closed(s))
    <3>1. Len(s.open) \in Nat \ {0} /\ \A n \in 1..(Len(s.open) - 1) : s.open[n] \in kinds
      BY <2>2, <2>5 DEF In
    <3>2. Front(s.open) \in Seq(kinds)
      <4> HIDE DEF kinds
      <4>1. 1 \in Int /\ Len(s.open) - 1 \in Int
        BY <3>1
      <4> QED BY <3>1, <4>1, SubSeqProperties DEF Front
    <3> QED BY <3>2 DEF IsState, Closed
  <2>6. IsState(r)
    <3>1. \/ r = s \/ (\E t \in kinds : r = Opened(s, t)) \/ (\E what : r = Expect(s, what))
          \/ (r = Closed(s) /\ \E t : In(s, t))
      <4>1. r = s \/ Grammar(s, b[j], r) \/ r = Expect(s, "wrong")
        BY <2>1, StepIs
      <4> HIDE DEF r
      <4> QED BY <4>1, Zenon DEF Grammar
    <3> HIDE DEF r, kinds
    <3> QED BY <2>3, <2>4, <2>5, <3>1
  <2> QED BY <1>4, <2>1, <2>6
<1>5. m \in 0..Len(b) /\ 0 \in 0..Len(b) /\ (0 + 1)..m = 1..m
  BY <1>1
<1> HIDE DEF Q
<1>6. States(b)[m] \in Q
  BY <1>1, <1>3, <1>4, <1>5, Along
<1> QED BY <1>6 DEF Q

(* Spaces change nothing.                                                  *)
LEMMA SpacesSkipped ==
    ASSUME NEW b \in Seq(Tokens), NEW n \in 0..Len(b), NEW m \in n..Len(b),
           \A j \in (n + 1)..m : b[j] = Space
    PROVE  States(b)[m] = States(b)[n]
<1> DEFINE Q == {States(b)[n]}
<1>1. Len(b) \in Nat /\ Space \in Tokens
  BY DEF Tokens, Marks
<1>2. \A j \in (n + 1)..m : \A s \in Q : States(b)[j] = Step(s, b[j]) => Step(s, b[j]) \in Q
  BY <1>1, StepIs
<1>3. States(b)[n] \in Q
  OBVIOUS
<1> HIDE DEF Q
<1>4. States(b)[m] \in Q
  BY <1>1, <1>2, <1>3, Along
<1> QED BY <1>4 DEF Q

(* After a name, spaces and colons lead to where a value is expected.      *)
LEMMA ColonsSkipped ==
    ASSUME NEW b \in Seq(Tokens), Viable(b), NEW n \in 0..Len(b), NEW m \in n..Len(b),
           States(b)[n].expect = "colon",
           \A j \in (n + 1)..m : b[j] \in {Space, Colon}
    PROVE  /\ States(b)[m].open = States(b)[n].open
           /\ States(b)[m].expect \in {"colon", "value"}
<1> DEFINE Fits(s) == s.open = States(b)[n].open /\ s.expect \in {"colon", "value"}
           Q == {s \in {States(b)[l] : l \in 0..Len(b)} : Fits(s)}
<1>1. Len(b) \in Nat /\ Space \in Tokens /\ Colon \in Tokens
  BY DEF Tokens, Marks
<1>2. ASSUME NEW j \in (n + 1)..m, NEW s \in Q, States(b)[j] = Step(s, b[j])
      PROVE  Step(s, b[j]) \in Q
  <2>1. j \in 0..Len(b) /\ b[j] \in {Space, Colon} /\ b[j] \in Tokens /\ Fits(s)
    BY <1>1
  <2>2. Step(s, b[j]).expect # "wrong"
    BY <1>2, <2>1 DEF Viable
  <2>3. CASE b[j] = Space
    BY <1>2, <2>1, <2>3, StepIs
  <2>4. CASE b[j] = Colon
    <3>1. Grammar(s, Colon, Step(s, Colon))
      BY <1>1, <2>1, <2>2, <2>4, MarksDiffer, StepIs DEF Expect
    <3>2. Step(s, Colon) = Expect(s, "value")
      BY <2>1, <3>1, MarksDiffer, MarksAreNoText DEF Grammar, Marks
    <3>3. Fits(Step(s, b[j]))
      BY <2>1, <2>4, <3>2 DEF Expect
    <3> QED BY <1>2, <2>1, <3>3
  <2> QED BY <2>1, <2>3, <2>4
<1>3. States(b)[n] \in Q
  OBVIOUS
<1> HIDE DEF Q
<1>4. States(b)[m] \in Q
  BY <1>1, <1>2, <1>3, Along
<1> QED BY <1>4 DEF Q

(* After a value, spaces and commas lead to the next one, if any.          *)
LEMMA CommasSkipped ==
    ASSUME NEW b \in Seq(Tokens), Viable(b), NEW n \in 0..Len(b), NEW m \in n..Len(b),
           States(b)[n].expect = "more",
           \A j \in (n + 1)..m : b[j] \in {Space, Comma}
    PROVE  /\ States(b)[m].open = States(b)[n].open
           /\ \/ States(b)[m].expect = "more"
              \/ States(b)[m].expect = "key" /\ In(States(b)[m], OpenObject)
              \/ States(b)[m].expect = "value" /\ In(States(b)[m], OpenArray)
<1> DEFINE Fits(s) == /\ s.open = States(b)[n].open
                      /\ \/ s.expect = "more"
                         \/ s.expect = "key" /\ In(s, OpenObject)
                         \/ s.expect = "value" /\ In(s, OpenArray)
           Q == {s \in {States(b)[l] : l \in 0..Len(b)} : Fits(s)}
<1>1. Len(b) \in Nat /\ Space \in Tokens /\ Comma \in Tokens
  BY DEF Tokens, Marks
<1>2. ASSUME NEW j \in (n + 1)..m, NEW s \in Q, States(b)[j] = Step(s, b[j])
      PROVE  Step(s, b[j]) \in Q
  <2>1. j \in 0..Len(b) /\ b[j] \in {Space, Comma} /\ b[j] \in Tokens /\ Fits(s)
    BY <1>1
  <2>2. Step(s, b[j]).expect # "wrong"
    BY <1>2, <2>1 DEF Viable
  <2>3. CASE b[j] = Space
    BY <1>2, <2>1, <2>3, StepIs
  <2>4. CASE b[j] = Comma
    <3>1. Grammar(s, Comma, Step(s, Comma))
      BY <1>1, <2>1, <2>2, <2>4, MarksDiffer, StepIs DEF Expect
    <3>2. \/ In(s, OpenObject) /\ Step(s, Comma) = Expect(s, "key")
          \/ In(s, OpenArray) /\ Step(s, Comma) = Expect(s, "value")
      BY <2>1, <3>1, MarksDiffer, MarksAreNoText DEF Grammar, Marks
    <3>3. Fits(Step(s, b[j]))
      BY <2>1, <2>4, <3>2 DEF Expect, In
    <3> QED BY <1>2, <2>1, <3>3
  <2> QED BY <2>1, <2>3, <2>4
<1>3. States(b)[n] \in Q
  OBVIOUS
<1> HIDE DEF Q
<1>4. States(b)[m] \in Q
  BY <1>1, <1>2, <1>3, Along
<1> QED BY <1>4 DEF Q

-----------------------------------------------------------------------------
(* On a viable body, parse and the grammar go together                     *)

Kind(bracket) == IF bracket = OpenObject THEN "object" ELSE "array"

(* The calls are for the brackets that are open, and none but the innermost*)
(* is before a name.                                                       *)
Fits(calls, open) ==
    /\ Len(calls) = Len(open)
    /\ \A n \in 1..Len(calls) : calls[n].v.kind = Kind(open[n])
    /\ \A n \in 1..(Len(calls) - 1) : calls[n].wants # "key"

Before(n) == States(body)[n - 1]

(* What the grammar expects before t at the head of a loop, and where parse*)
(* begins; the quirk is the name of no characters that parse reads before  *)
(* the end of an object with a space in it.                                *)
AtHead(wants, expect, t) ==
    \/ wants = "key" /\ expect \in {"member", "key"}
    \/ wants = "element" /\ expect \in {"element", "value"}
    \/ expect = "more" /\ t \notin {Space, Comma}

AtEntry(calls, expect, t) ==
    \/ calls = <<>> /\ expect = "value"
    \/ calls # <<>> /\ Last(calls).wants = "element" /\ expect \in {"element", "value"}
    \/ calls # <<>> /\ Last(calls).wants = "key" /\ expect \in {"member", "key"}
    \/ /\ calls # <<>> /\ Last(calls).wants = "value"
       /\ expect = "value" \/ (expect = "member" /\ t = CloseObject)

Synced ==
    i <= Len(body) =>
        /\ Fits(stack, Before(i).open)
        /\ pc = "done"  => Before(i).expect = "more"
        /\ pc = "loop"  => AtHead(Last(stack).wants, Before(i).expect, body[i])
        /\ pc = "parse" => AtEntry(stack, Before(i).expect, body[i])

(* Any token of a viable body but a space goes on with the grammar.        *)
LEMMA GoesOn ==
    ASSUME NEW b \in Seq(Tokens), Viable(b), NEW n \in 1..Len(b), b[n] # Space,
           States(b)[n - 1].expect # "text"
    PROVE  Grammar(States(b)[n - 1], b[n], States(b)[n])
<1>1. Len(b) \in Nat /\ b[n] \in Tokens
  OBVIOUS
<1>2. States(b)[n] = Step(States(b)[n - 1], b[n])
  BY <1>1, StatesIs
<1>3. n \in 0..Len(b)
  BY <1>1
<1>4. States(b)[n].expect # "wrong"
  BY <1>3 DEF Viable
<1> QED BY <1>1, <1>2, <1>4, StepIs DEF Expect

(* The innermost call is for the innermost bracket.                        *)
LEMMA TopFits ==
    ASSUME NEW calls, NEW s, IsCalls(calls), IsState(s), Fits(calls, s.open)
    PROVE  /\ calls = <<>> <=> s.open = <<>>
           /\ calls # <<>> => Last(calls).v.kind = Kind(Last(s.open))
           /\ In(s, OpenObject) => calls # <<>> /\ Last(calls).v.kind = "object"
           /\ In(s, OpenArray) => calls # <<>> /\ Last(calls).v.kind = "array"
<1>1. PICK F : calls \in Seq(F)
  BY DEF IsCalls
<1>2. s.open \in Seq({OpenObject, OpenArray})
  BY DEF IsState
<1>3. calls = <<>> <=> s.open = <<>>
  BY <1>1, <1>2, EmptySeq DEF Fits
<1>4. ASSUME calls # <<>> PROVE Last(calls).v.kind = Kind(Last(s.open))
  <2>1. Len(calls) \in 1..Len(calls) /\ Len(s.open) = Len(calls)
    BY <1>1, <1>4 DEF Fits
  <2> QED BY <2>1 DEF Fits, Last
<1> QED BY <1>3, <1>4, MarksDiffer DEF In, Kind

(* Between a position and the token that is next there are only spaces.    *)
LEMMA BeforeHere ==
    ASSUME Typed, i <= Len(body)
    PROVE  /\ Before(Here) = Before(i)
           /\ IsState(Before(i)) /\ IsState(Before(Here))
<1>1. /\ body \in Seq(Tokens) /\ Len(body) \in Nat /\ i \in 1..(Len(body) + 1)
      /\ Here \in i..(Len(body) + 1) /\ \A j \in i..(Here - 1) : body[j] = Space
  BY HereIs DEF Typed
<1>2. i - 1 \in 0..Len(body) /\ Here - 1 \in (i - 1)..Len(body)
  BY <1>1
<1>3. (i - 1) + 1 = i
  BY <1>1
<1>4. States(body)[Here - 1] = States(body)[i - 1]
  BY <1>1, <1>2, <1>3, SpacesSkipped
<1>5. IsState(States(body)[i - 1])
  BY <1>1, <1>2, StatesAre
<1> QED BY <1>4, <1>5 DEF Before

LEMMA Spans ==
    ASSUME NEW l \in Nat, NEW n \in 1..(l + 1), NEW m \in n..(l + 1)
    PROVE  /\ n - 1 \in 0..l /\ m - 1 \in (n - 1)..l
           /\ m - 1 \in 0..l /\ (n - 1) + 1 = n
OBVIOUS

LEMMA ResumedFits ==
    ASSUME NEW calls, IsCalls(calls), NEW n, Resumes(calls, n), NEW open, Fits(calls, open)
    PROVE  Fits(stack', open)
<1>1. Len(calls) \in Nat \ {0} /\ Len(stack') = Len(calls) /\ Len(calls) = Len(open)
  BY Top DEF Resumes, Fits
<1>2. ASSUME NEW m \in 1..Len(stack') PROVE stack'[m].v.kind = Kind(open[m])
  <2>1. m \in 1..Len(calls) /\ calls[m].v.kind = Kind(open[m])
    BY <1>1, <1>2 DEF Fits
  <2>2. CASE m = Len(calls)
    BY <1>1, <2>1, <2>2 DEF Resumes, Last
  <2>3. CASE m # Len(calls)
    <3>1. m \in 1..(Len(calls) - 1)
      BY <1>1, <2>1, <2>3
    <3> QED BY <2>1, <3>1 DEF Resumes
  <2> QED BY <2>2, <2>3
<1>3. ASSUME NEW m \in 1..(Len(stack') - 1) PROVE stack'[m].wants # "key"
  <2>1. m \in 1..(Len(calls) - 1)
    BY <1>1, <1>3
  <2> QED BY <2>1 DEF Resumes, Fits
<1> QED BY <1>1, <1>2, <1>3 DEF Fits

(* After a value                                                           *)
LEMMA AfterValue ==
    ASSUME Typed, Viable(body), body' = body,
           NEW n \in 1..(Len(body) + 1), NEW calls, IsCalls(calls), Resumes(calls, n),
           Last(calls).wants # "key",
           n <= Len(body) => Before(n).expect = "more" /\ Fits(calls, Before(n).open)
    PROVE  Synced'
<1>1. /\ body \in Seq(Tokens) /\ Len(body) \in Nat /\ calls # <<>>
      /\ i' \in n..(Len(body) + 1) /\ i' \in 1..(Len(body) + 1)
  <2>1. body \in Seq(Tokens) /\ Len(body) \in Nat
    BY DEF Typed
  <2>2. calls # <<>>
    BY DEF Resumes
  <2>3. i' \in n..(Len(body) + 1) /\ i' \in 1..(Len(body) + 1)
    BY ResumesAt
  <2> QED BY <2>1, <2>2, <2>3
<1> SUFFICES ASSUME i' <= Len(body)
             PROVE  /\ Fits(stack', Before(i').open)
                    /\ AtHead(Last(stack').wants, Before(i').expect, body[i'])
  <2>1. pc' = "loop"
    BY DEF Resumes
  <2> QED BY <2>1 DEF Synced, Before
<1>2. n <= Len(body) /\ Before(n).expect = "more" /\ Fits(calls, Before(n).open)
  BY <1>1
<1>3. i' = Past(body, n, {Space, Comma})
  BY DEF Resumes
<1>4. /\ \A j \in n..(i' - 1) : body[j] \in {Space, Comma}
      /\ body[i'] \notin {Space, Comma}
  BY <1>1, <1>3, PastIs
<1>5. /\ n - 1 \in 0..Len(body) /\ i' - 1 \in (n - 1)..Len(body)
      /\ i' - 1 \in 0..Len(body) /\ (n - 1) + 1 = n
  <2>1. Len(body) \in Nat /\ i' \in n..(Len(body) + 1)
    BY <1>1
  <2> QED BY <2>1, Spans
<1>6. /\ Before(i').open = Before(n).open
      /\ \/ Before(i').expect = "more"
         \/ Before(i').expect = "key" /\ In(Before(i'), OpenObject)
         \/ Before(i').expect = "value" /\ In(Before(i'), OpenArray)
  BY <1>1, <1>2, <1>4, <1>5, CommasSkipped DEF Before
<1>7. IsState(Before(i'))
  BY <1>1, <1>5, StatesAre DEF Before
<1>8. Fits(calls, Before(i').open)
  BY <1>2, <1>6
<1>9. Fits(stack', Before(i').open)
  BY <1>8, ResumedFits
<1>10. AtHead(Last(stack').wants, Before(i').expect, body[i'])
  <2>1. CASE Before(i').expect = "more"
    BY <1>4, <2>1 DEF AtHead
  <2>2. CASE Before(i').expect = "key" /\ In(Before(i'), OpenObject)
    <3>1. Last(calls).v.kind = "object" /\ IsFrame(Last(calls))
      BY <1>1, <1>7, <1>8, <2>2, TopFits, Top
    <3>2. Last(stack').wants = "key"
      BY <3>1 DEF IsFrame, Resumes
    <3> QED BY <2>2, <3>2 DEF AtHead
  <2>3. CASE Before(i').expect = "value" /\ In(Before(i'), OpenArray)
    <3>1. Last(calls).v.kind = "array" /\ IsFrame(Last(calls))
      BY <1>1, <1>7, <1>8, <2>3, TopFits, Top
    <3>2. Last(stack').wants = "element"
      BY <3>1 DEF IsFrame, Resumes
    <3> QED BY <2>3, <3>2 DEF AtHead
  <2> QED BY <1>6, <2>1, <2>2, <2>3
<1> QED BY <1>9, <1>10

(* After a name                                                            *)
LEMMA AfterKey ==
    ASSUME Typed, Viable(body), body' = body,
           NEW n \in 1..(Len(body) + 1), NEW calls, IsCalls(calls), Resumes(calls, n),
           Last(calls).wants = "key",
           n <= Len(body) => Before(n).expect = "colon" /\ Fits(calls, Before(n).open)
    PROVE  Synced'
<1>1. /\ body \in Seq(Tokens) /\ Len(body) \in Nat /\ calls # <<>>
      /\ i' \in n..(Len(body) + 1) /\ i' \in 1..(Len(body) + 1)
  <2>1. body \in Seq(Tokens) /\ Len(body) \in Nat
    BY DEF Typed
  <2>2. calls # <<>>
    BY DEF Resumes
  <2>3. i' \in n..(Len(body) + 1) /\ i' \in 1..(Len(body) + 1)
    BY ResumesAt
  <2> QED BY <2>1, <2>2, <2>3
<1> SUFFICES ASSUME i' <= Len(body)
             PROVE  /\ Fits(stack', Before(i').open)
                    /\ AtEntry(stack', Before(i').expect, body[i'])
  <2>1. pc' = "parse"
    BY DEF Resumes
  <2> QED BY <2>1 DEF Synced, Before
<1>2. n <= Len(body) /\ Before(n).expect = "colon" /\ Fits(calls, Before(n).open)
  BY <1>1
<1>3. i' = Past(body, n, {Space, Colon}) /\ Last(stack').wants = "value" /\ stack' # <<>>
  BY DEF Resumes
<1>4. /\ \A j \in n..(i' - 1) : body[j] \in {Space, Colon}
      /\ body[i'] \notin {Space, Colon}
  BY <1>1, <1>3, PastIs
<1>5. /\ n - 1 \in 0..Len(body) /\ i' - 1 \in (n - 1)..Len(body)
      /\ i' - 1 \in 0..Len(body) /\ (n - 1) + 1 = n
  <2>1. Len(body) \in Nat /\ i' \in n..(Len(body) + 1)
    BY <1>1
  <2> QED BY <2>1, Spans
<1>6. Before(i').open = Before(n).open /\ Before(i').expect \in {"colon", "value"}
  BY <1>1, <1>2, <1>4, <1>5, ColonsSkipped DEF Before
<1>7. Before(i').expect # "colon"
  <2> SUFFICES ASSUME Before(i').expect = "colon" PROVE FALSE
    OBVIOUS
  <2>1. i' \in 1..Len(body)
    BY <1>1
  <2>2. Grammar(Before(i'), body[i'], States(body)[i'])
    BY <1>1, <1>4, <2>1, GoesOn DEF Before
  <2> QED BY <1>4, <2>2 DEF Grammar
<1>8. Fits(stack', Before(i').open)
  BY <1>2, <1>6, ResumedFits
<1> QED BY <1>3, <1>6, <1>7, <1>8 DEF AtEntry

(* Where there is nothing to read, before the end of an object or array    *)
LEMMA AfterNothing ==
    ASSUME Typed, Viable(body), body' = body, Resumes(stack, Here), Here <= Len(body),
           Fits(stack, Before(Here).open),
           \/ /\ body[Here] = CloseObject /\ Before(Here).expect = "member"
              /\ Last(stack).wants \in {"key", "value"}
           \/ /\ body[Here] = CloseArray /\ Before(Here).expect = "element"
              /\ Last(stack).wants = "element"
    PROVE  Synced'
<1>1. body \in Seq(Tokens) /\ Here \in 1..(Len(body) + 1) /\ IsCalls(stack)
  BY HereIs DEF Typed
<1>2. body[Here] \notin {Space, Comma, Colon}
  BY MarksDiffer
<1>3. ASSUME NEW t \in {Comma, Colon} PROVE Past(body, Here, {Space, t}) = Here
  BY <1>1, <1>2, PastIs
<1>4. i' = Here
  BY <1>3 DEF Resumes
<1>5. Fits(stack', Before(Here).open)
  BY <1>1, ResumedFits
<1>6. Before(i)' = Before(Here) /\ (body[i])' = body[Here]
  BY <1>4 DEF Before
<1>7. CASE Last(stack).wants = "key"
  <2>1. pc' = "parse" /\ stack' # <<>> /\ Last(stack').wants = "value"
    BY <1>7 DEF Resumes
  <2>2. AtEntry(stack', Before(Here).expect, body[Here])
    BY <1>7, <2>1 DEF AtEntry
  <2> QED BY <1>5, <1>6, <2>1, <2>2 DEF Synced
<1>8. CASE Last(stack).wants # "key"
  <2>1. /\ pc' = "loop"
        /\ Last(stack).wants = "element" => Last(stack').wants = "element"
        /\ Last(stack).wants = "value" => Last(stack').wants = "key"
    BY <1>8 DEF Resumes
  <2>2. AtHead(Last(stack').wants, Before(Here).expect, body[Here])
    BY <1>8, <2>1 DEF AtHead
  <2> QED BY <1>5, <1>6, <2>1, <2>2 DEF Synced
<1> QED BY <1>7, <1>8

(* The token that is next goes on with the grammar.                        *)
LEMMA HereGoesOn ==
    ASSUME Typed, Viable(body), Here <= Len(body), Before(Here).expect # "text"
    PROVE  /\ Here \in 1..Len(body)
           /\ Grammar(Before(Here), body[Here], Before(Here + 1))
<1>1. body \in Seq(Tokens) /\ Len(body) \in Nat /\ i \in 1..(Len(body) + 1)
  BY DEF Typed
<1>2. Here \in i..(Len(body) + 1) /\ body[Here] # Space
  BY HereIs
<1>3. Here \in 1..Len(body) /\ (Here + 1) - 1 = Here
  BY <1>1, <1>2
<1>4. Grammar(States(body)[Here - 1], body[Here], States(body)[Here])
  BY <1>1, <1>2, <1>3, GoesOn DEF Before
<1> QED BY <1>3, <1>4 DEF Before

(* At its entry parse reads from where the grammar expects what it wants.  *)
LEMMA EntryExpects ==
    ASSUME Typed, Viable(body), Synced, pc = "parse", Here <= Len(body)
    PROVE  /\ IsState(Before(Here)) /\ Fits(stack, Before(Here).open)
           /\ AtEntry(stack, Before(Here).expect, body[Here])
           /\ Before(Here).expect \in {"value", "element", "member", "key"}
<1>1. Len(body) \in Nat /\ i \in 1..(Len(body) + 1) /\ Here \in i..(Len(body) + 1)
  BY HereIs DEF Typed
<1>2. i <= Len(body)
  BY <1>1
<1>3. Before(Here) = Before(i) /\ IsState(Before(Here))
  BY <1>2, BeforeHere
<1>4. Fits(stack, Before(i).open) /\ AtEntry(stack, Before(i).expect, body[i])
  BY <1>2 DEF Synced
<1>5. AtEntry(stack, Before(i).expect, body[Here])
  <2>1. CASE body[i] = CloseObject
    <3>1. Here = i
      BY <1>2, <2>1, MarksDiffer, HereIs
    <3> QED BY <1>4, <3>1
  <2>2. CASE body[i] # CloseObject
    BY <1>4, <2>2 DEF AtEntry
  <2> QED BY <2>1, <2>2
<1>6. Before(i).expect \in {"value", "element", "member", "key"}
  BY <1>4 DEF AtEntry
<1> QED BY <1>3, <1>4, <1>5, <1>6

LEMMA OverIs ==
    ASSUME NEW n, IsOver(n), body' = body,
           n <= Len(body) => Before(n).expect = "more" /\ Fits(<<>>, Before(n).open)
    PROVE  Synced'
<1>1. i' = n /\ pc' = "done" /\ stack' = <<>>
  BY DEF IsOver
<1> QED BY <1>1 DEF Synced, Before

LEMMA ReadsSynced ==
    ASSUME Typed, Viable(body), Synced, NEW n, Reads(n)
    PROVE  Synced'
<1>1. /\ body \in Seq(Tokens) /\ Len(body) \in Nat /\ IsCalls(stack)
      /\ i \in 1..(Len(body) + 1)
  BY DEF Typed
<1>2. /\ n \in Here..(Len(body) + 1) /\ Here \in i..(Len(body) + 1)
      /\ pc = "parse" /\ body' = body
  BY HereIs DEF Reads
<1>3. n \in 1..(Len(body) + 1)
  BY <1>1, <1>2
<1>4. CASE n = Len(body) + 1
  <2>1. ~(n <= Len(body))
    BY <1>1, <1>4
  <2>2. CASE IsOver(n)
    BY <1>2, <2>1, <2>2, OverIs
  <2>3. CASE Resumes(stack, n)
    BY <1>1, <1>2, <1>3, <2>1, <2>3, AfterKey, AfterValue
  <2> QED BY <2>2, <2>3 DEF Reads
<1>5. CASE n # Len(body) + 1
  <2>1. n <= Len(body) /\ Here <= Len(body) /\ ~AtEnd(Here)
    BY <1>1, <1>2, <1>5 DEF AtEnd
  <2> DEFINE s == Before(Here)   t == body[Here]   r == Before(Here + 1)
  <2>2. /\ IsState(s) /\ Fits(stack, s.open) /\ AtEntry(stack, s.expect, t)
        /\ s.expect \in {"value", "element", "member", "key"}
    BY <1>2, <2>1, EntryExpects
  <2>3. Grammar(s, t, r) /\ Here \in 1..Len(body)
    BY <2>1, <2>2, HereGoesOn
  <2>4. Expect(s, "more").open = s.open /\ Expect(s, "colon").open = s.open
    BY DEF Expect
  <2>5. Expect(s, "more").expect = "more" /\ Expect(s, "colon").expect = "colon"
    BY DEF Expect
  <2> HIDE DEF s, r, t
  <2>6. CASE t \in Quoted
    <3>1. n = Here + 1
      BY <1>5, <2>1, <2>6, MarksAreNoText DEF Reads, t, Marks
    <3>2. CASE s.expect \in {"value", "element"}
      <4>1. r = Expect(s, "more")
        BY <2>3, <2>6, <3>2, MarksAreNoText DEF Grammar, Marks
      <4>2. Before(n).expect = "more" /\ Before(n).open = s.open
        BY <2>4, <2>5, <3>1, <4>1 DEF r
      <4>3. stack # <<>> => Last(stack).wants # "key"
        BY <2>2, <3>2 DEF AtEntry
      <4>4. CASE stack = <<>> /\ IsOver(n)
        BY <1>2, <2>2, <4>2, <4>4, OverIs
      <4>5. CASE Resumes(stack, n)
        <5>1. stack # <<>>
          BY <4>5 DEF Resumes
        <5> QED BY <1>1, <1>2, <1>3, <2>2, <4>2, <4>3, <4>5, <5>1, AfterValue
      <4> QED BY <4>4, <4>5 DEF Reads
    <3>3. CASE s.expect \in {"member", "key"}
      <4>1. r = Expect(s, "colon")
        BY <2>3, <2>6, <3>3, MarksAreNoText DEF Grammar, Marks
      <4>2. Before(n).expect = "colon" /\ Before(n).open = s.open
        BY <2>4, <2>5, <3>1, <4>1 DEF r
      <4>3. t # CloseObject
        BY <2>6, MarksAreNoText DEF Marks
      <4>4. stack # <<>> /\ Last(stack).wants = "key"
        BY <2>2, <3>3, <4>3 DEF AtEntry
      <4>5. Resumes(stack, n)
        BY <4>4 DEF Reads
      <4> QED BY <1>1, <1>2, <1>3, <2>2, <4>2, <4>4, <4>5, AfterKey
    <3> QED BY <2>2, <3>2, <3>3
  <2>7. CASE t \notin Quoted
    <3>1. t \notin {Quote, OpenObject, OpenArray} /\ n = WordEnd
      BY <1>5, <2>1, <2>7 DEF Reads, t
    <3>2. \/ t \in Words /\ s.expect \in {"value", "element"} /\ r = Expect(s, "more")
          \/ t = CloseObject /\ s.expect = "member" /\ In(s, OpenObject)
          \/ t = CloseArray /\ s.expect = "element" /\ In(s, OpenArray)
      BY <2>2, <2>3, <2>7, <3>1 DEF Grammar
    <3>3. CASE t \in Words /\ s.expect \in {"value", "element"} /\ r = Expect(s, "more")
      <4>1. Here + 1 <= Len(body) => body[Here + 1] \in {Comma, CloseObject, CloseArray, Space}
        <5> SUFFICES ASSUME Here + 1 <= Len(body), body[Here + 1] # Space
                     PROVE  body[Here + 1] \in {Comma, CloseObject, CloseArray}
          OBVIOUS
        <5>1. Here + 1 \in 1..Len(body) /\ (Here + 1) - 1 = Here
          BY <1>1, <2>3
        <5>2. r.expect = "more"
          BY <2>5, <3>3
        <5>3. r = States(body)[(Here + 1) - 1]
          BY DEF r, Before
        <5>4. Grammar(r, body[Here + 1], States(body)[Here + 1])
          BY <1>1, <5>1, <5>2, <5>3, GoesOn
        <5> QED BY <5>2, <5>4 DEF Grammar
      <4>2. n = Here + 1
        <5>1. n # Here
          <6>1. t \notin {Comma, CloseObject, CloseArray}
            BY <3>3, MarksAreNoText DEF Marks
          <6> QED BY <2>1, <3>1, <6>1, WordEndIs DEF t
        <5>2. ~(Here + 1 \in Here..(n - 1))
          <6> SUFFICES ASSUME Here + 1 \in Here..(n - 1) PROVE FALSE
            OBVIOUS
          <6>1. Here + 1 <= Len(body)
            BY <1>1, <1>3, <2>1, <2>3
          <6> QED BY <3>1, <4>1, <6>1, WordEndIs
        <5> QED BY <1>1, <1>2, <2>3, <5>1, <5>2
      <4>3. Before(n).expect = "more" /\ Before(n).open = s.open
        BY <2>4, <2>5, <3>3, <4>2 DEF r
      <4>4. stack # <<>> => Last(stack).wants # "key"
        BY <2>2, <3>3 DEF AtEntry
      <4>5. CASE stack = <<>> /\ IsOver(n)
        BY <1>2, <2>2, <4>3, <4>5, OverIs
      <4>6. CASE Resumes(stack, n)
        <5>1. stack # <<>>
          BY <4>6 DEF Resumes
        <5> QED BY <1>1, <1>2, <1>3, <2>2, <4>3, <4>4, <4>6, <5>1, AfterValue
      <4> QED BY <4>5, <4>6 DEF Reads
    <3>4. CASE \/ t = CloseObject /\ s.expect = "member"
               \/ t = CloseArray /\ s.expect = "element"
      <4>1. n = Here
        BY <2>1, <3>1, <3>4, WordEndIs DEF t
      <4>2. /\ stack # <<>>
            /\ t = CloseObject => Last(stack).wants \in {"key", "value"}
            /\ t = CloseArray => Last(stack).wants = "element"
        BY <2>2, <3>4, MarksDiffer DEF AtEntry
      <4>3. Resumes(stack, Here)
        BY <4>1, <4>2 DEF Reads
      <4> QED BY <1>2, <2>1, <2>2, <3>4, <4>2, <4>3, AfterNothing DEF s, t
    <3> QED BY <3>2, <3>3, <3>4
  <2> QED BY <2>6, <2>7
<1> QED BY <1>4, <1>5

LEMMA EntersSynced ==
    ASSUME Typed, Viable(body), Synced, Enters
    PROVE  Synced'
<1>1. /\ body \in Seq(Tokens) /\ Len(body) \in Nat /\ IsCalls(stack) /\ Len(stack) \in Nat
      /\ i \in 1..(Len(body) + 1)
  BY Top DEF Typed
<1>2. Here \in i..(Len(body) + 1) /\ Here # Len(body) + 1 /\ pc = "parse" /\ ~AtEnd(Here)
  BY HereIs DEF Enters
<1>3. Here <= Len(body)
  BY <1>1, <1>2
<1> DEFINE s == Before(Here)   t == body[Here]   r == Before(Here + 1)
<1>4. /\ IsState(s) /\ Fits(stack, s.open) /\ AtEntry(stack, s.expect, t)
      /\ s.expect \in {"value", "element", "member", "key"}
  BY <1>2, <1>3, EntryExpects
<1>5. Grammar(s, t, r)
  BY <1>3, <1>4, HereGoesOn
<1>6. t \in {OpenObject, OpenArray}
  BY DEF Enters
<1>7. /\ i' = Here + 1 /\ pc' = "loop" /\ body' = body
      /\ Len(stack') = Len(stack) + 1
      /\ \A m \in 1..Len(stack) : stack'[m] = stack[m]
      /\ Last(stack').v.kind = Kind(t)
      /\ Last(stack').wants = IF t = OpenObject THEN "key" ELSE "element"
  BY DEF Enters, Kind
<1> HIDE DEF s, t, r
<1>8. s.expect \in {"value", "element"} /\ r = Opened(s, t)
  BY <1>4, <1>5, <1>6, MarksDiffer, MarksAreNoText DEF Grammar, Marks
<1>9. stack # <<>> => Last(stack).wants # "key"
  BY <1>4, <1>8 DEF AtEntry
<1>10. /\ Len(Append(s.open, t)) = Len(s.open) + 1
       /\ \A m \in 1..Len(s.open) : Append(s.open, t)[m] = s.open[m]
       /\ Append(s.open, t)[Len(s.open) + 1] = t
  BY <1>4, <1>6, AppendProperties DEF IsState
<1>11. Fits(stack', r.open)
  <2>1. r.open = Append(s.open, t) /\ Len(s.open) = Len(stack)
    BY <1>4, <1>8 DEF Opened, Fits
  <2>2. ASSUME NEW m \in 1..Len(stack') PROVE stack'[m].v.kind = Kind(r.open[m])
    <3>1. CASE m \in 1..Len(stack)
      BY <1>4, <1>7, <1>10, <2>1, <3>1 DEF Fits
    <3>2. CASE m = Len(stack) + 1
      BY <1>7, <1>10, <2>1, <3>2 DEF Last
    <3> QED BY <1>1, <1>7, <3>1, <3>2
  <2>3. ASSUME NEW m \in 1..(Len(stack') - 1) PROVE stack'[m].wants # "key"
    <3>1. m \in 1..Len(stack) /\ stack'[m] = stack[m]
      BY <1>1, <1>7
    <3>2. CASE m = Len(stack)
      BY <1>1, <1>9, <3>1, <3>2 DEF Last
    <3>3. CASE m # Len(stack)
      <4>1. m \in 1..(Len(stack) - 1)
        BY <1>1, <3>1, <3>3
      <4> QED BY <1>4, <3>1, <4>1 DEF Fits
    <3> QED BY <3>2, <3>3
  <2> QED BY <1>7, <1>10, <2>1, <2>2, <2>3 DEF Fits
<1>12. r.expect = IF t = OpenObject THEN "member" ELSE "element"
  BY <1>8 DEF Opened
<1>13. AtHead(Last(stack').wants, r.expect, body[Here + 1])
  BY <1>7, <1>12 DEF AtHead
<1> QED BY <1>7, <1>11, <1>13 DEF Synced, Before, r

(* A token that closes something closes the innermost object or array.     *)
LEMMA ClosesTop ==
    ASSUME NEW s, NEW t \in {CloseObject, CloseArray}, NEW r, Grammar(s, t, r),
           IsCalls(stack), IsState(s), Fits(stack, s.open)
    PROVE  /\ stack # <<>> /\ t = Closer /\ r = Closed(s) /\ s.open # <<>>
           /\ s.expect \in {"member", "element", "more"}
<1>1. \/ t = CloseObject /\ In(s, OpenObject) /\ r = Closed(s) /\ s.expect \in {"member", "more"}
      \/ t = CloseArray /\ In(s, OpenArray) /\ r = Closed(s) /\ s.expect \in {"element", "more"}
  BY MarksDiffer, MarksAreNoText DEF Grammar, Marks
<1>2. /\ In(s, OpenObject) => stack # <<>> /\ Last(stack).v.kind = "object"
      /\ In(s, OpenArray) => stack # <<>> /\ Last(stack).v.kind = "array"
  BY TopFits
<1> QED BY <1>1, <1>2 DEF Closer, In

LEMMA AgainSynced ==
    ASSUME Typed, Viable(body), Synced, Again
    PROVE  Synced'
<1>1. /\ body \in Seq(Tokens) /\ Len(body) \in Nat /\ IsCalls(stack)
      /\ i \in 1..(Len(body) + 1) /\ Last(stack).wants # "value" /\ stack # <<>>
  BY DEF Typed, Again
<1>2. /\ i <= Len(body) /\ body[i] # Closer /\ pc = "loop"
      /\ pc' = "parse" /\ i' = i /\ stack' = stack /\ body' = body
  BY <1>1 DEF Again, AtEnd
<1> DEFINE s == Before(i)
<1>3. Fits(stack, s.open) /\ AtHead(Last(stack).wants, s.expect, body[i]) /\ IsState(s)
  BY <1>2, BeforeHere DEF Synced
<1>4. ~(s.expect = "more" /\ body[i] \notin {Space, Comma})
  <2> SUFFICES ASSUME s.expect = "more", body[i] \notin {Space, Comma} PROVE FALSE
    OBVIOUS
  <2>1. i \in 1..Len(body)
    BY <1>1, <1>2
  <2>2. Grammar(s, body[i], States(body)[i])
    BY <1>1, <2>1, GoesOn DEF Before
  <2> HIDE DEF s
  <2>3. body[i] \in {CloseObject, CloseArray}
    BY <2>2 DEF Grammar
  <2> QED BY <1>1, <1>2, <1>3, <2>2, <2>3, ClosesTop
<1> HIDE DEF s
<1>5. AtEntry(stack, s.expect, body[i])
  BY <1>1, <1>3, <1>4 DEF AtHead, AtEntry
<1> QED BY <1>2, <1>3, <1>5 DEF Synced, Before, s

LEMMA LeavesSynced ==
    ASSUME Typed, Viable(body), Synced, NEW n, Leaves(n)
    PROVE  Synced'
<1>1. /\ body \in Seq(Tokens) /\ Len(body) \in Nat /\ IsCalls(stack)
      /\ i \in 1..(Len(body) + 1) /\ stack # <<>> /\ body' = body /\ pc = "loop"
  BY DEF Typed, Leaves
<1>2. /\ IsCalls(Front(stack)) /\ Len(stack) \in Nat \ {0} /\ Len(Front(stack)) = Len(stack) - 1
      /\ \A m \in 1..(Len(stack) - 1) : Front(stack)[m] = stack[m]
  BY <1>1, Popped
<1>3. n \in 1..(Len(body) + 1)
  <2>1. AtEnd(i) \/ i <= Len(body)
    BY <1>1 DEF AtEnd
  <2> QED BY <1>1, <2>1 DEF Leaves
<1>4. ASSUME n <= Len(body)
      PROVE  /\ Before(n).expect = "more"
             /\ Fits(Front(stack), Before(n).open)
             /\ Front(stack) # <<>> => Last(Front(stack)).wants # "key"
  <2>1. ~AtEnd(i) /\ i <= Len(body) /\ n = i + 1 /\ body[i] = Closer
    BY <1>1, <1>4 DEF Leaves, AtEnd
  <2> DEFINE s == Before(i)
  <2>2. Fits(stack, s.open) /\ AtHead(Last(stack).wants, s.expect, body[i]) /\ IsState(s)
    BY <1>1, <2>1, BeforeHere DEF Synced
  <2>3. s.expect # "text"
    BY <2>2 DEF AtHead
  <2>4. body[i] \in {CloseObject, CloseArray} /\ body[i] # Space
    BY <2>1, MarksDiffer DEF Closer
  <2>5. i \in 1..Len(body) /\ n - 1 = i
    BY <1>1, <2>1
  <2>6. Grammar(s, body[i], Before(n))
    BY <1>1, <2>3, <2>4, <2>5, GoesOn DEF Before
  <2> HIDE DEF s
  <2>7. Before(n) = Closed(s) /\ s.open # <<>>
    BY <1>1, <2>2, <2>4, <2>6, ClosesTop
  <2>8. Before(n).expect = "more" /\ Before(n).open = Front(s.open)
    BY <2>7 DEF Closed
  <2>9. /\ Len(Front(s.open)) = Len(s.open) - 1 /\ Len(s.open) = Len(stack)
        /\ \A m \in 1..(Len(s.open) - 1) : Front(s.open)[m] = s.open[m]
    <3> DEFINE kinds == {OpenObject, OpenArray}
    <3>1. s.open \in Seq(kinds) /\ Len(s.open) = Len(stack)
      BY <2>2 DEF IsState, Fits
    <3> HIDE DEF kinds
    <3> QED BY <2>7, <3>1, FrontIs
  <2>10. Fits(Front(stack), Front(s.open))
    <3>1. ASSUME NEW m \in 1..(Len(stack) - 1)
          PROVE  Front(stack)[m].v.kind = Kind(Front(s.open)[m])
      <4>1. m \in 1..Len(stack) /\ Front(stack)[m] = stack[m] /\ Front(s.open)[m] = s.open[m]
        BY <1>2, <2>9
      <4> QED BY <2>2, <4>1 DEF Fits
    <3>2. ASSUME NEW m \in 1..((Len(stack) - 1) - 1) PROVE Front(stack)[m].wants # "key"
      <4>1. m \in 1..(Len(stack) - 1)
        BY <1>2
      <4> QED BY <1>2, <2>2, <4>1 DEF Fits
    <3> QED BY <1>2, <2>9, <3>1, <3>2 DEF Fits
  <2>11. ASSUME Front(stack) # <<>> PROVE Last(Front(stack)).wants # "key"
    <3>1. Len(stack) # 1
      BY <1>1, <2>11, Popped
    <3>2. Len(stack) - 1 \in 1..(Len(stack) - 1)
      BY <1>2, <3>1
    <3> QED BY <1>2, <2>2, <3>2 DEF Fits, Last
  <2> QED BY <2>8, <2>10, <2>11
<1>5. CASE Front(stack) = <<>> /\ IsOver(n)
  BY <1>1, <1>4, <1>5, OverIs
<1>6. CASE Resumes(Front(stack), n)
  <2>1. Front(stack) # <<>>
    BY <1>6 DEF Resumes
  <2>2. CASE n <= Len(body)
    BY <1>1, <1>2, <1>3, <1>4, <1>6, <2>1, <2>2, AfterValue
  <2>3. CASE ~(n <= Len(body))
    BY <1>1, <1>2, <1>3, <1>6, <2>3, AfterKey, AfterValue
  <2> QED BY <2>2, <2>3
<1> QED BY <1>5, <1>6 DEF Leaves

(* What is proved by induction for a viable body                           *)
Follows == Viable(body) => Synced

LEMMA InitFollows == Init => Follows
<1> SUFFICES ASSUME Init PROVE Synced
  BY DEF Follows
<1>1. body \in Seq(Tokens) /\ i = 1 /\ stack = <<>> /\ pc = "parse"
  BY ReaderAssumption DEF Init
<1>2. Len(body) \in Nat /\ i - 1 = 0
  BY <1>1
<1>3. Before(i) = Start
  BY <1>2, StatesIs DEF Before
<1>4. Before(i).open = <<>> /\ Before(i).expect = "value"
  BY <1>3 DEF Start
<1>5. Fits(stack, <<>>)
  BY <1>1 DEF Fits
<1> QED BY <1>1, <1>4, <1>5 DEF Synced, AtEntry

LEMMA NextFollows == Typed /\ Follows /\ [Next]_vars => Follows'
<1>1. ASSUME Typed, Follows, UNCHANGED vars PROVE Follows'
  BY <1>1 DEF Follows, Synced, Before, vars
<1>2. ASSUME Typed, Follows, Next PROVE Follows'
  <2>1. body' = body
    BY <1>2 DEF Next, ReadNothing, ReadQuoted, ReadWord, Enter, Again, Leave
  <2> SUFFICES ASSUME Viable(body) PROVE Synced'
    BY <2>1 DEF Follows
  <2>2. Synced
    BY <1>2 DEF Follows
  <2> QED BY <1>2, <2>2, Steps, ReadsSynced, EntersSynced, AgainSynced, LeavesSynced
<1> QED BY <1>1, <1>2

LEMMA AlwaysFollows == Spec => []Follows
BY InitFollows, NextFollows, AlwaysTyped, PTL DEF Spec

LEMMA NotAtWrongCloser == Typed /\ Follows /\ Viable(body) => ~AtWrongCloser
<1> SUFFICES ASSUME Typed, Follows, Viable(body), AtWrongCloser PROVE FALSE
  OBVIOUS
<1>1. IsCalls(stack) /\ i \in 1..(Len(body) + 1) /\ Len(body) \in Nat /\ Synced
  BY DEF Typed, Follows
<1>2. /\ stack # <<>> /\ Here <= Len(body) /\ i <= Len(body)
      /\ body[Here] \in {CloseObject, CloseArray} /\ body[Here] # Closer
  <2>1. Here \in i..(Len(body) + 1) /\ Here # Len(body) + 1
    BY HereIs DEF AtWrongCloser
  <2> QED BY <1>1, <2>1 DEF AtWrongCloser
<1>3. Before(Here) = Before(i) /\ IsState(Before(i)) /\ Fits(stack, Before(i).open)
  BY <1>1, <1>2, BeforeHere DEF Synced
<1>4. Before(Here).expect # "text"
  <2>1. pc \in {"parse", "loop"}
    BY <1>2 DEF Typed
  <2> QED BY <1>1, <1>2, <1>3, <2>1 DEF Synced, AtHead, AtEntry
<1>5. Grammar(Before(Here), body[Here], Before(Here + 1))
  BY <1>2, <1>4, HereGoesOn
<1> QED BY <1>1, <1>2, <1>3, <1>5, ClosesTop

(* A body that has the shape of a document, whole or cut off anywhere,     *)
(* never brings JSON::parse to a closer of the wrong kind: the loop it     *)
(* cannot leave is out of reach of every answer a provider means to send.  *)
THEOREM ViableNeverStuck == Spec => [](Viable(body) => ~AtWrongCloser)
BY NotAtWrongCloser, AlwaysTyped, AlwaysFollows, PTL

(* On such a body every step lowers the rank: parse returns.               *)
THEOREM ViableAdvances ==
    Spec => /\ [](Rank \in Nat)
            /\ [][Viable(body) => Rank' < Rank]_vars
<1>1. Typed => Rank \in Nat
  BY RankIs DEF Ranked
<1>2. Typed /\ Typed' /\ Follows /\ [Next]_vars => [Viable(body) => Rank' < Rank]_vars
  BY RankLower, NotAtWrongCloser
<1> QED BY <1>1, <1>2, AlwaysTyped, AlwaysFollows, PTL DEF Spec

(* When parse returns from such a body, nothing but spaces is left of it:  *)
(* no member, element or closer that was sent is dropped without being     *)
(* looked at.                                                              *)
THEOREM WholeBodyUsed == Spec => [](Viable(body) /\ pc = "done" => AtEnd(Here))
<1>1. ASSUME Typed, Follows, Viable(body), pc = "done" PROVE AtEnd(Here)
  <2> SUFFICES ASSUME ~AtEnd(Here) PROVE FALSE
    OBVIOUS
  <2>1. /\ body \in Seq(Tokens) /\ Len(body) \in Nat /\ i \in 1..(Len(body) + 1)
        /\ stack = <<>> /\ IsCalls(stack) /\ Synced
    BY <1>1 DEF Typed, Follows
  <2>2. Here <= Len(body) /\ i <= Len(body) /\ body[Here] # Space
    <3>1. Here \in i..(Len(body) + 1) /\ Here # Len(body) + 1
      BY <1>1, HereIs
    <3>2. Here <= Len(body) /\ i <= Len(body)
      BY <2>1, <3>1
    <3> QED BY <1>1, <3>2, HereIs
  <2>3. /\ Before(Here) = Before(i) /\ IsState(Before(i))
        /\ Fits(stack, Before(i).open) /\ Before(i).expect = "more"
    BY <1>1, <2>1, <2>2, BeforeHere DEF Synced
  <2>4. Before(i).open = <<>>
    BY <2>1, <2>3, TopFits
  <2>5. Grammar(Before(i), body[Here], Before(Here + 1))
    BY <1>1, <2>2, <2>3, HereGoesOn
  <2> QED BY <2>3, <2>4, <2>5 DEF Grammar, In
<1> QED BY <1>1, AlwaysTyped, AlwaysFollows, PTL
=============================================================================
