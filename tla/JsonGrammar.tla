---------------------------- MODULE JsonGrammar ----------------------------
(***************************************************************************)
(* What the tokens of a JSON document mean, by the grammar and by nothing  *)
(* the readers do: every document of up to MaxLength tokens, with its      *)
(* value and with the members anything in it has.  Spaces are left out.    *)
(***************************************************************************)
EXTENDS JsonTokens

CONSTANT MaxLength

Doc(t, v, m) == [tokens |-> t, value |-> v, members |-> m]

Scalars == {Doc(<<q>>, TextOf(Contents[q]), <<>>) : q \in Quoted}
              \cup {Doc(<<w>>, TextOf(<<w>>), <<>>) : w \in Good}

ArrayOf(es) ==
    Doc(<<OpenArray>> \o es.tokens \o <<CloseArray>>,
        [Empty EXCEPT !.kind = "array",
                           !.a = [n \in DOMAIN es.items |-> es.items[n].value]],
        FlattenSeq([n \in DOMAIN es.items |-> es.items[n].members]))

(* A name given twice stands where it was first, for what it was last.     *)
ObjectOf(ms) ==
    LET names  == FoldLeft(LAMBDA ns, m : IF m.name \in ToSet(ns) THEN ns
                                          ELSE Append(ns, m.name), <<>>, ms.items)
        lastOf(k) == LET n == CHOOSE n \in DOMAIN ms.items :
                                 /\ ms.items[n].name = k
                                 /\ \A l \in (n + 1)..Len(ms.items) : ms.items[l].name # k
                     IN  ms.items[n].doc
    IN  Doc(<<OpenObject>> \o ms.tokens \o <<CloseObject>>,
            [Empty EXCEPT !.kind = "object", !.order = names,
                               !.o = [k \in ToSet(names) |-> lastOf(k).value]],
            FlattenSeq([n \in DOMAIN names |->
                <<[name |-> names[n], value |-> lastOf(names[n]).value]>>
                   \o lastOf(names[n]).members]))

NoItems == [tokens |-> <<>>, items |-> <<>>]
One(t, x) == [tokens |-> t, items |-> <<x>>]
Listed(one, rest) == [tokens |-> one.tokens \o <<Comma>> \o rest.tokens,
                      items  |-> one.items \o rest.items]

(* The documents of n tokens, the lists of elements and those of members,  *)
(* from the table of the shorter ones.                                     *)
Row(shorter, n) ==
    LET docs  == (IF n = 1 THEN Scalars ELSE {})
                   \cup (IF n = 2 THEN {ArrayOf(NoItems), ObjectOf(NoItems)} ELSE {})
                   \cup (IF n < 3 THEN {} ELSE
                            {ArrayOf(es)  : es \in shorter[n - 2].elements}
                               \cup {ObjectOf(ms) : ms \in shorter[n - 2].members})
        pairs == IF n < 3 THEN {}
                 ELSE {One(<<q, Colon>> \o d.tokens, [name |-> Contents[q], doc |-> d]) :
                          q \in Quoted, d \in shorter[n - 2].docs}
        lists(ones, one, many) ==
            ones \cup UNION {{Listed(x, r) : x \in one[m], r \in many[n - 1 - m]} :
                                m \in 1..(n - 2)}
        col(f) == [m \in DOMAIN shorter |-> shorter[m][f]]
    IN  [docs     |-> docs,
         pairs    |-> pairs,
         elements |-> lists({One(d.tokens, d) : d \in docs},
                            [m \in DOMAIN shorter |-> {One(d.tokens, d) : d \in shorter[m].docs}],
                            col("elements")),
         members  |-> lists(pairs, col("pairs"), col("members"))]

Rows == FoldLeft(LAMBDA table, n : Append(table, Row(table, n)), <<>>,
                 [n \in 1..MaxLength |-> n])

Docs == UNION {Rows[n].docs : n \in 1..MaxLength}
=============================================================================
