------------------------------ MODULE JsonRead ------------------------------
(***************************************************************************)
(* The lenient JSON reader of core/utils.cpp, which every GeoIP provider's *)
(* answer goes through: JSON::parse as the machine its recursion is (a     *)
(* frame for each object or array it is inside of, one position into the   *)
(* body shared by all of them).                                            *)
(***************************************************************************)
EXTENDS JsonTokens

CONSTANT Bodies      (* the bodies that may arrive                        *)

(* Nothing closes an open quote, so no quote of any kind comes after it.   *)
ASSUME ReaderAssumption ==
    \A b \in Bodies :
       /\ b \in Seq(Tokens)
       /\ \A m, n \in DOMAIN b : m < n /\ b[m] = Quote => b[n] \notin Quoted \cup {Quote}

VARIABLES
    body, i,      (* b and i of parse, i from 1                            *)
    pc,           (* "parse" at its entry, "loop" at the head of the loop  *)
                  (* of the innermost object or array                      *)
    stack,        (* the calls in progress, outermost first                *)
    value         (* what the outermost one returned                       *)

vars == <<body, i, pc, stack, value>>

-----------------------------------------------------------------------------
(* The first position from n on that holds one of these tokens.            *)
NextOf(n, these)  == Min({j \in n..Len(body) : body[j] \in these} \cup {Len(body) + 1})
Skip(n, these)   == NextOf(n, Tokens \ these)
AtEnd(n)         == n > Len(body)

(* An array that is never closed would grow without end; here it stops at  *)
(* the most elements a body of this length can hold.                       *)
MaxElements == Len(body)

(* o[k] = v                                                                *)
Put(o, k, v) == [x \in DOMAIN o \cup {k} |-> IF x = k THEN v ELSE o[x]]

(* (fault: the first of two members with one name stays)                   *)
TakeFirstValue(f, v) ==
    [f EXCEPT !.v.o = IF f.key \in DOMAIN @ THEN @ ELSE Put(@, f.key, v), !.wants = "key"]

(* What the caller does with the value of an inner parse.                  *)
TakeKey(f, v) ==
    [f EXCEPT !.v.order = IF v.s \in DOMAIN f.v.o THEN @ ELSE Append(@, v.s),
              !.key = v.s, !.wants = "value"]
TakeValue(f, v) == [f EXCEPT !.v.o = Put(@, f.key, v), !.wants = "key"]
TakeElement(f, v) ==
    [f EXCEPT !.v.a = IF Len(@) < MaxElements THEN Append(@, v) ELSE @]

(* parse returns v and leaves the position at n; the callers are `calls`.  *)
Return(v, n, calls) ==
    IF calls = <<>>
    THEN /\ pc' = "done" /\ value' = v /\ i' = n /\ stack' = <<>>
    ELSE LET f == Last(calls)
         IN  /\ stack' = ReplaceAt(calls, Len(calls),
                    CASE f.wants = "key"     -> TakeKey(f, v)
                      [] f.wants = "value"   -> TakeValue(f, v)
                      [] f.wants = "element" -> TakeElement(f, v))
             /\ i' = Skip(n, {Space, IF f.wants = "key" THEN Colon ELSE Comma})
             /\ pc' = IF f.wants = "key" THEN "parse" ELSE "loop"
             /\ UNCHANGED value

-----------------------------------------------------------------------------
Init ==
    /\ body \in Bodies
    /\ i = 1 /\ pc = "parse" /\ stack = <<>> /\ value = Empty

Here == Skip(i, {Space})

ReadNothing ==
    /\ pc = "parse" /\ AtEnd(Here)
    /\ Return(Empty, Here, stack)
    /\ UNCHANGED body

ReadQuoted ==
    /\ pc = "parse" /\ ~AtEnd(Here)
    /\ \/ body[Here] \in Quoted /\ Return(TextOf(Contents[body[Here]]), Here + 1, stack)
       \/ /\ body[Here] = Quote
          /\ Return(TextOf(SubSeq(body, Here + 1, Len(body))), Len(body) + 1, stack)
    /\ UNCHANGED body

Enter ==
    /\ pc = "parse" /\ ~AtEnd(Here) /\ body[Here] \in {OpenObject, OpenArray}
    /\ LET object == body[Here] = OpenObject
       IN  stack' = Append(stack,
               [v     |-> [Empty EXCEPT !.kind = IF object THEN "object" ELSE "array"],
                wants |-> IF object THEN "key" ELSE "element",
                key   |-> <<>>])
    /\ i' = Here + 1 /\ pc' = "loop"
    /\ UNCHANGED <<body, value>>

(* Everything else is a word, up to a comma, a closer or a space; it may   *)
(* be empty.                                                               *)
WordEnd == NextOf(Here, {Comma, CloseObject, CloseArray, Space})

ReadWord ==
    /\ pc = "parse" /\ ~AtEnd(Here) /\ body[Here] \notin Quoted \cup {Quote, OpenObject, OpenArray}
    /\ Return(TextOf(SubSeq(body, Here, WordEnd - 1)), WordEnd, stack)
    /\ UNCHANGED body

Closer == IF Last(stack).v.kind = "object" THEN CloseObject ELSE CloseArray

Again ==
    /\ pc = "loop" /\ ~AtEnd(i) /\ body[i] # Closer
    /\ pc' = "parse"
    /\ UNCHANGED <<body, i, stack, value>>

(* (fault: the end of the body is not looked at)                           *)
LeaveAtCloser ==
    /\ pc = "loop"
    /\ ~AtEnd(i) /\ body[i] = Closer
    /\ Return(Last(stack).v, i + 1, Front(stack))
    /\ UNCHANGED body

Leave ==
    /\ pc = "loop"
    /\ ~AtEnd(i) => body[i] = Closer
    /\ Return(Last(stack).v, IF AtEnd(i) THEN i ELSE i + 1, Front(stack))
    /\ UNCHANGED body

Next == ReadNothing \/ ReadQuoted \/ Enter \/ ReadWord \/ Again \/ Leave

Spec == Init /\ [][Next]_vars /\ WF_vars(Next)

-----------------------------------------------------------------------------
(* Types: every frame wants what its kind of value is made of, and the     *)
(* names in order are those of its members.                                *)
TypeOK ==
    /\ body \in Seq(Tokens)
    /\ i \in 1..(Len(body) + 1)
    /\ pc \in {"parse", "loop", "done"}
    /\ \A n \in DOMAIN stack :
          LET f == stack[n]
          IN  /\ f.wants \in (IF f.v.kind = "object" THEN {"key", "value"} ELSE {"element"})
              /\ ToSet(f.v.order) =
                    DOMAIN f.v.o \cup (IF f.wants = "value" THEN {f.key} ELSE {})
    /\ pc = "loop" => stack # <<>>
    /\ pc = "done" => stack = <<>>

(* JSON::parse returns, whatever the body.                                 *)
ParseReturns == <>(pc = "done")
=============================================================================
