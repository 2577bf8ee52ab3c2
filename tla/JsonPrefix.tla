----------------------------- MODULE JsonPrefix -----------------------------
(***************************************************************************)
(* How far the tokens of a body have the shape of a JSON document, by the  *)
(* grammar and by nothing the readers do: which objects and arrays are     *)
(* open after each token, and what may come next.  A word may be any word, *)
(* as the last one of a body cut short is.                                 *)
(***************************************************************************)
EXTENDS JsonTokens

(* expect: "value", "member" (a name or the end of an object), "key" (a    *)
(* name), "colon", "element" (a value or the end of an array), "more" (a   *)
(* comma or an end), "text" (whatever: in a string that was cut) and       *)
(* "wrong".  open: the brackets that are, outermost first.                 *)
Start == [open |-> <<>>, expect |-> "value"]

Expect(s, what) == [open |-> s.open, expect |-> what]
Opened(s, t)    == [open   |-> Append(s.open, t),
                    expect |-> IF t = OpenObject THEN "member" ELSE "element"]
Closed(s)       == [open |-> Front(s.open), expect |-> "more"]
In(s, bracket)  == s.open # <<>> /\ Last(s.open) = bracket

Step(s, t) ==
    CASE t = Space \/ s.expect = "text" -> s
      [] s.expect \in {"value", "element"} /\ t \in {OpenObject, OpenArray} -> Opened(s, t)
      [] s.expect \in {"value", "element"} /\ t \in Quoted \cup Words -> Expect(s, "more")
      [] s.expect \in {"member", "key"} /\ t \in Quoted -> Expect(s, "colon")
      [] s.expect \in {"value", "element", "member", "key"} /\ t = Quote -> Expect(s, "text")
      [] s.expect = "colon" /\ t = Colon -> Expect(s, "value")
      [] s.expect = "more" /\ t = Comma /\ In(s, OpenObject) -> Expect(s, "key")
      [] s.expect = "more" /\ t = Comma /\ In(s, OpenArray) -> Expect(s, "value")
      [] s.expect \in {"member", "more"} /\ t = CloseObject /\ In(s, OpenObject) -> Closed(s)
      [] s.expect \in {"element", "more"} /\ t = CloseArray /\ In(s, OpenArray) -> Closed(s)
      [] OTHER -> Expect(s, "wrong")

(* The state before the first token and after each of them                 *)
States(b) ==
    LET after[n \in 0..Len(b)] ==
            IF n = 0 THEN Start ELSE Step(after[n - 1], b[n])
    IN  after

(* A document, or one that was cut off: after any token, in a string or in *)
(* a word.                                                                 *)
Viable(b) == \A n \in 0..Len(b) : States(b)[n].expect # "wrong"
=============================================================================
