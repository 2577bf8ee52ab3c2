------------------------------ MODULE JsonFind ------------------------------
(***************************************************************************)
(* What json_get_str of core/utils.cpp looks for in the value parse has    *)
(* returned: find_key, which calls itself on the members and elements.     *)
(***************************************************************************)
EXTENDS JsonRead

(* (fault: the first of the inner searches decides)                        *)
FirstInner(texts) == IF texts = <<>> THEN <<>> ELSE Head(texts)

(* The first of the inner searches that found a text, <<>> if none did     *)
FirstFound(texts) ==
    LET found == SelectSeq(texts, LAMBDA s : s # <<>>)
    IN  IF found = <<>> THEN <<>> ELSE Head(found)

(* find_key: the member of this object, else what is found in the members  *)
(* in their order, or in the elements.                                     *)
RECURSIVE FindKey(_, _)
FindKey(v, key) ==
    IF key \in DOMAIN v.o THEN v.o[key].s
    ELSE LET inner == IF v.kind = "object" THEN [n \in DOMAIN v.order |-> v.o[v.order[n]]]
                                           ELSE v.a
         IN  FirstFound([n \in DOMAIN inner |-> FindKey(inner[n], key)])

(* json_get_str, once parse has returned                                   *)
JsonGetStr(key) == FindKey(value, key)
=============================================================================
