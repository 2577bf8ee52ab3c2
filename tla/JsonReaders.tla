---------------------------- MODULE JsonReaders ----------------------------
(***************************************************************************)
(* The lenient reader (JsonRead) on well-formed, truncated and damaged     *)
(* bodies, against the grammar (JsonGrammar), and the strict one (CtJson)  *)
(* on the same bodies.                                                     *)
(***************************************************************************)
EXTENDS JsonFind, JsonGrammar, JsonPrefix, CtJson

NoSpaces(b) == SelectSeq(b, LAMBDA t : t # Space)

(* The documents that this body is, with or without spaces: one or none.   *)
Written(b) ==
    LET t == NoSpaces(b)
    IN  IF Len(t) \in 1..MaxLength THEN {d \in Rows[Len(t)].docs : d.tokens = t} ELSE {}

(* Documents cut off somewhere                                             *)
Cuts == UNION {{SubSeq(d.tokens, 1, n) : n \in 0..Len(d.tokens)} : d \in Docs}

-----------------------------------------------------------------------------
(* An array or object with nothing but a space in it: parse looks for the  *)
(* closer before it skips spaces, so it reads one empty element there, or  *)
(* one member with an empty name.                                          *)
BlankPair(b) ==
    \E n \in 1..(Len(b) - 2) : /\ b[n] \in {OpenObject, OpenArray}
                               /\ b[n + 1] = Space /\ b[n + 2] \in {CloseObject, CloseArray}

(* What parse makes of a well-formed document is what the grammar says: no *)
(* member or element is lost, doubled, or given to another parent, and the *)
(* whole body is used.  Only a blank pair is read as one thing too many.   *)
ReadsWellFormed ==
    pc = "done" =>
       \A d \in Written(body) :
          /\ NoSpaces(SubSeq(body, i, Len(body))) = <<>>
          /\ value = d.value <=> ~BlankPair(body)

(* If one thing in a well-formed document has this name, json_get_str      *)
(* finds it, however deep it is and whatever comes before it.              *)
FindsTheOnlyOne ==
    pc = "done" =>
       \A d \in Written(body) : \A q \in Quoted :
          LET named == SelectSeq(d.members, LAMBDA m : m.name = Contents[q])
          IN  Len(named) = 1 => JsonGetStr(Contents[q]) = named[1].value.s

(* The strict reader accepts the well-formed arrays, all of them and       *)
(* nothing else, and counts their elements: what is cut off, has a comma   *)
(* too many, closes with the wrong bracket or has something after its end  *)
(* is no answer.  This is asked of every body, also of those the lenient   *)
(* reader never has done with.                                             *)
StrictExact ==
    LET r      == TopLevelArraySize(body)
        arrays == {d \in Written(body) : d.value.kind = "array"}
    IN  /\ r.ok <=> arrays # {}
        /\ r.ok => \A d \in arrays : r.count = Len(d.value.a)

(* Reading a body ends if it has the shape of a document, whole or cut off *)
(* anywhere: by the size limit, or by geo_ipapi_is, which reads the asn    *)
(* block as far as its first closing brace.                                *)
TruncatedReturns == Viable(body) ~> pc = "done"
=============================================================================
