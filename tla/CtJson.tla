------------------------------- MODULE CtJson -------------------------------
(***************************************************************************)
(* The strict JSON reader of analysis/ct_check.cpp, which counts the       *)
(* entries of a certificate-transparency answer.  Each operator takes the  *)
(* position it starts at and gives the one after what it read, or Fail.    *)
(***************************************************************************)
EXTENDS JsonTokens

Fail == 0

RECURSIVE SkipWs(_, _)
SkipWs(s, i) == IF i <= Len(s) /\ s[i] = Space THEN SkipWs(s, i + 1) ELSE i

Is(s, i, t) == i # Fail /\ i <= Len(s) /\ s[i] = t

ParseString(s, i) == IF i # Fail /\ i <= Len(s) /\ s[i] \in Quoted THEN i + 1 ELSE Fail

RECURSIVE ParseValue(_, _), ObjectRest(_, _), ArrayRest(_, _, _)

(* parse_object, from the opening brace                                    *)
ParseObject(s, i) ==
    LET j == SkipWs(s, i + 1) IN IF Is(s, j, CloseObject) THEN j + 1 ELSE ObjectRest(s, j)

ObjectRest(s, i) ==
    LET name  == ParseString(s, i)
        colon == IF name = Fail THEN Fail ELSE SkipWs(s, name)
        val   == IF Is(s, colon, Colon) THEN ParseValue(s, colon + 1) ELSE Fail
        next  == IF val = Fail THEN Fail ELSE SkipWs(s, val)
    IN  CASE Is(s, next, CloseObject) -> next + 1
          [] Is(s, next, Comma)       -> ObjectRest(s, SkipWs(s, next + 1))
          [] OTHER                    -> Fail

(* parse_array, from the opening bracket; count is the items               *)
ParseArray(s, i) ==
    LET j == SkipWs(s, i + 1)
    IN  IF Is(s, j, CloseArray) THEN [after |-> j + 1, count |-> 0] ELSE ArrayRest(s, j, 0)

(* (fault: either closer ends an array)                                    *)
ArrayRestEitherCloser(s, i, items) ==
    LET val  == ParseValue(s, i)
        next == IF val = Fail THEN Fail ELSE SkipWs(s, val)
    IN  CASE Is(s, next, CloseArray) \/ Is(s, next, CloseObject) ->
                                       [after |-> next + 1, count |-> items + 1]
          [] Is(s, next, Comma)     -> ArrayRest(s, SkipWs(s, next + 1), items + 1)
          [] OTHER                  -> [after |-> Fail, count |-> 0]

ArrayRest(s, i, items) ==
    LET val  == ParseValue(s, i)
        next == IF val = Fail THEN Fail ELSE SkipWs(s, val)
    IN  CASE Is(s, next, CloseArray) -> [after |-> next + 1, count |-> items + 1]
          [] Is(s, next, Comma)      -> ArrayRest(s, SkipWs(s, next + 1), items + 1)
          [] OTHER                   -> [after |-> Fail, count |-> 0]

ParseValue(s, i) ==
    LET j == SkipWs(s, i)
    IN  CASE j > Len(s)        -> Fail
          [] s[j] \in Quoted   -> ParseString(s, j)
          [] s[j] = OpenObject -> ParseObject(s, j)
          [] s[j] = OpenArray  -> ParseArray(s, j).after
          [] s[j] \in Good     -> j + 1
          [] OTHER             -> Fail

(* parse_top_level_array_size: nothing but spaces around the array         *)
TopLevelArraySize(s) ==
    LET j == SkipWs(s, 1)
        r == IF Is(s, j, OpenArray) THEN ParseArray(s, j) ELSE [after |-> Fail, count |-> 0]
    IN  [ok    |-> r.after # Fail /\ SkipWs(s, r.after) = Len(s) + 1,
         count |-> r.count]
=============================================================================
