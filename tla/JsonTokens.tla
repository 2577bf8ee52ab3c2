----------------------------- MODULE JsonTokens -----------------------------
(***************************************************************************)
(* What a body is made of, for the two readers and for the grammar.  A     *)
(* quoted string is one token, and Contents is the text unescape makes of  *)
(* it; a text is a sequence of words, <<>> when it is empty.               *)
(***************************************************************************)
EXTENDS Naturals, Sequences, SequencesExt, FiniteSets, FiniteSetsExt, TLC

CONSTANTS
    Quoted,       (* strings, with their quotes                            *)
    Contents,     (* the text of each                                      *)
    Good, Bad     (* words: true, false, null, numbers; and what is none   *)

OpenObject  == "{"
CloseObject == "}"
OpenArray   == "["
CloseArray  == "]"
Comma       == ","
Colon       == ":"
Space       == "space"
Quote       == "quote"        (* a quote that nothing closes               *)

Marks  == {OpenObject, CloseObject, OpenArray, CloseArray, Comma, Colon, Space, Quote}
Words  == Good \cup Bad
Tokens == Marks \cup Quoted \cup Words

(* A token is a mark, a string or a word, and one of them only.            *)
ASSUME TokenAssumption ==
    /\ DOMAIN Contents = Quoted
    /\ Marks \cap Quoted = {} /\ Marks \cap Words = {} /\ Quoted \cap Words = {}

(* Value of core/utils.cpp: Value{}, and one that is a text.               *)
Empty     == [kind |-> "text", s |-> <<>>, o |-> <<>>, order |-> <<>>, a |-> <<>>]
TextOf(s) == [Empty EXCEPT !.s = s]
=============================================================================
