--------------------------- MODULE MCJsonReaders ---------------------------
(* An instance of JsonReaders for TLC.  The bodies are every sequence of   *)
(* up to MaxRaw tokens, and every document whole, cut off, with one token  *)
(* missing, with one closer swapped and with a space somewhere.            *)
EXTENDS JsonReaders

CONSTANT MaxRaw

MCContents == "'k'" :> <<"k">> @@ "''" :> <<>>

(* Viable is what it says: every document cut anywhere, and every body of  *)
(* up to MaxRaw tokens that a document begins with.                        *)
ASSUME ViableAssumption ==
    /\ \A b \in Cuts : Viable(b)
    /\ \A b \in UNION {[1..n -> Tokens \ (Bad \cup {Quote, Space})] : n \in 0..MaxRaw} :
          Viable(b) <=> b \in Cuts

Swapped(t) == CASE t = CloseObject -> CloseArray [] t = CloseArray -> CloseObject [] OTHER -> t

MCBodies ==
    {b \in UNION {[1..n -> Tokens] : n \in 0..MaxRaw} :
        \A m, n \in DOMAIN b : m < n /\ b[m] = Quote => b[n] \notin Quoted \cup {Quote}}
      \cup UNION {{SubSeq(b, 1, n) : n \in 0..Len(b)}
                    \cup {RemoveAt(b, n) : n \in 1..Len(b)}
                    \cup {InsertAt(b, n, Space) : n \in 1..Len(b)}
                    \cup {[b EXCEPT ![n] = Swapped(@)] : n \in 1..Len(b)} :
                     b \in {d.tokens : d \in Docs}}
=============================================================================
