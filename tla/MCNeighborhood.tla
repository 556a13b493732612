--------------------------- MODULE MCNeighborhood ---------------------------
(* A neighborhood larger than a window, read along sealed pages that show some kinds of *)
(* relations only: ann and dan are in the first post, the others in the second; all but *)
(* eve work for one firm, she for its parent.                                           *)
EXTENDS NeighborhoodPages

Works == [q \in Persons |-> IF q = "eve" THEN "top" ELSE "sub"]
Holds == [f \in Firms |-> IF f = "sub" THEN "top" ELSE NoNode]
Alphabet == <<"ann", "ben", "cas", "dan", "eve", "p1", "p2", "sub", "top">>
NameOrder == [n \in Nodes |-> CHOOSE i \in 1 .. 9 : Alphabet[i] = n]
KindKey(f) ==
    100 * (CASE f.kind = "affiliation" -> 1 [] f.kind = "mention" -> 2 [] f.kind = "broader" -> 3)
        + 10 * NameOrder[f.from] + NameOrder[f.to]
KindOrder == [f \in Shown |-> Cardinality({g \in Shown : KindKey(g) <= KindKey(f)})]

NeighborhoodInit ==
    /\ PagesInit
    /\ readable = Posts
    /\ mentioned = {[kind |-> "mention", from |-> q, to |-> IF q \in {"ann", "dan"} THEN "p1" ELSE "p2"] :
                        q \in Persons}
NeighborhoodSpec == NeighborhoodInit /\ [][PagesNext]_pageVars
=============================================================================
