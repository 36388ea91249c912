-------------------------------- MODULE Order -------------------------------
(* Sorting.  What a collector sorts has no ties: its keys end with one     *)
(* that tells any two elements apart.                                      *)
EXTENDS Naturals, FiniteSets

(* The elements of a finite set, in a strict total order.                  *)
InOrder(S, Before(_, _)) ==
    CHOOSE s \in [1..Cardinality(S) -> S] :
        \A i, j \in DOMAIN s : i < j => Before(s[i], s[j])

(* The elements of a sequence that meet a condition, in their order.       *)
Selected(s, Test(_)) ==
    LET places == InOrder({i \in DOMAIN s : Test(s[i])}, LAMBDA i, j : i < j)
    IN  [n \in DOMAIN places |-> s[places[n]]]
=============================================================================
