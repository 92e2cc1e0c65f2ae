---------------------------- MODULE Reachability ----------------------------
(* Breadth-first search, the way every search over a road network is made. *)
EXTENDS Naturals

(* What is reached from first in so many rounds of next, a function. *)
Reached(first, next, rounds) ==
    LET search[k \in Nat] ==
            IF k = 0 THEN [seen |-> first, queue |-> first]
            ELSE LET before == search[k - 1]
                     new == (UNION {next[x] : x \in before.queue}) \ before.seen
                 IN  [seen |-> before.seen \cup new, queue |-> new]
    IN  search[rounds].seen
=============================================================================
