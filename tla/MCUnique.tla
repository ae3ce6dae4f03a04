------------------------------- MODULE MCUnique --------------------------------
(* Two goroutines and every list of up to three members, with NaN among    *)
(* the scalars and something that is not bytes among the bytes.            *)
EXTENDS Unique

CONSTANTS a, b, g1, g2, m1, m2, m3

MCLists ==
    [scalar |-> UNION {[1 .. n -> {a, NaN}] : n \in 0 .. 3} \cup {<<b, a, b>>},
     bytes |-> UNION {[1 .. n -> {a, Strange}] : n \in 0 .. 2}
                  \cup {<<a, b, Strange>>, <<a, b, a>>, <<a, Strange, a>>}]
==============================================================================
