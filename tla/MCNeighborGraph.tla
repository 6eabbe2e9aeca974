--------------------------- MODULE MCNeighborGraph ---------------------------
(* The neighbor graph of node 1; 2 and 3 are other nodes, 93 is the placeholder *)
(* for a relay with the byte of 3.                                              *)
EXTENDS NeighborGraph

Whole == {[more |-> FALSE, cont |-> FALSE, idx |-> 0]}
Chunked == Whole \cup {[more |-> TRUE, cont |-> FALSE, idx |-> 0],
                       [more |-> FALSE, cont |-> TRUE, idx |-> 1]}
=============================================================================
