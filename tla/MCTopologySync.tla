--------------------------- MODULE MCTopologySync ---------------------------
(* We are node 1, the publisher is node 2; it lists us and node 3, one to a packet. *)
EXTENDS TopologySync

Whole == {[more |-> FALSE, cont |-> FALSE, idx |-> 0]}
SomeLists == {<<3>>, <<1, 3>>, <<3, 1>>}
WithEmpty == {<<>>, <<1, 3>>}
=============================================================================
