----------------------------- MODULE MCNodeAdmin -----------------------------
(* Two presets, of which "slow" has the higher telemetry floor, and two     *)
(* roles, of which "router" has the higher position floor.  The flash is    *)
(* empty or holds a record of older firmware, one of them with a position   *)
(* interval below the floor of its role.                                    *)
EXTENDS NodeAdmin

CONSTANTS fast, slow, client, router, key, nokey

MCMinInterval == [l \in Loras |-> IF l = slow THEN 2 ELSE 1]
MCPosFloor == [r \in Roles |-> IF r = router THEN 2 ELSE 1]
MCFirst == [lora |-> fast, interval |-> 0, role |-> client, pos |-> 0, fixed |-> FALSE,
            coords |-> None, keys |-> nokey, short |-> DefaultName, long |-> DefaultName]
MCIds == (1..MaxBoots) \cup {Legacy}
MCFlash == {None, [id |-> Legacy, set |-> MCFirst],
            [id |-> Legacy, set |-> [MCFirst EXCEPT !.role = router, !.pos = 1]]} \cap (Records \cup {None})
=============================================================================
