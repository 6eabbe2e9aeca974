------------------------------ MODULE MCInbound ------------------------------
(* Nine scenes: the tables of originators, last hops and destinations      *)
(* under pressure, newcomers after the warm-up, nodes that share a relay    *)
(* byte, requests to this node with their copies, a write repeated beyond   *)
(* the history's window, the node's own broadcasts and settings, and        *)
(* traceroutes.                                                             *)
EXTENDS Inbound

MCLow(n) == IF n \in {"a", "b", "c"} THEN 1 ELSE 2
MCTrip == [k \in {"text", "routing", "other", "unknown"} |-> 2]
MCPeriod == [k \in {"info", "telemetry", "position"} |-> 2]

NoLeg == [way |-> << >>, snr |-> << >>]
Packet == [id |-> 0, from |-> "a", to |-> Broadcast, dest |-> NoNode, port |-> "telemetry", enc |-> "channel",
           ask |-> FALSE, ack |-> FALSE, ref |-> FALSE, read |-> FALSE, dfu |-> FALSE,
           key |-> "ka", candidate |-> FALSE, air |-> 1, util |-> 0, public |-> TRUE,
           rd |-> [leg \in {"out", "back"} |-> NoLeg]]
Direct == [byte |-> 0, signal |-> 1, snr |-> 1, start |-> HopLimit, limit |-> HopLimit, used |-> 0, known |-> TRUE,
           named |-> FALSE]
Scene == [packets |-> {}, via |-> {Direct}, way |-> <<"b", "c">>, lastHops |-> {"b"},
          adminKeys |-> << >>, fixed |-> FALSE, acts |-> {},
          proximity |-> [n \in Nodes |-> [in |-> n \in {"a", "b"}, hops |-> 1]],
          start |-> Clock - 2, last |-> 4, frames |-> 6]

Unnamed == [Direct EXCEPT !.byte = 7, !.signal = 0, !.limit = 1, !.used = 2]
Originators == [Scene EXCEPT
  !.packets = {[Packet EXCEPT !.from = n] : n \in {"a", "c", "d"}} \cup {[Packet EXCEPT !.enc = "garbage"]},
  !.via = {Unnamed}, !.last = 3]
LastHops == [Scene EXCEPT
  !.packets = {[Packet EXCEPT !.candidate = TRUE, !.from = n] : n \in {"a", "d"}}
              \cup {[Packet EXCEPT !.candidate = TRUE, !.util = 50]},
  !.via = {Direct, Unnamed, [Unnamed EXCEPT !.byte = 1, !.signal = 2]}, !.start = 0, !.last = 3, !.frames = 4]
Destinations == [Scene EXCEPT
  !.packets = {[Packet EXCEPT !.from = n, !.to = t, !.candidate = TRUE, !.port = "position"] :
                 n \in {"a", "b"}, t \in {"c", "d"}},
  !.via = {Unnamed}, !.last = 3, !.frames = 5]
Newcomers == [Scene EXCEPT !.packets = {[Packet EXCEPT !.from = n] : n \in Nodes},
  !.via = {Unnamed}, !.last = 5, !.frames = 4]
SharedByte == [Scene EXCEPT
  !.packets = {[Packet EXCEPT !.from = n, !.to = Me, !.port = "text"] : n \in Nodes},
  !.acts = {"maintain", "forget"}, !.last = 3, !.frames = 4]

Request == [Packet EXCEPT !.to = Me, !.from = "a", !.ack = TRUE, !.id = 1]
Requests == [Scene EXCEPT
  !.packets = {[Request EXCEPT !.port = "admin", !.enc = "kb"],
               [Request EXCEPT !.id = 2, !.port = "text"],
               [Request EXCEPT !.id = 3, !.port = "admin", !.enc = "kb", !.read = TRUE],
               [Request EXCEPT !.id = 4, !.port = "text", !.enc = "ka", !.ref = TRUE, !.dfu = TRUE],
               [Request EXCEPT !.id = 5, !.port = "traceroute", !.ask = TRUE],
               [Packet EXCEPT !.port = "nodeinfo"],
               [Packet EXCEPT !.port = "nodeinfo", !.ask = TRUE, !.from = "b"]},
  !.via = {Direct, Unnamed, [Unnamed EXCEPT !.start = 0, !.limit = 0, !.used = 0, !.known = FALSE],
            [Unnamed EXCEPT !.start = 0, !.used = 0]},
  !.lastHops = {"a"}, !.adminKeys = <<"kb">>,
  !.acts = {"poll"}, !.last = 1, !.frames = 3]
Repeats == [Scene EXCEPT
  !.packets = {[Request EXCEPT !.port = "admin", !.enc = "kb"],
               [Request EXCEPT !.id = 2, !.port = "admin", !.enc = "kb"],
               [Packet EXCEPT !.port = "nodeinfo", !.ask = TRUE, !.from = "b", !.to = "c", !.dest = Me]},
  !.adminKeys = <<"kb">>, !.last = 0, !.frames = 6]
Chores == [Scene EXCEPT
  !.packets = {[Packet EXCEPT !.port = "nodeinfo", !.ask = TRUE, !.from = n] : n \in {"a", "b"}}
              \cup {[Request EXCEPT !.port = "text", !.enc = "kb", !.dfu = TRUE]},
  !.adminKeys = <<"kb">>, !.fixed = TRUE,
  !.acts = {"maintain", "poll", "reconfigure"}, !.last = 2, !.frames = 2]

(* A traceroute that came over b and c, of which some wrote their entry, on *)
(* its way out or back.                                                     *)
Ways == {<< >>, <<"b">>, <<"b", "c">>, <<NoNode, "c">>}
Legs == {[way |-> w, snr |-> [i \in DOMAIN w |-> IF w[i] = NoNode THEN -128 ELSE t[i]]] :
           w \in Ways, t \in [1..2 -> {-1, 1}]}
There(snr) == [way |-> <<"d", "b">>, snr |-> <<snr, snr, 1>>]
Trace == [Packet EXCEPT !.port = "traceroute", !.id = 1]
Ends == {[Trace EXCEPT !.to = Me, !.ask = TRUE, !.ack = TRUE],
         [Trace EXCEPT !.to = "d", !.id = 0, !.candidate = TRUE]}
Traces == [Scene EXCEPT
  !.packets = {[e EXCEPT !.rd["out"] = l] : e \in Ends, l \in Legs}
              \cup {[e EXCEPT !.ref = TRUE, !.id = 2 * @, !.rd = [out |-> There(snr), back |-> l]] :
                      e \in Ends, l \in Legs, snr \in {-1, 1}},
  !.via = {[Unnamed EXCEPT !.snr = snr, !.named = n] : snr \in {-1, 1}, n \in BOOLEAN},
  !.last = 0, !.frames = 1]

MCScenes == {Originators, LastHops, Destinations, Newcomers, SharedByte, Requests, Repeats, Chores, Traces}
=============================================================================
