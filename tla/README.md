# Meshrustic: a verification project in TLA+

Meshrustic is the firmware of a LoRa mesh node: it receives, relays and
originates packets of a Meshtastic-compatible mesh on an nRF52840 with an SX1262
radio. This directory holds TLA+ models of its core logic, configurations that
check them with TLC, and theorems about them that TLAPS checks.

Contents: 1 inventory, 2 modules and the code they model, 3 runs, 4 bounds and
fairness, 5 proofs, 6 disagreements found, 7 what is not modelled, 8 plan.

## 1. Inventory

The board (`src/boards/nrf52840`) runs a handful of cooperative tasks. One of
them, the radio loop, owns the router, the radio and the configuration, so that
nothing in the core is shared between threads. What is hard is not data races
but *order*: what the radio driver answers and when, which timer is due in which
pass, what a received frame cancels while an earlier decision about the same
packet is already queued, on the air or half reported, and where the power fails.

| component | state | operations | talks to | hard behaviour | what makes it correct |
|---|---|---|---|---|---|
| radio slot `mesh-radio/slot.rs`, `queue.rs` | transmit and receive ring, frame in flight, failed key, owed restart | `service`, `enqueue_tx`, `remove_tx`, `take_tx_failure` | driver below, radio loop above | any driver call may fail half way through `service` | no frame lost, doubled, reordered, aired after its cancellation or ahead of an unprocessed reception |
| driver `sx1262.rs` | chip mode, deadline | `start_send`, `poll_tx`, `poll_recv`, `start_rx` | chip by SPI and an interrupt | unknown outcome of a transmission | its contract towards the slot |
| radio loop `radio_task.rs` | retry counters, reboot and DFU timers | polls, recheck, service, receptions, cancels, completion, persist | all | order inside a pass | every outcome reaches the router |
| router, transmit side `router.rs`, `reliable.rs` | pending relays, reliable slots, T1 slots, cancels | `evaluate_tx_plan`, `poll_*`, `note_tx_*`, duplicate and reply handling | graph, history, pool, loop | five tables describe one packet and are updated by different events | bounded attempts, no attempt after an answer, every slot comes back |
| router, receive side `router.rs` | reply context, waiting answers, key-trial budget | `process_inbound`, `decode_payload`, `poll_*` | all | copies, answers that overwrite each other, state kept between decoding and answering | a write runs once, an answer can be read and arrives |
| neighbor graph `neighbor_graph.rs`, `graph/*` | edges, downstream table, signals, versions of lists, commits, own transmissions | observe, merge, age, commit, cancel, next hop | router | lists in chunks, restarts of publishers, full tables, stale caches | neighbours kept, links retracted only on evidence, cheapest routes |
| relay election `broadcast_relay.rs`, `unicast_relay.rs`, `coordinated_relay.rs` | none (functions of the graph) | ranking, slot delay | router | nodes with different views | someone relays, few relay twice |
| packet history, pool `packet_history.rs`, `pool.rs` | ring of seen packets, handles | observe, alloc, release | router | eviction, stale handles | no duplicate inside the window, no use after release |
| rate limit, QoS `rate_limit.rs`, `qos.rs` | buckets, windows | admit | router | wrap of the clock, full tables | the limit holds in every window |
| channel access, airtime `channel_access.rs`, `airtime.rs` | backoff, duty-cycle ledger | `may_tx`, `note_*` | slot, loop | stale backoff | the duty cycle |
| configuration journal `mesh-store/journal.rs`, `layout.rs` | two flash pages | `load`, `save` | flash, boot, loop | power failure at every step, wrap of the generation | a save is atomic and durable |
| boot and persistence `main.rs`, `store.rs`, `radio_task.rs` | configuration in memory, dirty flag | load, first boot, persist, reboot, DFU | journal, admin | reboot or error while a change is unsaved | identity kept, accepted change not lost |
| administration `admin.rs`, `admin_codec.rs` | session keys, deferred effects | get, set, reboot | router, store | replies racing a reboot, stale sessions | only authorised changes |
| originated traffic and traceroute `nodeinfo.rs`, `position.rs`, `telemetry.rs`, `traceroute.rs`, `topology.rs` | schedules | poll, note sent, rewrite a route | router | schedules against a busy queue; routes with gaps | bounded rate, a route that tells the way |
| capability, relay identity, hop health | per-peer records | note, age | router, graph | ambiguous last byte of a relay | no peer misread |
| codecs and cryptography `mesh-protocol`, `mesh-crypto` | none | encode, decode, seal, open | router | none that a model reaches | round trip |
| USB console `usb/*` | none | print, parse | loop | none | none |

The list of hazards, each at its line and with the properties aimed at it, is in
`PROJECT.json`.

## 2. Modules and the code they model

| module | models | role |
|---|---|---|
| `RadioSlot` | `slot.rs`, `queue.rs`, the answers of `sx1262.rs` | the slot's state and every operation on it |
| `RadioSlotSpec` | callers of the slot | the slot under any caller, with history variables, and its properties |
| `SlotLemmas` | | what each operation does to the slot and its queues, used by the next and by `TxPathProofs` |
| `RadioSlotProofs` | | theorems about `RadioSlotSpec` |
| `RouterTx` | `router.rs`, `reliable.rs`, commits of `neighbor_graph.rs` | the router's transmit bookkeeping as operators on one record |
| `TxPath` | `radio_task.rs` | composes `RadioSlot` and `RouterTx` under the radio loop |
| `TxPathProofs` | | theorems about `TxPath` |
| `ConfigStore` | | what a configuration store promises: an atomic save |
| `ConfigJournal` | `journal.rs`, `layout.rs` | the two-page journal, with the refinement to `ConfigStore` |
| `ConfigJournalProofs` | | theorems about `ConfigJournal` |
| `NodeAdmin` | `admin.rs`, its outcomes in `router.rs`, save, restart and reset in `radio_task.rs`, boot in `main.rs` | the settings from the administrator to the flash and back |
| `NodeAdminProofs` | | theorems about `NodeAdmin` |
| `GraphStore` | `graph/edge.rs`, `graph/downstream.rs`, `capability.rs` | the tables of the neighbor graph as operators on one record |
| `Routes` | `graph/route.rs`, `graph/etx.rs`, `hop_health.rs` | prices, coverage, owners, the search for a route, the route cache |
| `NeighborGraph` | `neighbor_graph.rs` | the graph of one node, one action per operation the router calls |
| `TopologySync` | publishing in `router.rs`, `topology.rs` | composes a publisher, the packets on the air and `NeighborGraph` |
| `GraphProofs` | | theorems about `NeighborGraph` and `TopologySync` |
| `RelayPlan` | `broadcast_relay.rs`, `relay_window.rs`, coverage in `neighbor_graph.rs` | who relays a broadcast, as one node decides it |
| `UnicastPlan` | `unicast_relay.rs`, the unicast part of `evaluate_tx_plan` | the same for a unicast |
| `Mesh` | `process_inbound`, `evaluate_tx_plan`, `packet_history.rs` on every node | composes `UnicastPlan` and `RouterTx` on every node of a small mesh |
| `RateLimit` | `rate_limit.rs`, `qos.rs` | the rate limiter as operators on one record |
| `RelayIdentity` | `relay_identity.rs` | which node a relay byte stands for |
| `TraceRoute` | `traceroute.rs`, `routing_ack.rs` | the rewrite of a route, the hops of an answer |
| `Inbound` | the receive side of `router.rs`, `nodeinfo.rs` | composes the last three under `process_inbound` |
| `InboundProofs` | | theorems about answers, writes, routes and relay bytes in `Inbound` |
| `LimiterProofs` | | theorems about the rate limiter in `Inbound` |
| `MC*` | | constants for TLC |

Names follow the source; the line ranges are in the `map` of `PROJECT.json`.
Operators whose name begins with `Faulty` are the preceding or following
definition with a plausible bug in it: substituted for the real one they make a
property fail, which shows that the property can fail. No specification uses
them.

**RadioSlot.** `service()` is a straight-line function of one task, so one call
is one step; its early returns are the disjuncts of `Service`. `Beginnings`
collects the three ways to reach the receive loop (a completion, a successful
owed restart, nothing owed), after which a call ends in one of: an error of
`poll_recv`, no transmission, an error of `rx_in_progress`, a started
transmission (certain or not), a transmission that did not start and whose frame
goes back to the front. The driver chooses among its answers freely, restricted
by its own state (`mode`): a chip that does not listen receives nothing. The ring
buffers are sequences with the rings' capacities; `remove_where` is an
order-preserving filter. The rejection of an over-long frame is left out, as
`TxFrame::new` bounds the length.

**RadioSlotSpec.** Adds what the properties speak about: the number of each
accepted frame, what was aired in which order, what the caller was told, when a
key was last cancelled, how many frames were received and handed on.

**RouterTx.** Five tables of the router describe one packet: pending relays,
relay commits, the record of own transmissions, reliable slots and T1 insurance
slots, with the list of cancellations for the radio queue. Each handler is a
composition of small operators on the record `r`; a handler whose outcome
depends on topology, role or rate limit is the set of its outcomes. Timers carry
no values: what is armed may be due at any time. A reply is represented by the
packet it names. Left out: the branch of `evaluate_tx_plan` for a delay of zero
(the tie-break adds at least a millisecond), `had_relay` in
`perhaps_cancel_dupe` (always false where it is read), the eviction of a packet
from the history by 64 others. The list of cancellations has room for eight and
never fills, as it is drained after every reception.

**TxPath.** `phase` is the place in the radio loop: polls and the recheck of the
queue's head before the service call, then the received frames one by one, each
followed by the cancellations it caused, and last the report of the completion.
The polls of several passes may come in any order. Acknowledgements,
administration replies, topology and other originated frames are `SendLocal`.
The first copy of an own packet that is heard is new to the packet history and
only the second is a duplicate, as in the code. `planned`, `aired`, `answered`
and `copyHeard` are history variables.

**ConfigJournal.** `save()` is a sequence of flash operations with a state
between any two of them. A page is represented by what `record()` returns for
it. An interrupted or failing erase leaves the old record or none, an
interrupted or failing write none or the new record; a write may report success
and still have spoilt the record. `encode`/`decode` normalise: `Decoded[c]` is
what comes back for `c`. Generations wrap at `2 * Half` (2^32 in the code).
That a half-written page fails its CRC-32 is assumed.

**NodeAdmin.** One action per administration request, in an open edit
(`BufferSet`) or outside it (`ApplySet`), with what `process_admin_rx` does
with the outcome. A lora value stands for the preset with hop limit, power and
MQTT flag; a session is valid or not, so that `Refuse` covers every request the
code answers with an error. A pass of the radio loop is resets at the `top`,
receptions (`rx`), radio restart and save (`end`). The flash is the atomic
store: a save that reports an error may have happened. `Boot` is `main()` up to
the start of the loop; the key pair is the number of the boot that drew it.
`acked`, `lastSave`, `requests`, `boots` and `faults` are history variables and
bounds; `acked` is the value a setting was acknowledged with and, once
`BeginEditSettings` in an open edit discarded it, the value it fell back to.

**GraphStore, Routes, NeighborGraph.** The tables are functions and sets with the
capacities of the arrays; where the code takes the first of equal entries the
model takes the smallest id, which loses nothing because every action ranges
over all ids. ETX is a small whole number and the price of a path saturates below
`NoPrice`, as the u16 of the code does; a signal is strong, fair, weak or no
reading. A tick of the clock is one topology period, and the clock may leap, so
that every lifetime can end. `MergeTopology` is `merge_topology` with its six
reasons to accept a version, the horizon, the assembly of chunks, the demotion
that waits and the retraction of unlisted links. `GetNextHop` is
`get_next_hop_inner` with everything it writes (cache, health, downstream).
The downstream table answers with the entries younger than `NEIGHBOR_TTL`
(`InForce`), to `calculate_route` with all it has, as there the code passes
`u32::MAX` for the age. A role is client, router, late, mute or lost
(`LOST_AND_FOUND`, which sends no topology and so observes no relayed packet).

**TopologySync.** One publisher whose list changes, is cut into packets, lost,
overtaken and begun anew by a restart. Directly heard is only the packet sent
last; others come by relays and at any time within the period.

**RelayPlan, UnicastPlan, Mesh.** The first two are pure: from a graph and what is
known of a packet they compute the plan. In `Mesh` every node has the graph that
the lists of its neighbors settle on, receives, plans, waits, cancels, insures
and sends; nodes that wait send in any order, which is more than slots and
channel access allow, and one node may fail at any time. Stock nodes are
external: they relay what they hear once, or not.

**RateLimit, RelayIdentity, TraceRoute, Inbound.** An arrival is decoded (channel
key, then admin keys and announced keys under the budget of trials), recognised
as a copy, charged to originator, last hop, destination and the shared budget of
young nodes, handed to its module, and answered or acknowledged; the radio loop
takes the answers from their slots. A packet for another node and one for us are
the actions `Transit` and `ForUs`. Relaying what is admitted is `Mesh`; what an
accepted admin request changes is `NodeAdmin`; the graph is here only the price
of each direct link. A *scene* fixes what the surroundings send, so that
separate concerns do not multiply: nine scenes share one specification. The
packet history is a ring of `HistorySize` (64 in the code): a packet for us or
in transit that it does not know overwrites its oldest entry. `seen.kept` records
what the cache of relay identities kept of each node heard straight: its entry,
only the overflow mark of a full bucket, or nothing.

## 3. Runs

| run | question | result |
|---|---|---|
| `RadioSlot` | Does the slot lose, double or reorder a frame, send ahead of a reception the router has not seen, air a cancelled frame, or stop listening unnoticed? Does every queued frame end? | No; it stops listening with no restart owed only when `poll_recv` itself fails. Every frame ends, under the fairness below. |
| `TxPath` | A relayed unicast, a relayed broadcast, an own unicast and an own broadcast with every interleaving of timers, receptions, radio errors and completions: are all attempts budgeted, does an answered packet stay quiet, does a heard copy stop the insurance? When does a reliable slot wait for ever? | The budget holds; a heard copy stops the insurance unless its slot was given to another packet while the frame was queued, which happens here; a slot is stranded only by a cancellation or a swallowed completion. |
| `TxPathLive` | Does an own reliable packet give its slot back? | Yes, unless stranded. |
| `ConfigJournal` | Is a save atomic and durable under power failures and flash errors at every step and across the wrap of the generation? | Yes: it refines `ConfigStore`. |
| `NodeAdmin` | Is an acknowledged setting ever lost by edits, refused commits or changes outside the edit; does the position floor follow the role; can a removed position still be sent? | Two are: `BeginEditSettings` in an open edit discards the values that wait in it, although they were acknowledged, and an owner name may be dropped (section 7). Otherwise none is; the floor holds; a removed position is not sent. |
| `NodeRestart` | Over power failures, requested resets, failing saves and failing radio restarts: is everything that is not marked unsaved stored, does a requested reset keep the settings, does the radio follow the settings and in the end run with them, do replies leave before it does? | Yes. Two exceptions are part of the properties: a failed save at boot is not repeated before the next change, and within five seconds of a failed save a reset may lose a change. |
| `Graph` | Is a neighbor we hear ever evicted for another node; is a hop stamped on a packet one we have a link with, also from the cache; does the search find the cheapest path? | Never; yes, except that a full table of nodes or a full list of our edges may leave a cached hop without its link (section 7); yes, as long as the ids fit the table of the search. |
| `TopologySync` | Can a lost, late or mixed chunk retract a link that the publisher lists? How often is a restarted publisher refused? | It cannot, unless the gathering of chunks began before a restart; at most once. |
| `Mesh` | Ten networks of our nodes and stock nodes, every packet, every order of transmissions, one failing node: does every neighbor get a broadcast, does its source hear a copy, are insurance copies told apart, does a unicast arrive? | Yes, with the exceptions named in the properties: neighbors without two-way links, stock leaves whose owner fails, replanned relays (section 6), a reply taken as an echo. |
| `MeshUpgrade` | Is a relay replanned for a better copy still sent? | No: section 6. |
| `Inbound` | Do the check at admission and the check before sending agree; does a ban outlive pressure on the tables; do minted ids share one budget; is a relay byte resolved to a node only when no other was heard; is an answer encrypted and budgeted so that it arrives; does a traceroute tell the way; does a write run once? | A relay byte may name a node although another was heard, if that one left only a mark of overflow that was pruned, or nothing because all buckets were taken; else it does not. A write runs again only after as many other packets as the history holds. The rest: yes; the budget of minted ids is one of packets that can be decoded. |
| `InboundAck` | Does a module reply replace the acknowledgement for a copy too? | No: section 6. |

The modules state more properties than the runs check: the type invariants of
`TxPath`, `ConfigJournal`, `NodeAdmin` (these three are proved),
`NeighborGraph` and `Inbound` (table sizes, one entry per node), and the sentences
of section 6 that the code does not keep. They can be put into the
configuration of their run, or checked with the configurations named there.

## 4. Bounds and fairness

`RadioSlot`: two keys, three frames to send through a ring of two, two received
ones through a ring of one. Two keys tell a
cancelled packet from a bystander; a frame more than the ring holds reaches a full
ring, a requeued frame with another behind it, and a cancellation with a frame
in flight and one queued. The theorems of section 5 hold for every size.

`TxPath`: tables of one or two entries, so that every table overflows and the
own broadcast takes over the insurance slot of the relayed one; two receptions, a
packet and its duplicate or a reply; one radio error. `NAMED_FOLLOWUP_TRIES` is the code's 2, so that a follow-up has an
ordinary try and a redirect; own packets have one retry (2 in the code).

`ConfigJournal`: `Half` is 3, six generations, which wrap many times; five
configurations cover the ways encode and decode treat one. The proofs hold for
every `Half` from 2 on.

`NodeAdmin`: five requests, which is a session, an edit, two settings and the
commit; two values of every setting the properties tell apart, three of the
position interval (unset, between the floors of the roles, above both). `NodeRestart`:
three requests (a session, a setting and a reset, in any order), two boots and
two faults, with fewer settings. An empty flash and two records of older firmware are the initial contents.

`Graph`: `NoPrice` is 40, so that a path over two weak links saturates; this node, two others and one placeholder with three rows in the node
table, so that the fourth id evicts; four operations with leaps of the clock
beyond every lifetime. Three ids give every shape of a route with one relay and
four operations a link, a second link, an event that ends one and the question.
`TopologySync`: lists of two nodes in packets of one, four lists, one restart,
two packets in the air, versions modulo 12 with a window of 2.

`Mesh`: chains, rings, diamonds, a triangle with tails, stock leaves and routers,
one-way links; four to five nodes, four hops, one packet of every kind from
every node, both parities of its id (ties are broken by it), one failure. All
orders of transmissions are explored, so the length of slots is no bound.

`Inbound`: tables of one or two entries against three or four nodes, windows of
two ticks on a clock of 16 that wraps during the run, three to six frames for a scene;
one bucket of relay bytes with two entries (so that a second byte finds it taken
and a third node of its byte overflows it) and a history of two packets,
which six frames overwrite.
The scenes are small because each needs few frames: a budget of two is tripped
by two packets, the third competes for the slot, the fourth tests the ban.
`RouteBytes` is 70 (128 in the code) so that a route of three hops with negative
signals does not fit.

Fairness. The radio loop never ends and makes every poll in every pass, hence
weak fairness of the steps behind the service call and strong fairness of polls
that need room in the queue. A transmission ends because `poll_tx` gives up at
its deadline. The rest is asked of the environment and named in the
specification: now and then the channel is free, the duty cycle open, and
`start_send` and `start_rx` succeed; in `NodeAdmin`, that queued replies are
sent, the five seconds after a failed save end, and a restart of the radio tried
for ever succeeds. Nothing is asked of receptions, requests or power.

`RadioSlotSpec`, `TxPath` and `ConfigJournal` may stop where they are bounded and
never deadlock; deadlock checking is on. In `NodeAdmin` it is off, as the power
may stay off when the boots are used up, and in the graph, mesh and receive
models, which end when the bounded events are used up or the packet has
travelled.

## 5. Proofs

`RadioSlotProofs` proves for every set of keys, every ring size and every number
of frames that the slot keeps its type (`TypeCorrect`), loses and reorders no
reception (`NoReceptionLost`), airs frames in order and at most once
(`AiringInOrder`), holds every accepted frame in exactly one place until it is
settled (`NoFrameLostOrDoubled`), starts no transmission while the router has a
reception to see (`RouterSeesRxFirst`), airs no copy that a cancellation
found queued (`CancelHolds`) and, apart from an error of the chip, never stops
listening without owing the restart of reception (`NeverSilentlyDeaf`). None of the invariants is inductive alone: that
airing is in order needs that the queue and the frame in flight are numbered
above everything aired, and that frames are in one place needs that open frames
are exactly the held ones. The inductive invariant `IInv` is the conjunction
`TypeOK /\ ReceivedInOrder /\ AiredInOrder /\ QueueInOrder /\ OpenAreHeld`; the
lemmas on `RemoveWhere` say that filtering keeps order and length.

`ConfigJournalProofs` proves for every number of generations and every set of
configurations the journal's type, that the records have neighbouring
generations (`AlwaysNeighbours`), that a save never touches the newest record
(`NewestIsSpared`), that every step leaves the configuration a load returns or
makes it the one being saved (`IdentitySurvives`), that success means durable
(`SuccessIsDurable`), and that the journal implements the atomic store
(`JournalIsAtomic`). Inductive invariant:
`TypeOK /\ Neighbours /\ SparesNewest /\ SaveOnTrack`. Neighbouring generations
are what makes the comparison by wrapping subtraction meaningful; they stay so
because the page being written always follows the other one, which is
`SaveOnTrack`.

`NodeAdminProofs` proves every safety property of the runs `NodeAdmin` and
`NodeRestart` for every set of settings and any number of requests, boots and
faults. After the type (`TypeCorrect`, with `HasKey`: a running node has a key
pair) there are three groups, each inductive with what it needs:

* settings: an acknowledged setting is held unless its edit was begun again, and
  then is what it was before (`AckedAlwaysHeld`); the position
  floor (`PositionFloorHolds`), the waiting position (`NoStalePosition`). Needed
  beside them: nothing is buffered outside an edit (`BufferedInEdit`), and
  raising an interval to the floor twice is raising it once (`CoercePosFacts`);
* radio: no change is forgotten (`NoRadioChangeForgotten`), replies leave first
  (`RepliesLeaveFirst`). The first is not inductive; `RadioTracked` says that
  the wanted settings, or without any the running ones, are those in force and
  that a restart is asked for or due while any are wanted;
* flash: what is unsaved is known (`UnsavedIsKnown`), a requested reset keeps the
  settings (`ResetKeepsSettings`). The second follows from the first and
  `ArmedIsSaved`: where a reset may come, an unsaved change waits for the retry
  of a failed save. That an empty commit changes nothing (`EmptyCommit`) is used
  here.

`RequestEffect` states once what any request may do to radio and flash.

`TxPathProofs` proves for every set of packets, every size of the router's
tables and of the radio's rings, and any number of receptions and radio errors
that the tables keep their type and capacity (`PathTypes`), a packet is aired at
most as often as its attempts allow (`BudgetKept`), an answered packet is not
planned again (`AnsweredIsQuiet`), a heard copy stops the insurance of a broadcast
(`CopyStopsInsurance`) and a reliable slot waits for a completion that
cannot come only after a cancellation or a swallowed report (`StrandedTwoWays`).
The budget counts attempts *planned*, which no single table knows: the inductive
`PathInv` bounds by it what was aired, what is queued and what is left (`Left`: a
pending relay, the tries of a reliable slot, the armed insurance slots). It is preserved because every
handler either eases the router (`Eases`: promises no more than before) or
turns one unit of what is left into a planned frame. Beside it `PathInv` says
which packets each table may hold, that a completion reported is that of a
packet sent, and that an answered packet has neither pending relay nor slot.
For the insurance `InsuranceInv` relates the T1 slots that name a broadcast to its
frames in the queue, on the air and just reported: a broadcast is insured at most
once, because it is planned only when it is new or its relay still pending, and
then no slot names it and no frame of it is out; at most one slot names it; an
armed slot has no frame out and no copy was heard, a free slot has none in the
queue. So `cancel_t1_retransmit`, which stops at the first slot and pulls frames
only if that slot fired, never misses the frame of a slot that names the packet.

`InboundProofs` proves, for every scene that satisfies the assumptions and every
table size:

* `WriteRunsOnce`, `AnswersUsable`, `RoutesTellWay`. The inductive `BoxInv` says
  that everything in the outgoing slots is as the property wants it (`Honest`)
  and that what has run lies in the packet history at the place that the number of
  packets stored since then tells, as long as the ring is that long (`RanOnce`):
  a further copy is a duplicate until the ring was written over, whatever its
  size. The rest is about the operators: the hop
  limit of an answer is at least what the request took (`HopsEnough`),
  decoding with a key finds the packet's own (`DecodeFacts`), filling in unknown hops
  puts every name in its place;
* `ByteNamesOneNode`. The inductive `IdInv` relates the buckets of the cache to
  what was really heard (`Recalls`): a node heard within the lifetime of an
  entry is in the bucket of its byte, or the bucket is marked as overflowed since
  then, unless the node found all buckets taken or its mark was pruned. The
  clock wraps, so this is stated on unwrapped time and carried over by
  `now = At(scene, ticks)`.

`LimiterProofs` proves for every size of the limiter's tables, every budget and
every window:

* `QueueAgreesAlways`, from `LimInv`: each table holds a node at most once, no young
  node is among the alumni, and the last verdict is what `would_drop` says
  of it now. That a node is held once is what lets a charge and a later lookup
  speak of the same bucket, through every eviction;
* `BansHold`: a node that trips its budget is refused until its window ends.
  `BanInv` says that for every ban of the last window there is still a
  bucket in the table it belongs to that is limited and runs since then. It
  needs `LimInv`, and for every charge the fact that a limited bucket
  inside its window is never the one evicted: a charge evicts what is not
  limited or nothing (`EvictionCandidate`), and the prune removes only what
  has expired. The ban's age is again counted on unwrapped time;
* `MintedOneBudget`: within a window at most two budgets' worth of packets from
  nodes first heard after the warm-up is admitted, counting those that can be
  decoded. Two invariants are needed
  (`MintInv`). `AgeInv`: no newcomer is among the alumni and no entry of the young table
  is older than the node it stands for, so a newcomer is young in the
  limiter's eyes even when the table is full (`NewcomerPays`). `BudgetInv`: the
  admitted arrivals of the last window lie in the bucket's running window, where
  they are at most its count, or in the one before, where they were below the
  trip; a tripped bucket admits nothing (`Spent`). That the running window of the
  bucket can be placed on unwrapped time, also after it idled for several turns of the clock,
  is `WindowStart`.

`GraphProofs` proves what the three properties of the run `Graph` say, for every
set of nodes, every size of the tables, every price of a link and any number of
operations:

* `GraphInvariant`, the inductive `GraphInv`: no more rows and no more edges in a
  row than the arrays have, all between known ids; whoever we hear directly is a
  real node and of class L1 while it is in the graph; every cached route leads
  over a link of ours, or the tables are full (`CacheOk`); and so does the answer
  given last (`HopLinked`). Each operation on the tables is a lemma: what `Grown`
  says (links are only added, nodes of class L1 stay) for the observing ones,
  `Sound` for those that retract and empty the cache. The loops over sets
  of entries (the ids of a list, the rows to remove) go by `OneByOne`;
* `DirectKept`: a neighbor we hear stays while its link lasts. It follows from
  the second part of `GraphInv`: a victim of capacity is never of class L1, and
  a row that ages out is one that is not heard. The class alone or the link
  alone is not inductive: every operation that sets a class, a hint or an edge
  must keep the two together, also while several rows are removed at once;
* `StampedLinked`: a stamped hop is one we have a link with. A route computed now
  begins with such a hop because the search relaxes a row only over links
  (`ChainLinked`), one from the cache because of `CacheOk`;
* `SearchCheapest`: `SearchTable` finds, for every pair of ids, the price of the
  cheapest path, which `CheapestPath` defines by relaxing all links as often as
  there are ids. This is the correctness of Dijkstra's algorithm as the code
  runs it, with its table of rows and prices that saturate. The invariants of one
  `SearchStep`: a visited row is as cheap as every row that is not; a price is that
  of a path; what a visited row offers its neighbors has been offered
  (`SearchOptimal` combines them). Of the saturating sum the proof needs that a
  hop never makes a path cheaper, keeps the order of two prices and leaves apart
  whether there is a path (`PlusFacts`).

It also proves `RefusedAtMostOnce`: a publisher that begins to count anew is
refused at most once in a stretch of versions, with any number of lists, packets
and restarts. The inductive `VersionInv` says that the version refused last is
the one `merge_topology` keeps to recognise a restart (`RefusedIsHeld`), so
that the next list, which climbs from it, is taken; it also says that only
versions of the publisher are queued and on the air.

Induction is over numbers and finite sets, and the library's rules for it take
an operator as their parameter, which the provers cannot instantiate. The sets
in which a statement fails are written out instead: a set of naturals that is
not empty has a least element (`LeastNumber`, from `WFMin`), hence a set that
holds 0 and with each number the next one is `Nat` (`UpTo`), and a finite set
is reached from the empty one member by member (`OneByOne`).

The proofs assume only the named assumptions on constants, which TLC evaluates
in the runs. Sizes, budgets and windows are natural numbers (`RouterSizes`, `QueueSizes`,
`HopBudgets`, `GraphSizes`); the node named by a byte without an owner is a
placeholder (`PlaceholderIds`), and "no price" is above the coverage ceiling
(`PriceTypes`; 65535 and 700 in the code);
packets are finitely many and of one class each
(`PacketsFinite`, `PacketClasses`); frames carry them (`PathFrames`). `Clocks`
says that a lifetime or window is not longer than the clock's turn, as
ten minutes or an hour is of 2^32 ms. `SceneTimes` says that a scene ends before
the clock has turned once (it may well wrap): the latches `boot_warmed` and
`graduated`, which hold the ages beyond that, are not modelled. `Versions` is the type of the publisher's
numbers. `ScenePackets`, `SceneNodes` and `SceneTraces` are what the
surroundings do: copies of a packet are the same packet, a relayed one does not
hide its hops, relays before us write their own name or nobody's.

Model-checked only:

* liveness (`EveryFrameSettles`, `OwnReliableSettles`, `RadioCatchesUp`): fairness and `ENABLED` are beyond the prover;
* the properties of `Mesh` (`NobodyLeftOut`, `SourceAnswered`, `DistinctInsurance`,
  `Delivered`): they speak of given networks. Their exceptions are worded for
  those; for any network the question is whether elections that see different
  graphs agree, and they need not;
* `RetractsOnlyUnlisted`: it holds for the bounds of its run and not for all
  constants. A list that fills the publisher's edges evicts links it names.

## 6. Disagreements between the code and what is said of it

Two runs expect a violation:

* `MeshUpgrade`: the router records its own node as a transmitter of the packet
  when the relay is planned (router.rs:1981). Neither `cancel_relay`
  (neighbor_graph.rs:2015) nor the handling of a better copy (router.rs:4357)
  takes the record back, so the relay that is planned again counts the node as
  one that has already sent and is not sent. INTEROP_CONTRACT.md:516–520 says
  that a node with unique coverage owns a slot, which is given up only when a
  heard copy leaves nothing unique.
* `InboundAck`: the flag that a module answered is reset with every reception
  (router.rs:864). A repeated copy of a refused request of an administrator
  therefore gets a bare acknowledgement of success (router.rs:4521), although
  the first copy got an error. INTEROP_CONTRACT.md:219–220 says the reply of the
  module replaces the acknowledgement.

Further ones have a configuration of their own and are run by hand, with
`tlc -config X.cfg` and the module in brackets:

* `RadioSlotSwallow` (`MCRadioSlot`): when `poll_recv` fails in the service call
  in which a transmission completed, `?` drops the report (slot.rs:146). The
  router never learns that the frame was sent; a reliable slot that waits for it
  waits for ever.
* `TxPathFollowUp` (`MCTxPath`): a copy from a peer other than the nominated hop
  may pull the relay out of the radio queue. Its follow-up slot stays active and
  waits for a completion that cannot come (router.rs:4621;
  INTEROP_CONTRACT.md:494).
* `TxPathT1` (`MCTxPath`): a T1 slot that fired is reused while its frame is
  queued; a heard copy then no longer pulls the frame back (router.rs:4839;
  INTEROP_CONTRACT.md:652). `HeardCopyStopsT1` has this as its exception,
  `HeardCopyAlwaysStopsT1` has not.
* `NodeAdminFloor` (`MCNodeAdmin`): a change of the preset does not look at the
  telemetry interval in force, which may then lie below the floor of the new
  preset (admin.rs:810; INTEROP_CONTRACT.md:148).
* `NodeAdminAdvert` (`MCNodeAdmin`): the boot replaces the stored owner names in
  the advert by the synthesized ones (main.rs:269; the comment at router.rs:483).
* `MeshOwner` (`MCMesh`): of the nodes a stock leaf is heard by, only its owner keeps
  a relay for it; when the owner fails nobody backs it up
  (`unique_coverage_neighbor`, neighbor_graph.rs:2444–2492;
  INTEROP_CONTRACT.md:582–583).
* `TopologyEmpty` (`MCTopologySync`): only the list of a boot is spared; an
  empty list that is not one clears who hears the sender
  (neighbor_graph.rs:1459; INTEROP_CONTRACT.md:775–777).

## 7. Not modelled

Byte formats, cryptography, the USB console and register programming have no
protocol state to explore. A payload is what it decodes to, a cipher either
opens with the right key or does not. The radio bridge needs a second radio,
which the board does not have. The contents of telemetry, the ring of the
pool below its interface, and the milliseconds of backoff and airtime are left
out: the order of transmissions is free instead.

Two behaviours are in the models without a property of their own: a reply does
not pull a queued relay whose commit has expired (`ForeignReply`; compare the
comment at router.rs:4390), and in an edit a partial change of the owner is
merged with the live names, so that it drops the name an earlier request of the
same edit had set (`SetOwner`; admin.rs:630). Three more are exceptions that a
property names, because the code gives no more:

* `AckedIsHeld`: `BeginEditSettings` in an open edit empties the buffer
  (admin.rs:418–430), and with it settings that were acknowledged.
* `ByteNamesOne`: a bucket of relay identities whose entries have all expired is
  pruned with its mark of overflow (relay_identity.rs:102–116), and a byte that
  finds every bucket taken is not noted (relay_identity.rs:68–70). When one node
  of that byte is heard again, the byte names it although another was heard
  within the lifetime of an entry.
* `WritesRunOnce`: after 64 other packets (packet_history.rs:1) a repeated
  request is new again and runs again.

Read in the code while modelling, and worth knowing for whoever changes it:

* Graph. What takes a link away empties the route cache, except where a full
  table gives up an entry for a new one: the eviction in `find_or_create_node`
  (edge.rs:305) and the replaced edge of `observe_relay_gateway_signal`. A cached
  route may then name a hop without a link until it expires; a proof of
  `StampedHopLinked` without its exception fails at these two steps.
  The search for routes has 32 rows and a node may have 40 edges, so ids beyond
  the table are not reached. A direct packet that was lost and then heard through
  a relay retracts the direct link. Chunks gathered across a restart of their
  publisher may be mixed, and two old lists that arrive late but in order replace
  a newer one. A change of the preset resets the version of the own list and
  keeps the mark that one was sent (router.rs:611).
* Election. A link that a stock node has in one direction only is taken for two
  directions, and coverage is then overestimated. The own role of a router is
  never in the own table of capabilities (INTEROP_CONTRACT.md:527–529).
* Reception. When the budget for key trials is used up the packet is answered
  with an error and remembered as seen, so a retry of it is not processed
  (router.rs:1295–1302, 3756–3763). There is one slot for a waiting
  acknowledgement (router.rs:3789) and one for each kind of answer; a later one
  overwrites it. The cooldown of answers remembers the last requester only
  (router.rs:1737). Frames that wait when the radio is reconfigured may still be
  sealed with the old key. A route that does not fit
  the buffer of 128 bytes is passed on as it came, and not answered.

## 8. Plan

Modelled and checked are the parts that decide what the node sends, and proved
is what the slot, the journal, the administration, the transmit path, the
receive path, the limiter and the neighbor graph promise. Left, in this order:

1. the lemmas about `RelayPlan` that need no induction: which rung a node takes
   and that two candidates never take the same one;
2. the ring buffers and the pool as refinements (concrete ring against
   sequence), and the wrapping deadlines, among them the session of an
   administrator (admin.rs:267).
