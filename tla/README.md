# OpenOrbitLink in TLA+

OpenOrbitLink is a delay-tolerant satellite messenger. A phone posts a message to a FastAPI backend; a worker
hands it to a LoRa radio under a duty-cycle budget; a ground station relays mesh packets to passing satellites
and routes what the satellites send down; a DTN stack stores, forwards and acknowledges bundles. This directory
holds models of the parts that keep state, the TLC configurations that check them, and TLAPS proofs.

Paths below are relative to the repository's root. `PROJECT.json` lists for each definition the lines it models,
for each property the run that checks it, and for each hazard the properties that would catch it.

## 1. Inventory

| Part | State | Operations | Hard behaviour |
|---|---|---|---|
| Transmit queue (`backend/tx_queue.py`, `rate_limiter.py`) | `messages` and `tx_log` tables; tracker records in memory | send, poll, defer, mark, transmit, log, fail, stop, start | three commits around one transmission; crash between any two; check and record apart; restart forgets the budget |
| HTTP API, accounts (`backend/main.py`, `auth.py`, `database.py`) | users, invite codes, messages | register, login, send, inbox, queue status | an invite's count is read, and written back as read plus one after several awaits; the hourly limit is a count before an insert, and its hour is wrong from 00:00 to 00:59 UTC |
| DTN engine (`protocol/dtn.py`) | SQLite bundle store | queue_message, queue_voice, transmission_window, receive_ack, cleanup | overlapping windows with stale snapshots; ACK during an await; crash leaves TRANSMITTING rows |
| DTN routing (`protocol/dtn_routing.py`) | routing table, delivered set, per node | originate, on_encounter, on_receive, prune_expired | many nodes in any order; lost and duplicated transmissions; lifetime restarts at each hop |
| Relay daemon (`ground_station/relay_daemon.py`, `pass_integration.py`, `lora_driver.py`) | relay buffer, tracker, radio mode | receive loop, burst at a pass, downlink polls | two tasks share one half-duplex radio and one list across awaits; the airtime is guessed before and recorded after |
| Downlink (`relay_daemon.py`, `inbox_router.py`, `tinygs_client.py`) | dedup cache, poll interval | poll, route, deliver | overlapping windows, limit applied before the filter, interval that changes, lost answers |
| Pass scheduler, Doppler (`scripts/`, `ground_station/doppler.py`, `backend/passes.py`) | orbital elements, a chosen satellite per user | predict, next pass, should_transmit_now, select | rise and set are paired by their order in a search window that cuts passes at both ends; the clock moves during a call |
| gRPC server (`ground_station/grpc_server.py`) | tuner, antenna, telemetry history, packet log | getters, setters, three streams | clients share one receiver, and take turns at each await |
| Link manager (`ai/link_manager`), orbital predictor | outcomes, learned values, scores kept on the caller's objects | score, select, report | a score of a satellite that moved since |
| Voice transport (`protocol/voice_transport.py`, `voice_chunker.h`, `VoiceMessage.kt`) | chunk buffer | chunk, add_chunk, reassemble | loss, reordering, duplicates, 8-bit chunk counts, three implementations of one format |
| Packets, BPv7, BPSec (`protocol/packet.py`, `bpv7.py`, `fossa.py`, `security/`) | a bundle and its blocks | build, relay, sign, encrypt, serialize, validate | encryption and signature in either order, block numbers that repeat, two wire forms, fields that wrap |
| Mesh, APRS, NTN, license (`protocol/`) | neighbor table, seen packets, message ids, sockets | add and expire neighbors, best route, relay, connect, acknowledge | stale routes, a bounded memory of what was relayed, a blocking socket inside a coroutine, ids that repeat |
| Radio analysis endpoints (`backend/satellite_radar.py`, `speed_test.py`, `turbo_compression.py`, `lr_fhss.py` and others) | the satellite and mode selected, a plan's queue, counters | WebSocket commands, HTTP calls, plan, compress | one selection shared by all clients; data confused with tokens of a dictionary; otherwise numerical |
| Android app (`android/`) | push-to-talk phase, connection, message list | record, send, poll, fall back | callbacks of several threads, polls that overlap local sends |
| Native codecs (`native/`) | codec state, tumbling airtime window | encode, conceal loss, switch codec | one codec for recording and playing; a window that resets instead of sliding |
| Simulation, DSP, speech enhancement | arrays | numerical | none |
| Deployment, tests (`docker/`, `tests/`, `.github/`) | none | restart policy | gives the fairness of restarts |

How they interact. The API inserts QUEUED rows that the transmit worker polls (shared table, one event loop). The
worker creates a DTN engine for each message to build its bundle. The relay daemon runs a receive loop, a pass loop
and a downlink loop in one event loop; the first two share the LoRa driver, the buffer and the tracker. The inbox
router posts to the backend over HTTP. Routers exchange bundle ids through whoever calls them: the repository has
tests and no other caller. Phones talk to the backend only, by REST polls.

What makes each part correct:

- Transmit queue: within the duty cycle whatever the interleaving; nothing sent twice; what the log says was sent;
  the queue drains once nobody posts any more.
- DTN engine: an SOS goes first and is kept and retried; a retry is one of five; no row is stranded; an ACK is final.
- Routing: one delivery; no more copies than allowed; copies die; a destination that is met gets the bundle.
- Relay: each packet heard is given to the radio once and in order; the duty cycle is kept up to a known excess;
  the buffer drains; the mesh is heard again.
- Downlink: nothing posted twice; no gap between polls among the records that can be read; the loop survives.
- Accounts: a name belongs to one account; an invite's count never exceeds the accounts it admitted, and it admits
  `max_uses` as long as registrations do not overlap; the hourly limit, outside the first hour of the day.
- Reading: whoever pages through a list sees the rows there were, and a report counts them.
- Voice: what is played is what was said, in order, and a message counts as complete only when it is; a recording
  holds its own frames and no others.
- Packets, bundles: a flood ends, a band's rule follows the packet, what is read is what was sent, an answer of the
  security calls means what it says, whatever was damaged on the way.
- Mesh, APRS, links, station: the route, the satellite or the acknowledgement that is reported is a real one.
- A pass: the duty cycle, and a report that adds up.

## 2. Modules

The components of the first table below have a module, an `MC` module that gives its constants values, and a
`_proofs` module. Those of the second keep little state each; their modules are units of `MCBackend` and `MCStack`,
and the theorems about them are in `Backend_proofs` and `Stack_proofs`.

| Module | Models | State and actions |
|---|---|---|
| `Airtime` | sums of airtime in `rate_limiter.py` and `pass_integration.py` | `AirtimeOf(S, air, max)`: units of airtime as a set of pairs, so that sums are cardinalities the provers can handle |
| `TxQueue` | `tx_queue.py`, `rate_limiter.py`, `send_message` | rows (`status`, `owner`, `air`, `txlog`) survive a halt, the tracker (`recAge`) and the worker (`pc`, `batch`, `cur`) do not. `Poll`, `Defer`, `Admit`, `CommitMark`, `Send`, `CommitLog`, `CommitFail` are the steps between two awaits of `_process_pending` and `_transmit_message`; `Halt` is `stop()` or a crash, `Boot` is `start()` |
| `DtnEngine` | `dtn.py` | the table's rows, and for each running `transmission_window` its snapshot (`todo`), its row on the air (`cur`) and where it is (`pc`). `OpenWindow` deletes expired rows and takes the snapshot, `NextBundle` marks and hands over a row, `AirSucceeds` and `AirFails` are the radio's answer, `ReceiveAck` comes at any time |
| `DtnRouting` | `dtn_routing.py` | per node an entry (`held`, `copies`, `hops`, `to`, `left`), and the transmissions under way (`air`). `Encounter` is `on_encounter` for the bundle, `OnReceive` is `on_receive`, `Prune` the deletion of an expired entry |
| `RelayDaemon` | `relay_daemon.py`, `pass_integration.py`, `lora_driver.py` | `buffer`, tracker (`age`), the two tasks (`burst`, `rx`) and the radio's mode. `Listen`, `Hear`, `HearNothing` are the receive loop; `Transmit`, `TransmitFails`, `Transmitted`, `EndBurst` the burst |
| `Downlink` | downlink loop, `inbox_router.py`, `tinygs_client.py` | the feed (`heard`, `copyOf`, `age`), the loop (`phase`, `interval`, `asked`, `left`), the router (`todo`, `seen`, `status`). `Decide`, `Answer`, `Fail`, `Route`, `PostEnds`, `Sleep`, `Wake` are the loop's steps; in `Route`, a record that cannot be read is dropped unmarked (`Drop`) |
| `LossyFifo` | what a relay promises | packets `waiting`, `arrived`, `handed` on; `RelayDaemon` implements it |

`RelayDaemon!Fifo` instantiates `LossyFifo` with the buffer's packets that have not been transmitted yet as
`waiting`: the packet on the air counts as handed on, since the loop deletes it only after the radio's answer. `Hear`
is `Arrive`, the start of a transmission is `HandOn`, a stop of the daemon is `Lose`, everything else stutters.

| Module | Unit of | Models | State and actions |
|---|---|---|---|
| `Accounts` | `MCBackend` | `register` of `main.py`, `validate_invite_code`, the seeding of invites | each request has a step between two awaits: `Validate`, `CheckName`, `CheckEmail`, `Create`, `Consume`; `CommitFails`, `Stop` and `Boot` are the faults |
| `Posting` | `MCBackend` | `login`, `get_current_user`, `send_message` | `Authenticate`, `Allow`, `TooMany`, `Refuse`, `Insert` are the steps of a request; ages of rows and of the token |
| `Inbox` | `MCBackend` | the message lists and `/queue` | `NextPage` fetches at an offset in any of the orders that `created_at`, a second, leaves open (`Listings`); `CountStatus` counts one status; meanwhile `Post` and `Move` change the rows |
| `Radar` | `MCBackend` | `satellite_radar.py` | per client a streaming task and a command loop, one shared `target` and `mode` |
| `TxPlan` | `MCBackend` | the smart scheduler of `speed_test.py` | `Enqueue`, `GetTransmissionPlan`; airtime in quarters of a symbol |
| `TurboCompressor` | `MCBackend` | `turbo_compression.py` | a text is a sequence of symbols; the methods, the choice among them, and what is left of coordinates when they are packed (`PackGps`, `UnpackGps`) |
| `PassSearch` | `MCBackend` | `pass_scheduler.py`, `passes.py`, the predictor's grid search | the sky is which samples are above the minimum; each call is an action that leaves its answer |
| `Voice` | `MCStack`, `MCVoice` | `voice_transport.py`, the packets of `packet.py` | a payload is an interval of frames; `Send`, `Hear`, `AddChunk`, `ReadMeta`; the two ways to read a packet are `strict` or not |
| `PushToTalk` | `MCStack` | `PushToTalkEngine.kt`, `VoiceCodecManager.kt`, `codec_bridge_jni.c` | each recording has a capture loop (`Begin`, `Check`, `Read`, `Meter`, `Encode`, `Load`, `Store`), each playback switches the one codec and restores it |
| `Packets`, `Bands` | `MCStack` | `packet.py`, `mesh.py`, `ntn.py`, band policy and licence gate | `Build`, `Transmit`, `Relay`, `Handoff`, `Restart`; the nodes are the callers of `should_relay` and `relay_copy` |
| `Mesh` | `MCStack` | `MeshRouter` | `AddNeighbor`, `Tick`, `FindBestRoute` |
| `SecurityBlocks` | `MCStack` | block structure in `bpv7.py`, `validate_security_blocks` | a list of blocks with numbers, targets and what else `validate` asks (`sound`), `Transfer` over the wire, `Validate` with dictionaries keyed by number |
| `Bundle` | `MCStack` | `bpv7.py`, `security/__init__.py` | a payload is the nonces it was encrypted with, `ends` what is installed and whether the keys agree; `Add...`, `Serialize`, `Receive` with any block or the primary damaged, `Verify...`, `Decrypt...` |
| `Framing` | `MCStack` | `fossa.py`, `lr_fhss.py` | a frame is the interval of bytes it carries |
| `Aprs` | `MCStack` | `aprs.py` | frames as lengths and addresses, positions as offsets in the field, messages told from acknowledgements, rejections and bulletins |
| `AprsBridge` | `MCStack` | `aprs_bridge.py` over its own socket | connection, receive loop, message ids, acknowledgements; a network that loses, repeats and delays |
| `LinkManager` | `MCStack` | `ai/link_manager` | `SelectBest`, `ReportOutcome`; scores stay on candidate objects that the caller may keep |
| `Station` | `MCStack` | `grpc_server.py` | one turn of a stream is an action |
| `PassTransmit` | `MCStack` | `PassTransmitter`, `SX1276Driver.transmit`, adaptive spreading factor | the loop over pending bundles, with `Elsewhere` what other coroutines do during an await |

`MCBackend` and `MCStack` are sums and not products: a behaviour exercises the unit that `handler` or `unit` names
and the variables of the others keep an initial state. Units that share nothing at run time would only multiply each
other's states. Where components do share state, they share it inside one module: the three codec users in
`PushToTalk`, the two tasks of the relay in `RelayDaemon`, the clients of the radar and of the station. Properties of
units are conjoined in one definition for a subject, each conjunct guarded by its unit.

Conventions. A step ends where the code awaits, commits or blocks on the network. Time is discrete, and a moment in
the past is an age that stops counting where the code no longer tells ages apart; so time runs for ever in a finite
state space, and liveness can be checked without a bound on the clock. Where a database or a memory image survives
a crash, the crash is an action that resets exactly the rest. History variables, which no action of the code
reads, are named as such. Each module states, next to the definition, the plausible mistakes that its properties are
tried against (`Mutant`, or an operator with a comment that says what is wrong).

What is abstracted. Texts, ids and payloads are numbers or model values. The transmit queue's radio is the code's own
stand-in: building the bundle is the transmission. In `DtnRouting` one bundle stands for all, since a router decides
on each bundle without looking at another; the order of `on_encounter`'s list and the statistics are left out. In
`Downlink` packets of one answer may be routed in any order, and the backend may answer anything; the backend of this
repository has no `/api/v1/inbox/deliver`, so there every post fails. A packet enters the feed at age 0.
Cryptography is ideal: a tag matches what it was made over with the same key, and a ciphertext opens with its own
nonce and key. A damaged part of a bundle is one value, different from what was sent. Reed-Solomon decoding is the
count of columns that differ. Scores, signal levels and elevations keep their order and lose their values.

## 3. Runs

| Run | Question | Bounds | States |
|---|---|---|---|
| `TxQueueSafety` | duty cycle once warm, at most once, truthful log, the queue drains | 2 users, 3 messages of 1 or 2 units, cap 3, window 2, batch 2, 1 halt, 1 fault | 630 thousand |
| `TxQueueHardCap` | violated: the hard cap across a restart | 1 halt | |
| `DtnSafety` | no orphan, SOS first, SOS kept and retried, delivered rows stay | 2 overlapping windows, 2 bundles, 1 crash | 240 thousand |
| `DtnRetries` | violated: at most five retries | 1 window, 1 bundle, the code's own limit of 5 | |
| `DtnDelivered` | violated: DELIVERED is final | 1 window, 2 bundles | |
| `RoutingSpread` | one delivery, copy budget, bundles die, meetings deliver | 4 nodes, 2 copies, 2 hops, 1 duplicate, every strategy, with and without expiry | 42 thousand |
| `RelayBurst` | once and in order, bounded overshoot, buffer drains, listens again | 3 packets of 1 or 2 units, budget 3, guess 1, 1 stop | 14 thousand |
| `DownlinkPolls` | no second post, no gap, everything readable routed, loop survives | 2 receptions of 1 or 2 packets, readable, too short or malformed, intervals 1 and 2, dedup time 7, limit 1, 1 restart | 1.06 million |
| `BackendRequests` | accounts and invites, hourly limit, complete reads, truthful radio answers | 3 registrations for 2 names, an invite for 1, 1 fault; 2 posts at a time, limit 2, an hour of 2 ticks in a day of 3; 3 rows of 1 to 3 seconds, page 1; 2 radar clients; plans of 3 messages; texts of 3 symbols; skies of 6 samples | 330 thousand |
| `PassAdvice` | violated: the pass that comes with the advice is the one under way | skies of 6 samples, two satellites | |
| `Stack` | voice, mesh, bundles, APRS, station and pass, see the twelve units above | see below | 1.2 million |
| `VoiceParses` | violated: an undamaged voice packet parses | the code's own widths, 1, 40 and 600 frames | |

Why the bounds are enough.

- *TxQueue.* Three messages of two users make a deferred row stand before a row of another user in a batch of two,
  let a small row of a batch overtake a large one, and make the cap bind (units 2 + 2 over 3). One halt at any point
  puts a restart inside a window, and one fault reaches each failing commit.
- *DtnEngine.* Two windows and two rows suffice for every stale snapshot: the second row is in both. Two is also the
  limit, so a snapshot can leave nothing out; the theorem `SosFirstHolds` covers every limit.
- *DtnRouting.* Two relays and two copies are the least with which one spray too many shows. Two hops with three
  possible neighbors make the hop count bind.
- *RelayDaemon.* Three packets are heard before, during and after a burst. The budget admits a guess and is then
  passed by the packet's own airtime.
- *Downlink.* The two intervals, the longest poll and the dedup time are the smallest that keep the code's order
  (`Fast < Slow`, a poll may outlast `Fast`, two `Slow` and a poll stay below the dedup time). Limit 1 with two
  receptions cuts an answer short, and lets a record that cannot be read stand in a readable one's place.
- *BackendRequests.* Two registrations may read the same invite before either counts it, and a third comes after; with
  one mail address for all and one name twice each constraint of the table is hit. A day of three ticks with an hour
  of two has a first hour and a rest. Three rows on pages of one are enough for two rows of one second to change
  places between two pages. Of the satellites one has every sky of six samples: passes cut by the start,
  by the end, adjacent in time, and none. Requests, slots and clients are interchangeable, and are a symmetry.
- *Stack.* The wire's fields are narrow (4 sequence numbers, 3 totals) and the longest message passes both, so that
  they wrap; the code's widths are those of `VoiceParses`. Two recordings, two frames and one playback reach a loop
  that outlives its recording, the automatic stop, and a switch under a recording. Two nodes with two messages and a
  memory of one packet make a node forget; two rssi levels and three ticks make a peer age and come back. Two
  security blocks with every set of targets among four numbers make numbers repeat and targets overlap; the one set
  that is also tried on blocks unsound otherwise stands for all, since nothing relates the two. One damaged part of a
  bundle already takes away the payload, a BIB, a BCB or the id, or makes one block pass for another; the theorem
  `BundleSoundHolds` covers any number. Two messages are of one second, and share an id, or of two. Frame lengths stand at the borders of the formats: 0, 1, 69, 70, 125, 138, 139 and their neighbors, and some payloads go
  beyond the room of their hops. A pass has two bundles, of which the duty cycle admits some at one spreading factor
  and not at the other; transmissions take the clock beyond the last tick, past the window. No symmetry is declared:
  `Short`, `Home` and the order of bundles and players matter, and the units are small.

What the five violations show. `HardCap`: `rate_limiter.py:55` calls 36 s in an hour a hard regulatory cap; a restart
empties the tracker, and the window around it carries more. `RetryLimit`: `readme.md:288` draws "Retry (max 5)" and
`dtn.py:52` declares `max_retries = 5`, but `can_retry` has no caller and `get_pending` selects by state alone, so a
sixth failure is followed by a seventh attempt. (`SosRetried` says what this means for an SOS: no pass gives it up. It
describes the code; which of the two is wanted is for the authors to say.) `DeliveredIsFinal`: the window writes
AWAITING_ACK after its await without reading the row, so an ACK that came first is undone and the bundle goes out
again. `AdviceIsCurrent`: `should_transmit_now` is said to return "current_pass_or_None" (`pass_scheduler.py:321`); it
returns what `next_pass` finds from now on, which has yet to rise, and the relay daemon keys its radio for that
pass's duration.
`EveryPacketParses`: `voice_chunks_to_bundles` leaves `fec_data` to the zero padding of `serialize`, and
`parse_packet` takes the difference from the payload's true parity for errors; a voice chunk of more than 16 columns
that are not zero is refused although it arrived undamaged. `deserialize`, which the tests use, reads it.

What the passing properties allow for. A property says what the code does keep; its exceptions are behaviours of the
code that a reader may not expect:

- `InviteSound`: overlapping registrations pass the same invite, and each writes the count it read plus one.
- `HourlyLimit`: in the first hour of a day the limit looks at an hour to come, and admits anything; requests that
  overlap may each be the last one.
- `QueueDrains`: it speaks of a queue to which nobody adds. While messages keep arriving, a large one may wait without
  end: it is deferred, and newer small ones of the same batch (the ten oldest rows) keep the window full. The model
  takes rows of one `created_at` in the order of their ids, which the code's query leaves open (`tx_queue.py:93`).
- `SosRetried`: of the first SOS, and as long as no crash strands it in TRANSMITTING.
- `NoGap`, `HeardIsRouted`: a record without data, with bad base64 or with a null rssi is passed over at every poll
  (`relay_daemon.py:398`, `:407`) and never marked; the properties are about the others. A refused post counts as
  routed, for it is not repeated.
- `ReadComplete`: rows of one second come in any order, anew in each query (`main.py:525` orders by `created_at` alone,
  `database.py:110` stores seconds), so that of several rows of one second some may be read twice and others not at all;
  what holds is that each second is represented, and a row alone in its second is read. A walk filtered by status may
  miss a row that moves, and rows posted during a walk are not in it and push others onto a second page; the report's
  total may count a row twice, under two statuses.
- `PassesFound`: transmission is advised when and only when the satellite is up; of the pass that comes with the
  advice only that it is a pass is claimed here (see `AdviceIsCurrent`). A pass under way is in no listing; a window
  of the predictor lacks its last sample. `FOSSASAT-2E` is found as whichever satellite was loaded first whose name holds
  it, `FOSSASAT-2E4` among them. `GET /passes/selected` is answered by the route `/passes/{satellite}`, which is
  declared before it (`passes.py:120` and `:214`); the model has the handler that the second route names.
- `MessagesRestored`: `turbo_compression.py:211` says that `decompress` gives the original back. Line breaks and control
  characters come back as dictionary phrases. Of a text with coordinates up to three numbers come back, the first
  two cut to millionths (`int(x * 1e6)`), the third as an altitude in whole metres of at most 65535; a coordinate
  beyond 32 bits or an altitude below zero makes `struct.pack` raise, and the text is then sent by another method.
  Text outside Latin-1 makes the dictionary raise.
- `PlanKeepsPriorities`: nothing takes a planned message off the queue, so the next plan has it again.
- `VoiceSound`: a cancelled capture loop goes on until its next `withContext`, so one frame of it may enter the next
  recording, and its counter may be written over the next one's. A playback switches the codec under a recording; one
  that fails does not switch it back, a Lyra message leaves no codec at all, and overlapping playbacks restore in
  the wrong order. Frames of silence are not counted, so the limit of 30 s is one of frames, not of time.
- `StationSound`: the receiver is one; a stream sees what another client tuned.
- `BundleSound`: no block is checked against a CRC (`bpv7.py:277`, `:340`), so a damaged primary block gives another id,
  a damaged type another block, and a bundle that lost its BIB or BCB on the way, or in the compact form, is called
  verified and opened; an answer proves something only of a block that is there. Where AES is not installed nothing
  is opened, not even a payload that was never sealed. Blocks that share a number hide one another in the
  dictionaries of the validation. LR-FHSS hops carry a payload up to their room and leave the rest out without a word
  (`lr_fhss.py:181`).
- `MeshSound`, `AprsSound`, `StationSound`, `PassSound`: they bound what forgotten hashes, ids of one second, stale scores,
  a shared receiver and the driver's 10 ms do, and do not deny that these happen; the notes of the hazards in
  `PROJECT.json` say where a property bounds a hazard and where it excludes it.

## 4. Fairness

Liveness is checked under weak fairness, strong in one place, of what the deployment keeps going.

- `Worker`, `Loop`, `Receiver`, `NextBundle`: tasks of an event loop, each a `while self._running` loop.
- `Boot`, `Restart`: `docker/docker-compose.yml` says `restart: unless-stopped` for backend and ground station.
- `Tick`: time passes. `OpenWindow` and the burst's attempts: satellite passes recur.
- `Radio`, `Attempt`: the radio answers; it need not succeed, a refusal is an answer.
- `DtnRouting`: each carrier keeps meeting the destination (strong, for the meeting may be interrupted by other
  steps), what is under way arrives or is lost.

Nothing makes a commit, a radio, a feed or a backend succeed, and no user has to post. `MeetingDelivers` therefore
allows for a lost transmission: `forwarded_to` bars a second one, which is a hazard of the code and not of the model.
`HeardIsRouted` allows for polls that are not steady: sooner than planned (a pass begins), late, failed, cut short
by the limit, or interrupted by a restart; in each of these the code does leave receptions behind.

The units of `BackendRequests`, `Stack` and `VoiceParses` are checked for safety only, without fairness: a request, a
stream or a loop may stop anywhere. Their bounds are on the length of a behaviour, which liveness would not survive.

## 5. Proofs

All theorems hold for every value of the constants that the modules' assumptions admit; those say that bounds are
naturals and how times relate (`2 * Slow + Busy < TTL`; the code has 600 s, at most some minutes, and 3600 s).

- `Airtime_proofs`: the airtime of a finite set is finite, monotone and additive up to one element; a set of naturals
  has a least one; what holds at the start of an interval and climbs holds at its end (`Climb`). The last is induction
  as a statement about sets, which the provers can apply.
- `TxQueue_proofs`: `TypeCorrect`, `AtMostOnceHolds`, `LogTruthfulHolds`, `CapOnceWarmHolds`. The discrete part
  (`WorkerInv`, `SentInv`) ties the row at hand to its status and count. The cap needs two more facts: what the
  tracker remembers is what was on the air since it was started (`MemoryInv`), and the message admitted but not yet
  recorded is already within the cap (`CapInv`), because one worker admits one message at a time.
- `DtnEngine_proofs`: `TypeCorrect`, `NoOrphanHolds`, `SosKeptHolds`, `DeliveredStaysHolds`, `SosFirstHolds`. The last
  rests on `Order` (the row on the air precedes the rest of its snapshot, what is owed is SOS and in the snapshot) and
  on `LimitKeepsSos`: cutting the sorted rows at the limit keeps the SOS that would be kept without the other rows.
- `DtnRouting_proofs`: `TypeCorrect`, `DeliveredOnceHolds`, `CopyBudgetHolds`. `CopyBudget` is not inductive. `Budget`
  counts who carries the bundle or will when a transmission arrives, and adds the origin's remaining copies; it also
  says that relays have one copy and that the origin never gets its bundle back.
- `RelayDaemon_proofs`: `TypeCorrect`, `OvershootHolds` (`Room`: while a packet is on the air the tracker has room for
  the guess), `EachOnceHolds` (`Accounted`: positions in the buffer increase, and a packet's attempts follow from its
  position).
- `RelayDaemon_proofs` also has `FifoImplemented`: the daemon implements `LossyFifo`. Each action maps to one of the
  queue's or to a stutter; the step that matters is the end of a transmission, which deletes the buffer's first packet
  while the queue, which handed it on when it went on the air, stutters. `TailAppend` says that a packet heard during
  a transmission comes behind what waits.
- `Downlink_proofs`: `TypeCorrect`, `OnePostHolds`, `NoGapHolds`. A mark is never older than the packet it stands for
  (`Marked`) and a packet being routed is within reach (`InReach`), so a packet posted before still has its mark.
  `Steady` bounds the time since the latest poll by two intervals in each phase of the loop. Both theorems hold whatever
  malformed records the feed mixes in: dropping one changes no mark and no other reception's state.

`Backend_proofs` and `Stack_proofs` are about the units of `MCBackend` and `MCStack`, and state every property of the
runs `BackendRequests` and `Stack`. For each unit a lemma `...Unit` says that all other units leave its variables
alone, `...Starts` and `...Step` that its inductive invariant holds at first and is kept by its own steps, and
`...Holds` that it holds in the composition. `BackendTypes` and `StackTypes` conjoin the type invariants.

- Registration: `OneOwnerHolds`, `InviteSoundHolds`. The count of an invite is truthful because what a registration
  read is not above the accounts there are without its own, and none goes away (`SeenTruthful`). The limit rests on
  `Alone` (where registrations did not overlap, one at most is under way, and it holds the count as it is) and on
  `Balance`: each account is counted, about to be counted, or lost to the count by a fault.
- Sending: `HourlyLimitHolds`. `HourlyLimit` is not inductive, since requests that were let in during the first hour
  post after it. `DayLimit` counts the rows not posted in a first hour, and from the second hour on the requests that
  were let in as well: when the first hour ends, no row of the day before is left to count.
- Reading: `ReadCompleteHolds`. Rows are in the order of their ids (`Chronological`), but those of one second may change
  places, and rows that come later push them back; a second of which nothing was read yet still has a row on a page
  to come (`Unread`), and what was not counted has a status still to come (`Uncounted`).
- The radio's routes: `RadioAnswersHolds`, of four units.
  - The radar: only a client whose command loop runs is streamed to; a client that was never connected was told
    nothing (`Untold`).
  - The plan: the queue is ordered by priority, and the plan is what the greedy loop makes of it. `LoadSums` follows
    the load down the queue; `GreedyKeepsPriorities` says that the budget is kept, and that a message is deferred only
    when it does not fit behind messages at least as urgent.
  - The compressor: a text without tokens of its own comes back from the dictionary (`DictionaryRestores`), and of one with
    coordinates the first numbers in their order; the method
    chosen is the least of those tried (`BestIsLeast`), and each of those was made of the text (`TriedAreMade`).
  - The pass search: between a rise and the set that follows it nothing is below the minimum (`NoGap`), what is listed
    is a whole pass, the next pass is the earliest (`NextIsEarliest`) and stays the same a sample later unless it has
    risen (`NextStays`), and the windows of the grid search cover the samples above the minimum but for the last one
    (`WindowsCover`).
- Voice: `VoiceSoundHolds`. `Collected`: each chunk held is the one the message was cut into at that place, and
  complete means that all are held; the pieces cover the frames (`Cutting`). For push to talk, at most one frame of a
  take enters another (`Leftover`, `Handed`), and frames are of the recording's mode unless it was disturbed.
- Mesh: `MeshSoundHolds`. `Flooding`: each hop takes one from the time to live, and a node that remembers a packet
  does not relay it, so that relays are bounded by what it forgot. `Remembered`: a neighbor was heard, and who was
  heard within the patience is a neighbor still.
- Bundles: `BundleSoundHolds`, of the validation (a verdict is given only to blocks that are valid on that band), the
  bundle and the framing. On the sender's side and on the wire a payload's layers are the numbers of the BCBs, and a
  BIB signs the payload as it was (`Bundled`, `Carried`, `CarriedBlocks`); a code matches only where a BIB of what was
  sent signed that very payload (`Verifies`), and each layer a BCB takes off is the outermost (`TakenOff`), whatever
  block arrived damaged. Frames and hops are the pieces of the payload in order, in the hops as far as they go.
- APRS: `AprsSoundHolds`. What was read is what was sent (`Chained`). `Answerable`: the message that waits for an
  acknowledgement is the latest with its id, and of those with the id of an acknowledged one some message reached its
  station, the acknowledged one itself where the id did not repeat.
- Station and links: `StationSoundHolds`. A score other than 0 dates from when there was a margin, and what a
  satellite learned agrees with its outcomes (`Learned`). A client without a stream was given nothing, a packet goes
  to one client, at a frequency of its filter, and a frame of a client's own is centred where it asked (`Given`,
  `Shared`). The log is the newest packets.
- A pass: `PassSoundHolds`. `DutyKept`: what is logged and what is on the air fit the budget together, since no
  spreading factor is slower than the one of the estimate. `Tallied`: the report's counts follow from the bundles that
  were tried and from those that were taken.

Some definitions have the form they have because of the provers. The log of `PassTransmit` is a set, and its sum a
cardinality in the way of `Airtime`. The loops of `TxPlan` and `TurboCompressor` are recursive functions, whose
existence is proved (`Iterated`, from `Climb`), where a fold or `SelectSeq` would do for TLC; symbol times are a
table, since the provers have no facts about powers.

The assumptions of the units are definitions that `MCBackend` and `MCStack` conjoin in an `ASSUME` of their own
(`HandlersAssumption`, `UnitsAssumption`). Those modules also define constants that a configuration cannot write down,
such as tables; the proofs expand none of these definitions and use only what the assumptions say. What the code
justifies and the provers asked for is among them: a voice frame fits a chunk; no peer is named like a kind of
route; a symbol of a text has a byte count; no spreading factor has more airtime than the slowest, nor is the 10 ms
glimpse longer than a packet.

Only model-checked: the liveness properties (`QueueDrains`, `SosRetried`, `BundleDies`, `MeetingDelivers`,
`BufferDrains`, `ListensAgain`, `HeardIsRouted`, `PollsAgain`), which need fairness and `ENABLED`; and the five
violations. Every other property of a passing run is stated by a theorem.

## 6. What is not modelled

Numerical code (orbits, Doppler, link budgets, codecs, speech), layout and screens, generated stubs, and register
access. `adaptive_modem.py`, `starlink_intelligence.py`, `benchmark.py` and `voice_messaging.py` compute floating-point
estimates from one request and keep no state; `simulation/`, `dsp/` and `ai/speech_enhance` work on arrays. The Rust
packet (`protocol-rs`) is linked by nothing. `ConnectivityOrchestrator` chooses among paths of which only the
internet one can be available besides the local queue. `MessagingViewModel` and `SatelliteViewModel` poll a data
layer (`org.freesat.data`) that is not in the repository. The native airtime tracker is asked at time 0 and is never
told of a transmission.

Of the modelled parts:

- Relay daemon and inbox: the status report, the SatNOGS fallback, `submit_to_relay_buffer`, which nothing calls, and
  `poll_and_route`, which nothing starts; statistics that no decision reads. The radio's frequency between bursts is
  not a variable of `RelayDaemon`.
- `AprsBridge`: the branch with aprslib, whose consumer is a library's thread.
- `Packets`: nothing in the repository calls `should_relay` and `relay_copy` together; their caller is the model's.
- `LinkManager`, `PassTransmit`: path loss and noise are free choices that keep their order.
- `PushToTalk`: the phase ERROR, which only the screen reads; the codec freed while the native code is inside it, which
  is undefined behaviour with no outcome to enumerate; the frame limit is the same in each mode.
- `Radar`: `ws_radar` declares its parameter without a type (`main.py:153`), so that the framework would take it for a
  query parameter; the handler is modelled as if it were called with the connection.

Hazards seen and covered by no property: a message whose ACK never comes stays AWAITING_ACK (`tx_queue.py:150`), for the
backend has no timeout to state a property about; `bundle_counter` restarts at 0 with each process while ids have the
resolution of a second (`dtn.py:247`), ids being abstracted; the voice types are missing from `prio_map` and `ttl_map`
(`dtn.py:72`); no route answers the inbox router's post (`inbox_router.py:239`), which `Downlink` allows for by a backend
that refuses. That a burst lasts as long as the next pass and not the present one (`relay_daemon.py:324`) is shown where the
pass is searched for, by `AdviceIsCurrent`; in `RelayDaemon` the burst's length is free.

## 7. Plan

What is left, in order of what matters most.

1. A sliding-window `Budget` as an abstract specification, implemented by the trackers of `TxQueue`, `RelayDaemon` and
   `PassTransmit`, each by a theorem in the way of `FifoImplemented`; and, it is expected not, by the tumbling windows of
   `airtime_calculator.h` and `VoiceMessage.kt`, which admit up to twice the budget around a reset.
2. The measures behind liveness, as action properties: what `BundleDies` and `BufferDrains` rest on is that each step
   of an actor takes something from a count, which the provers can show where they cannot show the eventuality.
3. The C++ and Kotlin chunkers beside the Python one, as operators over one message: agreement of the three forms.
4. A composition of `TxQueue` with `DtnEngine`, whose bundle ids repeat between engines of the same second.

Runs stay few: one for each new question, with the properties of a component checked together.
