# Verification of evmrelay

evmrelay finds Ethereum-style peers, keeps RLPx/ETH sessions with them, watches
contract events through those sessions and through JSON-RPC endpoints, and turns
them into bridge observations. This directory holds TLA+ models of its parts,
TLC configurations that check them on small instances, and TLAPS proofs of
central properties for every instance.

## The system

| Part | Source | Modules |
|---|---|---|
| Dial scheduler, dial history, shared pool | `include/discv4/dial_scheduler.hpp`, `dial_history.hpp` | `DialScheduler` |
| Peer queue | `src/eth/eth_peer_queue.cpp` | `EthPeerQueue` |
| Default dial function | `src/eth/eth_watch_service.cpp` | `WatchDial` |
| Discovery v4 | `src/discv4/` | `Discv4Client`, `Discv4Packets` |
| Discovery v5, crawler, node records | `src/discv5/` | `Discv5Client`, `Discv5Messages`, `Enr` |
| RLPx session, ETH Status handshake | `src/rlpx/rlpx_session.cpp`, `src/eth/eth_peer_session.cpp` | `RlpxSession` |
| Auth handshake, frames, compression | `src/rlpx/auth/`, `src/rlpx/framing/` | `RlpxChannel`, `FifoChannel` |
| RLP | `src/rlp/` | `Rlp`, `RlpStream`, `ItemBuilder` |
| ETH and p2p messages | `src/eth/messages.cpp`, `objects.cpp`, `src/rlpx/protocol/messages.cpp` | `EthObjects`, `EthMessages`, `Wire` |
| Chain tracker, watches, message dispatch | `src/eth/chain_tracker.cpp`, `event_filter.cpp`, `eth_watch_service.cpp` | `ChainTracker`, `EventWatch`, `WatchDispatch` |
| RPC endpoints and probe | `src/eth/rpc_manager.cpp`, `rpc_probe.cpp` | `RpcPool`, `RpcRelay` |
| RPC receipt source, finality | `src/eth/rpc_receipt_source.cpp`, `eth_receipt_source.cpp`, `finality_policy.cpp` | `RpcSource`, `FinalityPolicy`, `RpcRelay` |
| ABI decoding, bridge claims | `src/eth/abi_decoder.cpp`, `bridge_observation.cpp`, `bridge_event.cpp` | `AbiDecoder`, `BridgeClaim`, `ReceiptVerifier` |

Discovery hands peers to the peer queue; the queue offers them to its chain's
scheduler; the scheduler runs one dial coroutine per slot; a dial ends with a
session that feeds messages to the watch service, or with a reason that goes back
to the queue. The watch service asks for the receipts of announced blocks and hands
their logs to the watches. The RPC source is a second way for receipts to reach the
same watches. Everything of one service runs on one `io_context` thread, so steps
interleave as whole callbacks; a coroutine is cut where it suspends.

## Modules

`DialScheduler` models the schedulers of all chains and their pool. A dial
coroutine is a record (chain, peer, id); the sets `validated`, `reported`,
`sessions` and `ended` hold the flags its callbacks capture. `enqueue()` and
`release()` are operators on one scheduler's state (`Enqueue`, `Release`) because
`on_done` runs a feedback's `enqueue()` and then `release()` in one callback.
The loop of `release()` is in closed form (`Fresh`, `Popped`, `Launched`);
`MCDialScheduler` compares it with the loop. `EthPeerQueue` adds the queue's books
and makes the choices `DialScheduler` leaves to producers and to the feedback.
`WatchDial` replaces the free dial function by the default one of the watch service.

`Discv4Client` models the coroutines that ping, request records and walk
neighbours, and the pending-reply entries they share. An entry is keyed by
endpoint and packet type, as in the code, so two coroutines may meet in one.
Packets are lost, late and repeated; `stop()` comes at any point.

`Discv5Client` models several nodes, each with its client and its crawler.
Cryptography is symbolic: a ciphertext opens under the key it was made with, a
signature names what was signed. A handler of `handle_packet` is one action per
branch; what it spawns (`co_spawn`) waits in the node's queue. The network loses,
doubles and reorders packets, and a node may stop or restart with a new key.

`RlpxSession` models one outbound session: the dial coroutine from TCP connect to
the Status handshake, the HELLO timer, the two loops, `disconnect()` and the bridge
to the `EthWatchRunner`. A completed read and an expired timer are states of their
own, since other callbacks may run before theirs does. A session lives as long as
the dial, a loop or the runner holds it (`Held`).

`RlpxChannel` looks below the session: auth and ack, the secrets each end derives,
the running MACs and key streams, frames with header, padding and MACs, Snappy after
the Hello. The bytes that arrive are altered or end at any unit. `FifoChannel` is
what the two sessions may rely on, and the channel implements it.

`Rlp` is the reader and the writer over sequences of bytes. A read returns an error or
a value, and the rest of the view; what reads on takes the earlier results as arguments
(`BytesOf`, `RequestIn`, `PongRest`). `RlpStream` is the
encoder with its in-place list headers and the streaming writers and readers;
`ItemBuilder` says, without bytes, what they build. `EthObjects` and `EthMessages`
describe each message as a layout that is written and read field by field, with the
exceptions the code makes (request ids, typed transactions, status schemas);
`Discv4Packets`, `Discv5Messages`, `Enr`, `AbiDecoder` and `BridgeClaim` add the
other formats. `Wire` sends one message of any kind: encoded, carried, perhaps cut,
followed, extended or changed in a byte, decoded, and encoded and decoded again.

`ChainTracker` keeps requested hashes twice, in a set and in a ring. `EventWatch`
has the filters, the service's list of watches and the watcher's. `WatchDispatch`
extends both with the messages of the peers: announcements become requests,
receipts are attributed to their request and handed to the watches.

`RpcPool` is the endpoint pool with its states, backoff and escalation and the probe
that marks endpoints. `RpcSource` is a poll (or a backfill), call by call, against a
node whose chain grows and reorganises between two calls and whose calls fail; it
extends `EventWatch`, so an event goes all the way to the caller, and
`ReceiptVerifier` checks the claim made of it. `RpcRelay` composes the two.

Definitions named `..._Something` or commented as mutants are faulty variants of
the definition that follows; each shows that a property notices the fault.

## Runs

| Run | What it shows |
|---|---|
| `chains` | caps, slot accounting and finality of `stop()` for three chains that share two slots |
| `one_chain` | no idle slot, waiting peers leave, known sessions unwind after `stop()`; the closed form of the drain is the loop |
| `books` | bounds on the queue and on redials; the queue implements `DialScheduler` |
| `discv4` | entries never outlive their request, bonds are justified, coroutines end, met endpoints are reported |
| `discv5` | every accepted session was begun by its peer and only once, keys mirror, a peer is reported once, and learned when nothing is lost |
| `session` | what the runner gets follows a valid Status, sockets and loops are released, the handshake settles |
| `frames` | a connection is a FIFO channel; only faults break it; what is written arrives |
| `rlp` | the encoder and the writers implement the item builder; the readers give back what was streamed |
| `wire` | messages round-trip, cut and followed ones are refused, extensions are safe, what is accepted is stable, records say what was signed |
| `dispatch` | the window is the last requests, the tip the highest block, an event names its block, each watch hears exactly what it is to hear |
| `rpc` | nothing delivered is taken back or missed, claims verify, the chosen endpoint has rested, the source catches up |
| `slot_leak` | (violated) the default dial function never returns the slot of an ended session |

`slot_leak` states what `dial_scheduler.hpp:54` and `dial_scheduler_test.cpp:7` say
and the code does not do.

## Bounds

- *Scheduler.* Three chains with one slot each share two: the smallest pool whose
  total cap binds before the chains' own caps. Two peers let one wait while the other
  is dialled; the drain is compared for queues of up to three (`MaxQueue`), so
  that a skipped peer lies between launched ones.
- *`discv4`* has one endpoint and three coroutines that meet there, which is where
  entries collide; different endpoints share no entry, and the proofs cover every set
  of endpoints. `MaxTime` bounds the clock.
- *`discv5`* has two nodes, of which one or both query, and a third that does not
  answer; one fault (`MaxFaults`: a packet lost or doubled, a restart, a stop) beside
  free reordering, and four random draws (`MaxDraws`), enough for two handshakes.
- *`session`* has four messages: after HELLO and Status two more are lost or handled.
  Its five kinds stand for all eight, since before the bridge `badStatus` and
  `disconnect` end the dial as `eth` does and `ping` is skipped as a second `hello`
  is; after it only ETH and other messages differ. `StatusTimeout` is one tick, since
  only the order of the deadline and the messages matters.
- *`frames`* scales `kMaxFrameSize` from 2^24 to 64 bytes. The three payload lengths
  fill a block, reach the limit and pass it; the two Hello versions are the last
  without and the first with compression; one fault, three messages.
- *`rlp`* takes strings of 0, 1 and 54 to 56 bytes, around the short form's limit of
  55, and chunk sizes that do and do not divide the pieces. *`wire`* takes messages of
  every kind with fields at the limits of the length forms, cuts after the first byte,
  in the middle and before the last byte, and single bytes changed at chosen places
  (`Places`, `Bytes`) that cover headers and contents.
  Lengths of 2^24 and more behave as one (`TooLong`): no view is that long.
- *`dispatch`* has three blocks, two at one height, in a window of two, four requests
  and two answers: a block leaves the window and is requested again.
- *`rpc`* has three blocks on two branches that order the same transactions
  differently, ranges of two blocks, two failing calls or reorganisations
  (`MaxUpsets`), and pools of two endpoints under three marks.

Deadlock is not checked in `discv4`, `discv5`, `session`, `frames`, `rlp` and `wire`:
a stopped client, a finished session or a delivered message does nothing more.

## Fairness

Fairness is weak and on steps of this side: a coroutine that can run does, since
`io_context` serves its queue in order, and armed timers expire. Nothing is assumed of
a peer in `RlpxSession` or `Discv4Client`.

`DialScheduler` also assumes that `dial_fn` settles an attempt and that a disconnected
session unwinds. That is the contract of `dial_fn` (`dial_scheduler.hpp:54`), and
`WaitingPeerLeaves` and `StopUnwindsKnown` hold under it only. The default dial
function does not always keep it: the auth exchange has no timer, and `slot_leak`
shows a second way.

`Discv5Client` assumes that something goes on while something can (`Goes`): a round of
the crawler, a spawned coroutine or the arrival of a packet that is not lost.
`RlpxChannel` assumes that an end that has something to read reads it and that the
handshake and the Hello are carried out. `RpcRelay` assumes that the caller polls again
and that a poll returns, which every call does, answered or failed; the calls that fail
are finitely many.

## Refinement

`EthPeerQueue` implements `DialScheduler` (its `Spec` is a property of `books` and a
theorem): everything proved of the schedulers holds of the composition. `RlpStream`
implements `ItemBuilder` through a mapping that parses the bytes between the recorded
list starts (`MCRlpStream`). `RlpxChannel` implements `FifoChannel` through the
messages written and the messages handed on.

## Proofs

The theorems hold for every set of chains, peers, endpoints and hashes and every cap
and window, from the named assumptions on constants alone.

*Scheduler* (`DialSchedulerProofs`). `SlotAccounting` (counters equal the coroutines in
flight) is not inductive: a release is only safe if counters are within their caps and a
stopped scheduler has nothing queued. `IInv` adds both, and that the set of dials is
finite, which cardinalities need. `CapsHold` follows from `IInv`; `StopFinality`,
`OneDialPerCooldown` and `ReleaseUsesSlots` are step properties proved from it.
`SingleChainNoIdleSlot` holds for one chain.

*Peer queue* (`EthPeerQueueProofs`). `QueueImplementsScheduler` maps initial states and
every step of the queue to the scheduler's; `PendingStaysBounded` is proved besides.

*Discovery v4* (`Discv4ClientProofs`). A bond is justified by a reply, a reply by the
hash in its entry and that by a packet sent, so `IInv` joins `BondsProven` and
`ForkIdsProven` with `HashSent`, `SlotProven`, `EntriesOwned` and `WalksOnce`.

*Dispatch* (`WatchDispatchProofs`). That the tracker's set and ring hold the same hashes
(`RingAgrees`) needs that the head stays 0 until the ring is full and that the slots
filled differ pairwise; then what is evicted is in the set and nothing else is lost.
`FillKeepsRing` and `EvictKeepsRing` are the two cases of `mark_seen`. `IInv` adds the
tip and the request ids, from which `PendingIsRequested` follows.

`NoRedialInCooldown`, `ReleaseFillsSlots`, `ForkIdsProven`, `RingAgrees`,
`PendingIsRequested` and the type invariants are proved and therefore in no run.

Only model-checked: all liveness properties, which are out of the prover's reach; the
formats, whose readers are recursive; everything about `RlpxSession`, `RlpxChannel`,
`Discv5Client`, `RpcPool` and `RpcSource`; `DrainMatchesLoop`, `RedialsBounded`,
`WindowIsLatest`, `EventsNameTheirBlock` and `DispatchExact`.

## Behaviours worth knowing

What the models contain, or what reading the code for them showed, without a run of its
own.

*Dialling.* `release()` drains its own chain's queue only, so a peer that waits because of
the shared cap may wait for ever, although `dial_scheduler_test.cpp:8` says "Queued
peers are launched as soon as a slot becomes free." A dial that connects after `stop()`
is not disconnected (`Architecture.md:313` says all sessions are). A peer whose
TooManyPeers backoff has ended is still in `seen_node_ids_` and dropped as a duplicate.
A disconnect within the dial history's 35 s counts as a requeue that `enqueue()` drops.

*Sessions.* A read that completed before `stop()` is routed after it, to a handler that
refers to the destroyed runner. A skipped message restarts the wait for Status. Nothing
drains `recv_channel_` after the handshake. The read of the auth ack has no timer. A frame
of exactly 2^24 bytes passes both size checks and is announced with length 0.

*Discovery v4.* `pending_replies_` has one entry per endpoint and packet type, not "one per
outstanding PING or FIND_NODE" (`discv4_client.hpp:194`): the later request takes it over.

*Discovery v5.* When a handshake packet is lost, its sender keeps a session that the peer
does not have, and the peer's challenges to it find no pending request: the two do not
recover before a restart. Handshakes that cross leave the ends with different keys.
Challenges and pending requests never time out. `start()` after `stop()` does not reopen
the socket. `add_bootnode` after construction has no effect, although
`discv5_client.hpp:79` allows it: the crawler has its own copy of the configuration.

*Records.* The pairs of a node record are read to the end of the input, past the end of the
signed list.

*RLP and messages.* A one-byte payload below 0x80 that is streamed as a large string is
written as 0x81 and the byte, which the readers refuse. `peekTotalSize()` after
`readChunk()` on an empty list misreads. Requests other than GetBlockHeaders encoded
without a request id do not read back. A typed receipt inside Receipts is refused.

*Dispatch.* All NewBlock messages are requested under the hash of zeros, so a second one
within the window requests nothing. A pending request whose answer is lost or empty is
never erased. A repeated answer is delivered as block 0. A callback that watches or
unwatches changes the list that is being iterated over.

*RPC.* `mark_temporary_failure()` on a disabled endpoint makes it usable again after its
backoff; `reset_temporary_failures()` leaves it disabled. A failed call for the finalized
head falls back to the safe or the confirmed one. `backfill()` past a gap, and a watch whose `from_block` is below the
cursor, leave blocks unscanned. A source's failures are never reported to the pool. A range
that fails half-way is delivered again: delivery is at least once.

## Not modelled

- `initialize()` and `run()` of the watch service wire the modelled parts together once, from
  the configuration; the choice of discv5 or the discv4 fallback is made once.
- Capability negotiation: two pure loops over a list, whose outcome `RlpxSession` keeps.
- ENR trees over DNS: one sequential walk with a visited set over text records.
- Configuration files, JSON text, blocking HTTP, the command line, logging and examples.
- Cryptography and wide integers: terms in the models, library calls in the code. Numbers
  above 2^24 and the wrap-around of an ABI offset near 2^64 are out of TLC's range.
- Statistics, the `peers_` table of discovery v4, the crawler's measured and failed sets,
  `ChainTracker::reset()` and `EventDeduper`: no modelled step reads them.
- What a call on a destroyed object does (the HELLO timer, the runner after `stop()`) is
  undefined in the code; the models show that the call happens and go no further.
