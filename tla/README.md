# A TLA+ model of parseritch

parseritch reads Nasdaq ITCH 5.0 messages from a capture file, a UDP socket or
an AF_XDP socket, keeps the order books, and publishes the top of book of every
locate to a cache that other threads read and to a ring that a consumer thread
empties. This directory models the parts of it that are hard to test: two
threads that share memory without locks, a network that loses and repeats
packets, a kernel that shares frames with the program, and data structures
whose invariants only long sequences of calls put to the test.

Paths below are relative to the root of the repository (`include/itch/...`,
`tools/feed_handler_main.cpp`).

## The system

```
capture file -> record parser ---------------------------+
UDP / AF_XDP -> MoldUDP64 sequencer -> message parser ---+-> book builder -> order-book engine
                                                             |    (order map, level arrays)
                                                             v
                                                         Publisher -> BBO cache  -> reader threads
                                                                   -> event ring -> consumer thread
```

| Component | State | Operations | What is hard |
|---|---|---|---|
| Event ring, `spsc_ring.hpp` | two atomic indices, a cached copy of each, slots | `try_push`, `pop_batch`, `size_approx` | two threads, release/acquire, stale copies, wrap, full ring |
| Shutdown, `feed_handler_main.cpp` 293-310, 495-528 | `feed_done` | `consumer_loop`, end of `main` | the last events race with the flag |
| BBO cache, `bbo_cache.hpp` | sequence number, five words | `store`, `load`, `try_load`, `version` | readers overlap a write; relaxed accesses and fences |
| Order-book engine, `order_book.hpp` | live orders, levels of each locate and side | `add`, `reduce`, `remove`, `replace` | orders and levels are updated separately; the answer whether the top changed decides publication |
| Level arrays, `order_book.hpp`, `simd/level_search.hpp`, `simd/block_move.hpp` | three parallel sorted arrays | `add`, `reduce`, `grow` | search by chunks, overlapping moves, keys left behind the end |
| Order map, `order_map.hpp`, `simd/group.hpp` | control tags, slots, three counters | `find`, `insert`, `erase`, `clear`, rehash | tombstones, the insert budget, probes that must end, inserts within a rehash |
| Book builder and Publisher, `book_builder.hpp`, `feed_handler_main.cpp` 205-262 | BBO caches, `peak_live`, drops | one handler for each order message | what is published must not go stale |
| MoldUDP64 sequencer, `mold_udp64.hpp` | session, next number | `on_packet` | lost, repeated, reordered, cut packets; change and end of session |
| Live loop, `feed_handler_main.cpp` 421-449 | `g_running`, gap counters | poll, handle, stop | end of session and signals come within a poll |
| AF_XDP receiver, `src/net/xdp_receiver.cpp`, `bpf/` | frames in four places, resources | `open`, `poll`, `close` | frames shared with the kernel, late indices, failure half-way through `open` |
| Parser and replay, `parser.hpp`, `feed_handler_main.cpp` 348-417 | offsets, statistics | `parse`, `parse_stream`, `parse_stream_prefetch`, `run_replay` | records cut by slices and by the end of the file, lookahead |
| Synthetic feed, `sim/synthetic_feed.hpp` | resting orders of each symbol | `build` | must agree with the engine that replays its stream, order by order |
| XDP filter and header validation, `bpf/xdp_udp_filter.bpf.c`, `net/packet.hpp` | none | `xdp_udp_filter`, `parse_udp_frame` | two parsers of the same headers, one in the kernel, that must agree on the flow; lengths that lie |
| Message decoding, `messages.hpp`, `bytes.hpp`, `simd/add_order_decode.hpp` | none | `decode`, `encode`, three decoders of an add order | offsets written twice, loads before and behind a field, shuffles across chunks |
| Symbol directory, `symbol_directory.hpp` | symbols by locate, locates by symbol | `add`, `symbol`, `locate` | padded and trimmed names |
| Latency histogram, `histogram.hpp` | counts, minimum, maximum | `record`, `merge`, `percentile` | bucket bounds, ranks, empty histograms |
| Depth profiler, `depth_profiler.hpp` | histograms of depth | called before the builder for each message | must foresee the searches the engine will make |
| UDP receiver, capture file | a socket, a mapping | system calls | nothing of their own; modelled by what they hand on |
| Clocks, performance counters, buffers, options, report, benchmarks | | | not modelled, see below |

Handlers call each other directly, in one thread, from the parser down to the
Publisher. Only two things are shared between threads: the ring with
`feed_done`, and the BBO caches. Only the AF_XDP rings are shared with the kernel.

## The modules

| Module | Models | Abstract specification |
|---|---|---|
| `SpscRing` | ring, consumer loop, shutdown | `EventFifo`, a bounded FIFO that may refuse |
| `BboCache` | one cache entry | `SnapshotRegister`, a register with versions |
| `BookEngine`, `Publisher` | engine, book builder, Publisher | |
| `DepthProfiler` | the profiler; `Publisher` extends it and runs it in front of its engine | |
| `LevelSide` | the arrays of one side | `LevelMap`, the operations `BookEngine` is made of |
| `MoldSequencer` | sequencer and live loop | |
| `SyntheticFeed` | the generator and a `BookEngine` that replays its stream | |
| `SymbolDirectory` | the stock directory | |
| `FeedHandler` | `SyntheticFeed`, a network, `MoldSequencer`, `BookEngine` and `SymbolDirectory` composed | the engine that got every message |
| `OrderMap`, `TagGroups` | the hash map, and the kernels that search a group of tags | |
| `XdpReceiver`, `UdpFrames` | receiver and the kernel's side of its rings, and the two header parsers | |
| `Replay` | parser and replay of a file | |
| `Messages`, `AddOrderDecode` | layouts of the messages, and the decoders | `Decode` by the layouts |
| `LatencyHistogram` | the histogram | the sorted samples |

`MC...` modules and `.cfg` files give a module the values TLC checks it with;
`..._proofs` modules hold the theorems.

**Memory model.** `SpscRing` and `BboCache` do not assume that threads see
memory in one order. Each atomic location is a history of stores; a load may
return any of them not older than the last its thread has seen; a release store
carries what its thread had seen, and an acquire load takes that over. Fences
of `BboCache` split this into two steps. Compiler and CPU reordering of relaxed
accesses is covered so far as C++11 coherence and happens-before describe it.
One action is one access to shared memory. Slots of the ring are plain memory,
and `NoSlotRace` says that two conflicting accesses are always ordered. The
ring's indices are unbounded in the state and reduced modulo `IndexMod`
wherever the code computes with them.

**Engine.** `BookEngine` has no variables: each call is an operator from an
engine value to a `BookUpdate` that carries the engine after it, as the code
runs it in one thread without interruption. `Publisher` has one action for each
message handler, the whole of it: engine, peak, BBO store, push. A level is an
entry of a function from keys; `LevelSide` shows that the arrays implement just
that, so the two can be read as one. `DepthProfiler` works on the engine before a
message is applied; `ForeseesSearches` (in `Publisher`) compares what it records with
the searches the engine then makes, of which a replace makes two and an insertion into
an empty side none. A share count of zero, more shares than
rest, and references that are not live may all arrive. An add of a live
reference may not: the engine asserts that it does not happen (`order_map.hpp:99`).

**Level arrays.** Indices start at zero as in the code. The chunk width, the
number of chunks and the first allocation are constants. The binary search is a
recursive function over the length that is left, as the loop halves it; the shift
is a fold over the blocks of a move, each read in full before it is written. The caller takes from a level
what its orders have (`Owed`), which `LevelsCountOrders` and `LevelsHoldShares`
establish for the engine. The scalar search (the fallback of
`level_search.hpp`) is an operator beside the SIMD one, and `KernelsAgree`
compares the two at every reachable side and key.

**Sequencer.** The network is not a set of packets in flight: each reception
picks any packet the exchange could have sent, which includes losing, repeating
and reordering all of them and mixing two sessions. `log` is a history of what
was delivered and skipped since each baseline; the code has no such variable.

**Live path.** `FeedHandler` sends a stream of `SyntheticFeed` in packets of
consecutive messages over the network of `MoldSequencer`, whose `OnPacket` it
uses as it is (INSTANCE), and gives the blocks that are delivered to the engine
and the directory, as `Parser::parse` and `BookBuilder::on` do. Polls and
signals are left to `MoldSequencer`: here a packet is a step. The engine that
has got every message up to the next expected number is the reference:
`DamageContained` and `OverstatesOnly` say how far the book may differ from it
after a loss. The state ends at a duplicate reference, where a debug build stops.

**Order map.** A full slot is modelled by its reference, because the tag is
only a filter for the comparison of references. `Hash` is any function. A
rehash is one action for each old slot it copies, since the copies are inserts
and take from the new budget; `RehashEnd` is followed by the insert that waited.
`TagGroups` has the kernels themselves: the SWAR subtraction with the borrows it
carries from byte to byte, and the comparisons and sign bits of SSE2 and AVX2.
`TagKernelsAgree` runs them on the tags of every group that is reached; where
the SWAR match reports more slots than hold the tag, they are full ones, which
the comparison of references sorts out. `MapAssumption` asks of the sizes what the
code gives them: `groups_for` rounds up to a power of two (`std::bit_ceil`), and a
64-bit hash has bits for the largest table that all references could fill.

**AF_XDP.** The kernel takes frames from the fill ring, publishes its consumer
index at any later time up to its next look at the producer index, and returns
frames in the rx ring. This is modelled from the assumption the code states at
`xdp_receiver.cpp:97-100`. `open()` is a sequence of named steps each of which may
fail; `close()` releases what is held, in its order, one action for each.

A frame that arrives is a record of the header fields the two programs look at
and of its length. `Redirects` is the filter, check by check, and
`ParseUdpFrame` the validation with each of its errors; the filter does not
look at the lengths that the validation insists on. `FilterAgrees` says that
among the frames the kernel gives to the socket the receiver keeps the
datagrams of the flow and no others, and that the payload lies within the frame.

**Replay.** A record has a type, a length (not always that of its type) and a
locate. The file may end within its last record, the run may be interrupted,
and both ways to replay are covered (slices with lookahead, and one record at a
time with `--latency`, where each record adds a sample to a histogram).
Messages are decoded with the layouts of `Messages`, over bytes known by their
position in the file, so that a decoded field shows which bytes it came from;
the hints of the lookahead (`prefetch`) do the same. `encode` is checked against
`decode` for all 23 messages, and the three decoders of an add order
(`AddOrderDecode`) against its layout; their masks are computed from the same
table as in the code. `for_each_frame` walks the whole file from record to record,
without slices.

**Synthetic feed.** Each action writes one message and gives it to the engine;
every random draw is a free choice, so each stream that any seed can produce is
a behaviour. The tests rely on what `SelfConsistent` and `ReturnsToEmpty` say of
the generator: they compare engines after replays of its streams.

## The runs

| Run | Distinct states | Shows |
|---|---|---|
| `MCSpscRing` | 36 thousand | No race on a slot, FIFO with drops, nothing lost at shutdown, every event is delivered, the consumer leaves |
| `MCBboCache` | 64 thousand | No torn or older snapshot; a load returns when the writer pauses |
| `MCPublisher` | 57 thousand | Orders and levels agree; cache and events carry the top of book; the depth profiler foresees every search, and counts one too many in two cases only |
| `MCFeedHandler` | 142 thousand | The synthetic stream is self-consistent and drains to empty; a loss damages only the orders and symbols its messages name, and an order that is live on both sides never has too few shares in the book |
| `MCLevelSide` | 216 thousand | The arrays implement the map of levels; the scalar search is the SIMD search |
| `MCMoldSequencer` | 73 thousand | Delivered in order and once, or counted as lost; the end of a session stops the loop |
| `MCOrderMap` | 88 thousand | Every live order is found, once; every probe ends; a rehash makes room; the tag kernels find the same slots |
| `MCXdpReceiver` | 422 thousand | No frame lost, reused early or refused; filter and parser agree on the flow; close is safe at every point of open |
| `MCReplay` | 226 thousand | Every whole record once, in order and from its own bytes; lookahead within the slice and the record; both framings agree; percentiles within their bound of the nearest rank; the replay ends |

Three runs are expected to fail. Each states a sentence of the repository that
the code does not keep:

| Run | Sentence | What the code does |
|---|---|---|
| `MCMoldCopies` | `mold_udp64.hpp:15`, "whichever packet arrives first is delivered and the copy is dropped" | A copy of the old session that comes after a packet of the new one sets a new baseline (line 71), and messages are delivered twice |
| `MCFeedSessions` | `order_map.hpp:96-97`, "Precondition: ref is not already present" | When the session changes the sequencer sets a new baseline; `live_loop` does not look at `session_changed` and keeps the engine, so references that start over are inserted while they are live |
| `MCOrderMapSized` | `order_map.hpp:31`, "Size the map up front (expected_orders) and it never runs during a session" | Tombstones use up the insert budget although no more orders live than expected, and the next insert rehashes (line 100) |

Two smaller differences between a comment and the code are written into the model and
the properties that hold of it:

* `depth_profiler.hpp:17`, "Measures every level search exactly as the kernel sees it".
  The profiler counts a search without keys for an insertion into an empty side, which
  makes none (`order_book.hpp:51`): the first order of a side, and a replace of the only
  order on it. It counts one for an execution or cancel of no shares, which returns
  first (`order_book.hpp:209`). `ForeseesSearches` says that it is exact otherwise.
* `histogram.hpp:34-35`, "the ceil(p/100 * n)-th smallest sample". `percentile` multiplies
  doubles and takes off 1e-9 before it rounds up. Three roundings of 2^-53 stay below
  that slack up to three million samples; beyond them a rank that is a whole number may
  come out one too high. Of the percentages in use the first to do so is 99.9, at
  16913000 samples (the rank 16896087 becomes 16896088), fewer than a full session has
  messages. `LatencyHistogram` has the pairs of percentage and count where this
  happens as a constant, `Carries`: with TLC's numbers the doubles cannot be computed.
  `PercentileBound` then speaks of the sample of the rank after.

### Bounds, and why they are enough

* `MCSpscRing`: 4 slots, indices modulo 8, 9 events, batches of 3. Nine events
  wrap the index and go round the slots twice; a batch is shorter than the ring
  and does not divide it. The theorems remove the bounds.
* `MCBboCache`: 4 words, 3 writes, 1 reader. A snapshot could mix up to three
  writes. Readers do not affect one another or the writer.
* `MCPublisher`: 3 references, 2 prices, share counts 0 to 2 on one locate: two
  orders on one level, a level between others, partial executions, a replace
  onto the same and onto the other level. The theorems cover any
  number of locates.
* `MCFeedHandler`: a symbol with a seeded order and two events, and a symbol that is
  never listed: up to three orders, added, executed in part or whole, cancelled,
  deleted and replaced, two of them on one level, in every stream a seed can give.
  Packets of up to two messages are lost, repeated, cut and overtaken, and each
  subset of the stream that a sequencer can let through occurs. Four ticks of price,
  so that prices wrap; `MaxKey` stands for 2^32 - 1. `MCFeedSessions` needs no event:
  the seeded order of a second session is the duplicate.
* `MCLevelSide`: 4 keys, chunks of 2, 1 chunk: four levels pass through chunk,
  binary search and partial chunk, and the arrays are allocated and grow. Blocks
  are those of the code, 4 keys or 2 quantities, so a shift takes up to two of
  them. `MaxOrders` bounds the orders on the side.
* `MCMoldSequencer`: two sessions of four messages, packets of up to two, polls of
  up to two, and `MaxEpochs`, two baselines (three, over sessions of two
  messages, where copies are looked for).
* `MCOrderMap`: 9 references on 4 of 32 hash values, groups of two, a first table
  of 4 groups. Probes pass full groups and wrap around; the budget is used up by
  tombstones (a rebuild) and by live orders (a growth).
* `MCXdpReceiver`: 3 frames, a fill ring of twice that, an rx ring of 2 slots,
  batches of 2: a batch leaves a frame behind, and both rings fill. The code asks for
  a power of two, to reduce indices by a mask; rings are sequences here, for which
  any number will do. Twelve kinds of frame on the wire: a datagram with and without
  a VLAN tag, IP options and padding, and frames that differ from it in one respect,
  a port, an address, a flag, or a length one off its limit. The theorems remove
  these bounds.
* `MCReplay`: 9 kinds of record with the lengths of the protocol and others one off
  or cut within a field the lookahead reads, up to 3 of them, slices of 60 bytes, 2
  records of lookahead. A slice holds one long record or two short ones, and ends
  between, after the length of, and within records; the file lacks 0, 1 or 20 bytes
  of its last record. Histogram: words of 6 bits of which 2 are kept, samples that
  are exact, at both ends of a bucket, and the largest. The rank of the median of two
  samples carries, in the place of numbers out of TLC's reach.

### Fairness

* `SpscRing`: both threads run on; a load in a loop does not return the same old
  message for ever (a store becomes visible in finite time, as the C++ standard
  asks of implementations). The feed itself need not go on.
* `BboCache`: a `store` that has begun finishes, readers run on, and again old
  messages are not returned for ever. `LoadReturns` assumes nothing of a writer
  that writes without end: then a reader may spin without end.
* `MoldSequencer`: the loop handles the packets of a poll, which nothing blocks.
  No packet need arrive.
* `XdpReceiver`: `close()` runs to its end, and `run_live` destroys a receiver
  whose `open()` failed.
* `FeedHandler`: `build()` goes on; it waits for nothing. The network owes nothing.
* `Replay`: the feed thread goes on; nothing in a replay waits.

## The proofs

TLAPS proves, for every value of the constants that the named assumptions allow:

* `SpscRing_proofs`: `TypeCorrect`, `RaceFree`, `OrderKept`, `Drained`,
  `Refinement`. The invariant `IndInv` adds to the types the order of the six
  indices (`IndexOrder`), what each message of an index location carries
  (`Messages`: a message that shows a tail of n carries the first n slot writes, and
  one that shows a head of n the first n reads), what each program counter
  implies (`Control`), and that slots hold the events between head and tail
  (`Contents`). Race freedom needs all of them: the full test
  bounds the distance of writer and reader, and the message that let it pass
  carries the reads of the slot. Wrapping is handled by one lemma: two indices less
  than a ring apart have different slots, whatever multiple of the capacity they wrap at.
* `BboCache_proofs`: `TypeCorrect`, `NeverTorn`, `Refinement`. The invariant says
  what the history of each location looks like (`Histories`) and what its messages
  carry (`Released`): a field message of write n carries the odd number of
  write n, so that a reader who fetched it and then finds the number of the
  write before cannot have passed the fence.
* `FeedHandler_proofs`, the engine and the Publisher: `TypeCorrect`,
  `LevelsAgree`, `LevelsHold`, `CacheFresh`, `EventsFresh`, `PeakNotBelow`,
  `ProfileForesees`. The levels agree because each call adds or takes exactly one
  order from one level; the shares of a level are a sum over a set of orders, and
  lemmas say what adding, taking and changing one order do to such a sum.
  Freshness follows from a lemma per call: a call that does not report a new top
  leaves the top of every book as it was. What the profiler foresees of a replace
  comes down to the number of keys at or above the new price once the old order,
  and perhaps its level, has gone; a side where an order rests is not empty, so
  only an insertion can be counted without a search.
* `MoldSequencer_proofs`: `TypeCorrect`, `NothingForgotten`, `OrderedDelivery`,
  `NoStepBack`. The invariant strengthens `Accounted` by the baseline, with the
  delivered numbers below `next`. What is proved of one packet (`PacketKeeps`) asks
  only `IsPacket` of it, and the live path uses it through an instance.
* `FeedHandler_proofs`, the generator: `StreamConsistent`, for any symbols, draws and
  numbers of orders and events (`FeedAssumption`). The invariant `FeedInv` says that
  the vector of a symbol mirrors the orders the replaying engine holds for it
  (`MirrorsAt`), place by place, each reference once, that every live reference is below
  the next one, and that references suffice for what is still to come. From it each
  message is `Valid` for the engine that has got all those before.
* `FeedHandler_proofs`, the live path: `PathInvariant`, `GapsContained`,
  `NeverUnderstated`, `OneSessionAddsAreNew`, for any stream, packet size, names
  (`PathAssumption`) and losses, as long as the sender keeps one session name
  (`OneSession`). The hypothesis is needed: `MCFeedSessions` shows what a second one
  does. The invariant `PathInv` holds three facts together. `StreamInv`: every message
  is valid for the engine that gets the whole stream, and the reference that a message
  adds is named by none before it. `Started`: the messages seen are below `next`. `PathRel`: the handler's book is
  `Contained` in the reference engine up to the damage, that is, equal outside
  it and with at least the shares for an order they share, no reference
  still to come is live in it, and the directory holds just the symbols it was told of
  (`Holds`). `PathRel` is kept message by message: a lost one damages what it names
  (`LostStep`); one that is got is valid for the book too, or names a damaged order
  that the book does not have and changes nothing (`GotOrUnknown`, `GotStep`). A packet is
  a run of lost messages and then a run of delivered ones (`RelPacket`), and what it
  delivers later does not change the damage before it (`DamageBefore`).
* `OrderMap_proofs`: `TypeCorrect`, `BudgetExact`, `OneSlotEach`, `RehashOnce`,
  `NeverFull`, `AlwaysReachable`, `FindsExactlyLive`, `AlwaysSized`,
  `ProbesTerminate`, for any hash, group width and size asked for (`MapAssumption`). The
  invariant relates the three counters to the number of full and erased slots
  (`Budget`), and during a copy says which references are in the old table only,
  in the new one only, and which insert waits (`Contents`, `Copying`). That a
  rehash needs no second one follows by counting: the new limit exceeds what is copied.
  `FindsExactlyLive` needs `Reachable`, that the probe of every full slot's reference
  meets its group before any group with an empty slot: `erase` writes EMPTY only into
  a group that has one already, where no probe passes. `ProbesTerminate` needs
  `Sized`, that the number of groups stays a power of two through every rebuild, and
  a fact of arithmetic: two triangular steps that meet the same group of such a table
  are as far apart as it has groups, so that as many steps meet all of them.
* `XdpReceiver_proofs`: `TypeCorrect`, `NoFrameLost`, `PacketsValid`, `RoomToReturn`,
  `SameFlow`, `MemoryStays`, for any number of frames, ring and batch sizes and any
  traffic (`XdpAssumption`, `WireAssumption`). The invariant says that every frame
  is in one place only (`Placed`), that the kernel has read no producer index
  beyond one round of frames (`Bounded`, from which the fill ring has room, however
  late it publishes), that resources are acquired in a chain, each one with
  those it rests on (`Chain`, `Held`), and that rings are in use only with a
  socket. `SameFlow` is arithmetic over all lengths that headers can claim.
* `Replay_proofs`: `TypeCorrect`, `RecordsOnce`, `LookaheadStays`, `HintsStayWithin`,
  `FramingAgrees`, `DecodesOwnBytes`, for any records that a slice can hold, any file,
  slice and lookahead (`ReplayAssumption`), and `PercentilesBounded`, for any width of
  words, resolution, samples and percentages (`HistogramAssumption`). The invariant says that the parser stands
  at the start of some record i, that statistics and handler have had the records
  before it (`Recorded`), that slice and lookahead are at records too (`Sliced`,
  `Looking`), and why a replay ends (`Ended`). The start of a record is a fold over
  the lengths before it; `Framing` turns it into the facts that neighbours give, from
  which every byte a record starts at tells the record. For `DecodesOwnBytes` the
  invariant is joined by `Decoded`, what the handler's last message was decoded from.
  That the layouts leave no byte uncovered is the code's own static assertion
  (`FieldsTileMessages`, which TLC evaluates); each decoder of an add order is shown
  to give, byte for byte, what the table `AddOrderSrc` names. For the histogram the
  invariant (`Holds`) says that the counts of the buckets up to any one sum to the
  number of samples timed whose own bucket is not above it, and that minimum and
  maximum are theirs. Buckets contain their samples (`BoundsHold`) and keep their
  order (`IndexGrows`), so the scan of `percentile` stops at the bucket of the sample
  of the nearest rank (`StopsThere`), and a merge leaves what one histogram of all
  samples would hold. Where a rank carries (`Carries`) the share asked for (`Asked`) is
  larger by less than one rank, which the same argument covers. Powers of two are a recursive function (`Pow2`): 2^k with a
  variable k has no meaning to the provers.
* `LevelSide_proofs`: `TypeCorrect`, `StaysSorted`, `Refinement`, `SearchesAgree`, for
  any prices, shares, chunk width and count and first allocation (`LevelAssumption`).
  The invariant says that the keys in use ascend (`Sorted`) and that every level
  has a price and an order (`Held`). Each search, the binary one included, is shown to
  split an ascending array at its key; each shift, block by block, to move its range by
  one place; from these, each action on the arrays is the action of `LevelMap` on
  the map they stand for.

`PathInv`, `PeakNotBelow`, `NoStepBack`, `OrderKept`, `BudgetExact`, `NeverFull`, `Reachable`,
`Sized` and `Sorted` are proved only; TLC has no run of its own for them. So are the
types of every module (`TypeOK`, `Typed`).

**Induction over data.** The induction theorems of the library take an operator as
their parameter, which the provers cannot instantiate. Where a proof needs an
induction it is made from a least counterexample instead (`Least`: a non-empty set of
numbers has a least one), and folds and recursive functions are shown to exist by
the well-foundedness of strict inclusion between finite sets. Sums over orders,
starts of records, block moves, the binary search, the counts and powers of two of the
histogram, and the engine, the damage and the handler after each message of a stream
are proved about in this way.

Only model-checked:

* liveness everywhere, which is out of the prover's reach;
* `TagKernelsAgree`, bit operations on bytes, which the provers have no theory of.

## What is not modelled

* Messages lost just before the end of a session: `mold_udp64.hpp:67` returns
  before it looks at a number, so they are in no gap. `Accounted` speaks of the
  numbers before the next expected one, and no property covers these.
* References to a slot that outlive an insert (`order_map.hpp:34`): the engine
  copies what it needs before it inserts, and the model's values cannot dangle.
* `try_pop`, which the feed handler does not call; the count of crossed books;
  counters that are only printed (`unknown_ref`, `overfill`); prefetch hints of
  engine and map, which change no state.
* A second VLAN tag and a queue without a socket: both go to the kernel's stack.
* System messages and command-line options of the generator; the mean of the
  histogram and the overflow bucket of the profiler, which are only printed.
* Ranks beyond 10^11 samples, where the error of the double could reach the smallest
  fraction of a rank that a percentage in hundredths leaves.
* Too little in a level after a lost add: `OverstatesOnly` speaks of orders that are live
  in the book and at the exchange; of the others `DamageContained` says which they are.
* Clocks, performance counters, large buffers and platform checks: system calls
  and instructions without a protocol of their own.
* Command line, report, benchmarks and the programs that compare parsers: formatted
  output and measurements of the code that is modelled.
* Widths of quantities: a level sums 32-bit shares in 64 bits.
* Streams of several symbols over the faulty network: books of different locates
  share only the order map, which `FeedHandler_proofs` treats for any number of
  locates.

## What is left

Two symbols with an order each in `MCFeedHandler`, with fewer events.
