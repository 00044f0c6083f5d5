# NetBlast: TLA+ verification

NetBlast is a DPDK load balancer (`src/l2fwd`) with a packet generator for
measuring it (`src/pktgen`). The load balancer receives packets on several
lcores (pinned, busy-polling threads), maps the flow of each packet to a backend
through a hash table that all lcores share without locks, rewrites the
destination and transmits. This directory holds TLA+ models of it, the TLC
configurations that check them and TLAPS proofs.

* Check a run: `tlc -workers 2 -config MCDramblast_race.cfg MCDramblast`
* Check the proofs: `tlapm DramblastProofs.tla`, and likewise `FindQueueProofs`,
  `MaglevProofs`, `L2fwdProofs`, `PktgenProofs`, `SashstoreProofs`,
  `BalancerProofs` and `StartupProofs`

`PROJECT.json` lists the components, runs, mutants, findings, hazards and
theorems, and maps every definition to the source lines it models.

## 1. Inventory

| Component | Source | State | Operations | Hard behaviour | Module |
|---|---|---|---|---|---|
| dramblast connection table | `dramblast.c/.h` | open-addressing table of 16-byte slots in 64-byte buckets, one find queue per lcore | batched lookup, re-probing through the queue, insertion by 16-byte CAS | lock-free races, non-atomic vector load, results that are stale when applied, queue and table at their limits | `Dramblast` |
| find-queue ring | `dramblast.c` 27-56 | ring array, head, tail | size, push, pop | a full ring looks empty; the popped item is used through a pointer into the ring | `FindQueue` |
| maglev connection table | `hashmap.c`, `maglev.c` | array of key/value pairs | scan, insert by CAS, lookup-then-insert | stale lookup, CAS losers | `Maglev` |
| forwarding loop, statistics, shutdown | `main.c` | per-worker burst and counters, `force_quit`, samples, mbuf pool, ports | poll, map, rewrite, transmit, sample, signal, teardown | signal at any time, teardown against running workers, partial transmit, counters read while written | `L2fwd` |
| startup | `main.c` | options, port pairs, lcore/queue assignment, table | `l2fwd_parse_args`, pairing, assignment, port setup, table init | option combinations, running out of lcores, capacity as a mask | `Startup` |
| packet generator | `pktgen.c` | roles and queues of lcores, mbuf pools, local and published counters | role assignment, TX burst, RX burst, publish, per-second report, shutdown | mbuf pools exhausted, partial bursts, lazily published counters, signal at any time | `Pktgen`, `PktgenSetup`, `PktgenMain` |
| load balancing of packets | `main.c`, both tables | bursts, `frames`, `mac_addrs`, the table | hash, ask the table, rewrite, transmit | answers applied to the wrong packet, answers left over from an earlier burst, connections that change their backend | `Balancer` (over `FlowService`) |
| flow hash, FNV | `packettool.c`, `hash.c` | none | header parsing, hashing | which frames are valid, IP options | `PacketTool` |
| sashstore key-value store | `sashstore.c`, `hashmap.c` 72-114 | array of string pairs | SET, GET requests | table at its limit, uninitialised memory, the key that marks an empty slot | `Sashstore` (over `KVStore`) |
| memory life cycle | `dramblast.c` 253-356 | heap objects, huge-page mapping | `dramblast_init`, `dramblast_destroy` | capacities below a bucket, mapped and unmapped size, destruction without initialisation, failing allocations | `DramblastMemory`, composed in `Startup` |
| lookup-table population | `conshash.c` | the lookup table | `populate_lut` | dead code after an early return | not modelled (`Backend` is arbitrary) |
| test harness | `tests/` | - | unit and stress tests | - | not modelled |
| docs and tooling | `docs/`, `scripts/`, nix files, `collect_data.py` | - | - | - | not modelled |

**Interactions.** `main.c` parses the options, assigns queues to lcores and
initialises one of the tables (`Startup`). Each worker then runs
`l2fwd_main_loop`: `rte_eth_rx_burst`, hash every packet, one call of
`dramblast_process_frames` per burst or `maglev_process_frame` per packet,
rewrite, `rte_eth_tx_burst` (`L2fwd`). The table calls happen concurrently on
all lcores and share nothing but the table (`Dramblast`, `Maglev`; each lcore
owns its find queue). The main lcore reads the workers' counters, ends the run
and tears down. The two tables promise the loop the same thing; that promise is
the module `FlowService`. `Balancer` composes the loop, with the contents of the
packets, and that service; `PktgenMain` composes the setup and the run of the
packet generator, and `Startup` the setup of the load balancer and the life of
its table's memory. sashstore is linked, but `-m sashstore` is refused.

**What correctness means here.**

* Tables: a flow, once bound to a backend, keeps it; an answer is the binding of
  that very flow or "no mapping"; a miss is genuine; a refusal happens only when
  the probe sequence is really occupied; every call returns.
* Loop: every mbuf has one owner and none is leaked; counters balance; nothing
  is used after it is torn down; samples fit their array; the program ends.
* Startup: a queue has one owner, ports are paired, the table the loop uses is
  the one that was initialised, every load of a lookup is inside the mapping and
  all memory is returned.
* Balancer: a packet leaves with the backend of its own flow, whichever lcore and
  burst it was in; the packets of a connection all get the same one.
* Packet generator: queues have one owner, pools are conserved, reports are
  covered by what was sent, a signal ends the program.
* sashstore: it is a map of the keys it has acknowledged, whatever its memory held.

The hazards behind these properties are listed, each at its line, under
`hazards` in `PROJECT.json`.

## 2. Modules and their correspondence to the code

### FlowService
The abstract service: a set of bindings, batches handed in by lcores, answers
handed out one by one. `Bind` binds a flow and answers it in one step, `Lookup`
answers with the existing binding, `Refuse` answers 0 and is allowed only when at
least `RefusalBound` flows are bound. It is external to the code (no file
implements it) and both tables are checked to implement it.

### Dramblast
One lcore's position in `dramblast_process_frames` is `pc[t]`. A step is at most
one access to shared memory; local steps are merged with a neighbouring access.
The C variables keep their names (`args`, `args_head`, `results`, `ret`).

| Action | Code |
|---|---|
| `Call`, `Return` | the call in `l2fwd_main_loop` and its return |
| `FillAndPop` | the fill loop and `dramblast_pop_queue` (139-158) |
| `LoadLane` | the lanes of the vector load (160), one by one, in any order |
| `Hit`, `GiveUp`, `Miss`, `Reprobe` | the four ends of a probe (161-203) |
| `AnswerFound`, `AnswerFull`, `StartInsert` | the cases of the result loop (223-241) |
| `InsertLoad`, `Claim`, `LoseClaim`, `InsertMatch`, `InsertStore`, `InsertNext`, `InsertFail` | `dramblast_insert_one` (92-131): load, CAS won, CAS lost, key comparison, plain store, next slot, all slots visited |

Abstractions: a flow is a non-zero number (the loop hands over only hashes > 0);
`Home` and `Backend` are arbitrary functions, so every collision pattern is
covered; the find queue is a sequence (see `FindQueue`). `ret` models the
uninitialised `mac_addrs` array of the caller: it starts with arbitrary values
and survives from burst to burst. `missed` is a history variable.

### Maglev
The same kind of model of `maglev_process_frame`, `maglev_hashmap_get` and
`maglev_hashmap_insert`; a step is one access to a pair. The value of a cached
pair is read in a separate step after its key was compared (`ReadCached`).

### L2fwd
The run-time program: workers (`LoopHead`, `Poll`, `MapOne` for maglev or
`HashBurst`, `LookupBurst`, `ApplyBurst` for dramblast, `RewriteBurst`,
`Transmit`), the main lcore (`Launch`, `StatsHead`, `ClockEarly`, `ClockDue`,
`Aggregate`, `RecordSample`, `WaitWorkers`, `StopPort`, `Destroy`), the NIC
(`NicReceive`, `NicTransmit`, external), the clock (`Tick`, external) and
`signal_handler`. A packet is its mbuf. Which packets have a valid hash and which
flows a backend is a free choice; what becomes of the packets' contents is
`Balancer`'s matter.

### PacketTool and Balancer
`PacketTool` has `flowhash` and `get_udp_payload` of `packettool.c` as operators
on the words behind the Ethernet header: which frames are refused, and which
words are read when the IP header has options. FNV is an arbitrary function.

`Balancer` is the loop again, but a packet has contents: `[conn, ip, dst]`, where
`conn` is the connection it belongs to, which the code cannot see. `Poll` takes
any burst; `MaglevFrame`, `MaglevReturn`, `MaglevDone` are the one-packet path,
`DramblastFrames`, `DramblastReturn`, `Rewrite` the batched one (`frames` has, in
`Ascending` order, the positions of the packets with a valid hash; `mac_addrs` is
filled side by side and not cleared between bursts), `RewriteNone` the loop without a table; `Transmit` sends a prefix of the
burst. The table is an instance of `FlowService` whose answers (`Answer`) come at
any time and in any order, so the result holds for both tables, which are shown
to implement it. Counters, mbufs and the shutdown are in `L2fwd` and not here.

### Startup and DramblastMemory
`main` of the load balancer up to the launch of the workers, and its end: one
action per option of `l2fwd_parse_args`, then pairing, the lcore search
(`NextLcore`, `AssignQueue`, `AssignNextPort`), port setup with its failures,
`InitDramblast`, and `Finish` and `Destroy` when the workers are done.

`DramblastMemory` has the steps of `dramblast_init` (`AllocRoot`, `AllocQueues`,
`AllocFindQueue`, `MapTable`) and `dramblast_destroy` (`DestroyNothing`,
`UnmapTable`, `FreeFindQueue`, `FreeRoot`). Every allocation may fail; the two
the code does not check leave a write through NULL (`null_write`, after which
the program has crashed) or a missing find queue. `munmap` is external: it
refuses a length that is not a multiple of the page size and removes what it is
given. Sizes are scaled down (a slot of 2 bytes, pages of 16 and 32), so that the
capacities of the run cross both page sizes and the size of a bucket.

### FindQueue and LookupQueue
`Dramblast` treats the find queue as a sequence; `FindQueue` is the ring that
implements it: the array, `find_queue_head`, `find_queue_tail`, the index
arithmetic of `dramblast_push_queue`, `dramblast_pop_queue` and
`dramblast_get_queue_sz`, and `queue_tail_slot`, the pointer into the ring that
the caller reads through after the slot has left the queue. `Fill`, `Pop`,
`Resolve` and `Requeue` are the four things `dramblast_find_batch_sync` does with
it. The mask `& (find_queue_size - 1)` is written as the wrap it computes for a
power of two. `LookupQueue` is the abstract queue: first in, first out, at most
`Limit` lookups, one lookup held unchanged while it is probed.

### Pktgen
The packet generator after its ports are started. `LoopHead`, `AllocFail`,
`Build`, `Transmit` are `tx_worker_loop`; `LoopHead`, `PollEmpty`, `Poll`,
`Count` are `rx_worker_loop`; `Publish`, `NotYet` and `Flush` are the counter
updates of both. `Launch`, `ReportHead`, `Wake`, `ReadStats`, `Report`, `Join`,
`ClosePort`, `Exit` are the main lcore. `Wire` (external) sends packets, loses
some and returns the others on any RX queue that has room. `NUM_MBUFS_PER_CORE`
is chosen in `Init` from `PoolSizes`. `accepted` and `reported` are history
variables.

### PktgenSetup
`main` of the packet generator up to the launch: options, the halves of TX and RX
workers, the round robin over the ports, and the setup of the queues, each of
which may fail.

### PktgenMain
The packet generator from its command line to its exit. `SetupStep` is
`PktgenSetup`, `RunStep` is `Pktgen`; they share `force_quit`, which the signal
handler may set as soon as it is installed (`EarlySignal`), before there are any
workers. Every machine is set up, one of them (`Followed`: the numbers of
workers and ports and the roles that `Pktgen`'s constants name) is run.

### Sashstore and KVStore
`sashstore_process_frame` handles one frame to its end: `Set`, `Get`,
`OtherMode`, or a malformed packet. Probing is `FirstWith`: the first slot of the
probe sequence with one of the given keys. `sashstore_init` does not clear its
memory, so a fresh slot holds any key and value, the key of a later request
included. A reply is its status and value. Two history variables say what the
properties need: `fresh`, the table as it was allocated, and `acked`, the keys whose
SET was answered STORED.

`KVStore` is the promise, and like `FlowService` it stands for no file: a map of the
acknowledged keys, in which a SET is refused only for a new key and only when as
many keys are stored as slots looked empty at first. It differs from a plain map
in two ways, both stated openly. The zero key marks empty slots, so it is
acknowledged and not kept (`SetReserved`). And the map has `leftover`s, the pairs
of the fresh memory: a GET of a key that nobody has stored is answered NOT_FOUND
or with such a pair, one or the other as SETs of other keys fill the holes in
front of it. On cleared memory there are none, and `KVStore` is a map.

## 3. Runs

Every run that is expected to pass finishes within about two and a half minutes
on two TLC workers; most take less than one.

| Run | Instance | What it shows |
|---|---|---|
| `dramblast_race` | 2 lcores, 4 flows, 2 buckets of 2 lanes, ring of 2 | All interleavings of lookups and insertions of colliding flows. Three flows share the last bucket, so probes wrap; four flows fill the four slots. `ProbePathUnbroken`: no hole and no second copy in front of a stored flow. `MissIsGenuine`: a miss, decided on a torn vector load, was true when the probe began. `SlotsArePermanent`, `AnswersRight`, the refinement of `FlowService`, and `CallsReturn` although compare-and-swaps are lost |
| `dramblast_overflow` | 1 lcore, 6 flows, bursts of up to 5, ring of 4 | A burst longer than the ring, a burst that repeats a flow, more flows than slots. `LookupsConserved`, `QueueDiscipline`, `RefusalSubstantiated`, and `CallsReturn` on a full table |
| `dramblast_full` | as above, all flows collide | Expected violation, see section 5 |
| `find_queue` | ring of 4, batches of up to 6, two visits | The ring wraps and is full; batches start at every offset. `ImplementsLookupQueue`, `BatchComplete` |
| `maglev_race` | 2 lcores, 5 flows, 4 slots | `ScanPathUnbroken`, `AffinityKept`, the refinement of `FlowService`, `FramesAnswered` while the table fills up |
| `l2fwd_batched` | 3 workers (two share a port, one idle), 2 mbufs, dramblast | `MbufsConserved`, `NoUseAfterTeardown`, `RateNeverWraps` with a signal at any time |
| `l2fwd_end` | 1 worker, 2 ports, every mode, `Hz` 2, `-T` 0, 1 and 3, words of five values | `PacketsAccounted`, `SamplesFit` when the main lcore polls late and when the period wraps to less than a second, and `RunEnds`: the program ends, by the clock or by a signal, one before the launch included |
| `balancer` | 2 workers, 2 bursts of up to 2 packets, 2 connections (one with IP options), a frame that is not hashed, every mode | `RewrittenRight`: no packet gets the answer of another packet or of an earlier burst. `ConnectionsStick`: two packets of a connection that were rewritten have the same backend, whichever worker and burst. `BurstsLeave`: every burst is transmitted |
| `startup_options` | about 350 command lines, 3 ports, 4 workers, capacities 0 to 64 | `QueuesOwnedOnce`, `PortsPaired`, `LoopTableReady` (with a capacity that is a mask), `LoadsMapped`: a lookup of a whole bucket stays inside the mapping, also for `-c 1` and `-c 2`. `MemoryReturned`: a run that ends has returned all memory, whichever allocation was missing |
| `startup_readme` | the example of `l2fwd/README.md` | Expected violation, see section 5 |
| `pktgen` | up to 5 workers and 3 ports set up; 1 TX and 1 RX worker on 2 ports run, pools of 3 and 4, queues and bursts of 2 | `QueuesMatch`: queue numbers are dense and unshared, also with odd numbers of workers and more ports than workers. `PoolsConserved`, `IdsDense`, `NeverStarved`, `ReportsHonest`, `NoUseAfterClose`, and `SignalEndsProgram` for a signal at any time, during the setup too |
| `sashstore` | 2 slots of arbitrary first contents, 3 keys that probe through each other and the zero key, 6 requests | `KeysReachable`: a GET finds every acknowledged key, whatever collisions, overwriting and leftover copies of it there are. `ImplementsKVStore` |

**Why the bounds are enough.** The races in the tables need two lcores: one that
decides on what it saw and one that changes it. Two buckets of two lanes are the
smallest table in which a probe leaves its bucket, wraps around and reaches the
bound; the real bucket has four lanes, which changes no case of the code. A ring
of two (race) allows one lookup at a time and re-queues through an empty ring; a
ring of four (overflow, `FindQueue`) is full and wraps. `MaxPackets` and `MaxTsc`
bound traffic and time so that a burst is partly transmitted, an mbuf is reused
and the samples array is filled. In `Balancer`, two bursts (`MaxRounds`) are one
worker after itself, so that `mac_addrs` is stale, and two workers at once. Two
slots are the smallest table in which keys collide, probes wrap, and a leftover is
repeated or lies behind an empty slot; three keys overfill it, and six requests
(`MaxRequests`) store, refuse, overwrite and look up. `Word` is 5 in `l2fwd_end`,
because with a clock rate of 2 only an odd word lets a product wrap to a single
tick. The proofs of section 4 need none of these bounds. `SYMMETRY` over mbufs is used only in runs without temporal properties;
no definition chooses among mbufs.

**Deadlock** is checked for the tables and the ring, whose callers never stop; the
programs (`L2fwd`, `Startup`, `PktgenMain`) do end, and the traffic of `Balancer`
and `Sashstore` does by its bound, so there it is not.

**Fairness.** Weak fairness of each worker and of the main lcore: every lcore
runs one pinned busy-polling thread, nothing in the loops blocks, and the only
waits are `sleep` and the join of the workers. In `L2fwd` the time stamp counter
keeps counting (`Tick`). In `Balancer` the table's answers belong to the worker
that waits for them: that a call returns is what `CallsReturn` and
`FramesAnswered` show of the tables. In `PktgenMain` the main lcore is fair in the
setup and in the run. Nothing is assumed of callers, of the NIC or the wire,
or of signals: calls return and programs end without traffic. No compare-and-swap
needs strong fairness: a loser looks at the same slot again and finds it taken
for good.

## 4. Proofs

Every safety property that a passing run checks, the action properties and the
four refinements included, is also a theorem: it holds for every value of the
constants that satisfies the named assumptions.

The assumptions restrict constants only, TLC evaluates each of them on the runs,
and a comment at each says what in the code it stands for. Those that carry weight:

* `L2fwdAssumption`: a queue is in the list of one worker. The theorem
  `LoopAssumptionHolds` of `StartupProofs` shows that `main` sets it up like that.
  `MAX_TIMER_PERIOD` seconds are fewer clock ticks than a `uint64_t` counts (86400
  times any clock rate); `-T` itself may be any value of a `uint64_t`.
* `BatchAssumption`, `RingAssumption`: a ring has at least two slots, a batch at
  least one lookup and at most `MaxBurst`.
* `BalancerAssumption`: `Garbage`, what an uninitialised array holds, are numbers.
  `ConnectionAssumption`: the frames of a connection agree on the addresses, the
  protocol and, behind the header they have, on the ports; it says nothing of
  options, checksums or lengths. This is what a connection is, not what the code
  computes. IP fragments other than the first are outside it: they carry no
  ports, and `flowhash` reads the first bytes of their payload as ports, so they may
  go to another backend than their connection.
* `SashstoreAssumption`: a payload is read as a key and a value. Nothing is assumed
  of the first contents of the table.
* `StartupAssumption`: options carry what `strtoul` returns, the built-in
  capacity and the number of lanes are powers of two, an lcore id indexes
  `ht->queues`. `MemoryAssumption`: a bucket fits into a page, and a large page is
  a multiple of a small one.

**Dramblast** (`DramblastProofs`), for every number of lcores, flows, lanes and
buckets, every ring size of at least two, every `Home` and `Backend` and every
set of batches. Assumptions, all evaluated by TLC too: `TableAssumption` (sizes
are positive), `FlowAssumption` (flows are non-zero, `Home` is the start of a
bucket, backends are non-zero), `BatchAssumption` (a batch has between 1 and
`MaxBurst` entries).

None of the safety properties is inductive alone. A search in progress has seen
slots that other lcores may have changed since; what keeps its conclusion true
is that slots never change once taken. So the inductive invariant `IInv` says of
every lookup in the queue, of the one being probed and of every insertion how
far it has come (`visit_count`, `count`) and that all slots it has passed hold
other flows (`QueueInv`, `ProbeInv`, `CursorInv`); of every result and answer,
that it is still true of the table (`ResultInv`, `AnswerInv`); of the lanes read
so far, what a hole that was seen can mean (`CachelineInv`); and that every
pushed lookup is somewhere (`TrackInv`, `PhaseInv`). `ProbePathUnbroken` and
`SlotInv` complete it. The proof has one lemma per action. `Frame` carries the
invariant of every other lcore over a step that only adds to the table
(`Grows`), and the index arithmetic is in `DistFacts`, `NextSlotFacts` and
`NextBucketFacts`.

| Theorem | States |
|---|---|
| `TypeCorrect` | `TypeOK` |
| `ProbePathsStayUnbroken` | a stored flow is reached by its probe sequence, and is stored once on it |
| `SlotsStayPermanent` | a taken slot never changes |
| `MissesAreGenuine` | "absent" was true when the probe began, although the vector load is not atomic |
| `AnswersAreRight` | the loop gets the stored backend of the very flow, or 0 |
| `RefusalsAreSubstantiated` | 0 only when all buckets of the probe sequence but the last are taken by other flows |
| `QueuesAreDisciplined` | the ring is never overfull, never popped empty, and drained between calls |
| `LookupsStayConserved` | no lookup of a batch is lost or resolved twice |
| `DramblastIsFlowService` | `ImplementsFlowService`: every step is a step of the service or a stutter |

The last two need counting. `LookupsConserved`: the `Row` of a lcore's resolved,
queued and probed lookups has as many entries as were pushed (`PhaseInv`), and
every one of them is in it (`TrackInv`), so none is in it twice. The refinement:
a flow that is refused was passed over by all slots but those of the last bucket,
which `ProbePathUnbroken` makes as many bound flows (`PassedCount`).

**FindQueue** (`FindQueueProofs`), for every ring size of at least two, batch
length and number of visits (`RingAssumption`). `IInv` adds to `TypeOK` that
pushed arguments are counted (`Accounted`), that a popped lookup finds room when
it is put back (`RoomToPutBack`: without it a push could overwrite the slot that
is still read through the pointer) and that each is somewhere (`Tracked`).
`BatchesComplete` follows. `RingIsQueue` is the refinement: under the mapping
`Contents` (the slots from tail to head) and `Held` (the slot behind the pointer)
every step of the ring is a step of `LookupQueue` or a stutter. The lemmas
`ContentsPush` and `ContentsPop` show that a push appends and a pop removes the
head, wherever the ring wraps. It justifies the sequence that `Dramblast` uses.

**Maglev** (`MaglevProofs`), for every number of lcores, slots and flows, every
`Home` and `Backend`. `IInv` says of every scan and insertion in progress that
the `i` slots it has passed hold other flows (`LcoreInv`, `Passed`); without it
nothing is known when a compare-and-swap is won. They do so for good, because a
step only adds to the table (`Grows`).

| Theorem | States |
|---|---|
| `TypeCorrect` | the probe counter stays within the table |
| `ScanPathsStayUnbroken` | a cached flow is met by its scan before any empty pair, and is stored once |
| `AffinityStays` | a cached flow keeps its backend |
| `MaglevIsFlowService` | `ImplementsFlowService`; a refusal only when all pairs are bound |

**L2fwd** (`L2fwdProofs`), for every number of workers, ports, queues, mbufs and
packets, every mode and period. Four invariants build on each other:

* `ControlInv`: `TypeInv`, where each worker's loop may stand (`WorkerInv`), and
  that main tears down only when all workers have left their loops (`MainInv`).
* `MbufInv`: each mbuf is somewhere (`Somewhere`) and nowhere else (`Once`).
* `CountInv`: the counters balance in the middle of a burst too, with what is still
  to be mapped and to be sent (`Unmapped`, `Unsent`) on the other side.
  `PacketsAccounted` speaks only of the time between bursts and is not inductive.
* `SampleInv`: every sample stands for a period of `prev_tsc`, whenever main polls,
  and none is taken once `prev_tsc` has reached the end. A `-T` up to
  `MAX_TIMER_PERIOD` does not wrap (`PeriodFits`), so its period is at least a second
  and the array suffices.

`RateNeverWraps` compares two totals that were both read counter by counter while
the workers went on. What is inductive is about the whole of both passes: there is
a function `old` from the set of counters still to be read to the total at that
moment of the last pass, and `cur` for this one (`PassInv`, `ScanInv`). At every
point of the scan this pass is not behind the last one, as each counter only grows.

| Theorem | States |
|---|---|
| `TypeCorrect` | `TypeOK` |
| `MbufsStayConserved` | no mbuf is leaked, duplicated or used after it was handed over |
| `PacketsStayAccounted` | received = forwarded + unmapped = sent + dropped, per worker and port |
| `NothingUsedAfterTeardown` | no port or table is used after it was closed or destroyed |
| `SamplesAlwaysFit` | samples are a period apart and end with the run; they fit the array for every `-T` up to `MAX_TIMER_PERIOD` |
| `RateStaysUnwrapped` | the unsigned rate does not wrap |

**Packet generator** (`PktgenProofs`), for every number of workers and ports, every
ring, burst and pool size. `IInv` says of each worker that its pool, its burst and
its queue add up to the pool (`BufInv`), that the burst in hand continues the
numbers already sent (`IdInv`), and that reported, published and counted packets
are in this order (`StatInv`). `SetupInv` says that the queue numbers given out on a
port are those below a counter and are unshared (`QueueInv`), and which of them
are set up in each phase (`PhaseInv`). `ProgramRuns` carries the results about
the run over to the program with its setup and its early signal.

| Theorem | States |
|---|---|
| `ProgramRuns` | the whole program takes only steps of `Pktgen` as far as its variables go |
| `PoolsStayConserved`, `IdsStayDense`, `ReportsStayHonest`, `NobodyStarves`, `NothingUsedAfterClose`, `QueuesAlwaysMatch` | the invariants of the run `pktgen` |

**Sashstore** (`SashstoreProofs`), for every capacity, hash, request and first
content of the memory. `KeysReachable` is not inductive: it does not say what is in
the way of a key that is stored next. `IInv` says of every slot (`SlotInv`) that it
is empty as it always was, or an untouched leftover, or holds an acknowledged key and
is where GET stops for it. A slot never becomes empty again and never changes its
key, so what a probe finds (`Finds`) it finds for good (`StoreKeeps`). For the
refinement, keys and slots are counted: acknowledged keys that are not leftovers
are in different slots that looked empty at first (`RoomForNewKeys`), and when no slot
looks empty any more, each of those holds another acknowledged key (`FullCount`).

| Theorem | States |
|---|---|
| `KeysStayReachable` | a GET finds every acknowledged key; other copies of it are untouched leftovers |
| `SashstoreIsMap` | `ImplementsKVStore`: every request is a step of the map of acknowledged keys |

**Balancer** (`BalancerProofs`), for every number of workers, frames and burst
sizes, in every mode, over any table that is a `FlowService`. `IInv` says that
answers are those of the flow that was asked for (`AnswersGood`), that `frames`
has just the packets with a valid hash (`FramesMatch`), that the packets before
`j` are right and the others untouched (`MaglevInv`), that until `Rewrite` nothing
is touched and `mac_addrs` answers `frames` at every position that is read
(`DramblastInv`), and that what was sent was right (`SentInv`). A packet may
leave untouched only when the table is full, and full it stays (`FullStays`).
`ConnectionsStick` follows from that: the flow hash reads only words on which the
frames of a connection agree.

| Theorem | States |
|---|---|
| `PacketsAreRewrittenRight` | `RewrittenRight` |
| `ConnectionsAlwaysStick` | `ConnectionsStick` |

**Startup and its memory** (`StartupProofs`), for every command line, every set
of ports, lcores and queues, every capacity, slot and page size. `MemoryInv`
says which options leave a capacity that is a mask (`ArgInv`), how far the
tables are in each phase of `main` (`TableInv`) and what is on the heap and
mapped in each phase of init and destroy (`HeapInv`). That the loads stay inside
needs arithmetic: a power of two divides every larger one (`PowersDivide`), so a
bucket that wraps around by the mask is whole, or starts at slot 0 of a table
smaller than a bucket, and the mapping has at least the bytes of the table and a
page (`AlignUpFacts`), which holds a bucket. It is removed whole because
`dramblast_destroy` computes the same aligned size again. `PairInv` says that
the ports seen so far are paired up but for the one that waits; `AssignInv` that
the lists are a matching of lcores and the queues handed out so far (`Matching`,
`Owned`), which rests on `rx_lcore_id` only growing.

| Theorem | States |
|---|---|
| `QueuesAreOwnedOnce` | `QueuesOwnedOnce` |
| `LoopAssumptionHolds` | the lists the workers get are what `L2fwdAssumption` asks for |
| `PortsArePaired` | `PortsPaired` |
| `LoopTableIsReady` | `LoopTableReady` |
| `LoadsStayMapped` | `LoadsMapped` |
| `MemoryIsReturned` | `MemoryReturned` |

**Only model-checked.** The five liveness properties: `CallsReturn` and
`FramesAnswered` of the tables, `RunEnds`, `BurstsLeave` and `SignalEndsProgram`.
Liveness under fairness and `ENABLED` are out of the prover's reach. The two runs
that are expected to find a violation are not about theorems.

## 5. Findings and observations

Two runs show that the code does not do what a comment or document says:

* `dramblast_full`, `TableFullMeansFull`. `dramblast.h` 18-20 calls the status
  "giving up on a full table". `dramblast_find_batch_sync` counts a bucket and
  tests the bound before it looks for an empty slot (`dramblast.c` 175-187), so
  the last bucket of a probe sequence is never searched for room: `TABLE_FULL` is
  reported while slots are empty. A table of one bucket (`-c 4`) never binds a
  flow. `RefusalSubstantiated` states the guarantee that does hold.
* `startup_readme`, `LcoresSuffice`. Queues are not distributed over the lcores:
  `rx_lcore_id` only grows (`main.c` 539, 551), so an lcore polls one queue at
  most, and the example of `l2fwd/README.md` (one worker, two ports) exits with
  "Not enough cores".

Met while modelling, and not contradicted by any document:

* The loop transmits on the port a packet came from, not on `dst_ports`;
  `--no-mac-updating` is parsed and not used by the loop.
* `populate_lut` returns after it filled the table with `0xff`, so its
  permutation code is dead and every new flow gets the same backend.
* `fnv_1a` calls `fnv_1_multi`, so it computes FNV-1.
* The source address written into a packet is that of its `dst_port`, although it
  leaves on the port it came from.
* `-T` is not checked: neither against `MAX_TIMER_PERIOD`, which nothing uses, nor
  for a negative number, and its product with the clock rate wraps (`main.c` 467,
  501). With a clock of 2.4 GHz, `-T 7686143365` gives a period of 0.95 s, and
  `print_stats` writes 33 samples into an array of 32. `SamplesFit` therefore states
  the array bound up to `MAX_TIMER_PERIOD` only; beyond it the model counts the
  samples and does not follow what the writes past the array destroy.
* `sashstore_init` does not clear its memory. A slot that is not zero by chance is
  lost for all keys but the one it happens to hold; a GET of that key answers VALUE
  before any SET, or only after a SET of another key has filled the hole in front of
  it. Once a SET of the key is acknowledged its value is what GET returns. A SET of the zero key is answered STORED, a GET of it NOT_FOUND.
* The replies of sashstore are built in the memory of the request: the status
  `VALUE` overwrites the first byte of the key before the key is copied into the
  reply, and `NOT_STORED` and `NOT_FOUND` overwrite the request.
* `dramblast_init` checks the allocations of its root and of the table, not those
  of the queue descriptors and the find queues.
* `-c 1` and `-c 2` are accepted. A bucket has four slots, so a lookup loads
  slots beyond the table (`LoadsMapped`: still inside the mapping, which is at
  least a page) and every flow is refused.
* `prev_agg` is one variable for all ports, and the main lcore reads `rx` before
  `rx_cnt`, which the worker writes in the other order: the printed "Average rx
  batch sz" mixes ports and intervals. Nothing reads it back.
* An RX worker of the packet generator whose queue is empty skips the publish
  check, so the reports lag behind until traffic resumes or the program ends.

## 6. Not modelled

* `populate_lut` below its early return (`conshash.c`): it never runs. The lookup
  table only decides which backend a new flow gets, and `Backend` is an arbitrary
  non-zero function in the models.
* FNV arithmetic: the models allow every hash function.
* The length of a frame, which no parser checks, and the parts of a sashstore
  reply that echo the request.
* Printed statistics that nothing reads back (`rx_cnt` and `prev_agg`, byte
  counts, latencies, hardware counters), the test harness, documents and tooling.

## 7. Plan

Done: the tables with their abstract service, the ring with its proof, the
forwarding loop, startup with the memory of the table, the load balancer over
the abstract service, the packet generator from its command line to its exit,
and sashstore, on memory of any contents, with its abstract map. All parts of the program that keep state
are modelled, and all safety properties and refinements that the runs check are
proved.

What is left:

1. The safety part of the liveness properties, which stay with TLC: a measure that
   every step of a table call but a lost compare-and-swap lowers, and that a lost
   one lowers the free slots, bound the steps of a call for every table size.
2. More theorems about how the parts fit together, as `LoopAssumptionHolds` is for
   `Startup` and `L2fwd`: the workers and ports that `PktgenMain` sets up and
   the constants of `Pktgen`.
