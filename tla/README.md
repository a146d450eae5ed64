# A TLA+ verification project for gofra

gofra is a multipath UDP encapsulator: packets of a TUN device are carried in
UDP datagrams over every (local address, peer address) pair, a *slot*. This
directory models its threads, its tables and its packet path, model-checks
them with TLC on small instances, and proves the central properties with TLAPS
for every number of slots, sockets, threads and every configuration. The
repository also holds `build`, the build tool of the program, with a scheduler,
a distributed executor and a cache that builds share; they are modelled too.

## 1. The system

| part | state | operations | interacts with |
|---|---|---|---|
| `Conn` (`conn.cpp`) | `slots_`, `rr_`, `timeoutMs_` | `next(now)` | called by every tunReader; reads `lastSeen` |
| `ConnSlot` (`conn.h`) | `srcAddr`, `srcFd`, `srcIdx`, `dstAddr`, `lastSeen` | atomic load and store of `lastSeen` | written by udpReader; read by `next` and slotsStats |
| `ConnTable` (`conn.cpp`) | `srcFds_`, `conns_`, `allSlots_`, `byVip_`, `byEntry_` | constructor, `lookup`, `lookupSlot`, `visitSlots` | built once by `run`, then only read |
| `tunReader` (`plane.cpp`) | scratch of one thread | `read`, `gsoSplit`, `sendOne`, `sendUso` | one thread per TUN queue |
| `udpReader` (`plane.cpp`) | scratch of one thread | `recvmmsg`, stamp, write to the TUN | one thread per socket |
| `prober` (`plane.cpp`) | copy of the slot list | one 0-byte datagram per slot and round | its datagrams stamp the peers' slots |
| `slotsStats` (`plane.cpp`) | copy of the slot list | one line on stderr per interval | reads `lastSeen` |
| `gsoSplit` (`gso.cpp`) | none | cuts a TCP super-packet into segments | called by tunReader |
| checksums (`csum.cpp`) | none | one's complement sums | called by `gsoSplit`, `gsoNoneChecksum` |
| `PeerTable` (`peer.cpp`) | `peers_`, `byVip_` | constructor, `lookup` | from the `[peers]` section |
| configuration (`ini.cpp`, `addr.cpp`, `config.cpp`) | `Section::keys`, `Section::map`; the fields of `Config` | `parseConfig`, `loadConfig` | called by `run`; feeds PeerTable |
| startup (`main.cpp`, `tun.cpp`, `socks.cpp`) | descriptors, privileges, the TUN device | open sockets, open TUN queues, configure, drop privileges, start threads | everything above; other instances on the host |
| scheduler (`build`, `Executor._run`) | `ready`, `remaining`, `running`, `used`, `errors`, `blocked` | `_pick`, wait, settle a future | threads of nodes, hosts |
| `RemoteHost` (`build`) | `process`, `sent`, `pending`, two locks | `_connect`, `execute`, `_reader`, `_lost`, `close` | worker, reader and reconnect threads; one ssh at a time |
| `ExecService` (`build`) | session cache, work directories, pool, outbox | frames `have`, `blob`, `job`, `bye`; end of stdin | the far end of an ssh; other services of the session |
| result cache (`build`) | manifests, blobs, work directories and their locks, garbage | `_cached`, `_execute`, `_store`, `_restore`, `_discard_contents`, `_garbage_collector` | nodes of this and other builds, builds that were killed |

What is hard here:

* **No lock anywhere.** `rr_` and `lastSeen` are shared by all threads through
  relaxed atomics. A time is read from the clock, other threads move on, and
  only then is it compared with, or stored to, `lastSeen`.
* **Unsigned time.** `now - ls <= timeoutMs` is a comparison on `u64`. When the
  slot was stamped after `now` was read the difference wraps around.
* **Liveness by symmetry.** A slot counts as alive when the peer's slot for the
  same pair of endpoints was heard from. That rests on the keys of `byEntry_`
  and on tables each node builds for itself.
* **Segmentation through two kernels.** A super-packet is cut by `gsoSplit`,
  regrouped by `sendUso`, cut again by UDP_SEGMENT, lost and reordered in part,
  glued by UDP_GRO and cut once more by udpReader.
* **Time that nothing bounds.** A path is alive while something arrives over it;
  what arrives depends on a round of sendto calls that may wait, a usleep that may
  be late, and a timeout the configuration does not compare with either.
* **Carries.** Checksums are summed byte-swapped in 128 bits, brought back to 64,
  handed from buffer to buffer and folded to 16.
* **A cache several builds use.** Manifests, blobs, work directories and garbage
  are files; builds run side by side, are killed at any step, and unlink what they
  judged stale a moment before.
* **A device two instances share.** `IFF_MULTI_QUEUE` and `SO_REUSEADDR` let a
  second instance join; one flag of one netlink message stops it.
* **Connections that overlap.** A host of `build --dist` is reconnected while
  workers still write to the old connection, its reader still reads from it and
  its service still runs, on the same session directory.

## 2. Modules

### Striping - one Conn and its threads

Variables: `clock` is CLOCK_MONOTONIC in ms; `lastSeen`, `rr` are the shared
memory; `tx*` are the locals of the tunReader threads (`txNow` the `now` of
`sendOne`/`sendUso`, `txLeft` the parts still to send, `txBase`, `txK` the
locals `base`, `k` of `next`, `txSlot` what it returned, `txFell` whether by its
last line); `rx*` the locals of the udpReader threads. Two history variables
serve the properties: `everSilent`, the slots that were unheard for more than
`timeoutMs` at some time, and `issued`, the walks started at each slot.

| action | code |
|---|---|
| `SendStart` | a packet for this Conn is taken up, `nowMs()` is read once |
| `NextTicket` | `stdAtomicAddAndFetch(&rr_, 1) - 1`, `base = c % n` |
| `NextScan` | one round of the loop of `next`, or its fallback |
| `SendPart` | `sendto`/`sendmsg` on the slot; the next part or the next packet |
| `Recvmmsg` | a batch and the one reading of the clock for it |
| `RecvMsg` | `lookupSlot` and the store to `lastSeen` for one message |
| `Tick` | time passes |

A relaxed load is one step that reads the current value. Older values need no
action of their own: a slot's `lastSeen` is one atomic with one writer, so a
load that returns an older value is the same load taken earlier, with the
walking thread delayed in between, and the model has every such delay.

### SlotsStats - the slotsStats thread beside them

Extends Striping by one thread: `StatsNow` reads the clock, `StatsSlot` loads
one `lastSeen`, `StatsPrint` writes the line. The line is the set of slots shown
with `alive = 0`.

### ConnTable - what a stamp is evidence for

Each node builds its table from its own `[peers]` section. `SkipSelf`, `AddSlot`
and `Built` are the loops of the constructor with counters `k`, `j`, `i`; then
`Probe` is a round of the inner loop of prober and `Receive` a message of the
udpReader of the socket a datagram is addressed to. `Inserted` stands for
`IntMap::insert`, a library outside the repository: for a key that is present
either value may win. `Lose` is the network. A node that does not run is in the
sections but sends nothing. `OneCluster` says that all sections list the same
endpoints under the same VIPs, in any order; it is a hypothesis of
`SlotsAreReached` and an assumption TLC evaluates on the instance (`MCOneCluster`).

### LossyLink and DataPath - the way of a packet

`LossyLink` is the abstract specification: frames are offered, delivered at
most once or lost; nothing else comes out. "At most once" is as much a property of the
network as of the code: the one assumed here loses and reorders datagrams and never
duplicates them, and nothing in gofra would remove a duplicate. `DataPath` is the path
in detail. A
packet is `[pid, ipv4, dst, gsoType, len, gsoSize, id, seq, flags]`; a frame is an
interval of its payload with the header fields `gsoSplit` computes. `Ideal(p)`
states what TCP expects a packet to stand for, independently of the loop of
`gsoSplit`. `Cut` is what cutting bytes every g bytes gives: the frames, when
all but the last have that size, and otherwise `Garbage`, which no `Ideal`
contains.

| action | code |
|---|---|
| `TunRead` | `read` and the dispatch of tunReader |
| `SplitSegment`, `SplitFail`, `SplitDone` | the loop of `gsoSplit` and its two returns |
| `SendOne`, `SendPart`, `SendDone` | `sendOne`, a round of the loop of `sendUso`, its end |
| `ProbeSlot` | a probe between the data |
| `RecvFill`, `RecvReturn` | `recvmmsg` with UDP_GRO and MSG_WAITFORONE |
| `HandleMsg` | cmsg, reset of `msg_controllen`, the test for probes, the choice of chunks |
| `WriteChunk` | one `writev`/`write` to the TUN, which may fail |

`PacketsAssumption` is what the kernel gives tunReader: a segmentation size for a
super-packet, and ids and sequence numbers within their widths. `PayloadLen` adds up a
message whose frames but the last have one size; RxInv in the proofs shows that there is
no other.

The refinement mapping takes `out` to the frames written and `pending` to the
frames still in tunReader, the network or udpReader.

### Csum - the checksums of a packet

One checksum from entry to store, on a little-endian machine whose byte has
`Byte` values: words of two, four and eight bytes are then small enough for TLC, and
nothing depends on 256. `bufs` are the buffers still to sum (source, destination,
protocol and length, packet), `ac` the 128-bit accumulator of `checksumNoFold`, `sum`
what it returns and what is folded. `total` is a history variable, the plain sum of
the big-endian words.

| action | code |
|---|---|
| `EnterParked`, `EnterSplit` | `gsoNoneChecksum` with the kernel's parked sum; `gsoSplit` with a pseudo-header, or an IPv4 header |
| `Call`, `Add8`, `Add4`, `Add2`, `Add1`, `Return` | `checksumNoFold` load by load |
| `FoldOnce`, `Store` | `checksum` and `putBE16` of its complement |

`OnesSum` is RFC 1071 read literally, with the carry brought back after each word;
`ReceiverAccepts` compares the result with it. That the machine adds 64-bit words of
the wrong byte order is what `SumHonest` is about.

### Probing - time

One direction of a Conn: the prober of a peer, the paths, and the node that judges
its slots by what arrives. `N` counts all slots the prober visits, those of every Conn
of the peer (plane.cpp:303-309); `Slots` are the ones that lead to the node. Time is
relative: `wait` is how long the prober has been in its call, `net` the datagrams on each
path by their age, `age` is the clock less `lastSeen`. `Tick` lets a unit pass for all,
unless a call or a datagram is at its deadline: `Block` for a sendto, `Sleep` and `Late`
for usleep, `Delay` for a datagram, `Walk` for a packet from the reading of the clock to
its last send. The history variables `good` and `bad` measure how long a path has worked
or has not.

| action | code |
|---|---|
| `SendProbe`, `WakeUp` | `sendto` of one slot returns; `usleep` returns |
| `PeerSends`, `Arrive` | data of the peer; the stamp of udpReader, with the time of its batch |
| `TakePacket`, `Look`, `NodeSends` | a tunReader reads the clock; one load of a `lastSeen` in `Conn::next`; a part is sent |
| `PathChanges`, `Lose`, `PeerStops`, `PeerStarts`, `NodeRestarts` | cables, loss, processes |

Between the reading of `now` and a load of `lastSeen` anything may happen. `since` is how
long ago the clock was read, so `AliveFor` is the comparison of conn.cpp:85 with its wrap:
a slot stamped meanwhile looks dead. That data never goes over a path long down while
another works is therefore not true (it is finding 1 seen from the outside), and
`Failover` does not say so. It says that this wrap, for every path that has long been
working, is the only cause. The walk of the model may look at the slots after the base
in any order.

`FirstSlot`, `Sleep` and `StartAge` are the code's; `TimeoutCovers` is the condition that
the code does not check and the properties need.

### Config - a file becomes options and peers

`parseConfig` a line at a time, `loadConfig` a section at a time, the constructor of
`PeerTableImpl` an entry at a time, with every exception (`Raise`). A line is what
`parseConfig` tells apart; a value is the sequence of its items. What a single
address looks like is membership in the sets `Cidrs` and `Endpoints`. `Inserts` stands
for the library's maps, as in ConnTable. `Written`, `KeysGiven` and `SectionAt` say
what a file means when it is read as a whole, and the properties compare the two.

`PeerSection` states what ConnTable takes: `SectionOk`, a section with the node's own
entry, endpoints in every entry, and one entry for a VIP. Config gives such a section
(`TableReady`), so the assumption of ConnTable is met by what comes before it.

### Boot - run as a whole

Config and Startup one after the other: `BootNext` is a step of loadConfig, and when that
is through, a step of an instance. `Says(c)` is what the file says when it is read as a
whole, without the steps of loadConfig. `LoadAgrees` states that those steps accept a file
exactly when it says a configuration that Startup takes (`ConfigOk`), and make of it what
it says (`Loaded`); its first conjunct, `AcceptedAsWritten`, is about every accepted file:
the options it names and a table that ConnTable can be built from. `ServesAsWritten` goes
from the file to the threads.

### Startup - how instances come up

`run` step by step for several instances on one host with one configuration
file, good or bad. Every step may fail and every instance may die (`Die`); the
kernel then closes what it has, and the device goes with its last queue.

| action | code |
|---|---|
| `LoadConfig` | `loadConfig`, `PeerTable`: accepted or not |
| `OpenUdpSocket`, `OpenTun` | one round of the loops over the own addresses |
| `SetMtu`, `AddAddr`, `LinkUp` | the three requests of `configureTun` |
| `SetGroups`, `SetGid`, `SetUid` | `dropPrivs` |
| `Spawn` | one thread; threads run as soon as they are started |

### DistHost - one host of a distributed build

Variables `process`, `sent`, `pending`, `lock` (write_lock) are RemoteHost's;
`w*` the locals of `execute` in the worker of each job; `connPc` the reconnect
thread, `reader` the connections that have a reader. `up` and `down` are what is
on its way in each connection. At the host, `svc` is the state of each
connection's service, `insts` the jobs in the pools, `hostCas` the session's
cache and `work` whose files are in each job's directory, both shared by all
services. When a connection ends (`Ended`) each side can still read a prefix of
what was written, the last blob perhaps cut.

| action | code |
|---|---|
| `ConnStart`, `ConnUp`, `ConnFail` | `_connect`: ssh and the `have` question; the answer and publishing; failure |
| `Dispatch`, `Begin`, `Claim` | `_pick` gives the job out; `execute` registers a reply; lock and claim |
| `WriteBlob`, `WriteJob`, `WriteFail`, `Rollback`, `GiveUp` | the writes, and what follows an OSError |
| `Replied` | what `execute` and `_execute_remote` do with the reply |
| `ReadFrame`, `ReadEnd` | `_reader`, with `_lost` (`LostConn`) at its end |
| `SvcRead`, `SvcEof`, `SvcGone` | `ExecService.run` and the two halves of `_stop` |
| `JobStart`, `JobOk`, `JobFail`, `JobLeave` | `_job`: inputs, outcome, and the removal of the directory after the reply |

Two steps share no lock unless the code's do: `sent` is changed by a worker that
holds write_lock, by one that has released it (`Rollback`), and by the reconnect
thread. So what the comment at `build:2568` promises (`BlobsGoFirst`, and with it
`CrossesOnce`: `BlobsCrossRight`) is stated for the first connection: on a later one a worker that
still belongs to the one before can claim a blob it will not write. The `missing`
reply repairs that, as `EveryJobEnds` and `LedgerHonest` show.

### BuildSched - the scheduler

The loop of `_run` with `Pick`, `StopPicking`, `Wait` and `Settle`, the last one
future at a time. A node's thread ends in one of three outcomes (`Finish`); the
cores of a host change freely (`HostChange`). DistHost shows what a host does
with a node; BuildSched needs only that it runs it or hands it back. The ready
queue is a set: no property depends on its order.

### ResultCache - builds on one cache

Several builds, each with a thread for every node (`_execute`). `cas` and `manifests`
are the store, `work`, `holder` the work directory and the flock of a node, `grb` the
directory that discarded ones are moved to. A build may be killed at every step
(`Killed`); its locks are then free and its directories stay (`orphaned`).

| action | code |
|---|---|
| `Start`, `SeesFailure`, `LeaveFailed`, `Publish`, `PublishFails`, `PublishUnlinks` | `run` and `_run`, with the links to the targets |
| `Look`, `Unlink` | `_cached`, called by `_run`, by `_execute` and again under the lock |
| `Execute`, `Lock`, `Clear`, `Restore`, `RunCommand`, `CommandEnds`, `CommandFails`, `Leave` | `_execute` |
| `RestoreFails`, `RestoreUnlinks` | `_restore` without a manifest, and what it unlinks |
| `StoreBlob`, `WriteManifest` | `_store`: links, then the rename of the manifest |
| `MakeGrb`, `Rename`, `RenameFails`, `Collect` | `_discard_contents` against collectors |
| `Prune` | somebody removes a blob |

What was read and the unlink that follows are two steps, so the unlink may take a
manifest that another build has just written. That costs the other build nothing but a
second run, unless it is about to restore it: then it fails, and `FailsForCause` says
so with `overlapped`.

MC modules (`MCStriping`, `MCSlotsStats`, `MCConnTable`, `MCDataPath`, `MCProbing`,
`MCStartup`, `MCDistHost`, `MCBuildSched`, `MCBuildTool`) hold the constants of the
instances. Three runs hold two modules: in `MCDataPath` (DataPath and Csum) and
`MCBuildTool` (BuildSched and ResultCache) a variable `side` says which of the two a
behaviour is of, and the other stays in its initial state; `MCStartup` is an instance of
Boot, where Startup goes on where Config ends.
Definitions whose comment starts with "Fault:" stand next to the definition they
distort; no specification uses them. They show that each property can fail.

## 3. Runs

| run | configuration | checks | shows |
|---|---|---|---|
| striping | `Striping.cfg` | ChosenWasHeard, FallbackExplained, StripeEven, LastSeenMonotone | selection of slots under every interleaving |
| slots_stats | `SlotsStats.cfg` | StatsExplained, PacketSent | all threads of a Conn: what a stats line means; `next` returns and packets leave, in a bounded number of steps |
| conn_table | `ConnTable.cfg` | SlotGrid, HeardIsReverse, EverySlotReached | tables, evidence, and that no slot is beyond the reach of probes |
| data_path | `DataPath.cfg` | TypeOK, Conservation, LinkImplemented; ReceiverAccepts, SumHonest | the whole path with loss, reordering and probes, the boundaries of segmentation; checksums |
| probing | `Probing.cfg` | NoFlap, GivenUp, Failover | when slots die and revive, in time, and how data leaves a dead path |
| startup | `Startup.cfg` | Merged, RaisedForCause, LoadAgrees; OneInstance, ServesAsWritten, PrivsDropped, RootWhileNeeded | reading of files; instances that start, fail and die side by side |
| dist_host | `DistHost.cfg` | NoWorkerForgotten, OutputArrives, LedgerHonest, BlobsCrossRight, EveryJobEnds | a connection that breaks and the next one |
| build_sched | `BuildSched.cfg` | DepsFirst, OnePlace, SlotsRight, KeepsGoing, BuildEnds; CacheTypeOK, ManifestBacked, Hermetic, RunsOnlyMissing, NothingLeftBehind, FailsForCause | the scheduler with hosts that come and go; two builds on one cache |
| fallback | `Fallback.cfg` | FallbackMeansAllDead, violated | finding 1 |
| shared_ip | `SharedIp.cfg` | HeardIsReverse, violated | finding 2 |
| dist_reconnect | `DistReconnect.cfg` | FailsOnlyByCommand, violated | finding 3 |
| build_broken | `BuildBroken.cfg` | BrokenTargetsReported, violated | finding 4 |

Type invariants are checked where they say more than types: the buffers and parts of
DataPath, the locks of ResultCache; ConnTable and DistHost check theirs with `SlotGrid`
and `LedgerHonest`, which are proved too; those of Striping, Probing and Csum are only
proved, for every value of the constants. `LedgerHonest`, `SlotGrid`, `SumHonest` (with
`NothingCut`), `BlobsCrossRight`, `ServesAsWritten` and `LoadAgrees` are conjunctions of
named parts.

### Bounds

* Striping: three slots on two sockets, so that two slots share a writer and
  one does not and the walk has a first, a middle and a last round; two
  tunReader threads; packets of one and two parts; a clock that goes from the
  start time past `Timeout`. A stamp in the future of a sampled time needs two
  ticks and a walk that meets it needs one more slot than one: all there.
  `U64 = 16` keeps the wrap-around: every difference of times is far below it, as
  in the code. `rr` does not reach `U64`; 2^64 calls are out of the program's
  reach too. The threads are symmetric.
* SlotsStats: the same Conn with all its threads, one tunReader and one packet of
  one or two parts. Liveness of one tunReader does not depend on others: `next`
  reads only `rr` and `lastSeen`, and the udpReaders change the latter freely. It is
  checked without symmetry.
* ConnTable: three peers, two of them running, one and two endpoints each, and
  *every* order of entries and endpoints on both sides, independently. One
  datagram on the way at a time is enough, since a stamp depends on one datagram
  and slots do not interact.
* DataPath: a super-packet with a short last segment and a plain packet over two
  symmetric paths, with ids and sequence numbers at their wrap (`U16 = 8`,
  `U32 = 16`); and, one at a time, exactly MAX_SEGS segments, one more, more segments
  than parts, fewer, a payload shorter than gsoSize, a packet without payload, one for
  nobody, one that is not IPv4, and one with another gso type. Batches of two, so that a batch holds glued and single messages.
* Csum: bytes of four values, packets of 3 to 20 bytes, so that loads of eight, four,
  two and one byte come in every combination; fields parked and computed; one packet
  whose sum of 64-bit words is the largest that brings a second carry. The theorems
  are for every size of a byte, 256 among them, and every packet.
* Probing: a prober with three slots, of which two lead to the node, a unit each for the
  interval, a sendto, the way of a datagram and the walk of a packet, and a timeout that
  is exactly a round and the way of a datagram (`TightAssumption`): one unit less and
  NoFlap fails. Ages stop counting one past what is compared. A usleep that is late and
  the wrap of useconds_t are not reached in the run; the theorems cover them.
* Config: every file of three of seventeen blocks, 4913 files with sections that come
  again, keys and VIPs that repeat in one and in two spellings, empty lists, bad
  lines, missing parts and options in the wrong section.
* Startup: three instances, two own addresses (so that loops have a first and a
  last round), eight configurations, of which three come up; one of these is said by
  many of the files of blocks, the others by a file of their own.
* DistHost: two jobs with a common input and two connections (`MaxConns`), of which
  the first may break at any time and the second lasts: every overlap the code
  has is one of an old and a new connection, and a third would only overlap in
  the same ways.
* BuildSched: six nodes with a shared dependency, a diamond, a chain above it and
  an independent branch; one slot here; two hosts of up to one core (two slots)
  each; at most two nodes handed back (`MaxRequeues`); with and without `--keep-going`.
  `build_broken` has no hosts and two slots.
* ResultCache: two builds that are started again and again, a library and a program
  that depends on it and shares a blob with it. Two builds give every race for one
  lock, one manifest or the garbage directory; kills and prunes are not bounded.

Clock and packets stop at their bounds, so the Striping and SlotsStats runs do
not check for deadlock; builds, checksums and the reading of a file end, so those of
DistHost, BuildSched, data_path and startup do not either. The others do.

### Fairness

* `SlotsStats!StatsFairSpec` (`TxFairness` of Striping): weak fairness of a
  tunReader between reading a packet and having sent it. The thread only runs straight code and a `sendto`/`sendmsg`
  that returns. No fairness of the clock or the other threads is assumed, and
  none for a new packet.
* `DistHost!FairSpec`: weak fairness of each worker, of the reconnect thread, and of
  the reader, the service and the running jobs: threads and processes that go on
  when they can. Nothing makes a connection break, and breaks are finite by
  `MaxConns`; with breaks for ever no job need end, in the code either.
* `BuildSched!FairSpec`, and `MCBuildTool!MCSpec` for the side of the scheduler: weak
  fairness of the main thread and of each node's thread. Hosts need not ever be
  connected.

## 4. Findings

1. **A fresh slot looks dead to `Conn::next`** (`conn.cpp:85`). The comment on
   the last line says all slots are dead there. `now - ls` wraps for a slot
   stamped after `now` was read, so the walk passes over the slots that were
   heard from most recently, and when all of them were, or the rest is dead, it
   falls back: data may go over a path long known to be down beside one that works
   (`Failover` bounds when). `FallbackExplained` is what does hold, and it is proved. slotsStats
   makes the same comparison, with the same effect on its line: `StatsExplained`.
2. **`entryKey` ignores the port** (`conn.cpp:24`). Endpoints are `ip:port`, but
   two peers that share an IP share a key, and a datagram of one keeps the slot
   of the other alive. With different IPs, as in the README of gofra, the claim
   of `conn.h` holds, and is proved under exactly that assumption.
3. **A late service removes the directories of its successor** (`build:2243`). The
   service of a lost connection ends by removing `tmp` of the session. If the
   controller has reconnected, jobs of the new service are in there: they fail, and
   a failing job ends the build.
4. **Targets two levels above a failure are not reported** (`build:2753`). With
   `--keep-going` the consumers of a broken consumer are marked, but nothing above
   them. Nothing is built that should not be (`DepsFirst`, `KeepsGoing`): the
   count in the message is wrong.

## 5. Proofs

All theorems are for every value of the constants under the named assumptions
of the modules (a Conn has a slot, slots have a socket, the clock plus the
timeout stays below 2^64, sections have the own entry and endpoints).

* `Striping_proofs`. `StripingInvariant` is the inductive invariant `IInv`; from
  it follow `StripingTyped`, `NoFalseLife`, `FallbackIsExplained` and, as an
  action property, `LastSeenNeverBack`. The properties are not inductive as they
  stand. `LastSeenMonotone` needs that a udpReader about to stamp holds a time no
  older than what the slots of *its* socket show (`StampFresh`), which needs that
  no time is ahead of the clock (`TimesPast`). `ChosenWasHeard` needs the meaning
  of the unsigned comparison (`AliveMeaning`, from the assumption on U64) and that
  stamps never go back. `FallbackExplained` needs that a walk keeps the
  explanation of every slot it has passed over (`PassedExplained`), that silence
  that lasts is recorded (`SilentKnown`), and that n offsets from any base cover
  all slots (`WalkCovers`).
  `WalksAreBounded` is the part of PacketSent that needs no fairness (`WalksEnd`): what is
  left to a tunReader (`StepsLeft`) is at most `N + 2` steps per part, each step of its own
  makes it less (`OwnStep`) and nobody else's touches it (`OthersStep`).
  `StatsLineExplained` reuses `IInv` for the statistics thread: every slot already in
  the line stays explained while the others stamp. `EvenUntilWrap` is `StripeEven` until
  `rr_` wraps, and `EvenForever` without that condition when the number of slots divides
  2^64. The invariant `Even` ties the history `issued` to the counter: every slot has
  started the same number of walks, and the first `rr % N` slots one more. When `rr_`
  wraps and N is no such divisor, the turn that was under way is cut short and the slots
  at its end fall behind; the code has that too, after 2^64 packets.
* `ConnTable_proofs`. `StampIsEvidence`, under `UniqueIps`. The invariant says
  that `byEntry_` leads from a key only to slots with that key (`EntryRight`),
  whichever value `IntMap::insert` keeps, and that a slot's src is the endpoint
  its socket is bound to (`SlotSrc`). `GridIsBuilt` gives `SlotGrid`: while the
  constructor runs, the Conns of the entries before `k` are whole and that of entry `k`
  is filled up to the place of the two loops (`Growing`, with the place as a number,
  `j * src + i`); afterwards every Conn is (`Grown`). `SlotsAreReached` gives
  `EverySlotReached` under `UniqueIps` and `OneCluster`: every slot has the key it was
  inserted with (`Found`), no two slots share one (`KeyIsNew`), and the peer has the slot
  for the reversed pair (`ReverseSlot`), so one probe over it finds the slot. Without
  peers the slot list is empty and the prober's place stays where it started, which
  `TypeOK` allows.
* `Startup_proofs`. `StartInv` gives `OneServes`, `NoThreadIsRoot` and
  `RootLastsLongEnough`. OneInstance is not inductive: it needs that an instance
  past `addAddr` holds a queue, which keeps the device, whose address refuses the
  others (`Exclusive`), and the credentials left after each step (`Dropping`).
  `ServesOnlyConfigured` carries the configuration and its counts from one step to the
  next (`Serving`).
  The same module proves the reading of a file: `FileIsMerged` (a key that
  comes again has its last value, a section that comes again goes on; the order of keys
  is that of their first lines), `RefusedForCause` (an exception has a line or a value to
  blame) and `AcceptedAsItSays` (the options are those written and ConnTable can be built
  from the peers). `Merged` is not inductive: `ParseInv` says what the keys and the map of
  a section are after any number of lines, through the rank of a key's first line, and
  `LoadInv` what is loaded after any number of sections and entries. Induction over the
  lines goes through the least line that fails.
  `TakesWhatIsOk` is `LoadAgrees` for every file and every configuration: what is
  accepted is what the file says (`DoneIsSaid`), and a configuration that a faulty file
  says is not ok (`FaultsAreSaid`). `ServesWhatIsWritten` joins the two halves: a step of
  Boot is one of Config or one of Startup (`BootIsBoth`), so the invariants of both hold,
  and an instance is only started with a configuration that the file says (`Started`).
* `Csum_proofs`. `SumStaysHonest` rests on congruence modulo `M16 - 1`: swapping the
  bytes of a word multiplies it by `Byte` (`M16` is one), so the swapped
  accumulator is honest when `Byte * ac` is; a carry brought back and a fold drop
  multiples of `M16 - 1`. `FourFoldsEnough` bounds the sum after each fold. For lengths
  below 2^64 the accumulator stays below 2^128, so no addition of the loop wraps.
  `ReceiverAlwaysAccepts` follows a receiver beside the machine: after as many buffers and
  words, what has been summed is what RFC 1071 has at that place (`Running`), as a number
  modulo `M16 - 1` and in whether it is zero (`Silent`), for zero and all ones are the same
  modulo `M16 - 1`. The sums of RFC 1071 are recursive functions; that they exist and stay
  in 16 bits is proved through the least place where they would not. Writing `v` over a
  zeroed field adds `v` (`FieldAdds`). It assumes what the code relies on: the field is at
  an even offset, and what the kernel parks is the sum of the pseudo-header.
* `Probing_proofs`. `NoFlap` is not inductive: the invariant says that any time since a
  slot was heard and its path got well is no longer than a round before the next
  evidence, a datagram on its way or the probe the prober has still to send, which its
  position in the round and its `wait` bound (`Fed`). `GivenUp` needs that nothing on a
  path that is down is younger than the fault (`Starved`). For `Failover` a slot the walk
  has passed by was stamped after `now` was read, or had not worked for long (`Passed`):
  a look at a dead slot gives that by `Fed`, time and the others' steps keep it, and when
  the base is returned it holds of all slots (`Walked`).
* `DistHost_proofs`. `NoOneWaitsInVain`: that a worker has its reply or is registered with
  the current connection is inductive (`Registered`) together with `Handover`, that there
  is no current connection while the next is being made, so that publishing it leaves
  nobody registered with an older one. The rest of NoWorkerForgotten takes three more
  invariants: the current connection has a reader (`Reading`), a connection that lasts has
  a service that runs and nothing cut in its pipe (`Whole`), and whoever waits for it finds
  its frame, its job in the pool or the answer there (`Answering`). A step moves these from
  the pipe to the pool (`UnderWayRead`) and from the pool to the other pipe
  (`UnderWayRunning`); only the answer to that worker ends it (`UnderWayKept`). So no wait
  is without a next step; that the steps are taken (`EveryJobEnds`) is left to TLC.
  `LedgerIsHonest` rests on `HostInv`: a connection that is up is the last one made
  (`Links`), what the host has said is true (`HostTruthful`), and a digest in `sent` is at
  the host, on its way in the current connection, or owed by a worker that has claimed it
  (`Covered`); a claim on an older connection is owed until it is rolled back.
  `OutputsArrive` adds that in every pipe an output comes before its result
  (`OutputsFirst`). `BlobsCrossOnce` (`FirstInv`) says for the first connection that nobody
  gives up or is handed back, that a worker which writes finds its inputs in the ledger,
  and that the frames of a pipe, read as a sequence, have the inputs of a job before it
  (`GoFirst`) and no blob twice (`Once`).
* `BuildTool_proofs`. For the scheduler, `DepsRunFirst`, `NodesInOnePlace`, `SlotsAddUp` and
  `NothingForgotten` rest on `SchedInv`: `remaining` is the number of deps that are not
  settled (`CountsRight`), a node without such deps is ready, running, done or failed
  (`Somewhere`), `blocked` holds exactly the consumers of failed nodes (`BlockedRight`),
  and nothing waits or runs when the build has ended (`EndedIdle`). What the targets need
  (`Needed`) is the least set that holds them and is closed under deps (`Closed`), so no
  recursion is involved. `NothingForgotten` also says that nobody has a slot for a node
  that stays in the queue (`NoRoom`): with hosts there is one with most room, by induction
  over the hosts (`GreatestOne`). `BuildNearsEnd` has the measure behind `BuildEnds`:
  `WorkLeft` is a natural number, no step makes it greater, and every node given out,
  finished, handed back or settled makes it less. With `NeverWaitsForNothing` a build that
  has not ended has a node to give out, a future to settle or a thread that runs, so under
  the fairness of `FairSpec` it ends; this last step is left to TLC.
  For the cache, `LockHeld` makes the steps of a directory those of one thread;
  on it rest Hermetic (what each step leaves in `work`), RunsOnlyMissing (a manifest
  of a node is written by the holder of its lock only) and NothingLeftBehind.
  `FailsForCause` needs that a build that has been alone since its start still has the
  manifests of the deps that are done.
* `DataPath_proofs`. `IInv` has three parts. `TxInv`: the segments so far are those of
  the packet, in order (`Segments`), `gsoSplit` stands at the end of the last one, and the
  next part of `sendUso` begins where the parts so far end (`Turn`), so that `USO_PARTS`
  parts are enough (`PartsEnough`). `RxInv`: every message is one datagram or frames that
  cutting by its gso size gives back, because a message that is still to be filled has
  room for its cmsg (`RxOK`); without the reset of `msg_controllen` that is lost, and
  glued frames go out as one write. `NetInv` is the type of the network. From them follow
  `DataPathTyped` and `NothingLostInSilence`: a step moves frames (`TxMoves`,
  `RxMoves`) and drops none, the kernel's cut of a part gives its segments (`PartCut`),
  and the chunks of a message are its frames without the probe (`ChunksRight`).
  `PathIsLossyLink` maps each step to one of `LossyLink` or to a stutter. For `Deliver`
  the frame has to be gone from the path, which needs that no frame is at two places:
  `Apart` between the parts of the path, `RxOnce` within one udpReader, with `HeldOnce`
  for its messages and chunks. Frames of different packets differ because a pid names
  one packet (`NamesAssumption`), segments of one because they begin at different bytes
  (`SegmentsDiffer`).

Only model-checked: the liveness properties, which are out of the prover's reach, as is
ENABLED; of `BuildEnds` and `PacketSent` the part without fairness is proved.

## 6. Not modelled

The end of a `--dist` session (`bye`), the sweeping of old sessions and the limit of
the host's pool are left out of DistHost, as is what two commands do to each other's
output when both run in one work directory. ResultCache leaves out strace mode, links
and directories among the outputs, the copy of a blob from another file system, and
corrupt manifests (a manifest is there, whole, or not: `os.replace`). Config leaves out
what a number or an address looks like, and which of two entries a lookup finds when a
VIP is spelled in two ways: the map of `std` decides that, and `LoadAgrees` speaks of
the tables only under `OneSpelling`. That a path fails only on the way *out* is
never noticed by its sender: Probing is one direction, and the other is another
instance of it. A command that outlives a build killed alone, and so goes on in a work
directory whose lock it does not hold, is not modelled: a kill takes the commands along.
The bytes of log lines and of the stats line, socket options one by one,
netlink messages and the memory pool are left out. The style checker, the scripts, the
graph generation of the build tool and the patches under `dev/` are not modelled. The
`std` library is outside the repository.

## 7. Plan

In this order:

1. *(done)* Striping, SlotsStats, ConnTable, DataPath with LossyLink, Startup,
   DistHost, BuildSched, and the theorems above.
2. *(done)* Probing, Csum, Config, ResultCache, and their theorems.
3. The end of a session in DistHost: `bye`, `close` against a connect under way, the
   sweeping of old sessions.
4. The size of segment buffers against the MTU in DataPath; the options of `openTun` and
   `configureTun` one by one in Startup.
5. *(done)* The safety invariants of BuildSched, DistHost, ConnTable, Config and
   Startup, and `StripeEven`, as theorems.
6. *(done)* The safety invariants of DataPath and its refinement of `LossyLink`, as
   theorems.
7. *(done)* Boot: the agreement of Config with Startup, and what an instance serves, from
   the file on, as theorems.
