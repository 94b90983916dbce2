# AetherBond in TLA+

A verification development for AetherBond, the multipath tunnel and download
aggregator of this repository. The modules are checked with TLC on small
instances; eight modules of proofs, checked with TLAPS, establish the safety
properties of nine components, and of the uplink composed of two of them, for
every value of the constants.
`PROJECT.json` lists the components, the runs, the source lines each definition
stands for, the mutants, and the hazards the properties are aimed at.

## 1. The system

| component | source | state it keeps | operations | what is hard |
|---|---|---|---|---|
| resequencing buffer (Python), at both ends of the tunnel | `aetherbond/server/receiver.py` | `expected_seq`, `heap`, `seen_seqs`, `_flush_task` | `put`, the release loop, the flush task | any arrival order, loss, duplicates, a timeout racing a late packet |
| router and user-space sessions | `aetherbond/server/router.py` | `sessions`, each session's `active` and relay task, `next_seq_out`, `_lock` | CONNECT, DATA, CLOSE, relayed replies, `cleanup` | asyncio tasks interleaving around one lock, cancellation while waiting |
| aggregator process | `aetherbond/server/main.py` | `path_addresses` | datagram in, datagram out, shutdown | |
| VPN client | `aetherbond/client/vpn.py` | `sessions`, `active_sockets`, `next_seq_out` | a handler per local connection, CLOSE/DATA of the server, `start`, `stop` | sends that suspend, sessions ended from four sides |
| downloader | `aetherbond/client/downloader.py` | chunks, queue with its join count, the file, progress | workers, retries, resumes, requeues | workers leaving while chunks come back, resume offsets |
| path monitor, scheduler, link simulator | `aetherbond/client/metrics.py`, `scheduler.py`, `common/simulator.py` | per link: `is_online`, score; simulated links | probing tasks, selection, toggle, delay, throttle, `stop` | stale flags, links changing during a transfer |
| SOCKS5 proxy | `aetherbond/client/proxy.py` | per connection only | handshake, two relays, `stop` | half-closed streams, errors on one side |
| dashboard | `aetherbond/gui/server.py` | three globals: monitor, scheduler, session | start download, toggle, status, websocket | check-then-act across awaits |
| Rust resequencer | `aetherbond-core/src/resequencing` | `next_seq`, `buffer`, `adaptive_timeout` | `put`, `tick`, `update_timeout` | memory limit, u32, adaptive timeout |
| Rust redundancy | `aetherbond-core/src/redundancy` | ring, set and index of seen numbers | `should_duplicate`, `register` | eviction, a sentinel that is also a number |
| Rust transport, congestion, crypto, xdp | `aetherbond-core/src` | streams; filters | one-step methods, samples | |
| interface monitor (Go) | `aetherbond-control/pkg/interfaces` | `links`, `stopChan` | two scanning goroutines, `Stop` | overlapping scans, a blocking read |
| orchestrator, STUN, logger (Go); GUIs; chaos lab; config | `aetherbond-control`, `aetherbond-gui`, `aetherbond-chaos`, `config` | none that matters | start-up, readers, scripts | |

How they interact. A local program connects to the VPN client, whose handler
opens a session and sends CONNECT, DATA and CLOSE packets, each over a link the
scheduler picks, numbered from one counter. The datagrams reach the aggregator
by several paths; its buffer puts them in order and gives each to the router
through a callback, which starts a task for it. The router connects to the
target, relays what it answers, and sends that back, numbered from its own
counter, to the client's own buffer, whose callback writes to the local socket.
The downloader and the proxy use the scheduler, which reads what the path
monitor's probing tasks write, and the simulator, but not the tunnel. The
dashboard makes monitors and download sessions. The Rust and Go parts are
separate programs: nothing in Python calls them.

## 2. The modules

| module | models | abstracted |
|---|---|---|
| `OrderedRelease` | what any resequencing buffer promises | |
| `Resequencer` | `ResequencingBuffer` | ages instead of wall-clock times; heap as a set |
| `Router` | `AetherRouter`, `UserSpaceSession` | wire format, addresses, bytes |
| `VpnClient` | `AetherVPNClient` | the SOCKS handshake is one step; bytes; of a local connection, whether its writer holds data |
| `LossyFifo` | what the tunnel promises its users | |
| `Tunnel` | `VpnClient`, a network and `Resequencer` composed: the uplink | the downlink |
| `Downloader` | `DownloadSession`, physical and simulated | blocks of one size; the clock |
| `Steering` | `PathMonitor`, `Scheduler`, `InterfaceSimulator`, and a transfer that uses them | scores and round-trip times: only whether the score is above 0 |
| `Proxy` | one connection of `Socks5Proxy` | addresses; units instead of bytes |
| `Dashboard` | `start_download` and the tasks it makes | what a monitor and a session do inside, except that a session needs a working link and its monitor to end |
| `RustResequencer` | `Resequencer` of the Rust data plane | ages instead of `Instant` |
| `SlidingWindow` | what a sliding de-duplicator promises | |
| `DeDuplicator` | `AdaptiveDuplicator`, `SlidingDeDuplicator`, a network between | loss rates as small sets |
| `LinkMonitor` | `InterfaceMonitor` | names and one IPv4 flag |
| `ResequencerProofs`, `RouterProofs`, `RustResequencerProofs`, `DownloaderProofs`, `VpnClientProofs`, `ProxyProofs`, `DashboardProofs`, `DeDuplicatorProofs` | theorems about the module of that name; `VpnClientProofs` also about `Tunnel`, `DashboardProofs` also about `Steering` | |
| `MC...` | instances for TLC | |

Each module has a type invariant (`TypeOK`, `ClientTypeOK`, `SteerTypeOK`),
which the proof modules prove. That of `LinkMonitor`, which has no proofs, says
what its variables hold; no run lists it.

Correspondence of state and steps:

* **Resequencer.** Variables have the names of the fields, `flush_task` says
  whether `_flush_task` is set, `delivered` is a history of the callback's
  calls. `Put` is the whole of `put`; `FlushPoll` is one round of
  `_wait_and_flush_missing` after its sleep. Neither method yields inside its
  critical section (it awaits a coroutine that never suspends), so each is one
  action. `ReleaseContiguous` is the release loop: the run of consecutive
  numbers it pops is named by its end instead of recursively, which keeps the
  module within the prover's reach.
* **Router.** An action runs from one suspension point of a task to the next.
  `lockq` is the `asyncio.Lock`: owner first, waiters in FIFO order; `phase` is
  what the owner is suspended in. A session object is named by the CONNECT that
  made it, so an old object of a reused id stays distinguishable. Tasks start in
  the order in which the buffer hands out the payloads, hence `Starts*` takes
  the next command and runs it to its first suspension. `Resume` is the wake-up
  of the next owner; `StreamClosed`, `ConnectOk` and `ConnectFails` are the three
  things an owner may wait for. A failed connect (`FailConnect`; that of a UDP
  session, when no socket can be made, without a suspension) leads to `phase =
  "notifying"`, from which nothing leads on: the code waits there for a lock it
  holds.
* **VpnClient.** `pc` is where a handler is in `_handle_local_client`.
  `NumberPacket` and `Transmit` are the halves of `_send_to_vps` before and
  after its suspending send. `"leaked"` is a handler whose `finally` raised.
  `ServerClose`, `WriteFails` and `StopCloses` end sessions from outside at any
  time; the first part of `stop` only closes the listening socket, so that
  `StopCloses` is all of it. `local` is the local connection as
  asyncio has it: `"open"`, with a `"backlog"` that the local program has not
  taken (`WriteQueues`, a DATA of the server), `"flushing"` when it was closed with
  a backlog, and `"lost"`, after which reads return and `drain` raises. Every
  `writer.close()` of the code is a `CloseLocal`: it loses the connection only if
  there is no backlog, since asyncio flushes before it closes. `ProgramTakes` and
  `ProgramGone` are the local program.
* **Tunnel.** The wire is the set of packets that went out; `Arrives` may take
  any of them at any time, again, or never. The buffer is an `INSTANCE` of
  `Resequencer` whose payloads are the client's messages.
* **Downloader.** `Take`/`Exit` are the worker's loop head, `Request` the choice
  of a link. On a physical link `Respond` ends the request's suspension,
  `Receive` is one block, `Complete` the end of the stream; on a simulated one
  `Delay` is `simulate_delay` and `Throttle` a round of `throttle_stream`, the
  last of which writes the mock data. `Fail`, `Retry`, `Requeue` are the ends of
  an attempt, `Join` the return of `queue.join`. `file` holds at each place the
  block that was written there, `total` is `total_downloaded_bytes`. The server
  either honours ranges (206, and 416 for an empty range) or ignores them (200
  and the whole file): an assumption about servers, since the repository has
  none.
* **Steering.** `probe` is where a link's probing task is. `ProbeSimulated` is a
  round for a simulated link; `SendPing`, `PingAnswered`, `PingTimesOut` and
  `PingFails` are the ways through `_ping_physical`. `is_online` and `scored` are
  what the tasks write and the scheduler reads; `path` is the truth about the
  link, which `Toggle` changes (for a simulated link by `toggle` of the
  simulator). `Select`, `Use`, `Retry` are a transfer as the downloader makes it.
  A cancelled task ends in its ping or its sleep (`ProbeEnds`), but a ping whose
  answer is in swallows the cancellation (`wait_for` before Python 3.12): hence
  `PingAnswered` is possible after `StopCalled`.
* **Proxy.** `pc` is the handler; `relay[d]` where the relay task of direction
  `d` is: in its read, in the simulated pacing, in `drain`, in its `finally`
  block. Closing an asyncio stream closes the connection: `end` is what can still
  be read of each direction. `first` is a history of the relay that came to its
  end first.
* **Dashboard.** `pc` is the handler between the waits of `start_download`: for
  the end of the old monitor and for the session's `initialize`. `pending` counts
  the tasks for `session.start()` that were made and have not run;
  `overlapped` is a history of requests having met. `use` is what a request asks
  of the simulator, chosen where the code sets it. `Replace` may fail after the new
  monitor was started (`os.makedirs`, `server.py:83`): the request has failed, with
  its monitor in place. `up`, changed by `LinksToggle`, says whether a link works.
* **RustResequencer.** `initial_seq` is any number the sender may use. `PutForced` is `put` with a full buffer, its forced flush
  included; numbers are added modulo `MaxSeq + 1`.
* **DeDuplicator.** `register` is one action, as the mutex is held throughout;
  the ring's places start with 0, as the code's do, and 0 is never evicted from
  the set.
* **LinkMonitor.** A scan is two actions, `ListInterfaces` before the mutex and
  `UpdateLinks` under it, for each of the two goroutines. Both may fail: the list
  as a whole (`ListFails`, the table stays as it is), and the addresses of any
  interface (`AddrsFail`, `monitor.go:86`), which the scan then flags offline
  although it may be usable.

## 3. The runs

All constants are in the `.cfg` files. Deadlock is not checked anywhere: every
one of these systems may stop (no more packets, all downloads done, a bound
reached); that what should go on does go on is stated by the liveness
properties.

| run | what it shows | bounds, and why they are enough |
|---|---|---|
| `resequencer` | order, no stall, no skip without a timeout, every packet released; `OrderedRelease` is implemented | numbers 0..3: a gap of two with packets on both sides; two payloads to tell the copies of a number apart; timeout of 2 ticks: young, half-way, due |
| `router` | open connections are always reachable through the map; what a target gets has no hole; replies neither lost, doubled nor sent after a close; `cleanup` and CLOSE do what they are for; waiting replies get out | 3 commands (open, then any two that meet), two ids, one that may fail to connect, two replies of each connection; 203,000 states |
| `vpn_client` | numbering in order per session with nothing left out, no forgotten session, no open connection outside the map, orphans end | two handlers, two reads between them (each may have both, or one each), 6 packets: both sessions complete; one real and one simulated link, one change of links: either may fail at any point; 633,000 states, two minutes |
| `tunnel` | the uplink never stalls; `LossyFifo` is implemented | two handlers, 4 packets, two DATA of one session among them, timeout 1: gaps of up to three, and sessions interleaved in the numbering; 159,000 states |
| `downloader` | each range in one place, `join` counts right, the file whole, the count of bytes reaches its size, and the download ends if failures do | a file of 3 blocks in ranges of 2 (a full and a short one) or in one, 2 workers, 2 tries, 3 failures: a chunk can fail out, be requeued, and fail again; two links that go and come |
| `steering` | a link that goes down for good leaves the choice for good; a transfer that retries gets through once a link is up for good; `stop` leaves no writer | a simulated lossy link and a physical one, four changes: each can go down and come back with a ping under way |
| `proxy` | the direction that ends first loses nothing; a handler that has ended leaves nothing open; the end of one side ends both | one connection, two units in each direction: one read and one on the way |
| `dashboard` | never left without a monitor, however requests overlap; requests that do not overlap are whole, and complete if a link works from some time on | three requests: two that overlap and one before, between or after; links that fail and come back any number of times; 374,000 states |
| `rust_resequencer` | bounded, live, and until the first late packet an implementation of `OrderedRelease` | buffer of 2, numbers 0..3 of a 0..5 counter, any of them the first, one duplicate of a buffered packet, timeouts 1..2 |
| `deduplicator` | exactly the last numbers let through are refused; the set is bounded | a history of two and five numbers: the ring wraps twice; one or two copies of each, lost and reordered |
| `link_monitor` | the table becomes right although scans overwrite each other and fail; after `Stop` returned it is not touched; `Stop` returns when a message is waiting | two interfaces, three changes, reads of up to two messages: one scan in flight in each goroutine with changes before, between and after |

One run shows that the code does not do what it says of itself, and TLC finds
its property violated:

| run | property | what happens |
|---|---|---|
| `router_notify` | `FailureNotified` | a failed connect waits for the lock it holds (`router.py:189`, `215`): the client is not notified, and from then on every CONNECT, CLOSE and reply waits with it |

Every property of a passing run has a mutant in `PROJECT.json`: a changed
definition, defined beside the real one, under which TLC finds the property
violated.

### Exceptions the properties carry

Where the code does less than one might expect, the property names the
exception instead of hiding it:

* `Router`: "unless locked out" (`phase = "notifying"`), the deadlock above.
* `Resequencer`: `EventuallyReleased`, not a bound on the wait: the timeout is
  that of the head, and a smaller packet arriving behind the same gap restarts it
  (`receiver.py:77`, while the docstring at line 14 speaks of a timeout for the
  missing packet).
* `RustResequencer`: up to the first late packet (`late`). `next_seq` is tested
  before a forced flush moves it and not after (`mod.rs:54`, `60`-`66`), so that
  the packet being put may be stored although it is late, and come out after
  greater ones. And up to the end of the numbers: after 2^32 - 1 `next_seq` wraps
  to 0, so that whatever is still on the way counts as new. The run stops before
  that number, and the theorem says so (`NoWrap`); `BufferBounded` holds with the
  wrap.
* `LinkMonitor`: `StopReturnsOnEvent`. `Stop` waits for a read it cannot
  interrupt (`monitor_linux.go:47`, `monitor.go:59`). `EventuallyTracks` claims that
  a usable interface is found online only for one whose addresses can be read from
  some time on (`Readable`); an interface that is no longer usable is found
  offline whatever fails.
* `Downloader`: `CompletedIsCorrect` holds if the server honours ranges or
  nothing failed. A 200 in answer to a resumed range is taken for the rest of the
  chunk (`downloader.py:191`). `ProgressReachesSize`: bytes of failed attempts
  stay counted, so that the progress may pass the size.
* `VpnClient`: handlers whose `finally` raised (`"leaked"`), when no link is
  online (`vpn.py:266`), leave their session in the map: `NoneForgotten` exempts
  them. `NoneStranded` does not: what is not closed stays in the map, where a CLOSE
  of the server and `stop` close it. (The handler of a
  leaked one is gone; its connection stays open until then, unless the version of
  asyncio closes it when the handler raises, which is the same as `ProgramGone`.)
  `OrphanEnds` leaves out the time in which a closed connection
  still flushes: `session.close` does not abort, so that with a local program that
  stops reading the handler waits as long as the program does.
* `Dashboard`: `AloneIsWhole` and `StartedCompletes` speak of requests that do
  not overlap; the test of `server.py:59` is not repeated after the waits. What
  holds in any case is `AlwaysMonitored`. `StartedCompletes` speaks of links of
  which one works from some time on: without it a download need not end
  (`Terminates` of `Downloader`).
* `Steering`: `DeadLinkLeaves` speaks of a link that is down, not of one that
  falls silent: a ping that times out leaves `is_online` as it was
  (`metrics.py:187`), while the score only falls.
* `Proxy`: `FirstEndIsWhole` speaks of the direction that ends first; its end
  closes the other side's connection, so that a half-closed client loses the
  answer (`proxy.py:206`).

Seen while modelling and not stated as properties: a link that never answered
has a round-trip time of 0 and is therefore the "lowest latency" one
(`scheduler.py:58`); `get_system_status` uses `time` without importing it
(`server.py:126`); data that came before a CLOSE may be written after it, as DATA
is written by a task of its own (`vpn.py:171`).

### Fairness

* `Resequencer`: the clock advances and the event loop runs the flush task. No
  fairness on `Put`: packets may stop coming.
* `Router`: the task that was handed the lock runs, an attempt to connect ends
  one way or the other (the operating system's own timeout), a closed stream is
  reported closed. No fairness on commands, targets or the shutdown.
* `VpnClient`: a handler that is not waiting for the local program runs on, and
  its sends go out or fail; a read returns once the local connection is lost.
  Nothing is assumed of the local program: it may leave what was written to it
  unread for ever, and then closing its connection ends no read.
* `Tunnel`: as `Resequencer`, and what is on the wire arrives if it was sent.
  Loss is not being put on the wire, so that nothing is assumed of the packets
  that get lost; delay is finite but unbounded.
* `Downloader`: workers run, requests and streams end one way or the other
  (`timeout=30`). Failures are bounded; links may stay offline for ever, and
  `Terminates` then claims nothing.
* `Steering`: probing tasks, `stop` and the transfer run. Strong fairness on two
  things: a path that is up again and again answers some ping, and the weighted
  draw gives every active link its share, without a lost packet every time. Both
  are probability one in the code; without them a transfer may draw a dead link,
  or a live one lose, for ever.
* `Proxy`: relays and the handler run, the name is resolved, the attempt to
  connect ends, a connection that was closed is lost. No fairness on the two
  programs: they may stay silent for ever.
* `Dashboard`: a monitor's `stop` returns, `initialize` answers or fails, tasks
  run, and a session that downloads completes if a link works all the time from
  some point on and the monitor it was made with has not been stopped: `Terminates`
  of `Downloader`, and `TransferGetsThrough` of `Steering`, where only a running
  monitor sees the link. As in `Downloader`, failures of other causes are assumed
  to end.
* `RustResequencer`: time passes and the caller keeps calling `tick`.
* `LinkMonitor`: goroutines run, and the ticker ticks; the read of the listener
  returns when there is a message to read.

### What the bounds are not

`MaxCmds`, `MaxReplies`, `MaxPackets`, `MaxData`, `MaxDups`, `MaxFailures`,
`MaxToggles`, `MaxChanges`, `MaxEvents`, `MaxUnits`, `LastSeq` and
`DeDuplicator`'s `MaxSeq` are bounds of the runs, not of the program. `MaxSeq` of
the two buffers is the largest number of the 32-bit field; `max_buffer_size`,
`max_history`, `loss_threshold`, `MaxRetries`, `MaxWorkers` and the timeouts are
parameters of the code.

## 4. Proofs

Each theorem holds for every value of the constants that the module's assumption
allows: sizes, numbers and timeouts of any value (positive where the code needs
it), any set of links, handlers, requests or payloads. Each module proved about has an
inductive invariant (`IInv`, `TunnelInv`, `SteerInv`), with the theorems
`Invariant` and `TypeCorrect` beside those below.

| module | theorems | of which a run checks |
|---|---|---|
| `ResequencerProofs` | `OrderTheorem`, `ReleaseTheorem`, `SeenTheorem`, `FlusherTheorem`, `SkipTheorem`, `Refinement` | `StrictlyOrdered`, `FlusherArmed`, `SkipOnlyOnTimeout`, `ImplementsOrderedRelease` |
| `RouterProofs` | `MappedTheorem`, `HoleTheorem`, `ReplyTheorem`, `ClosedReplyTheorem`, `CleanupTheorem` | `ActiveIsMapped`, `NoHole`, `NoReplyLost`, `NoReplyFromClosed`, `CleanupClosesAll` |
| `VpnClientProofs` | `NumberedTheorem`, `ForgottenTheorem`, `StrandedTheorem` | `NumberedInOrder`, `NoneForgotten`, `NoneStranded` |
| the same, of `Tunnel` | `TunnelInvariant`, `TunnelRefinement` | `ImplementsLossyFifo` |
| `DownloaderProofs` | `ChunkTheorem`, `JoinTheorem`, `FileTheorem`, `ProgressTheorem` | `EachChunkOnce`, `JoinCountsOpenChunks`, `CompletedIsCorrect`, `ProgressReachesSize` |
| `ProxyProofs` | `FirstEndTheorem`, `OrphanTheorem`, `StatusTheorem` | `FirstEndIsWhole`, `NoOrphan` |
| `DashboardProofs` | `MonitoredTheorem`, `AloneTheorem` | `AlwaysMonitored`, `AloneIsWhole` |
| the same, of `Steering` | `SteerInvariant`, `SteerTypeCorrect`, `QuietTheorem` | `QuietAfterStop` |
| `DeDuplicatorProofs` | `SizeTheorem`, `Refinement` | `SizeBounded`, `ImplementsSlidingWindow` |
| `RustResequencerProofs` | `BoundTheorem`, `Refinement` (under `NoWrap`) | `BufferBounded`, `RefinesUnlessLate` |

The arguments:

* **Resequencer.** `StrictlyOrdered` is not inductive: a step appends a run of
  packets to `delivered`, and that it continues in order needs that everything
  delivered is below `expected_seq` (`DeliveredBelowExpected`) and that the run
  starts at or above it. The flush task jumps to its head and releases from
  there; that nothing is left below the head needs that the heap lies above
  `expected_seq` (`NothingReleasable`), and that a number picks one packet needs
  that numbers are unique in the heap (`HeapSeqsUnique`), which `put` only keeps
  because `seen_seqs` is exact (`SeenMatchesHeap`). For the refinement,
  `ReleaseRefines` turns a release into one of `OrderedRelease`: its run is a
  bijection onto the released packets, whose number is bounded by the heap's.
* **Router.** Three parts, in which no conjunct stands alone. `Queue` is the
  lock: a task stands in its queue once, what stands there was started, a relay
  task that waits has an open connection, and `phase` tells what the owner is and
  what it has done so far. `Started` and `Untouched` tie connections to the
  commands that made them: a command that still waits has no connection yet, so
  that the CONNECT which opens one has the map to itself (`ActiveIsMapped`), and
  nothing was received or sent through it before (`NoHole`, `NoReplyLost`).
  Closing a session cancels its relay task in the middle of the queue;
  `CancelRelays` takes the other entries by their positions, and that this keeps
  them, each once and in order, is `EntriesInOrder`. A critical section closes
  connections first, with the queue and the map not yet in step: `Pending` is what
  holds between, and `SectionEnds` gets from there back to the invariant. A command
  that reports a failed connect stands behind itself in the queue: `QueuedOnce`
  and `NotEntered` name the case.
* **Tunnel.** The buffer's side needs `Kept`: what waits in the heap is what the
  client numbered so, in spite of loss, copies and delay; it lies above
  `expected_seq`, and what was handed over below; and `expected_seq` never passes
  the numbers given, so that a packet sent later is never below it. A release is
  then one `Receive` of `LossyFifo` (`ReleaseReceives`): consecutive messages,
  behind all that came before. The client's invariant is used as it is, and its
  steps leave the buffer alone.
* **Downloader.** Three parts. `Shape`: the ranges cover the file (`RangesCover`,
  by division with remainder). `Places`: a chunk is in the queue once, or with
  one worker, or completed, and `unfinished` is the number of open chunks; so
  `queue.join` returns only when every chunk is completed. `Data`: the write
  offset of an attempt is its chunk's start plus the bytes it has, the block it
  is sent is the one that belongs there, and what lies below is already right.
  `Data` is kept whatever fails if the server honours ranges, and up to the first
  failure if it does not, which is the exception of `CompletedIsCorrect`.
  The progress has an invariant of its own (`Progress`): the blocks counted for
  each chunk since it was last queued are a set, `Got`, whose size the reported
  total never falls below and equals while nothing failed; with every chunk
  completed it is the whole file.
* **VpnClient.** `NumberedInOrder` needs to know how far the handler of a
  numbered packet has come (`HandlersAhead`): a number already given is always
  behind what the handler will send next, although its sends are suspended and
  others take numbers meanwhile. `SendsItsOwn` ties a suspended send to its packet.
  That no data is left out needs the converse: what a handler has read and is past
  sending has been numbered, every number of it (`NothingSkipped`, `Numbered`).
  `NoneStranded` is inductive beside the types: each of the three ways out of the
  map (the end of the handler, the server's CLOSE, `stop`) closes the connection in
  the same step (`StrandedKeeps`).
* **Proxy.** One conjunct per phase of the handler (`Handshake`, `Refused`,
  `Relayed`, `Ended`) and one for the relays, `Passing`: before a read nothing
  read is kept back, and nothing is closed before a relay comes to its end.
* **Dashboard.** `AloneIsWhole` speaks of downloads at work; the invariant
  (`Alone`) has to follow a request from its first test through both waits and
  the task it starts, and says at each what may be relied on.
* **DeDuplicator.** Read backwards from its index, the ring holds the numbers
  that passed last (`RingIsTail`), these are distinct (`WindowDistinct`), and the
  set is their set and the 0 (`SetIsWindow`): hence each call of `register` is a
  step of `SlidingWindow`.
* **Steering.** `stop` returns only after every task has ended (`StopGathers`),
  and an ended task takes no step.
* **RustResequencer.** A forced flush removes at least the head
  (`ForcedFlushMakesRoom`), so that storing unconditionally afterwards keeps the
  bound, the wrap of `next_seq` included. For the refinement, what was delivered
  lies below `next_seq` and what is buffered above it (`Parted`), as long as no
  packet was late. `put` with a full buffer flushes twice, with the new packet
  stored in between; it is one step of `OrderedRelease` because both runs are one
  consecutive run from the head on (`ForcedRefines`), or else the packet is late.

Only model-checked:

* All liveness: fairness and `ENABLED` are beyond the prover.
* `QuietAfterStop` of `LinkMonitor`: after `Stop` returned both goroutines have
  ended. It is the one safety property of a run that no theorem states.

Where `next_seq` wraps `RefinesUnlessLate` is neither proved nor true.

## 5. What is not modelled

* Encryption, wire formats, addresses: `protocol.py`, `crypto`, `server/main.py`.
* Floating-point filters of `congestion/mod.rs` and the values of `metrics.py`'s
  scores, jitter and loss rates: no run can say more of them than a unit test.
* `transport/mod.rs`: a map of streams behind `&mut self`, nothing interleaves.
* The dashboard's readers (`status`, the websocket), the command line client,
  presentation, start-up, logging, STUN, deployment.
* A restart of either end of the tunnel: nothing in the code handles one. The
  counters start from 0 again and the other end's buffer refuses everything
  below its `expected_seq`.
* The end of the 32-bit sequence space: packing fails there.
* The downlink's network, and the contents of local streams.

## 6. What is left

1. The downlink: `Router`'s replies through a network and the client's buffer to
   the local sockets, with DATA tasks and CLOSE (`vpn.py:171`, `174`).
2. `DeDuplicator` in front of `RustResequencer`: the two together keep order with
   redundant sends.
3. Proofs: `QuietAfterStop` of `LinkMonitor`; and for the compositions of 1 and
   2, that what the local socket is written is a `LossyFifo` of the replies.
