# A TLA+ model of ssh-proxy

`ssh-proxy` carries the TCP and UDP traffic of selected subnets through one SSH
session.  A *host* process reads IP packets from a TUN device and plays the
server's side of every TCP connection towards the local applications; a *remote*
process, started over SSH, makes the real connections.  Between the two runs a
length-prefixed protocol in which a TCP connection is a number.

This directory holds TLA+ modules translated from the Rust source, the TLC
configurations that check them, and TLAPS proofs about the host's connection
table, the remote's connection tasks, the path of datagrams and DNS queries, the
session from start to end, and the tunnel they make up.  Source references are relative to the crate's `src/` (`host/mod.rs:369`);
`README.md:75` is the repository's README.  `PROJECT.json` maps every definition
to its lines.

* [Inventory](#1-inventory)
* [Modules, and how they correspond to the code](#2-modules-and-how-they-correspond-to-the-code)
* [Runs](#3-runs): questions, bounds, fairness, results
* [Disagreements between code and documentation](#4-disagreements-between-code-and-documentation)
* [Proofs](#5-proofs)
* [What is not modelled](#6-what-is-not-modelled)
* [Plan](#7-plan)

## 1. Inventory

| component | source | state it keeps | operations |
|---|---|---|---|
| NAT table, TCP | `host/nat.rs` | `tcp_by_key` (4-tuple → connection), `tcp_by_id` (id → 4-tuple), `next_id` | create, close, set state, read/advance seq, read/update ack |
| Host TCP handlers | `host/mod.rs` | the NAT table; channels `to_remote`, `to_tun` (1024 each) | `handle_outbound_tcp` per TUN packet, `handle_remote_message` per message |
| Host select loop, lifecycle | `host/mod.rs`, `main.rs` | which branch runs; the session, the TUN device | TUN read, remote message, drain of both channels, DNS socket, ctrl-c |
| Remote select loop, TCP tasks | `remote/mod.rs`, `remote/proxy.rs` | `tcp_connections` (sharded map id → sender), one 256-block channel per connection, the response channel (1024), `running` | connect, data, close, shutdown; one task per connection relays between channel and socket |
| UDP forwarding | `host/nat.rs`, `host/mod.rs`, `remote/mod.rs`, `remote/proxy.rs` | `udp_mappings` with last activity, one short-lived socket per datagram | track, look up, clean up after 60 s; send and wait 5 s for one answer |
| DNS forwarder | `host/dns.rs`, `remote/mod.rs` | `pending` (id → querier), `next_id` | query, response |
| Message framing | `protocol.rs` | none (the byte stream) | `read_message`, `write_message` |
| Packets | `packet.rs` | none | parse and build IPv4/IPv6, TCP, UDP |
| Start-up and clean-up | `host/{mod,tun,routing,dns}.rs` | TUN device, routes, resolver registration | create, add, register, revert |
| SSH connection | `host/ssh.rs` | the authenticated session | connect, authenticate, exec |
| Command line | `cli.rs`, `main.rs` | none | parse |

### Who talks to whom

```
application's kernel <-- TUN device --> host select loop <-- SSH session --> remote select loop
                                         |  NAT table                         |  tcp_connections
                                         |  to_remote, to_tun                 |  channel per connection
                                                                              v
                                                             one task per connection <-> destination
                                                             (answers: the response channel)
```

* On the host **one task** runs every handler and drains both channels.  It is
  the only sender and the only receiver of `to_remote` and `to_tun`.
* On the remote the loop and the per-connection tasks run on **different
  threads** and share the map.  A map entry holds the only sender of its
  connection's channel, so removing the entry closes the channel.
* Both processes read the session in a task that only forwards whole messages
  to the loop.

### What is hard, and what makes each part correct

| component | hard because | correct when |
|---|---|---|
| NAT table | two maps without a common lock; a SYN may replace a live key | a key's connection is found again from its id (`KeysResolve`); a stale id is older than what it finds (`StaleIdsAreOlder`); without repeated SYNs there is no stale id (`IdsResolve`) |
| Host TCP handlers | retransmissions, both closing orders, made-up sequence numbers that wrap, chunking | each byte forwarded once and in order, acknowledged exactly when forwarded, replies in sequence, entry removed after both closes |
| Remote loop and tasks | connect, data, close and the end of the socket race on a map entry; three bounded waits, one of them under a lock | entries have tasks; nothing lost, repeated or reordered on a live connection; what is dropped at a connection's end is not dropped in silence; closed connections and the process end, but for the waits that are named |
| Tunnel | host and remote rely on each other's message order | `HostKeepsProtocol`, the two byte streams, end of stream after all data |
| UDP, DNS | time-outs, ids that wrap, clean-up by age, one table shared by applications | an answer goes to whoever asked last with its key (`KeepsPromise`), and to the one who asked unless the key is shared (`AnswersReachAsker`); it is lost only when late (`UnknownAnswersAreLate`); a query is pending exactly until it is answered (`PendingIsUnanswered`) |
| Framing | a stream may end anywhere, a write is split and waits, a read that is dropped loses its place | readers keep their place (`FramesAligned`), writes end (`WritesEnd`) |
| Start-up, end | any step may fail or be interrupted, with the remote already running | what was registered is reverted (`ResolverReverted`); both processes end with the session (`HostEnds`, `RemoteEnds`) |

`PROJECT.json` lists each hazard at its line with the properties that would
catch it, or the reason why none does yet.

## 2. Modules, and how they correspond to the code

| module | models | built on |
|---|---|---|
| `NatTable` | the TCP half of `NatTable` in `host/nat.rs` | |
| `HostTcp` | `handle_outbound_tcp` and the TCP messages of `handle_remote_message`, the loop's branches that call them and drain the channels | extends `NatTable` |
| `HostTcpProofs` | theorems about `HostTcp` | extends `HostTcp` |
| `RemoteTcp` | actions of the remote's select loop and of its connection tasks, with channels and map locks; no specification of its own | |
| `RemoteProxy` | the remote process between a host that keeps the protocol and arbitrary destinations | extends `RemoteTcp` |
| `RemoteProxyProofs` | theorems about `RemoteProxy` | extends `RemoteProxy` |
| `Tunnel` | application kernel, host, session, remote, destination | extends `HostTcp`, instantiates `RemoteTcp` |
| `TunnelProofs` | the types of `Tunnel` | extends `Tunnel`, `HostTcpProofs` |
| `ProtocolProofs` | the order of messages in `Tunnel` | extends `TunnelProofs` |
| `ForwardProofs` | the way up in `Tunnel`, from an application to its destination | extends `ProtocolProofs` |
| `BackwardProofs` | the way down in `Tunnel`, from a destination to its application | extends `ForwardProofs` |
| `ReturnPath` | abstract: what forwarding datagrams and queries promises | |
| `Datagrams` | UDP half of `NatTable`, DNS forwarder, their handlers on the host, one task per message on the remote | implements `ReturnPath` |
| `DatagramsProofs` | theorems about `Datagrams` | extends `Datagrams` |
| `HostStart` | `run` of the host from its arguments to its loop and its exit; actions only | |
| `Session` | both processes from start to end: framing over bounded streams, reader tasks, both loops' control | extends `HostStart` |
| `SessionProofs` | theorems about `Session` | extends `Session` |
| `MCHostTcp`, `MCRemoteProxy`, `MCTunnel`, `MCDatagrams`, `MCSession` | constants of the runs | |

### NatTable

The two `DashMap`s are functions whose domains are the keys present; `next_id`
is the atomic counter.  Lookups by id go through both maps as the code does:
`GetTcpSeq` returns 0, and updates do nothing, when either entry is missing.  A
handler that calls several updates in a row composes the operators on the table
value, in code order.  `CreateTcpConnection` overwrites the key's entry and
leaves the old id in `tcp_by_id`, as `nat.rs:69-70` does.  Addresses and ports
collapse into `Client` and `Server`; IPv4 and IPv6 run the same code here.

### HostTcp

There is one operator per branch of the handlers.  The parsed packet is a record; its
acknowledgment number is left out because the code parses and never reads it.
`Emit(msgs, packets)` is what the handler sends on each channel, in order.

*The blocked loop.* A send to a full channel never completes, because the loop
that would empty the channel is the one waiting.  In the model the handler then
sets `loop = "blocked"` for good.  The table keeps the handler's assignments and the
channels stay as they were: which of the handler's effects came before the send
that blocks cannot be observed, since nothing else reads table or channels.
Properties about the relation of the table to the channels are therefore
stated for `loop = "running"`.

*Data is chunked* as in `mod.rs:529-558`: sequence number read and advanced per
chunk, PSH on the last.

### RemoteTcp

`task[i]` is the program counter of the task spawned for connection `i`,
with one value per await point or map operation: connecting, announcing
`TcpConnected`, inserting the handle, selecting, writing to the socket,
sending data / error / closed, removing the handle.  `hand[i]` is the block it holds
meanwhile.  The loop has a program counter of its own only where it can
wait: in the send to a connection's channel (`"sending"`), and in the `remove`
that follows a failed send (`"removing"`).

*Locks.* `handle_tcp_data` holds the guard of `get(&id)` across the send and the
`remove` (`remote/mod.rs:203-206`).  `GuardHeld(shard)` is that read lock: an insert or remove in the
same shard waits.  `Shard` maps ids to shards.  `"removing"` has no way out: the
loop waits for a write lock on a shard it has locked for reading.

*Threads.* Each task is assumed to have a thread: a task that waits for a
shard lock delays no other.  With few worker threads it would, which makes the
real program wait more, never less.

*End.* The messages of one connection id are `TcpConnect`, `TcpData`, `TcpClose`;
`Shutdown` and the end of the input are the one step `LoopExits`, after which
no task takes a step, because `run` returns and the process with it.

### RemoteProxy

Adds the host (opens an id once, sends data and closes only after it has
received `TcpConnected`, no data after a close; `HostKeepsProtocol` in `Tunnel` checks that
the modelled host does this, and `OneSynProtocol` proves it for one SYN per attempt), the destination (answers or refuses, sends, ends,
fails, accepts writes) and the session, which may end at any time.  `told` is what
the loop has written to the host of each connection's beginning and end.

### Tunnel

Joins `HostTcp` and `RemoteTcp`.  The session delivers in order and without loss, so
a message is handled in the step that takes it from the sender's channel; the
receiving process's own queue of 1024 messages only adds delay.  Around them:

* *the applications' kernel* (external, RFC 9293): takes in-order segments
  only, acknowledges them, retransmits its first unacknowledged segment, closes
  and resets whenever it likes, ignores unacceptable resets.  Its receive
  window is unbounded and its initial sequence number 0;
* *the TUN queue*: in order, may drop the newest packet;
* *the destination* (external): as in `RemoteProxy`, counting its bytes.

Bytes carry their position (`UpByte(n)`, `DownByte(id, n)`), so that order, loss
and mixing up show in the data.  `sent` is a history of everything the host has put in
`to_remote`; no action reads it.

### ReturnPath and Datagrams

`ReturnPath` has two variables: who asked last with each key, and what became of
each ask.  An ask ends at most once, and an answer is passed to whoever asked last with the key it
carries.

`Datagrams` has the code's tables.  `udp_mappings` is keyed by source port and
destination, without the source address (`nat.rs:145`); `TrackUdp` inserts or
refreshes, then removes everything of age 60 s (`nat.rs:150-157`).  `pending` is
keyed by a wrapping query id.  On the remote each message has a task with an unconnected socket of its
own (`proxy.rs:88-120`): it waits, may give up, takes *one* answer from *any*
address, and sends it to the response channel, which may be full.  A UDP answer
names the address it came from; its key is therefore not always the asker's.

`asks`, `age`, `fate` and `answered` (for each query id, how many asks there had been when
an answer with it was last passed on) are histories; no action of the code's reads them, but
for the bound on the number of asks.  Under the refinement, `fate` is itself and `asker` is the
last ask with each key (`LastAsker`).

*Time* is the age of mappings and asks in units of which `MappingAge` make 60 s.
The remote's 5 s are left open: a task may give up at any time.

### HostStart and Session

`host` says where `run` is: one value per step of start-up that waits for
something outside (connect, key or agent, password, exec, TUN device, each route, `resolvectl`
twice, the remote's `Ready`), then the select loop, a write, or the way out.  Each step may fail; a failure
returns, and the TUN device, the routes and the session go with the stack.  An
interrupt kills the process as long as tokio's handler is not installed, which is
when a `ctrl_c` future is first polled: in the loop, and not in an iteration whose
other branches were ready before.

In `Session` a frame is three pieces, two of the length prefix and one body, so
that a stream can end before, inside and after the prefix.  `out` is what
`write_message` has yet to write, `wire` what the stream holds, `frame` the
reader's place within a frame, `queue` what the reader task has delivered.
Messages are `Ready`, `Shutdown` and `"data"`; what they carry is the business
of the other modules, so what a handler sends is a choice of up to `MaxBurst` messages on each channel.

* *Interrupts.*  The loop creates the `ctrl_c` future anew in each iteration.
  `ctrl_c` says whether the handler is installed and whether the current future has heard
  an interrupt; taking any branch forgets what was heard, and an
  interrupt that arrives while a handler or a write has the loop is not heard by any.
* *Ends.*  A session that breaks takes what was under way with it, or lets it
  arrive first; a process that exits lets it arrive.  An end inside the length prefix is
  a clean end (`protocol.rs:116-120`), one inside the body an error.
* The host's reader task is started after `Ready` in the code, and runs from the
  start here: until then it has only `Ready` to read ahead, which the start-up
  takes from the queue.

## 3. Runs

| run | module, cfg | asks | result |
|---|---|---|---|
| `host_tcp` | `MCHostTcp` | do the two maps stay consistent, whatever packets and messages arrive? | holds, 60,724 states |
| `remote_proxy` | `RemoteProxy_shard` | do entries have tasks, does a relayed connection keep its blocks, is the host told when one is dropped, does a closed connection end, and the process with its session, but for the three ways in which it can wait? | holds, 193 k states |
| `tunnel_up` | `Tunnel_up` | upstream: order, acknowledgments, protocol, ids, with retransmissions; does the closing handshake end? | holds, 133 k states |
| `tunnel_down` | `Tunnel_down` | downstream: one stream, end after data, sequence numbers | holds, 1.0 M states |
| `datagrams` | `Datagrams` | who gets an answer, when is one lost, and does the whole implement `ReturnPath`? | holds, 597 k states |
| `session` | `Session` | do readers keep their place, do writes and both processes end, is the resolver reverted? | holds, 188 k states |
| `remote_loss`, `remote_selflock`, `tunnel_fin`, `tunnel_syn`, `tunnel_rst`, `session_ctrlc` | cfg of the same name | does the code do what its documentation says? | violated, see section 4 |

### Properties

| property | says | a bug it would catch (the mutant checked) |
|---|---|---|
| `HostTypeOK` | types, numbers within the sequence space, channels within capacity | an addition that does not wrap (`PlainAdd`) |
| `KeysResolve` | the id stored under a key leads back to the key | the reverse entry forgotten on creation (`CreateWithoutReverse`) |
| `StaleIdsAreOlder` | an id whose key holds another connection is older than it | a SYN that keeps the existing entry (`CreateUnlessPresent`) |
| `IdsResolve` | with one SYN per attempt no stale id exists | reverse entry kept on close (`CloseKeepingId`) |
| `ForwardedInOrder` | the host forwards a prefix of the application's stream, once and in order | no comparison with the expected number (`OnDataUnchecked`) |
| `AcksWhatItForwards` | the acknowledgment covers exactly the forwarded bytes | acknowledging what was dropped (`OnDataAlwaysAcked`) |
| `HostKeepsProtocol` | one connect per id, data and close only after the announcement, no data after a close | close sent before the FIN's data (`OnFinClosingFirst`) |
| `DestReadsRun` | the destination reads consecutive bytes | a write restarted from its beginning (`WriteAgain`) |
| `ReadsOneStream` | what the application reads is a prefix of one destination's stream | a full response channel costs a block (`TrySendData`) |
| `EofAfterAllData` | the application sees the end only after all data | data dropped after the application's FIN (`OnTcpDataUnlessFinWait`) |
| `SeqAgrees` | every packet under way has the sequence number the application will expect when it gets there, and the table the one after them all | the SYN not counted (`OnTcpConnectedUncounted`) |
| `HandshakeEnds` | an entry whose both ends closed is removed | entry kept after the last FIN (`OnFinKeepingEntry`) |
| `ProxyTypeOK` | types, channels within capacity | an unbounded send (`RespondAlways`) |
| `HandlesHaveTasks` | every map entry has a task that will remove it | entry not removed at the task's end (`KeepHandle`) |
| `LossOnlyBeforeInsert` | a relayed connection's blocks are consecutive up to the newest | a full channel costs a block (`TrySendToTask`) |
| `ExitsOrStuck` | after the session's end the loop exits, waits for its own guard or in a circle with a task, or waits behind a destination that never again takes a write | the loop not woken by the receiver's end (`LoopResumesForRoom`) |
| `ClosedHandleEndsTask` | a connection the host has closed ends, with its socket, unless the loop is stuck or a destination never again takes a write | the task holding a sender of its own (`ChannelStaysOpen`) |
| `ArrivesOrHostIsTold` | a block taken for a relayed connection reaches its destination, or the host is sent `TcpClosed`, with the same exceptions | a task that ends without its `TcpClosed` (`LeaveUntold`) |
| `DatagramTypeOK` | types, channels within capacity | an unbounded send (`TaskAnswersAlways`) |
| `KeepsPromise` | `Datagrams` implements `ReturnPath` | a mapping in use keeps its first source (`TrackUnlessPresent`) |
| `AnswersReachAsker` | the answer of the address that was asked goes to the application that asked, unless another shared its key | mappings by port alone (`TrackByPort`) |
| `UnknownAnswersAreLate` | such an answer finds no entry only a minute later, or when the query's id was used again | a clean-up that removes young mappings (`TrackAndDropOthers`) |
| `PendingIsUnanswered` | `pending` holds exactly the ids with a query asked since their last answer, and names the last socket that asked | answered queries stay (`KeepPending`) |
| `SessionTypeOK` | types; streams, queues and channels within capacity | an unbounded queue (`HasRoomAlways`) |
| `FramesAligned` | the reader's place within a frame is where the stream says it is | a read dropped half-way by `select!` (`NextDropped`) |
| `ResolverReverted` | the resolver is told to revert, but for a registration that failed half-way and a kill without a handler | an error returned before the clean-up (`ReturnsUnreverted`) |
| `WritesEnd` | a message the host writes gets through or the session ends, unless the remote stalls as well | reading as a branch of the loop (`ReadsInLoop`) |
| `HostEnds` | the host returns when the session or the remote has ended, unless blocked on its own channels | an end inside a frame not noticed (`EndedBetweenFrames`) |
| `RemoteEnds` | the remote exits with its session, unless a handler of its waits for a connection | the loop goes on after the end of its input (`EndsRemoteOnShutdown`) |

### Bounds, and why they are enough

| bound | value | why |
|---|---|---|
| `Client`, `Server` | 1, 1 | the maps treat keys alike; every interaction in question is between connections of one key, or independent |
| `MaxConns` | 2; 1 in `tunnel_up`, `tunnel_down` | a replacement needs two ids; with one SYN per attempt there is one connection |
| `SeqSpace`, `HostIsn` | 2, 1 in `host_tcp`; 16, 14 in `Tunnel` | the host's numbers wrap during the handshake or the first block; 16 numbers exceed what is under way, so that two live numbers never coincide |
| `MaxPayload`, `MaxRead` | 1, and 2 in `host_tcp` and `tunnel_down` | a block is cut into one and into two packets |
| `HostChanCap` | 2; 3 in `Tunnel` | both channels fill, and the loop blocks |
| `ConnChanCap`, `RespChanCap` | 1; `RespChanCap` 2 in `tunnel_down` | both fill; the circular wait and the self-lock occur |
| `Id`, `Shard` | 2 connections, in one shard | the case in which the locks matter; other shardings only remove waits |
| `MaxSyns` | 1; 2 in `tunnel_syn` | a repeated SYN breaks `SeqAgrees` (section 4), so the other properties are asked without one |
| `MaxSent`, `MaxRetx` | 2, 1 in `tunnel_up` | a retransmission of the first, or of the second byte, before and after the FIN |
| `MaxReads` | 3 in `tunnel_down`, 0 in `tunnel_up` | a block of two and one of one, in each order, and the end of stream between or after; upstream the destination only has to end |
| `MaxDrops` | 0 in `tunnel_up`, 1 in `tunnel_down` | a dropped segment before a FIN breaks `ForwardedInOrder` (section 4); downstream properties hold with it |
| `MaxBlocks`, `MaxReads` (remote) | 3 and 1 on one connection, 1 and 0 on the other | a block in the task's hand, one in the channel and one in the loop's, which then waits behind the destination, while the other connection wants the shard |
| `Addr`, `Port`, `Dest` | 2, 1, 2 | two applications share a port, and an answer can come from another address than was asked |
| `IdSpace`, `MaxAsks` | 2, 3 | a query id comes round while the first query is unanswered |
| `MappingAge` | 2 | a mapping is refreshed, or removed, at the age of 0, 1 and 2 |
| `HostChanCap`, `RespChanCap` (datagrams) | 2, 1 | both fill |
| `WireCap`, `QueueCap`, `ChanCap` | 1 | everything fills at once: a frame does not fit the stream |
| `MaxBurst` | 2 | the data and the close of one FIN, or two packets of one block; more only fill a channel sooner |
| `MaxIdentities`, `Subnets` | 1 | a first and a last identity; a failure before, and after, a route |

Deadlock checking is off in all runs: applications may simply stop, and the
bounds and the blocked or stuck loop end behaviours.

### Fairness, and what in the code justifies it

* `RemoteProxy`: tokio polls every ready task, so each task's own steps are weakly
  fair; `select!` polls its branches in random order, so the loop's branches
  and the end of input are taken when they stay ready.  A connect ends, if only by
  the kernel's time-out.  A write need not: `write_all` (`remote/proxy.rs:32`) has
  no time-out, and a peer that keeps its window closed and answers the probes holds it for
  ever.  So `DestAccepts` is unfair, and so are what the host sends, what
  destinations send and when the session ends.
* `Tunnel_up`: weak fairness of the host's two input branches and of the
  kernel's receipt of what is written to the TUN device, and of nothing else.
* `Session`: weak fairness of what has a task to itself or is awaited in a row
  (start-up and exit of the host, pieces of a write, the readers).  The branches of a loop that is busy with others are
  enabled again and again, not for ever: `select!` polls them in random order, hence strong fairness of
  taking a message from the reader's queue.  Start-up prompts are answered.  Packets, interrupts,
  failures and the responses of tasks are unfair.
  `AttentiveSpec` gives the other branches strong fairness too, the
  interrupted one included, so that the counterexample of `session_ctrlc` is not a loop that never
  looks.

The liveness of `remote_proxy` names the waits it cannot exclude.  `Seized` is a
loop that waits for its own guard or in a circle with a task (or has exited); without it the properties
are false, as `remote_selflock` shows.  `[]BehindDestination` is a loop that waits for
ever for room in the channel of a connection whose destination has stopped reading,
and with it every connection waits; `[]Withheld(i)` adds a connection's own task inside `write_all`, where
it does not see that its channel is closed (`proxy.rs:32`, `:40`).  Each is needed: TLC finds
a counterexample when it is left out.  The exemption is an *always*: a destination that
takes the block ends it.
`HandshakeEnds` and `HostEnds` say "or blocked" for the
loop that waits for itself, `RemoteEnds` says "or waiting" for a handler of the
remote that waits for a connection, which `ExitsOrStuck` is about.  `WritesEnd` excepts
the one stall it cannot exclude: both streams full, both readers waiting for room in full
queues, and the remote's loop writing or waiting itself.

## 4. Disagreements between code and documentation

Each is a run whose property TLC violates.

* **`remote_loss`** - the task sends `TcpConnected` before it inserts its handle
  (`remote/mod.rs:175-179`).  Data that arrives in between finds no entry and is dropped
  with a warning, though the host has acknowledged it.  `README.md:7` promises that
  any connection is captured, sent and re-emitted.  `LossOnlyBeforeInsert` shows that
  this window is the only place where a live connection loses a block; a
  `TcpClose` in the window is ignored too.
* **`remote_selflock`** - `remote/mod.rs:206` removes an entry under its own read
  guard.  A data block that finds the task returned and not yet removed
  stops the loop for ever, and the process outlives its session (`README.md:75`).
* **`tunnel_fin`** - the FIN branch compares no sequence number (`host/mod.rs:328-342`),
  unlike the data branch (`:369`).  A dropped segment followed by a FIN leaves a
  hole in the stream, which the host acknowledges.
* **`tunnel_syn`** - a retransmitted SYN replaces the entry and leaves the old id
  (`nat.rs:69-70`); each of the two announcements advances the one entry's number, and
  the application discards everything afterwards.
* **`tunnel_rst`** - the reset on `TcpError` has sequence number 0 and no ACK
  (`host/mod.rs:620-635`): a stack following RFC 9293 ignores it, and the application
  waits on.
* **`session_ctrlc`** - the `ctrl_c` future is dropped with the other branches
  whenever one of them is taken (`host/mod.rs:155`, `:236`).  An interrupt it has heard is
  forgotten if `select!` happens to take another branch that is ready, and one that
  arrives during a handler or a write is heard by none.  `README.md:75` says "Press
  ctrl-c to shut the tunnel down".

## 5. Proofs

| module | theorem | statement |
|---|---|---|
| `HostTcpProofs` | `HostInvariant` | `HostSpec => []IInv` |
| | `HostTypeCorrect` | `HostSpec => []HostTypeOK` |
| | `HostKeysResolve` | `HostSpec => []KeysResolve` |
| | `HostStaleIdsAreOlder` | `HostSpec => []StaleIdsAreOlder` |
| `RemoteProxyProofs` | `ProxyInvariant` | `ProxySpec => []ProxyIInv` |
| | `ProxyTypeCorrect` | `ProxySpec => []ProxyTypeOK` |
| | `ProxyHandlesHaveTasks` | `ProxySpec => []HandlesHaveTasks` |
| | `ProxyLossOnlyBeforeInsert` | `ProxySpec => []LossOnlyBeforeInsert` |
| `DatagramsProofs` | `DatagramTypeCorrect` | `DatagramSpec => []DatagramTypeOK` |
| | `DatagramKeepsPromise` | `DatagramSpec => KeepsPromise` |
| | `DatagramInvariant` | `DatagramSpec => []DatagramInv` |
| | `DatagramAnswersReachAsker` | `DatagramSpec => []AnswersReachAsker` |
| | `DatagramUnknownAreLate` | `DatagramSpec => []UnknownAnswersAreLate` |
| | `DatagramPendingUnanswered` | `DatagramSpec => []PendingIsUnanswered` |
| `SessionProofs` | `SessionTypeCorrect` | `SessionSpec => []SessionTypeOK` |
| | `SessionFramesAligned` | `SessionSpec => []FramesAligned` |
| | `SessionResolverReverted` | `SessionSpec => []ResolverReverted` |
| `TunnelProofs` | `TunnelTypeCorrect` | `TunnelSpec => []TunnelTypeOK` |
| `ProtocolProofs` | `OneSynProtocol` | `TunnelSpec => []HostKeepsProtocol`, if `MaxSyns = 1` |
| | `OneSynIdsResolve` | `TunnelSpec => []IdsResolve`, if `MaxSyns = 1` |
| `ForwardProofs` | `OneSynAcks` | `TunnelSpec => []AcksWhatItForwards`, if `MaxSyns = 1` |
| | `LosslessForwarding` | `TunnelSpec => []ForwardedInOrder`, if `MaxSyns = 1` and `MaxDrops = 0` |
| | `LosslessDelivery` | `TunnelSpec => []DestReadsRun`, if `MaxSyns = 1` and `MaxDrops = 0` |
| `BackwardProofs` | `OneSynStream` | `TunnelSpec => []ReadsOneStream`, if `MaxSyns = 1` |
| | `OneSynEof` | `TunnelSpec => []EofAfterAllData`, if `MaxSyns = 1` |
| | `OneSynSequence` | `TunnelSpec => []SeqAgrees`, if `MaxSyns = 1` |

### The host's table

*Assumptions*: `NatAssumption` (a positive sequence space, an initial number within it) and
`HostAssumption` (a positive packet size; natural capacities).  The environment is
unconstrained: any packet with any flags, any message about an id handed out.
Clients, servers and the payload alphabet are arbitrary sets.

*Argument*.  `KeysResolve` is not inductive.  Creating a connection takes `next_id`,
and keeps the other keys' reverse entries only if no id in use equals it;
hence `IdsBelowNext`.  Closing a key drops the id stored under it, which is no
other key's id because both would have to resolve to it, which is `KeysResolve` itself.
`StaleIdsAreOlder` needs `IdsBelowNext` for the
new entry, and `KeysResolve` on closing.  `IInv` is the conjunction with the types.

*Layout*.  Lemmas about the table operators come first: the three in-place updates keep keys and ids
(`SameIds`), and a handler that only applies them keeps the invariant
(`SetTableInv`); `CreateInv` and `CloseInv` do the two others.  `EmitType`,
`ReplyType` and `DataPacketsType` cover the channels; the chunking lemma needs
the monotonicity of multiplication, stated as `TimesMonotone`.  `OutboundInv` and
`RemoteMessageInv` have one step per branch of the handlers.  TLC agrees with
`IInv` on the constants of `host_tcp`.

### The remote process

*Assumptions*: `RemoteAssumption` (positive capacities; `Shard` maps every id
to a natural number) and `ProxyAssumption` (natural bounds; the block numbers
are in the alphabet).  `Id` may be any set, finite or not, with any sharding.

*Argument*.  `LossOnlyBeforeInsert` says that the blocks of a relayed connection form a run of
consecutive numbers that ends with the last block sent.  It is not inductive:

* a block the host sends is discarded when the handle is missing.  While the connection is
  relayed, only the host's close takes the handle away, and the host sends
  nothing after it: `RemovedWasClosed`;
* the run has to start from nothing when the handle is inserted:
  `UntouchedBeforeInsert`.  This holds because the loop reaches a channel through a handle only, and a
  handle has a task past its insertion: `HandlesHaveTasks`;
* the loop may be waiting with a block in hand for a connection; that the
  connection is past its insertion needs its handle to be in the map still, and it
  is the guard that keeps it there: `GuardKeepsEntry`, a part of `ProxyIInv` (which says what
  `DashMap`'s lock gives, and is listed as a step of the argument only).

Each step then keeps the run, extends it by the next block or starts it (`Kept`,
`Grown`, `Started`): a block that moves from the loop's hand to the channel, to the
task's hand and to the destination changes hands without changing the
concatenation (`EnterMoves`, `TakeMoves`, `WriteMoves`).  TLC agrees with `ProxyIInv` on the constants of
`remote_proxy`.

### Datagrams and queries

*Assumption*: `DatagramAssumption` (a positive id space and mapping age; natural
capacities).  Addresses, ports and destinations are arbitrary sets.

*Argument*.  What an answer says must be tied to what was asked, across four
places it can be in.

* `InFlight`: an ask that is open has at most one message, in `to_remote`, a task or
  `responses`, and the message carries the ask's own number and key (for a UDP answer from an
  address that was not asked, the asker's port).  Without it an ask could end twice.
* `TablesNameLast`: both tables name the last ask with their key.  `HasLast` says that there is
  one, which `CHOOSE` in `LastWith` needs and which is no triviality for the prover: it follows by
  adding asks one at a time.
* From these, `DatagramKeepsPromise`: each action maps to an action of `ReturnPath` or
  to a stutter, with `LastAsker` for `asker`.
* `AnswersReachAsker` and `UnknownAnswersAreLate` are not about the refinement's asker but about
  the one who asked: `Covered` says that a young datagram has a mapping no older than
  itself, and that an open query that is alone with its id has an entry;
  `LastUnanswered` that the last query of a pending id has had no answer passed on.
* `PendingIsUnanswered` has a direction about what is there and one about what is not:
  `PendingExact` ties the domain of the table to the last answer passed (`answered`), in both.

`DatagramInv` is the conjunction.

### The session

*Assumptions*: `StartAssumption` (naturals) and `SessionAssumption` (positive capacities).

*Argument*.  `FramesAligned` speaks of what is on the wire *and* what is yet to be
written, while both processes live.  Inductive is `AlignInv`:

* the pieces on the wire always continue the reader's frame (`WireFits`), also after an end;
* while the session is up and both processes run, what a loop has yet to write
  continues the wire (`OutFits`), and a loop that is not writing has written all of its
  frame: this is why the next frame starts at a boundary;
* before the remote is started nothing has been written or read (`QuietInv`).

`Fits(k, x)` counts pieces modulo three.  The types depend on the alignment: that what a
reader delivers is a message, and not half a length, is `WireFits` at its place 2.
`ResolverReverted` follows from `StartInv`: `resolver` is registered only
in the phases from the second `resolvectl` on, and every one of them leads through the revert, a failure
(`"unregistered"`) or a kill, which is possible until the loop first polls its `ctrl_c` future.

### The tunnel

*Assumption*: `TunnelAssumption`, with those of `HostTcp`.

*Argument* for `TunnelTypeCorrect`.  The host's part is `IInv` of
`HostTcpProofs`, reused action by action (`OutboundInv`, `RemoteMessageInv`,
`DrainInv`): it has to be shown that what `Tunnel` hands to the handlers are packets and
messages `HostTcp` allows.  For this the remote's types are
sharper than `RemoteTypeOK`: blocks no longer than a read (`RemoteInv`); and an
application that is connected has had its SYN acknowledged (`OpenInv`), or its
first retransmission would have no byte to repeat.

*Argument* for `OneSynProtocol` and `OneSynIdsResolve`.  Both assume `MaxSyns = 1`, one SYN per
connection attempt, and, as `Tunnel` does, one attempt per key; `tunnel_syn` shows that
a retransmitted SYN breaks `IdsResolve`.  Data, FIN and ACK segments may be retransmitted and dropped
freely.  `ProtocolInv` is the conjunction of:

* `SynInv`: a SYN on its way finds no entry under its key.  So a connection is only created for a
  free key, and no id is left without its connection (`IdsCreate`, `IdsClose`);
* `FreshInv`: until the connection is established the application has sent nothing but the SYN, and
  no SYN-ACK is under way to it.  Without it a reset could find an entry in
  `SynSent`, and the host's `TcpClose` would overtake the announcement;
* `ProtoInv`: the host leaves `SynSent` only for an id whose task has announced itself
  (`TableInv`, and `ResponsesInv` for the announcement in the channel); it stays
  established only while no close has been sent for the id; a task starts only for ids below `next_id`
  (`TaskInv`), so a new id is unused at the remote, in the channel and in the history.

The branches of both handlers are reduced to four kinds of step: one that opens an entry (`OnSyn`),
one that establishes it (`Opens`), and the rest, which open and establish nothing and send
properly (`Handled`, and `Follows` with `NoNewSyn`).
The remote's steps are one kind: no task starts or goes back (`TasksGoOn`).  TLC agrees with
`ProtocolInv` on the constants of `tunnel_up` and `tunnel_down`.

*The way up* (`OneSynAcks`, `LosslessForwarding`, `LosslessDelivery`).  The conditions are
where the code needs them.  With two SYNs the host restarts its count for an application
that goes on (`tunnel_syn`), and `AcksWhatItForwards` fails; with a dropped segment before a
FIN the other two do (`tunnel_fin`).  Retransmissions are unbounded in all three.
The argument follows a byte through five places:

* the TUN queue (`QueueInv`): every byte the host waits for is in the queue, a segment ahead
  of it comes after its predecessor, and a FIN comes after everything it follows.  The
  FIN branch compares no sequence number, so this order is all that keeps its
  data from being repeated or from leaving a hole;
* the handler (`AcksInv`): the number advertised is one more than the bytes passed on, since both
  advance in the one step `DataTaken` or `FinTaken`; an id not handed out has passed on nothing;
* the host's channel (`Waiting`): the bytes from some `y` to the last one passed on, in order;
* the remote's loop, the connection's channel and the task's hand (`Path`): the bytes from the one
  the destination gets next up to `y`, as long as the loop has a handle to reach the
  task by.  Before the insertion there is no handle and nothing has arrived
  (`BeforeInv`): what comes then is discarded, and `y` moves past it;
* the destination: a run.

`HostReacts` and `HostAnswers` state once what the two handlers do to the table, the
channels and the history, in terms of a few named effects (`Created`, `DataTaken`, `FinTaken`,
`GivenUp`, ...; `Opened`, `Relayed`, `Finished`, ...), so that each invariant goes through the effects and not through the
handlers.  The stream properties are about `FlattenSeq`, a fold: what it returns is
proved by induction, which the library states with a predicate the provers cannot
instantiate; `SetInduction` states it with a set, and follows from the pigeonhole principle.
TLC agrees with all four invariants on the constants of `tunnel_up`.

*The way down* (`OneSynStream`, `OneSynEof`, `OneSynSequence`).  Only `MaxSyns = 1` is assumed:
packets may be dropped on their way to the host, since the session and the TUN device lose
nothing on the way to the application; `tunnel_syn` shows what a second SYN does.

The argument counts what a connection has said: its SYN takes the count from 0 to 1, byte `n`
from `n` to `n + 1`, its FIN one further.  The count is never state of the model; it is read off in four places:

* the application has read up to `Offset`, and expects that count plus the host's initial
  number (`OnWire`): `Coherent`;
* the packets under way move the count, each from where its predecessor left it (`Packets`).  `PacketMove`
  says which packet may follow at which count, and that its sequence number is the count's.  A
  bare acknowledgment moves nothing, and packets of other connections do not count;
* the table holds the number of the count the packets lead to (`Entry`);
* the responses under way lead from the table's count on (`Replies`), to all that the task has
  said (`Goal`), the block in its hand excepted (`HandInv`), as long as the task has not ended.

`Leads` says that the items of a queue lead from one count to another: there is a walk, a
function from positions to counts, each of whose steps the relation allows.  Taking the first
item and adding at the end are `LeadsTail` and `LeadsMore`, for both queues.  A block is
the destination's bytes from its count on (`Block`), so what the application takes in sequence
joins what it has, and a FIN starts at the count after the last byte read.
`DataLeads` does the cutting of a block into packets (`mod.rs:545`): every packet's number is the
table's advanced by `(i - 1) * MaxPayload`, with additions that wrap (`WrappingTwice`).

Three facts besides keep this invariant: a SYN finds nothing under its key on the
way to the application (`NewInv`), the SYN-ACK acknowledges the SYN alone (`SynAckInv`), and a task that has not announced
its connection has read nothing and left no response (`QuietInv`).
Dropping packets for the application, or packets that overtake each other, would break the walk.  A
connection the application has reset or refused is `"gone"`, and only
what it has read remains to be kept.  TLC agrees with `ReturnInv` on the constants of
`tunnel_down`.

### Only model-checked

All liveness (`HandshakeEnds` of `tunnel_up`, and the temporal properties of `remote_proxy` and of
`session`), which is outside what the prover handles.

Checking: `tlapm HostTcpProofs.tla`, and so on for each module of the table above;
`tlc -config RemoteProxy_shard.cfg MCRemoteProxy.tla`, and so on for each row of section 3.

## 6. What is not modelled

* **Packet layout, checksums, length checks and fragments** (`packet.rs`): the
  modules start from the record the parser returns.  The bytes of a datagram's later fragments, which
  the parser takes for a header, are not modelled.
* **Connection ids and their wrap at 2^32** (`nat.rs:60`): ids are bounded and never
  reused.  (Query ids do wrap.)
* **Worker threads** (`remote/mod.rs:203`): see RemoteTcp above.
* **The application's receive window** (`host/mod.rs:550`): it is unbounded in `Tunnel`.
* **The contents of the session in `Tunnel` and `Datagrams`**: their session is
  a rendezvous and never fails.  That it loses no message while it is up, and
  that a stop of both loops ends with it, is `Session`.
* **systemd-resolved, the kernel's routes, the SSH library**: external.  The revert
  runs after the TUN device is gone (`host/mod.rs:95`), which only `resolvectl` notices.
* **Argument parsing** (`cli.rs`) beyond "succeeds or fails", **logging**, and the
  functions nothing calls (`remove_route`, `prefix_to_netmask`).

## 7. Plan

Done, in this order: `NatTable` and `HostTcp` with their proofs; `RemoteTcp` and
`RemoteProxy` with theirs; `Tunnel`; `ReturnPath` and `Datagrams`, with the
refinement; `HostStart` and `Session`, with framing; the proofs of section 5.

Left:

1. `ByteRelay`: an abstract connection, two byte queues with an end of stream, and
   `Tunnel` shown to implement it where nothing is lost; half-closed connections.
2. A bounded receive buffer of the application, and a bounded number of worker
   threads.
3. Packet length checks, `parse_cidr` and fragments as pure functions compared with
   reference definitions.
