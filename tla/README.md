# TLA+ models of the PEIS kernel

The PEIS ecology is a middleware for networked robots and sensors. Programs
link the PEIS kernel (`src/peiskernel/G6/peiskernel/`) and become *peis*: nodes
that find each other, route packages for each other and share a tuplespace by
subscription. This directory holds TLA+ models of the kernel, the TLC
configurations that check them on small instances, and TLAPS proofs.

Source paths below are relative to `src/peiskernel/G6/peiskernel/`.

## 1. Inventory

A peis is **single threaded**: the program calls `peisk_step` (p2p.c:564), which
accepts connections, reads (`processIncomming`) and writes (`processOutgoing`)
every connection, and runs the periodic functions whose time has come. Every
callback - a port's hooks, acknowledgement hooks, tuple callbacks - runs inside
one of these calls. So the unit of interleaving is *one handler call of one
peis*, and one action of the models is one such call. What interleaves is the
peis with each other, with the links between them, and within one peis the
handlers, in whatever order messages and timers ask for them. The exception is
`peisinit`, whose threads share the fields of a command without a lock.

| Component | State | Operations | Talks to | What is hard | What makes it correct |
|---|---|---|---|---|---|
| Loop detection (p2p.c:1135-1176) | `loopTable` ring, `loopHashTable` chains | `isRepeated`, `markAsRepeated` | transfer, broadcasts | reuse of ring entries in the middle of chains | it is a sliding window over identifiers |
| Reliable transfer (p2p.c:74-412, 778-1133, 1180-1342; services.c:1453-1571) | per connection queues, pending list; pool of queue structures; acknowledgement list | send functions, `processOutgoing`, acknowledgement hook, open, abort and close | link layer below, every service above through hooks | loss, retries racing acknowledgements, connections that close and come back, full queues | hooks called once, truthfully and eventually; delivery at most once; no structure lost or shared |
| Long messages (p2p.c:902-997, 1348-1442) | assembly buffers, counter of parts | split, assemble, combined hook | transfer | lost parts, buffers running out, two senders | a message is delivered whole or not at all |
| Routing (services.c:550-1075, p2p.c:1180-1342, 1459-1551) | global and per connection routing tables, pages | `do_routing`, `hook_routing`, `decodeRoutingPages`, rescue on close, `deleteHost` | host information, transfer, tuples | links that break, stale sequence numbers, restarts | routes name open connections; lost hosts disappear |
| Host information and connection manager (services.c:321-543, p2p.c:1578-2121) | `hostInfoHT`, `connectionMgrInfoHT` | queries, broadcasts, `connectCluster`, `connectionManager` | routing, link layer | duplicate connections, peis reborn | marks and entries agree with the connections there are, bounded connections, one cluster in the end |
| Broadcasts, forwarding (p2p.c:348-472, 675-776) | none of its own | flood, forward | loop detection | loops | every peis once |
| Link layer (linklayer.c, peiskernel_tcpip.c, udp.c, bluetooth.c) | sockets, partial packages | connect, accept, `sendAtomic`, receive | transfer | half-open connections | whole packages |
| Autohosts (linklayer.c:58, p2p.c:564) | `autohosts[]` | connect, retry | link layer | retry after close | retried for ever |
| Tuplespace (tuples.c, tuplesAPI.c) | tuples by name, failed pushes, expiry list | insert, push, set remotely, append, expire | transfer (hooks), routing (`deleteHost`) | failed pushes, restarts, appends out of order | subscribers see the owner's latest value in the end |
| Subscriptions (tuples.c:891-1449) | subscribers, hosts given their subscriptions | subscribe, unsubscribe, resend | transfer, tuplespace | failures arriving late, hosts reborn | subscribers are those who asked |
| Time synchronisation (services.c:1309-1431) | clock offset, inhibition | broadcast, adopt | broadcasts | jumps of clocks that time retries | clocks converge, only forward |
| Hash tables (hashtable.c) | chains | insert, remove, iterate | everything | removal while iterating | what is looked up is what was inserted; iteration visits what stays once |
| Kernel core (peiskernel.c, p2p.c:564) | hooks, periodics, shutdown flag | register, unregister, step, shutdown | everything | hooks that unregister, shutdown that drains | |
| Multithreaded wrapper (peiskernel_mt.c) | one mutex, one thread | lock around each call | all of the API | callbacks under the lock | |
| Process supervisor (`src/peisinit/G6/src/peisinit.c`) | requested and current state, pid and semaphore of each command | start, stop, wait, respawn, in threads of their own | tuplespace, processes | children that die while being stopped, threads that sleep between a test and its use | one process per command, nothing left of it when it is off, what is requested happens in the end |
| Diagnostics, tools, GUI, bindings, device components | | | API | | |

## 2. Plan

Most important first. Each module takes its sizes as CONSTANTS with a named
assumption, has one action per handler, and holds no RECURSIVE operator, so that
it can be proved about as well as checked.

1. `SeenWindow`, `SeenMemory`, `LoopDetection` - **done**: a pure data structure,
   refined to the window every other module then uses.
2. `ReliableTransfer` with the abstract `MessageService` and its proofs -
   **done**: what tuples, subscriptions and routing all rely on.
3. `Routing` - **done** except for tables of several pages and liveness: peis with
   links that go up and down, tables, rescue of routes, ageing, `deleteHost`,
   restarts. Left: an abstract specification of a route, liveness ("a peis that is
   gone is deleted in the end") with sequence numbers that saturate.
4. `LongMessages` on top of `MessageService`, and its proofs - **done**.
5. `Tuplespace` with subscriptions, and the abstract `TupleRegister` - **done**
   except for callbacks, blocking calls, meta tuples and remote appends.
6. `Supervisor` - **done** for one command.
7. `Connections`: host information, the connection manager, autohosts, TCP -
   **done** except for bluetooth, back-off times and queries.
8. `HashTable` with removal during iteration, and the abstract `Dictionary` - **done**.
9. Left: `Broadcast` on top of `SeenWindow`; `TimeSync`; the multithreaded wrapper;
   routing tables of several pages.

Theorems: section 10 has one for each safety invariant that a run checks, and for
the refinements of `SeenMemory` and (but for its fairness) `MessageService`. Worth
proving next: every step of `Tuplespace` is a step of `TupleRegister` or a stutter;
`RouteSwitchImproves` from a bound on how far numbers lag; `Dictionary`, once the
chains of `HashTable` are described without folds.

## 3. Loop detection and hash tables

`SeenWindow` states what is remembered: the last `size` distinct identifiers,
oldest first. `SeenMemory` is the abstract machine over it. `LoopDetection` is
the code: the ring `loopTable` with `nextLoopIndex`, the heads `loopHashTable`,
and for each entry the index `hashNext` and the pointer `hashPrev`, which points
to a head or to the `hashNext` of another entry (`HeadOf`, `NextOf`).
`markAsRepeated` unlinks the entry it is about to reuse through that pointer,
then links it in front of its new chain, in the code's order.

Run `loop_detection`: a ring of 4, 2 chains, 6 identifiers. The entry reused is the
oldest, so it is the last of its chain; the run reuses it at the end of longer
chains and as the only entry of its chain, for identifiers of the same chain and
of the other, and identifiers come back after being forgotten. It shows that searching
one chain finds exactly what searching the whole ring would
(`RepeatedIffRemembered`), that back pointers point to what points to the entry
(`PrevPointersExact`), that no chain closes on itself (`ChainsEnd`; the lookup would
never return), and that the tables implement `SeenMemory` step by step
(`ImplementsMemory`). The code's sizes are 4096 entries and 256 chains;
`LoopDetection_proofs` proves all four properties for every size (section 10).

`Dictionary` states what a hash table promises its users, which is nearly the whole
kernel: keys mapped to the value inserted last, a size, and a loop that comes to
every entry that stays once, whatever is removed behind or before it. `HashTable` is
the code: `buckets` with chains in their order, `getValue` looking in one chain only,
`insert` that puts a link in front and grows the table when more than three links (and
one for every ten buckets) in the chain have other hash values, `resize` that moves the
links in the order of the old chains, and the iterator's `bucket` and `link`. What is
looked up by `getValue` is the dictionary's map, so a link in a wrong chain is a lost
entry. A link that is removed is the one the iterator is at, or is not; in the first
case the loop must not be continued (hashtable.h:89-95), which is why callers move the
iterator first (services.c:705, 1020). Memory is refused at any time, except for the
first five buckets, without which `insert` divides by zero.

Run `hash_table`: five keys of one bucket out of five, two of which share the hash
value too, so that the fourth other hash value makes the table grow to seven buckets
and the chain is divided, and two values; keys of one hash value and values are
interchangeable. It shows `ImplementsDictionary`. Larger tables differ in the modulus
only.

## 4. Reliable transfer

`ReliableTransfer` has one sender, one receiver and what lies between. A message
here is a call of a send function with at most one package of data.

| Model | Code |
|---|---|
| `state[c]` | entry of `connections[]`: `id = -1` ("free"), `isPending` ("connecting"), else "open" |
| `route` | the connection `peisk_sendMessageFrom` picks: the neighbour's or the routing table's |
| `fifo[c][q]` | `outgoingQueueFirst[q]` .. for the three queues with an order |
| `pending[c]` | `PEISK_QUEUE_PENDING`: a set, as each pass scans all of it and acts on each member by its own deadline |
| `free`, `fresh` | `freeQueuedPackages`; structures `totAllocatedPackages` still allows to allocate |
| `message`, `retries` | fields of a `PeisQueuedPackage` |
| `result`, `answers` | what a call came to; the calls of its hook, in order |
| `wire`, `ackWire` | packages and acknowledgement packages under way |
| `seen`, `ackList`, `delivered` | the receiver: loop detection (as `SeenWindow`), `acknowledgementPackages`, and how often its port's hooks were called |

Actions are named for the functions: `sendMessage` and `sendLinkPackage`, both
ending in `connection_sendPackage` (which queues, refuses or runs out of
structures); `processOutgoing`, one pass over a connection's queues, stopping
where the link stops taking packages, giving up or repeating any subset of the
pending packages (their deadlines differ, and passes and time are not counted);
`AckArrives` (`peisk_hook_acknowledgments`); `newConnection`, `connectFinished`,
`abortConnect`, `closeConnection`; `processIncomming` and
`sendAcknowledgementsNow` at the receiver. `Reroute` stands for routing and
host information, which may move the route to any usable connection at any time.
`LosePackage` and `LoseAcks` lose what is under way; reordering comes from `wire`
being a set. Links never duplicate (TCP), and a retransmission carries a new
identifier with the old ackID - `<<m, n>>` and `<<m, 0>>` in the model, distinct
as the code draws random identifiers until one is unused.

Left out: the random drop probabilities (any package whose queue is more than half
full may be refused), the package's contents, prints. The generation of the
identifiers is abstracted to their being distinct. Hooks do not send from
inside a hook call: a send is an action of its own.

`MessageService` is what users are promised: `Send`, `Deliver`, `Report`.
`ReliableTransfer` implements it with `phase` computed from `result` and
`answers`, and delivery from `delivered`.

### Runs

| Run | Instance | Shows |
|---|---|---|
| `transfer` | 2 reliable messages, 1 connection, 2 structures, queue limit 2, one retransmission, acknowledgement list of 2, fair | answers are true, messages delivered once, owed hooks held somewhere; `ImplementsService`: safety and liveness of `MessageService` |
| `transfer_mixed` | a reliable, a link level and a large message; two connections, one of them bluetooth; queue limit 1; loop detection of 2 entries, so that ackIDs are forgotten | structures are on one list, hooks called once and nothing sent again once answered when every limit is hit, aborted and rerouted connections included |

Bounds: a message is one call, so the number of messages bounds the run; the
interesting interactions are between two messages sharing a queue, an
acknowledgement package, a pool or a connection, hence two, and three where the
kinds differ, and two connections, where what was sent over one is acknowledged
after the route moved to the other. `MAX_QUEUE_SIZE` 1 reaches the refusal by the fill rate and the
limit with two packages. `PENDING_MAX_RETRIES` 0 still retransmits once (the code's
test comes before the increment). `MAX_ACK_PACKAGES` 2
makes the list overflow with two messages. `LOOPINFO_SIZE` 12 never forgets with
these messages, 2 does. Deadlock is not checked: when every message is answered
and every connection closed the program has nothing to do.

Properties worth explaining:
- `PackageHeldOnce`: the list surgery of `processOutgoing`, `closeConnection` and the
  acknowledgement hook never links a structure twice.
- `UnansweredIsHeld` (without bluetooth): a message whose hook is still owed is in a
  queue of a live connection or pending on one.
- `OnlyRefusalsMislay`: no step takes a structure out of queues, pending lists and pool
  all at once, except the refusal that does (section 11).
- `QuietOnceAnswered`: once a hook was told, nothing of the message is sent again.
- `DeliveredOnce` holds while the loop detection still remembers the ackID; with a
  window of 2 it does not, which is why `transfer_mixed` leaves it out.

Fairness: `FairSpec` assumes for each connection that holds packages that in the
end either a full pass happens or the connection closes. `peisk_step` calls
`processOutgoing` for every connection in each step, deadlines are wall clock
times that pass, and the connection manager closes a connection without traffic
after `PEISK_CONNECTION_TIMEOUT`. Nothing is assumed of the network: every package
may be lost, and the answer is then a failure.

## 5. Routing

`Routing` has any number of peis, each with the whole handler code of routing. The
state of a peis is one record `node[p]`, since a handler changes several tables at
once; operators in lower case map a record to the record after the function of
that name, so that calls nest as in the code (`deleteHost` closes a connection,
which rescues routes, which are then sent).

| Model | Code |
|---|---|
| `route` | `peiskernel.routingTable`; `via` is the neighbour of `routingInfo->connection`, `NoConn` is NULL |
| `table[n]` | `connection->routingTable` of the connection to `n`, kept when it closes |
| `link[n]` | this end of the connection: "closed", "offered" (connected, not accepted), "unnamed" (`neighbour.id` still -1), "open" |
| `out[n]` | tables sent to `n` and not yet received, in order |
| `known` | the magic numbers in `hostInfoHT` |
| `cluster`, `magic` | `hostInfo.networkCluster`, `magicId` |
| `deadMail` | death notifications under way, sent by `deleteHost` or by `peisk_shutdown` |

Actions: `periodic_routing`, `connect`, `accept`, `hook_routing`, `close`,
`hook_hostInfo`, `hook_deadHost`, `lose` (a notification), `restart`. `do_routing`
always numbers the own entry first, as the code does however it is called. Either
end of a connection may close alone; what was under way is lost and the
other end goes on as it was until it closes too. A peis restarts with
nothing but its id and a new magic number.

Abstractions: a table is one page (at most 69 peis); the table to a neighbour
is one package; a neighbour has one connection and always gets the same entry
of `connections[]`, whose outdated table it finds there as in the code; host
information reaches a peis at any time, fresh or cached
(`m` in `hook_hostInfo`), without modelling queries. Where the code compares an index
of `connections[]` with a connection id (services.c:487) both outcomes are
allowed. `deleteHost` sends nothing that could arrive to a peis with an open
connection: it closes that connection in the same call.

| Run | Instance | Shows |
|---|---|---|
| `routing` | a triangle, 3 tables sent by 1 and by 2 and 2 by 3, no restarts | the two kinds of table stay in step, the own entry and the cluster are right, routes move only for better ones |
| `routing_restart` | a line 1-2-3, 3 tables sent by 2 and 2 by each other, 3 restarts once, crashed or shut down; host information of 3 reaches 1 | lost routes are nowhere offered and what is offered is known, through stale magic numbers, rebirths and late death notifications |

Bounds: `MaxSeq` bounds how often a peis sends, `MaxQueue` 1 how much is on its way
before another handler may send. A triangle is the smallest network with an
alternative route, and already lets two peis route through each other after the
third is gone. `METRIC_GIVEUP` is 4 instead of 10, so that such peis count up to it
within the bounds; `DELETED` is 251 instead of 254, so that a lost peis is deleted
within them. Deadlock is not checked, as the bounds end
every behaviour.

`SeqHonest`, `ClusterCurrent` and `OwnRoute` hold while no peis restarts, and the
restart run leaves them out: a peis that comes back is preceded by its old
sequence numbers. `ClusterCurrent` bounds the cluster by the routes in use and leaves
open whether routes that are lost count, on which code and documentation disagree
(section 11). `LostMeansNowhere` compares what is offered with a lost route by
the code's own measure, sequence number minus hops: an offer that lags some 250
numbers behind is rightly passed over, which no run is long enough to meet but the
proof has to allow. `RouteBackedByTable` speaks of routes in use, as a lost route may
go on naming a connection that is closed (section 11).

## 6. Long messages

`LongMessages` sends messages of several packages to one receiver over the parts'
`MessageService`: `phase` and `delivered` are those of the service, its `Send`, `Deliver`
and `Report` are what the parts do. So this module composes with section 4 through
the specification that `ReliableTransfer` is shown to implement.

| Model | Code |
|---|---|
| `seqid`, `counter`, `success`, `told` | the `PeisLargePackageHookData` shared by the hooks of the parts, and what the user's hook is told |
| `buffers[b]` | an entry of `assemblyBuffers`: its `seqid` (0 is free), the bytes allocated in parts (`size`), and whose part is at each place for which the received flag is set |
| `sendMessage` | `peisk_sendMessageFrom` dividing a message; each part is accepted, refused with its hook called, or finds no structure and no hook is called |
| `PartAnswered` | `peisk_largePackageHook` |
| `PartArrives` | `peisk_assembleLongMessage`: a buffer in use, a free one of the right length, a free longer one, or one without memory |
| `clearAssemblyBuffers` | `peisk_periodic_clearAssemblyBuffers` |

`assembled`, `mixed`, `discarded` and `refused` are history: what was handed over, with
parts of another message or not, and whose parts the receiver or the sender lost.

Run `long_messages`: a message of two and one of three parts, two sequence ids and so
the same or not, two buffers. Sequence ids are interchangeable, as they are only
compared, and all properties are invariants, so symmetry is sound. Two messages are
what two buffers, or one buffer used again, take; lengths 2 and 3 make a part of one
lie beyond the other's memory; received flags left beyond the end of the opener are
part of the state. A hook is called when the last part is answered and not before, in
particular not while the first parts are refused and the others not sent yet
(`ToldWhenAnswered`, unless a part found no structure, section 11), parts are stored in bounds, buffers are distinct and never
stuck with a complete message, messages mix only when they share a sequence id.
`SuccessMeansAssembled` is what success is worth: the receiver has all parts, or lost
one itself. Deadlock is not checked: when all are answered nothing is left to do.

## 7. Tuplespace and subscriptions

`Tuplespace` has one record of tuples, subscriptions, marks and failed pushes per host,
and `net`, the messages under way. Messages follow `MessageService`: delivered at most
once, in any order; a message with a hook stays until its hook is told, so that a
failure may be told of one that was delivered. `subs` and the parts appended to a value
are sets: the code may keep a subscription twice, push twice and append the same data
twice (section 11), which the model does not show.

| Model | Code |
|---|---|
| `space[h]` | `peisk_tuples_primaryHT`: value (when it was written, then what was appended), sequence number, expired or not |
| `own`, `subs` | `peisk_subscriptions`, own and of others |
| `given` | `peisk_hostGivenSubscriptionMessages` |
| `failed` | `peisk_failedTuples` with the tries left, by key |
| `known`, `magic` | `hostInfoHT`, `magicId` |
| `setTuple`, `deleteTuple`, `appendTuple`, `setRemoteTuple`, `subscribe`, `unsubscribe` | the calls of tuplesAPI.c down to `peisk_insertTuple` and its pushes |
| `periodic_tuples`, `periodic_expireTuples` | the periodic functions: hosts not given the subscriptions, failed pushes |
| `hook_*`, `pushTupleAckHook`, `subscriptionAckHook` | hooks of ports and of acknowledgements, called from `Deliver`, `Confirm`, `Fail` |
| `hook_hostInfo`, `loseHost`, `restart` | what routing and host information do to the tuplespace (sections 5 and 9) |

A send may be refused in any of its ways (no route, full queue, no structure), with
the hook called before it returns or never; each costs one of `MaxMishaps`, as do
failures, losses and restarts: `Mishaps` names the kinds an instance has. `MaxWrites`
bounds the values.

`TupleRegister` is what a subscriber is promised (tuples.h:45-90): its copy is a value
the owner gave the tuple, never an older one than before, and in the end the latest.
`MCTuplespace` maps `latest` to what the owner holds and `copy` to what the subscriber
holds.

| Run | Instance | Shows |
|---|---|---|
| `tuples` | an owner and a subscriber, one tuple given 3 values, by the owner, remotely or appended to; 3 refusals or failures | `ImplementsRegister`; a subscriber has the last value in the end (`Converges`); late appends change no value they were not meant for (`SameNumberSameValue`) |
| `tuples_restart` | the same with 2 of: failure, refusal, loss of a host on one side, dropped notification, crash, shutdown; subscribing and unsubscribing at any time | a host marked as given the subscriptions has them or will be told (`GivenMeansSubscribed`); types |

Bounds: two values overtake each other, a third is written when the first failed; two
mishaps are a failure during the recovery from another. One subscriber, as hosts
interact only through the list of failed pushes, where the code is known to forget
one of two (section 11). `TRIES` is 4 instead of 15: a push is retried after fewer
failures than that in these instances.

Fairness: each periodic function runs, host information is broadcast, and a reliable
message is delivered or its hook told, as `peisk_step` calls the periodic functions and
as `MessageService` promises; nothing is assumed of users. The restart run is of a big
endian host: on a little endian one `GivenMeansSubscribed` fails (section 11).

## 8. Process supervisor

`Supervisor` is one command of `peisinit` (`src/peisinit/G6/src/peisinit.c`): the main
thread sets the state requested, the exec thread (`execFn`) starts, watches and stops
the program, and a spawn thread (`spawnFn`) for each start forks, waits and cleans up.
They share the fields of the `InitCommand` and a semaphore. `exec[e].pc` and
`spawn[s].pc` are where a thread is, by the sleeps and shared accesses of its function.

| Model | Code |
|---|---|
| `Request` | `tupleCallback_reqState`: sets `reqState`, creates an exec thread when it becomes "on" |
| `Test` .. `Pause` (`ExecStep`) | `execFn` from top to bottom: wait, create a spawn thread, wait for its semaphore, announce, watch, stop in stages, leave or respawn |
| `Fork` .. `Gone` (`SpawnStep`) | `spawnFn`: fork, note the pid, wait, note the end after 100 ms |
| `Watch`, `Drain` | a pass of the loop of `execFn`: the sleep, then the loops that read the pipes until they are empty (peisinit.c:745, 775), then the test of `reqState` |
| `Die` | the process ends, at any time; it may ignore all signals but SIGKILL |
| `Write` | the process begins to fill its pipes as fast as they are read, or leaves them empty for long enough to be noticed; a process stands for all that hold its pipes |

Run `supervisor`: two exec and two spawn threads, two processes. The next process is
forked while the last one is being cleaned up, hence two of each. `Races` FALSE says
that a thread is not overtaken while it is awake (sleeps are 100 ms to seconds); what
the model then leaves open is the order of sleeps. With `Races` TRUE, or once a second
exec thread has been created by a request for "on" during a sleep of the first
(`crowded`), `OneProcess`, `OffWhenIdle` and the liveness fail (section 11), so these
are stated until that happens. Fairness is strong for each thread: a sleep ends however
often other threads wake meanwhile. It asks nothing of a thread that reads from a process
that is writing, as `Drain` is not enabled then, so a process may keep `execFn` from what
is requested for ever. `StopsInTheEnd` has it as a condition that this does not happen
(`Pausing`: again and again no process is writing); without the condition TLC finds the
thread in `Drain` and the process writing. `KeepsRunning` needs none. Otherwise nothing is
assumed of users, and of processes only that SIGKILL ends them. Signals are followed but
no property is about them, as the code may send them to the wrong process (section 11).
A failing `fork`, which makes pid -1, is left out. Deadlock is not checked: all threads
may be gone.

## 9. Connections, autohosts and the connection manager

`Connections` is one peis. A handler may open a connection and close several, so
operators in lower case map a record `k` of the connection state (`Now`) to the record
after it.

| Model | Code |
|---|---|
| `conn[s]` | `connections[s]`: `id` (-1 is free), `neighbour.id` and `neighbour.magic`, `isPending`; `peer` is who is at the other end |
| `highest`, `nextId` | `highestConnection`, `nextConnectionId` |
| `mgr[h]` | `connectionMgrInfoHT`: is there an entry, and its `directlyConnected` |
| `known[h]` | `hostInfoHT`, by magic number |
| `autohost[a]` | `autohosts[a].isConnected` |
| `newConnection`, `freeConnections`, `closeConnections` | `peisk_newConnection`, `peisk_freeConnection`, `peisk_closeConnection`, for a set of structures |
| `tcpConnectFailed`, `tcpConnected` | the ends of `peisk_tcpConnect`: no structure taken, one left behind, a connection |
| `accept`, `refuse` | `peisk_acceptTCPConnections` with `peisk_verifyConnectMessage` and `peisk_incommingConnectFinished` |
| `autoConnect` | the attempts in `peisk_step` |
| `hook_hostInfo` | host information over a connection, from the neighbour itself (`near`) or of another host, of the incarnation `m`, perhaps long gone |
| `periodic_connectCluster`, `periodic_connectionManager` | the functions of that name |

What is decided by time or traffic (timeouts, back-off, values of connections, clusters,
whether a host is routable) is any choice. `deleteHost` and `handleBroadcastedHostInfo`
happen at any time; `deleteHost` for a rebirth does not close connections, as in the
code, the stale ones having been closed by `hook_hostInfo`.

Run `connections`: two hosts that restart once, three structures, one autohost, three
connections opened in all, `MAX_AUTO` 2 and `MAX_FORCED` 3 so that both limits are met.
Three connections are a first, a duplicate and one to another host, or a structure
that is used again; two incarnations make a connection stale. Deadlock is checked: the
peis always has something it can do. Shown: a host marked as directly connected has a
connection (`DirectIsConnected`, else `connectCluster` passes it over for ever), no
connection lies beyond `highestConnection`, and the connection manager finds an entry
for every known host.

`Moving` and `Desperate` are FALSE: a host is found at its own address, and no incoming
connection asks for another to be sacrificed for it. With either the mark may stay
(section 11). Run `autohosts` is the same instance.

## 10. Proofs

`ReliableTransfer_proofs` proves, for every number of messages, connections and
structures and every bound:

| Theorem | Statement |
|---|---|
| `TypeInvariant` | `Spec => []TypeOK` |
| `StructuresHeldOnce` | `Spec => []PackageHeldOnce` |
| `HooksCalledOnce` | `Spec => []HookCalledOnce` |
| `NoFalseSuccess` | `Spec => []SuccessMeansDelivered` |
| `QuietAfterAnswer` | `Spec => QuietOnceAnswered` |

Assumed: `TransferAssumption` only. They share the invariant `IInv`, the
conjunction of
- `TypeOK` and `PackageHeldOnce`;
- `Labels`: a structure in use carries a message whose call came to "queued",
  and no two structures in use carry the same;
- `HookCalledOnce`, for which `Labels` also says that a message with a
  structure in use has not been answered: the code calls hooks when it takes a
  structure out of use, so that each hook is called once follows from each
  structure being in use once;
- `Evidence`: whatever acknowledges a message - the receiver's list, packages
  under way, a hook called with success, an ackID remembered - was preceded by
  its delivery.

None of these is inductive alone: `HookCalledOnce` needs `Labels`, `Labels` needs
`PackageHeldOnce`, and `SuccessMeansDelivered` is about the sender while only the
receiver's list and the network connect it to the delivery. `IInv` was checked by
TLC before it was proved. The proof first states lemmas on lists and on leaving
and joining them, then one `...Step` lemma per action, and `NextIInv` puts them
together; `PackageHeldOnce` is handled through the equivalent form `Apart`, in
which each place of a queue, each pending list, the free list and the fresh
structures are disjoint.

`LongMessages_proofs` proves, for every number of messages, parts, sequence ids and
buffers, from `LongMessagesAssumption` and the finiteness of what it states:

| Theorem | Statement |
|---|---|
| `ToldAtTheLast` | `Spec => []ToldWhenAnswered` |
| `SuccessAssembled` | `Spec => []SuccessMeansAssembled` |
| `StoresInBounds` | `Spec => []InBounds` |
| `MixedOnlyIfShared` | `Spec => []WholeUnlessShared` |
| `OneBufferEach` | `Spec => []BuffersDistinct` |

`IInv` is `TypeOK /\ SenderInv /\ ReceiverInv`. `SenderInv` is of each message: one that
is not sent is untouched, the counter is what is open (parts to be answered and parts
that found no structure), success means that no answered part failed, and parts are
answered and delivered as the service says
(`UnsentUntouched`, `CounterExact`, `OutcomeExact`, `PartsHonest`). `ReceiverInv` is of the
buffers: distinct sequence ids, only parts of that sequence id, inside their memory,
never complete (`BuffersDistinct`, `BuffersPure`, `InBounds`, `NotStuck`), and each
delivered part is in a buffer, in an assembled message or discarded (`PartsKept`).
`SuccessMeansAssembled` needs both halves: all parts were delivered, so the buffer
that holds one is missing another, which is nowhere - or it was discarded. No
handler disturbs both halves, so each `...Step` lemma is about one and the other
is unchanged. Counting the open parts uses `FiniteSetTheorems`.

`ReliableTransfer_service_proofs` builds on `IInv`:

| Theorem | Statement | Assuming |
|---|---|---|
| `AcceptedIsHeld` | `Spec => []UnansweredIsHeld` | `Bluetooth = {}` |
| `RefusalsMislay` | `Spec => OnlyRefusalsMislay` | `Bluetooth = {}` |
| `StepsOfTheService` | `Spec => Service!Init /\ [][Service!Next]_(Service!vars)` | |
| `MessagesDeliveredOnce` | `Spec => []DeliveredOnce` | `IsFiniteSet(Messages)`, `Cardinality(Identifiers) <= LOOPINFO_SIZE` |

The first two share `Custody`: the route names an open connection, an entry that is not
in use holds nothing, and a message still to be answered is carried by a structure in
use. `RefusalsMislay` adds what each call makes of the structure it takes (`Placing`).
Without bluetooth each handler keeps it; with it `abortConnect` frees an entry whatever
is queued there and the next `newConnection` empties its queues, so both are false
(section 11).
`StepsOfTheService` is the safety half of `ImplementsService`: `IInv` tells, for each
handler and each result of a call, which of `Send`, `Deliver` and `Report` it is, or
that nothing changed for the user. `DeliveredOnce` is a pigeonhole argument:
`DeliveredIsSeen` says that the identifier of what was delivered is in the window, which
loses nothing while all identifiers ever drawn fit, and `SentOnce` that the
identifier tells a copy from a new message. Without the second hypothesis the claim is
false; a message takes at most `PENDING_MAX_RETRIES + 3` identifiers, 9 in the code, so
a ring of 4096 entries is enough for some 455 messages at a time.

`LoopDetection_proofs`, for every set of identifiers, ring size and number of chains:

| Theorem | Statement |
|---|---|
| `ChainsRemember` | `Spec => []RepeatedIffRemembered` |
| `UnlinkIsExact` | `Spec => []PrevPointersExact` |
| `WalksEnd` | `Spec => []ChainsEnd` |
| `RingIsMemory` | `Spec => ImplementsMemory` |

`Spec` has no fairness, so `RingIsMemory` is the whole refinement. The invariant orders
entries by age, how many identifiers were entered since: the head of a chain is the
youngest used entry of its hash value, each `hashNext` leads to the youngest of those
older (`Chained`), each `hashPrev` to the field that leads to its entry (`HeldBy`), and
the ring is used up to `nextLoopIndex` or entirely (`FilledUpTo`). The entry about to be
reused is the oldest of all and hence the last of its chain, so that unlinking it only
ever ends a chain earlier (`HeadFreed`, `NextFreed`), and entering makes it the youngest
(`Entered`). None of the properties is inductive without the order: it is what rules
out a chain that closes on itself.

`Routing_proofs`, for every number of peis, links, metric and bound:

| Theorem | Statement | Assuming |
|---|---|---|
| `RoutesTyped` | `Spec => []TypeOK` | |
| `RoutesBacked` | `Spec => []RouteBackedByTable` | |
| `LostOnlyIfBeaten` | `Spec => []LostMeansNowhere` | |
| `OffersAlwaysKnown` | `Spec => []OfferedIsKnown` | |
| `OwnRouteAlways` | `Spec => []OwnRoute` | `Restarting = {}` |
| `NumbersHonest` | `Spec => []SeqHonest` | `Restarting = {}` |
| `ClusterAlwaysCurrent` | `Spec => []ClusterCurrent` | `Restarting = {}` |

The first four hold with restarts. They are parts of `Good`, which is of one peis: each
route is in use over an open connection that offers it, or is the own one, or is lost and
no connection offers better (`Sound`); a closed connection offers nothing and what is
outdated has number zero; what is offered is known. A handler is a nesting of
operators on the state of a peis, so the lemmas follow the nesting: what `rescued`,
`merged`, `aged`, `closeConnection` and `deleteHost` make of a `Good` state, the last
through states that still have hosts to delete (the argument `D` of `Good`). The other
three need `CalmInv`: no notification of a death is under way, and no number of a peis,
in a main table, a table of a connection or a package, is one it has not drawn
(`Faithful`), since otherwise a merge might replace the own entry (services.c:976). A
restarted peis numbers from zero while its old numbers are still about, so all three are
false with restarts.

`Tuplespace_proofs`, for every set of hosts and tuples:

| Theorem | Statement | Assuming |
|---|---|---|
| `OnlyKnownAreGiven` | `Spec => []TypeOK` | |
| `GivenAlwaysServed` | `Spec => []GivenMeansSubscribed` | `RebirthIsTold`, `SubscriptionsStay` |
| `NumbersNameValues` | `Spec => []SameNumberSameValue` | `NobodyLeaves` |

`RebirthIsTold` is that no host crashes or `ntohl` is the identity: on a little endian
host the notification is not understood (section 11). `SubscriptionsStay` is that
nothing is unsubscribed from, or only prototypes without a MIME type, for which
`hook_unsubscribe` finds nothing; otherwise a late message to unsubscribe undoes a later
subscription. The run `tuples_restart` is an instance of both. `GivenInv` adds that
no host is known by a magic number to come, and that only a host lost by one side is
told of its death. `NobodyLeaves` excludes crashes, shutdowns, hosts taken for lost and
deletions: an owner that starts again, or sets a tuple it deleted, numbers from zero
(tuples.c:409), a late push to a host whose copy expired is taken and renumbered
(tuples.c:434), and the owner's next value is ignored (tuples.c:1536). `NumberInv` says
of every copy, push and append under way that it is not newer than the owner's tuple,
and if it has its number, is that value with less appended (`Fits`, `AppendFits`).

`Connections_proofs`, for every number of structures, hosts and autohosts:

| Theorem | Statement | Assuming |
|---|---|---|
| `HighestAlwaysCovers` | `Spec => []HighestCovers` | |
| `HostsAlwaysManaged` | `Spec => []HostsManaged` | |
| `MarkedAlwaysConnected` | `Spec => []DirectIsConnected` | `~ Moving`, `~ Desperate` |

`Sane` and `KnownManaged` are the first two, of the record the handlers work on.
`Marked` adds that the neighbour noted for a connection is who is at its other
end. A handler that closes several connections is followed through all states between.
With `Moving` or `Desperate` the third is false (section 11).

`Supervisor_proofs`, for every number of threads and processes, assuming `~ Races`:
`OneProcessAlways` (`OneProcess`) and `NothingLeftWhenIdle` (`OffWhenIdle`). `ThreadsInv` holds however many exec threads there
are: one thread of each kind is awake at most, the semaphore is that of the exec thread
that awaits a start, and a command that is on has a pid. `ServedInv` holds until a
second exec thread is created: the exec thread watches over the only spawn thread, whose
process is the only one, and nothing is left of a run that ended. `Races` and `crowded`
are the conditions of section 8.

What TLC checks and no theorem states:
- liveness: `ImplementsService` beyond `StepsOfTheService`, `ImplementsRegister`,
  `Converges`, `KeepsRunning`, `StopsInTheEnd`. Fairness and `ENABLED` are out of the
  prover's reach; the steps of `ImplementsRegister` are still to be proved;
- `RouteSwitchImproves`, which is not a theorem for every constant: a route is lost at
  250 hops, so once a neighbour lags some 245 numbers behind, the handler that loses the
  route and the one that finds the next compare with the metric of a lost route. The
  run's `MaxSeq` keeps numbers far below that;
- `ImplementsDictionary`: the chains of `HashTable` are sequences that are filtered,
  flattened and folded, about which the library has no theorem that can be cited;
- `MarkNamesConnection`, which is false (section 11).

On induction: the theorems of the library that state an induction principle take a
predicate as a parameter, which none of the provers can instantiate. Where a proof
needs one, it takes the least of an explicit set of counterexamples instead: the walk along a chain is a recursive function of its length (`WalkExists`,
`WalkCovers`), and `deleteHost` for a set of hosts is a fold (`DeletedReaches`).

## 11. Disagreements between code and documentation

Run `autohosts` is one that TLC must find violated: services.h:101 says of an autohost's
mark "Zero if not connected, otherwise id of current connection", and services.h:149
that a built in service will "monitor this connection and reestablish it whenever it
is closed". `peisk_step` (p2p.c:601) sets the mark to 1 or 0 and
`peisk_closeConnection` (p2p.c:1198) resets it when the connection with that id closes:
after a failed attempt (0), and after the loss of a connection that was not the first
ever opened, no attempt is made again.

Noticed while modelling, followed by the models, and stated as the conditions under
which properties hold. In the transfer:
- p2p.h:364 says where every queue structure is; p2p.c:1121 loses the structure of a
  refused package, for good (`OnlyRefusalsMislay` says that nothing else does);
- p2p.h:48 promises the hook a success or a timeout; p2p.c:168 forgets what was queued
  on an aborted connection, and `UnansweredIsHeld` is stated without bluetooth;
- p2p.h:702 promises at most `PEISK_PENDING_MAX_RETRIES` retransmissions and p2p.c:218
  allows one more;
- p2p.h:117 gives large messages the bulk queue, but p2p.c:1045 compares a network order
  field with a host order constant, so little endian hosts use the normal one;
- p2p.h:724 promises that hooks of long messages are called; not if a part finds no
  structure (p2p.c:1057). For a package that asks for an acknowledgement of its own
  ackID that ackID is marked as seen, not its id.

In routing: services.c:976 overwrites a route although p2p.h:625 says that sequence
number minus metric only grows; a peis told of a death (services.c:1137) keeps the
cluster number of the dead against protocoll.txt:89; services.c:928 leaves a route to a
closed connection, which p2p.c:855 counts as a bug; a restarted peis takes over the
route to its former self (services.c:982), against the assertion at services.c:579;
protocoll.txt:50 deletes a lost peis at 253 hops and services.c:700 at 254. The cluster
is the lowest peis that "it can route to" (services.c:282), "that we have a non-outdated
route to" (protocoll.txt:89), but `peisk_checkClusters` counts every route below 254 hops
(services.c:308), lost ones of 250 to 253 hops included, so that a peis stays in the
cluster of one it cannot reach for some periods.

In the tuplespace:
- failed pushes are remembered by key (tuples.c:830), so of two subscribers to whom a
  push failed one may never be sent the value, against tuples.c:126; failed pushes of
  a deletion are not repeated at all;
- `ntohl` is applied to a comparison (services.c:1139): a little endian host ignores the
  notification of a rebirth, and a reborn host is never given the subscriptions again;
- `peisk_isEqual` (tuplesAPI.c:617) is false for tuples without MIME type, so that
  identical subscriptions are kept twice, against tuples.c:1096, and `hook_unsubscribe`
  finds none; the subscriber is then sent every push and every append twice, and as the
  test of the order of appends has no effect (tuples.c:1677) appends the same data twice;
- a tuple that is deleted and set again is numbered from zero; subscribers ignore it
  until its number passes the old one, and an old push may bring a value back;
- `peisk_insertTuple` ignores that a send was refused, so a blocking insert waits for
  ever; when one side only takes the other for lost the subscription is lost.

In the supervisor: a request for "on" while the exec thread sleeps creates a second
one, two processes and one pid; a child that dies before the exec thread has looked
leaves `currState` "on" without a process, and "on" is ignored from then on; a
signal may go to a pid that was waited for, between `waitpid` and peisinit.c:652, which
the run reaches, and if `spawnFn` clears the pid between the test and the `kill` of a
stage to pid 0 (the whole process group), which only `Races` allows; a request for "off"
or a restart is not looked at while the process writes without a pause (745, 775);
"start" on a stopped command starts nothing; a "restart" overwrites a
simultaneous "off".

In the connections:
- the connection manager passes over every host without a connection (p2p.c:1764 tests
  `i != highestConnection` after a search that ends at one more), so it attempts only
  hosts it has a connection to;
- a failed `peisk_tcpConnect` leaves its structure pending until the timeout and its
  socket open, and dereferences NULL when no structure is free;
- services.c:487 compares an index with an id, so that the connection over which a
  reborn host reports is itself closed;
- a host found at another's address is marked as connected and stays so, as does one
  for which `peisk_verifyConnectMessage` sacrifices the structure just taken for it;
- the assertion at p2p.c:146 (which prints) fails when an outgoing connection closes
  before host information came over it.

In the hash tables: `peisk_alertCallbacks` (tuples.c:677) and `peisk_hook_pushAppendedTuple`
(tuples.c:1700) call the program's functions from a loop over the callbacks; one that
registers or unregisters a callback changes the table the loop is over, against
hashtable.h:89. `HashTable` models loops that keep to it.

## 12. Not modelled

Everything marked as planned in section 2; sockets and framing (I/O: what matters
of them is that a link takes a package or does not, and that connections end);
diagnostics; GUI, bindings and device components (clients without protocol state).
`PROJECT.json` lists all of them, and the hazards of the code with the lines they
bite at, those no property covers yet included.
