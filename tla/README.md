# A TLA+ model of lokinet

Lokinet is an onion router. A *relay* (service node) forwards traffic it cannot
read; a *client* builds paths over relays to other clients' hidden services or
to exits. This directory models the parts of `src/llarp` whose correctness
depends on the order in which threads, messages and timeouts meet, checks them
with TLC on small instances, and proves with TLAPS what is known for every
instance. `PROJECT.json` maps each definition to the source lines it models.

## 1. The system

One logic thread (`ev/`) runs almost everything: packet handlers, timers and the
router's `Tick`. Worker threads decrypt, encrypt and verify; a disk thread
writes files. They hand results to each other through bounded lock-free queues
(`util/thread`) and calls posted to the logic thread.

| part | state | operations | who it talks to |
|---|---|---|---|
| thread queue (`util/thread`) | cells with a generation, two indices, two semaphores | push, pop, try/timeout variants, removeAll, disable | every part that uses a worker |
| iwp (`iwp/`) | messages in transmission, messages in reassembly, replay filter, session state and key | send, ack, resend, time out, handshake, close, renegotiate | link layer, network |
| link layer (`link/server`) | pending and authenticated sessions, addresses | dial, accept, pump, tick, close | iwp, router |
| link manager (`link/link_manager`) | inbound and outbound layers, persisting sessions | pick a link, persist, deregister | session maker, router |
| session maker (`router/outbound_session_maker`) | pending sessions and their callbacks | create, look up, verify, establish, finalise | RC lookup handler, link manager, message handler |
| message handler (`router/outbound_message_handler`) | shared queue, queue per path, round robin order, filter of removed paths | queue, tick, remove path | session maker, link manager, paths |
| RC lookup handler, gossiper (`router/rc_*`) | white, grey and strict lists, pending lookups, gossip filter | look up, check, explore, gossip | DHT, node database |
| paths (`path/`, `messages/relay*`) | client paths in set and context, transit hops of relays | build, commit, status, latency test, expire, stop | message handler, workers, endpoints |
| DHT (`dht/`) | per key: waiting askers, timeouts, transactions; stored introsets and RCs | find and publish, answers, expiry | message handler, paths, node database |
| node database (`nodedb`) | RCs in memory and on disk | put, remove, flush, load | disk thread, router |
| profiling (`profiling`) | counters per router | mark, decay, save, load | paths, session maker, disk thread |
| hidden services (`service/`) | lookups, outbound contexts, conversation tags, introsets | look up, publish, shift introduction, handshake, expire | paths, DHT |
| exits (`exit/`, `handlers/exit`) | exit sessions and endpoints | obtain, grant, reject, close, flush | paths, vpn |
| reachability testing (`consensus/`) | test queue, retest queue | next test, add and remove failing | session maker, rpc |
| tun, vpn, dns, rpc, quic, config, net, crypto, logging | | | the operating system and external libraries |

What makes this hard, and where a test hardly reaches:

* threads between two accesses of the lock-free queue, and between the two
  critical sections in which a session request is finalised;
* packets lost, repeated, late or reordered, against timeouts and replay filters
  that forget;
* a path whose relays, message queues and client notice its end at different
  moments; a relay that restarts;
* callbacks stored in one map and called from another: each must be called once
  and not be left behind.

The `hazards` in `PROJECT.json` list these at their lines, those of the parts
not yet modelled included.

## 2. The modules

| module | models | composed with |
|---|---|---|
| `QueueManager` | `queue_manager.cpp` and the non-blocking half of `queue.hpp`, one shared access per step | `BoundedFifo` (what it implements) |
| `Queue` | the blocking operations, semaphores, `removeAll`, `disable`, `enable` | extends `QueueManager` |
| `OutboundSessions` | session maker, the RC lookup and the message queues that wait for a session | three components on the loop and the workers |
| `OutboundQueues` | the message handler's queues and its `Tick` | |
| `IwpTransfer` | delivery of a message over an established session | sender, network, receiver |
| `LinkSessions` | handshake, session maps and timeouts of two link layers | dialling side, network, accepting side |
| `Paths` | a client's builder and paths with the transit hops of the relays | client, workers, relays, network |
| `QueueManagerProofs` | the proofs about `QueueManager` | |

Each `MC...` module gives the instance for TLC its symmetry sets or functions.
A definition whose comment begins with "Faulty variant" is the module's record
of a mistake its properties would notice; no specification uses it.

### QueueManager, BoundedFifo, Queue

`states[c]` is the generation and element state of a cell; `pushIndex` and
`popIndex` are the combined indices, which wrap after `NumGenerations`. A thread
that runs `reservePushIndex` loads the index (`PushLoad`), swaps the state of
the cell it names (`PushReserve`), or finds it used (`PushRefused`, `PushSkip`),
advances the index (`PushTake`) and commits (`PushFill`). Pops are alike. When
an element's constructor throws, the guard empties the queue up to the thread's
own cell (`Clear...`, `Abort...`). `ImplementsFifo` says that these steps
implement `BoundedFifo`: a push reserves the last place of the queue with the
item it brings and later fills that very place, a pop takes the first place once
it is filled and returns what was in it, and an item leaves the queue otherwise
only while a push that throws discards what is before its own place. Under the
refinement mapping a push or pop takes effect when its cell is reserved, although
the index may move later (or, when `disable()` comes between, not at all).
`ReturnsAreTrue` says that "full" and "empty" were true at some moment of the
call.

`Queue` adds the announcement in `m_waitingPushers`/`m_waitingPoppers`, the
second look at the size, the semaphores and the notification of whoever waits.
Atomics are sequentially consistent in the model; the code's relaxed loads are
used only to start a compare and swap loop, where a stale value costs one more
round. The `fetch_add` and `fetch_sub` of the waiting counters are relaxed too;
the comments of `queue.hpp` ("Sync point A", lines 187 and 227) count on the
sequentially consistent accesses of the indices around them. On x86-64 an atomic
read-modify-write is a full fence and they do; where the hardware may delay a
relaxed `fetch_add` past the later load of an index, `NoLostWakeup` is not
claimed. The code has about 2^31 / capacity generations, for the queues lokinet
makes more than 2^18, so a thread that sleeps through all of them is out of
scope. With 3 calls, 8 generations keep the model out of it too; with fewer, an
assertion on `circularDifference` fails for that reason alone.

### OutboundSessions

`pendingSessions[r]` distinguishes "absent", "null" (no job yet) and "job". The
loop thread's handlers are split where they take `_mutex`; `VerifyRC` runs on a
worker and finalises there, posting callbacks to the loop. Choices stand for the
outcome of the DHT lookup, of the RC's verification, of `TryEstablishTo` (which
refuses a second session, an RC without a usable address and an address it is
dialling), of `MapAddr` and of the handshake; the whitelist may change at any
time, and an inbound session of a router that is not on it finalises the
request for that router. `PendingIsDriven` is the reason why
`PendingEnds` holds: each pending session has a lookup, a verification, a
handshake or a finalisation under way.

### OutboundQueues

`Tick` is split at the bodies of its loops. Nothing is queued in between: the
loop thread is in `Tick`, and of the callbacks it may run, `PathBuilder`'s only
sets a path's status and `OnForwardLRCMResult` goes to a worker. Messages have a path and a priority,
path zero is the routing traffic. `dead` remembers removed paths, whose random
ids are not used again; a worker that held a message of the path still queues it
afterwards. The module follows the code in two points its comments
put otherwise: `MessageQueueEntry::operator<` puts the smallest priority value
on top of a path's queue, while `messages/link_message.hpp:58` says "higher value
means more important"; and a filtered message ends the sorting of that tick
(`return` in `ProcessOutboundQueue`), so one stale message is dropped per tick.

### IwpTransfer

One direction of a session. `txMsgs` and `rxMsgs` hold the fragments
acknowledged and received, with ages instead of timestamps so that states
repeat; `replay` is `m_ReplayFilter`. A packet in `net` may arrive any number of
times until it is `MaxDelay` ticks (of 100 ms) old. `HandlePlaintext` ends with
`SendMACK` and `Pump`, and so does every action that handles a packet. The
session lives as long as the model: what happens to the messages of a session
that is dropped, and a full send queue, are left out.

### LinkSessions

Two link layers with one peer and one address each, so a map is the session it
holds. A session key is named by the attempt whose nonce it came from. A tick is
5 s (`PingInterval`); a packet lives less than a tick. Keepalives and ordinary
messages do nothing here but set `m_LastRX` of whoever handles them, so they
arrive at once or are lost (`Pump`, `SendMessageBuffer`); a Ready session may
send as often as it likes. Restarts, closings and renegotiations are bounded by
`MaxCalls`: a router renegotiates only when its RC changes.

A dialler whose LIM arrived but whose acknowledgement was lost stays in
`LinkIntro` while the accepting side is Ready. Each message of the accepting side
then sets its `m_LastRX`, and `TimedOut` never holds: the attempt is reported
only when the accepting side falls silent. `ReportedUnlessKeptAlive` says that
this is the one way in which an attempt is never reported.

### Paths

The LRCM travels from relay to relay, each puts its transit hop; the LRSM comes
back and collects one status per relay; the latency message goes to the end and
back, and only its answer establishes the path. Client jobs that found their
path and wait for a worker (`jobs`) may be handled after the path was dropped. A
tick is 10 s. The routers act within it (`TimePasses` waits for what is due);
messages not delivered by then are lost, except an LRCM, which may wait in a
queue. `sending` is the report of the LRCM's delivery, which may arrive before
or after the LRCM. Left out: the choice of hops, the build backoff and the edge
limiter (whether to build is a choice), the gathering of user traffic, the
router lookups of `HandlePathBuildTimeout` and `HandlePathDied`, the duplicate hop
of a repeated LRCM (`FAIL_DUPLICATE_HOP`; the link layer repeats none), and exit
messages, of which `HandleTransferTrafficMessage` also sets the path
established.

## 3. The runs

Passing runs:

| run | instance | shows |
|---|---|---|
| `queue_fifo` | 2 threads, 2 cells, 4 calls, the generation about to wrap | one owner per reserved cell; refinement of `BoundedFifo`; full and empty are told truthfully |
| `queue_blocking` | 3 threads, 1 cell, 3 calls of any operation, items not told apart | no lost wakeup, no orphaned cell, the assertions of `queue_manager.cpp` |
| `outbound_sessions` | 2 routers, 1 message, limit 1, 3 requests or inbound sessions, 1 job | `DoEstablish` finds its job; every pending session is driven and ends |
| `outbound_queues` | 2 paths and routing traffic, queues of 3 and 2, 1 message per tick | queues and order agree; no queue for a path the filter knows; no path starves |
| `iwp_transfer` | 1 message of 1 or 2 fragments, packets up to 5 ticks late | delivered at most once; one verdict; both ends forget, while the session lives |
| `link_sessions` | 2 dials, 2 closings, renegotiations or restarts | the maps agree; an attempt is reported once at most, and at least once unless messages keep it alive; half-open sessions end |
| `paths` | 1 path of 3 hops, 1 crash | see below |

`paths` checks that a confirmed path was committed by every relay and a failed
build is undone (`ConfirmedIsCommitted`, `FailureReleasesHops`); that no message
reaches a path that timed out and was dropped from the context
(`TimedOutIsUnreachable`); that a ready path was heard of within the alive
timeout (`ReadyWasHeardOf`); that no relay drops its hop by age before the client
(`ClientExpiresFirst`); and that both maps and all transit hops are emptied in
the end (`EverythingIsReleased`).

Why the bounds suffice. Two threads on two cells make every pair of accesses
meet, and the third thread of `queue_blocking` is the one that changes the queue
between a waiter's announcement and its sleep. Starting the indices just before
their wrap brings the wrap into four calls. Two routers are needed for the limit
of connections, two requests for one to come while the other is finalised and a
third, or an inbound session, to meet what they left; the runs that violate have
a second worker. Two fragments are enough for the two ways a fragment
travels (in the XMIT and as DATA) to be lost, late or overtaken independently.
A dial, and a second while
the first is half-open or after a restart, cover the replacements of a session
in the maps. Path ids are random and paths share only the builder, so one path
tells all but the builder's count; `ShouldBuildMore` is therefore never refused
in this run, and a second build makes the model too large.

The timing constants keep the order of those in the code, not their ratio,
except in `iwp_transfer`, which has the code's values in ticks of 100 ms
(`ACKResendInterval` is 2.5 of them, rounded down). In `link_sessions` the connect
timeout is 1 tick, and the alive timeouts 2 for the dialler and 3 for the
accepting side (5 s, 25 s and, for a client, 5 min in the code). `ReceiveTimeout` there is the
timeout `InboundMessage::IsTimedOut` is really called with. `AtMostOnce` holds for
packets up to 5 ticks late; with `MaxDelay` 6 a late copy can arrive when the
replay filter has forgotten the message.
With one cell no element is before the place of a push that throws, so the drain
of the guard happens in `queue_fifo`, and `QueueOwnership` covers it for every
capacity.

Deadlock is checked except where the model may stop because its bound on calls
or requests is used up (`queue_*`, `outbound_sessions*`).

Runs that show a disagreement between the code and what it says of itself:

| run | property | disagreement |
|---|---|---|
| `queue_disable_pop` | `PopFrontFindsElements` | a push that overlaps `disable()` commits an element that `size()` does not count; `popFront` sleeps on it |
| `outbound_sessions_limit` | `UpperBoundHolds` | attempts under way are not counted: the "hard upperbound limit" is exceeded |
| `outbound_sessions_stranded` | `WaitingHasAttempt` | a request between the two critical sections of a worker's `FinalizeRequest` waits without an attempt |
| `outbound_queues_leak` | `RemovedStaysRemoved` | more stale messages than ticks in the filter's 5 s re-create a removed path's queue |
| `iwp_success` | `SuccessMeansDelivered` | a message that timed out at the receiver is entered as delivered and acknowledged |

In `outbound_queues` messages are queued for removed paths at any time, and the
invariant is what the filter does guarantee: while it knows a path the path has
no queue. `RemovedStaysRemoved`, which the comment on the filter promises, is
false; `outbound_queues_leak` shows it of a backlog alone (no message is queued
after a removal there): 3 messages meet a filter of 2 ticks, 1000 messages one
of 5 s in the code. `iwp_transfer` does not claim
`SuccessMeansDelivered`; with `ReceiveTimeout` 8
(`ReceivalTimeout`, which the code defines and does not use) and packets up to 4
ticks late it holds.

## 4. Fairness

* `OutboundSessions`: the loop continues its handler and runs posted calls, a
  worker takes its job, a lookup and a handshake end. The last two are what the
  DHT's transaction timeout and the link layer's timeouts guarantee. For the
  second this is `ReportedUnlessKeptAlive` of `LinkSessions` with the assumption
  that the accepting side does not send for ever on a session whose dialler
  missed the last acknowledgement (section 7).
* `OutboundQueues`: the router calls `Tick` again and again.
* `IwpTransfer`, `LinkSessions`: each side's tick runs and time passes. Nothing
  is assumed of the network.
* `Paths`: time passes and each router does what is due. Delivery is not assumed.
* `QueueManager`, `Queue`: none. `NoLostWakeup` is an invariant: in a state where
  no thread can go on by itself, no thread sleeps with something to do.

Responses "X leads to not X" are written `[]<>~X`, which is the same.

## 5. The proofs

`QueueManagerProofs` proves for every set of threads, every capacity, number of
generations and start index (assumption `QueueConstants`):

* `QueueTypes`: `QMSpec => []TypeOK`. The one thing that is not bookkeeping is
  that a combined index below capacity times generations decodes to a cell and a
  generation (`DecodeIndex`), also after it wraps (`Successors`).
* `QueueOwnership`: `QMSpec => [](CellOwnership /\ NoOrphanCell)`. A thread that
  has reserved a cell finds it `Writing` or `Reading` in the generation it
  reserved, no two threads own the same cell, and a cell in such a state has an
  owner.

Neither conjunct of the second is inductive without the other: a thread takes a
cell by a compare and swap on `Empty` or `Full`, so that nobody owned it follows
from "owned cells are Writing or Reading" (`FreeCell`); that a commit touches no
other thread's cell follows from exclusive ownership (`OneCell`); and that a
commit leaves no orphan needs both. The invariant is the conjunction with
`TypeOK`. The proof has one step per action; the steps that write no cell go
through `SameRole`.

Model-checked only: the refinement of `BoundedFifo` and `ReturnsAreTrue` (the
invariant behind them relates all cells to both indices and is the next proof in
the plan), the blocking operations, the other modules, and all liveness, which
the prover cannot do.

## 6. What is not modelled, and the plan

`PROJECT.json` lists every part with its status. The order of the plan, most
important behaviour first:

1. **DHT** (`dht/`, with `rc_lookup_handler` and `rc_gossiper`): `TXHolder`'s
   `waiting`, `timeouts` and `tx` with the lookup jobs on three routers. Abstract
   specification: a lookup is answered exactly once. Properties: the three maps
   agree, every asker is answered by an answer or by the timeout, a forwarded
   lookup gets closer with every step and so ends.
2. **Service endpoints** (`service/`): `EnsurePathToService` with its hooks, the
   lookup filter, `OutboundContext` (introductions, handshake flags, ready hooks
   with their timer), router and name lookups. Properties: each hook is called
   exactly once; a context that cannot send is removed; the introset in use never
   gets older.
3. **Exits** (`exit/`, `handlers/exit`) over an abstract path: one endpoint per
   identity and path on both sides, and what happens to traffic when the path
   changes.
4. **Path builder**: hop selection, build limiter and backoff, the number of
   paths, with `Profiling` as the judge of routers.
5. **Node database, whitelist and `Router::Tick`**: memory against disk with a
   restart, deregistration of peers, persisting sessions; reachability testing.
6. **Logic thread** composed with `Queue`: can everyone wait for everyone?

Abstract specifications planned: `OneAnswer` (an asynchronous request with
exactly one answer), to be implemented by the session maker, the DHT and the
service lookups alike.

Proofs planned: the refinement of `BoundedFifo`; `OrderMatchesQueues`;
`AtMostOnce` for every number of messages and fragments under the timing
assumption named above; `PendingIsDriven`; `MapsAgree`; `ConfirmedIsCommitted`
for every number of hops.

Not planned, because they are formats, value types or wrappers of libraries and
the operating system: dns, rpc, config, net, crypto, vpn, logging, tooling, the
daemon and the bindings. Cryptography is ideal in all modules.

## 7. Observations without a run

Met while translating the code. The model follows the code in each of them where
the part is modelled.

* `Path::HandlePathLatencyMessage` and `HandleTransferTrafficMessage` enter
  `ePathEstablished` from any state. An answer a worker holds while the path
  times out, fails or is ignored sets it established again; it is then in
  `m_Paths` and no longer in `m_OurPaths` until it expires. `Paths` has this step.
* `Path::SupportsAnyRoles` (`path/path.hpp:185`) combines the roles with `|`, so
  it holds for any role that is not zero.
* The lifetime of a commit record is written under the key "i" and read under
  "l" (`messages/relay_commit.cpp:91` and `125`), so relays use the default.
* A timed out path sends no latency tests, so it can be reanimated only by an
  answer that was already under way.
* The results of `SessionEstablishedHandler` and of the renegotiation handler are
  ignored although `link/server.hpp:39` and `49` say that false rejects or ends the
  session; `LinkSessions` therefore has no such step.
* `DoEstablish` asks `TryEstablishTo` again while a dial of the same router is
  pending and reports `EstablishFail` for it.
* `RemovePath` drops queued messages without calling their callbacks;
  `LinkManager::SendTo` and `ILinkLayer::SendTo` return false on some paths
  without calling `completed`.
* A dialler that misses the acknowledgement of its LIM is kept in `LinkIntro` by
  the messages of the accepting side, which holds a Ready session: neither
  established nor timed out is reported while they come.
* A session that is dropped (`ILinkLayer::Pump`, `CloseSessionTo`) takes the
  messages in `m_TXMsgs` with it; their completion handlers are not called.
* A single-fragment message is sent once: its XMIT is not repeated.
* `LookupRouterAnon` sends one transaction id and `RouterLookupJob` draws another,
  so an empty answer never matches its lookup.
* `LNSLookupTracker::MakeResultHandler` keeps the first handler of a name when a
  second lookup of it starts; the second caller is not answered.

## 8. Running

    tlc -workers 2 -config Paths.cfg MCPaths
    tlapm QueueManagerProofs.tla

Each run of `PROJECT.json` names its module and configuration; each takes at most
a few minutes on two cores.
