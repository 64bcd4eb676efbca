# TLA+ models of rips

Formal models of the rips user-space TCP/IP stack (`src/src/stack.rs`,
`src/src/ethernet/ethernet_tx.rs`), model-checked with TLC. The safety
properties of the transmit barrier, the ARP wait, routing and Ethernet
framing are also proved with TLAPS for all values of the constants.

## The system

The **NetworkStack** owns a map of **StackInterface**s, one for each
physical interface, and a **RoutingTable**. `add_ipv4` binds a local
network to an interface and installs an on-link route. `ipv4_tx(dst)`
picks a route by longest-prefix match. It then asks the routed interface
for a sender.

Each StackInterface has its own threads and shared state:

- a **TxBarrier**: the datalink sender plus a `version` counter, behind a
  mutex;
- an **ArpTable**, shared with a **worker thread** and with the **receive
  thread**'s ArpRx;
- a FIFO mpsc queue into the worker.

The interface's `ipv4_tx` runs these steps in order:

1. chooses the source address (`closest_local_ip`);
2. looks up the next hop's MAC;
3. if the MAC is missing, registers a waiter, broadcasts an ARP request
   and blocks until the MAC arrives;
4. builds an `EthernetTxImpl` over a `TxImpl`, which snapshots the
   barrier version.

Every `TxImpl::send` compares its snapshot with the barrier's current
version and fails with `InvalidTx` when they differ. Three things bump
the version:

- the worker, when an `UpdateArpTable` changes a binding;
- `set_mtu`;
- dropping the interface.

ArpRx turns received ARP replies and requests into worker messages. On
the transmit side, `EthernetTxImpl::send` asks the datalink for `packets`
frames of `size` payload bytes. For each frame, `EthernetBuilder` writes
the header and `BasicEthernetPayload` copies the next slice of its
vector.

## Modules

| Module | Models | Source |
|---|---|---|
| `StackInterface` | one interface: app thread (`add_ipv4`, `ipv4_tx` in four steps, `set_mtu`, drop + join), senders (`SendInvalid`), the worker (`process_msg`), the receive thread (ArpRx), and ARP frames arriving from the network | stack.rs 37–308, 484–529 |
| `TxBarrier` | abstract barrier: the MTU, whether the interface is alive, and the set of senders that may still send | spec 4.8 |
| `StackInterface_proofs` | TLAPS proofs of `TypeOK`, `HandleCurrentMtu`, `NoLostWakeup`, `WorkerOutlivesInterface` and of `Spec => BarrierSpec` | — |
| `UdpBinding` | abstract UDP binding service: addresses held by interfaces, ports bound on each, the SocketAddr the last `udp_listen` returned | spec 4.2 (v), spec 5 |
| `NetworkStack_proofs` | TLAPS proofs of NetworkStack's `TypeOK`, `AddedRoutesUsable` and of `Spec => UdpSpec` | — |
| `EthernetTx_proofs` | TLAPS proofs of `TypeOK` and `FramesCarryPayload` | — |
| `NetworkStack` | interfaces, local networks, routes, route and source selection in `ipv4_tx`, `icmp_listen`, `udp_listen` and `get_random_port` | stack.rs 246–481 |
| `EthernetTx` | one `EthernetTxImpl::send` of a `BasicEthernetPayload` | ethernet_tx.rs |
| `MC*` | model values and small constant sets for TLC | — |

### StackInterface

**State:**

- `arp`, `waiting`, `notified`: the table, the one waiter the app thread
  can have registered, and the MAC sent into its channel.
- `version`, `mtu`, `addresses`, `nets`.
- `queue`: the worker's channel.
- `workerPc`: `recv`, or `inc` between `insert` and the barrier bump
  (they take two different locks), or `done`.
- `rxWire`: frames waiting for the receive thread.
- `appPc`, `appDst`, `appMac`: where the app thread is in `ipv4_tx` or in
  drop.
- `handles`: the live `TxImpl`s, each with its destination, MAC, version
  snapshot and MTU.
- `lastReply`: the latest ARP reply the worker sent, as the Ethernet
  destination of its frame and the target MAC inside the ARP packet.

**Actions:**

- `ipv4_tx` is four actions, one per point where another thread can
  interleave:
  - `Ipv4TxLookup` covers lines 250–254 (`get` under the table lock);
  - `Ipv4TxRequest` is line 255 (the `tx_send!` and its `?` error path);
  - `Ipv4TxWait` is line 256;
  - `Ipv4TxBuild` covers lines 259–260 (the version snapshot at line 51).
- `tx_send!` retries on `InvalidTx`. A send therefore ends in success or
  in a datalink error, and the model keeps exactly those two outcomes.
- `DropInterface` bumps the version and enqueues `Shutdown`. Rust drops
  `StackInterface` first, then its field `_thread_handle`. `Join` waits
  for the worker to finish.
- `SendInvalid` is a sender finding its handle stale and dropping it.
- `WorkerArpRequest` is `handle_arp_request` (lines 134–143). If the
  target address is one of the interface's, it sends `ArpReply(m)`. The
  frame goes to the Ethernet destination that `arp_reply_tx` (lines
  64–67) chose, with the requester's MAC as the ARP target.

**Refinement.** `TxBarrier` states what the barrier promises without
versions:

- a set `valid` of senders, each with a destination, MAC and MTU;
- `Create` adds a sender with the current MTU while the interface lives;
- `SetMtu` and `Drop` empty the set, and `Invalidate` (an ARP change)
  empties it too.

`StackInterface` instantiates it as `Barrier`. The mapping sends `alive`
to "`appPc` is not `joining` or `dropped`". It sends `valid` to the
handles whose snapshot equals `version`. `BarrierSpec` (`Barrier!Spec`)
is then a property of `Spec`. Under this mapping `Ipv4TxBuild` is
`Create`, `SetMtu` is `SetMtu`, `DropInterface` is `Drop` and `WorkerInc`
is `Invalidate`. Every other action is a stutter; `SendInvalid` only
discards a stale handle.

The ArpTable and ArpRx are not under `src/`, so they are modelled from
spec 4.4:

- `Insert` binds the address and drains the waiter.
- `InsertChanged` is `insert`'s return value.
- `RxArpMsgs` gives the messages sent to the worker for each frame.

### NetworkStack

**State:**

- `ifaces`: the interfaces.
- per interface: `addrs` and `nets`, the keys and networks of
  `ipv4_datas`.
- `routes`.
- per interface and address: `udp` (bound ports) and `icmp` (listener
  count).
- `appPc` and `lockOn`: `udp_listen` inside `get_random_port`, holding
  that address's `udp_listeners` mutex.
- `lastTx`: the outcome of the last `ipv4_tx` and the route it took.
- `listenRes`: the `SocketAddr` (interface, address, port) that the last
  successful `udp_listen` returned (`Bound`, lines 454–456).

**Actions:**

- Each public call is one atomic action, because the app holds
  `&mut NetworkStack`. The exception is port 0:
  - `UdpListen` takes the lock;
  - `UdpSampleFree` draws a free port, binds it and returns;
  - `UdpSampleTaken` draws a bound port and loops again.
- The interface's `ipv4_tx` is reduced to its routing outcome
  (`Ipv4TxResult`): `IllegalArgument` when no local network contains the
  next hop. The MAC resolution belongs to StackInterface.
- A network is a set of addresses, so a more specific prefix is a strict
  subset. Longest-prefix match is `BestRoutes`, which keeps ties
  nondeterministic.
- `closest_local_ip` iterates a HashMap. The model returns *some*
  matching address: the set `ClosestLocalIps`.

**Refinement.** `UdpBinding` states what `udp_listen` promises without
locks or sampling. An interface comes to hold an address (`Hold`). A
`Listen` on a held address binds, in one step, a port that nobody there
holds yet: the requested one, or any port of `[start, end)` for port 0.
It returns that port. `NetworkStack` instantiates it as `Udp`:

- `held` maps to `Held`, the (interface, address) pairs that
  `udp_listen_ipv4`'s search can find (lines 448–449);
- `bound` maps to `udp`, and `result` to `listenRes`.

`AddIpv4` is `Hold`. `UdpListen` with a port, and `UdpSampleFree`, are
`Listen`. Entering `get_random_port` and drawing a taken port are
stutters. A bound port is a set element, so binding it twice would leave
`udp` unchanged. The refinement sees such a double bind only through
`listenRes`, which is why the model records what `udp_listen` returns.

### EthernetTx

**State:**

- `payload` and `offset` (the `BasicEthernetPayload`);
- `size` and `left` (the frames still to build);
- `frames` (the payload regions built so far).

**Actions:** `FillFrame` is one `EthernetBuilder::build` plus
`BasicEthernetPayload::build`. The region is always `size` bytes.
Positions the payload does not reach keep the datalink buffer's content,
the model value `Junk`.

## Runs

| Run | cfg | Expect | Properties | What it shows |
|---|---|---|---|---|
| stack_interface | MCStackInterface.cfg | pass | TypeOK, HandleCurrentMtu, NoLostWakeup, WorkerOutlivesInterface, ArpWaitEnds, DropCompletes | The worker thread quits only once drop has begun. The barrier invalidates every handle on `set_mtu` and on drop. No ARP wake-up is lost between `get` and `insert`. A blocked `ipv4_tx` returns once the reply reaches the receive thread. Drop always finishes joining the worker, behind whatever is queued. |
| barrier_refinement | MCStackInterface_Barrier.cfg | pass | BarrierSpec | The version protocol implements `TxBarrier`: the handles that pass the version check are exactly the senders of the abstract barrier. |
| arp_reply_unicast | MCStackInterface_ArpReply.cfg | violation | ArpReplyUnicast | **Divergence from spec 4.4.** `arp_reply_tx` uses the broadcast MAC (lines 65–66), so every ARP reply is broadcast rather than unicast to the requester. |
| stale_mac | MCStackInterface_StaleMac.cfg | violation | HandleCurrentMac | **Bug.** The MAC is read (line 252) before the version is snapshotted (line 51, via 259). An ARP update in between gives a handle that passes the barrier with a superseded MAC. |
| network_stack | MCNetworkStack.cfg | pass | TypeOK, AddedRoutesUsable | Routes installed by `add_ipv4` always find a source address. Ephemeral ports stay in `[start, end)`. |
| udp_refinement | MCNetworkStack_Udp.cfg | pass | UdpSpec | `udp_listen`, with the sampling loop of `get_random_port` under the `udp_listeners` mutex, implements `UdpBinding`. Every returned port was free on a held address, and port 0 gets one of `[start, end)`. |
| source_fallback | MCNetworkStack_SourceFallback.cfg | violation | SourceFallback | **Divergence from spec 4.7.** `closest_local_ip` has no "first local IP" fallback. A user route to an on-link host outside the interface's networks fails with `IllegalArgument`. |
| port_loop | MCNetworkStack_PortLoop.cfg | violation | UdpListenReturns | **Bug.** With every ephemeral port bound, `get_random_port` spins forever and holds the listener mutex. |
| ethernet_tx | MCEthernetTx.cfg | pass | TypeOK, FramesCarryPayload | Streaming through the offset puts the k-th slice in frame k, compared against a closed-form reference. |

Every property of a passing run has a mutant in `PROJECT.json`. A mutant
is a variant of a mapped definition, written in the module just before
the original, that a plausible bug would produce. Each mutant makes its
property fail:

- a `recv` that does not block;
- `set_mtu` without `inc`;
- an ARP lookup that does not register a waiter on a miss;
- a worker that stops after its first `UpdateArpTable` (breaks
  `ArpWaitEnds` and `WorkerOutlivesInterface`);
- an inclusive port range;
- `udp_listen` without the `contains_key` check, so that `insert`
  replaces a bound listener (breaks `UdpSpec`);
- a route installed despite the refusal;
- `build` without advancing the offset;
- a region without padding;
- drop sending `Shutdown` without bumping the barrier (breaks `BarrierSpec`);
- a worker that keeps receiving after `Shutdown` (breaks `DropCompletes`).

### Bounds

**StackInterface:**

- two local and two remote addresses, two MACs, two MTUs;
- at most 2 live handles, 2 frames from the network, and one version
  bump by `set_mtu`;
- drop bumps the version once more.

This is enough for every interleaving the properties talk about:

- a lookup racing an insert of the same address;
- an insert that changes a binding (two MACs);
- a handle outliving an MTU change or a drop;
- a request followed by a reply for a blocked caller.

The `stack_interface` run reaches about 252k distinct states in under a
minute. It checks liveness, so it uses no symmetry: TLC's symmetry
reduction is not sound for liveness. The `barrier_refinement` and
`stale_mac` runs are safety-only and use the MAC permutations.

**NetworkStack:**

- two interfaces and two local addresses;
- one address offered with two different networks, so that the
  duplicate refusal happens;
- an overlapping wider network, so that longest-prefix ties and
  preferences happen;
- one user route;
- an ephemeral range of one port that the user may also request
  explicitly. Drawing a taken port changes nothing, so a second port
  would add no behaviour that matters here. The `port_loop` run uses two
  ports on one interface.
  The `udp_refinement` run uses the same constants. Port 3 is both the
  whole ephemeral range and a port the user may request, so a port 0
  request can meet a port bound explicitly, and the other way round.

**EthernetTx:** payloads of up to 4 bytes, sizes 0–3 and up to 3 frames.
This covers an empty region, a payload ending mid-frame, and frames past
the end.

### Fairness

- The worker and the receive thread loop on blocking `recv`s, so each is
  weakly fair: `WF_vars(WorkerNext)` and `WF_vars(RxArp)`.
- Once the app thread is inside `ipv4_tx` or drop it runs to the end,
  except for the genuine blocking in `rx.recv()` and `join()`. So each
  in-call step is weakly fair.
- New calls, sends and the network are never forced.
- `DropCompletes` needs only the worker's and `Join`'s fairness. Drop
  puts `Shutdown` last on the queue. The worker handles everything
  before it, then quits, and `join` returns.
- In NetworkStack, `WF_vars(UdpSampleFree)` stands for `thread_rng`
  drawing every port of the range with positive probability.
- EthernetTx has no liveness property and assumes no fairness.

## Proofs

`StackInterface_proofs` proves five theorems, for all values of the
constants that satisfy `ConstAssumption`:

- **TypeCorrect**: `Spec => []TypeOK`. `TypeOK` is not inductive on its
  own. `Ipv4TxBuild` copies `appDst` and `appMac` into a handle, so the
  invariant is strengthened with `AppTypeInv`: while `ipv4_tx` is in
  progress, `appDst` is a remote address, and after the lookup `appMac`
  is a MAC. The step proof has one case per action. The queue cases rest
  on the `SequenceTheorems` facts about `Head`, `Tail`, `Append` and `\o`,
  and on two lemmas about message and frame records.
- **MtuBarrier**: `Spec => []HandleCurrentMtu`. The inductive invariant
  `MtuInv` says three things:
  1. no snapshot is newer than the barrier;
  2. a snapshot equal to the version carries the current MTU;
  3. once drop has begun, every snapshot is strictly older.

  Part 1 is what makes the bumps in `set_mtu` and drop invalidate
  everything, and it is the part a counter that could run backwards would
  break. `MtuInv` with `TypeInv` implies the property.
- **NoLostWakeupHolds**: `Spec => []NoLostWakeup`. The inductive
  invariant `WaitInv` describes the app thread's waiter:
  - outside the ARP part of `ipv4_tx`, no waiter is registered and no MAC
    is pending;
  - inside it, one of two things holds. Either the waiter is registered
    for the unbound next hop and holds nothing, or `insert` has drained
    it and sent a MAC.

  The worker case is the lemma `InsertKeepsWaitInv`. It relies on `get`
  and `insert` being atomic under the table lock, and on `insert`
  draining the waiters of the address it binds.

- **BarrierRefinement**: `Spec => BarrierSpec`. It follows TLAPS'
  refinement layout:
  - `BarrierInit`: `Init` maps to `Barrier!Init`;
  - `BarrierStep`: under `TypeInv` and `MtuInv`, every step maps to a
    `Barrier!Next` step or a stutter;
  - the temporal step uses `PTL`.

  The key lemma is `BumpEmptiesValid`: since no snapshot is newer than
  the barrier (part 1 of `MtuInv`), a bump leaves no handle current. So
  `set_mtu`, drop and the worker's `inc` empty the abstract set.
  `AddHandleValid` shows that `Ipv4TxBuild` adds exactly one sender.
- **WorkerOutlivesInterfaceHolds**: `Spec => []WorkerOutlivesInterface`.
  The invariant is not inductive by itself, because the worker quits on
  whatever `Shutdown` heads its queue. `LifeInv` adds that a `Shutdown`
  is on the queue only once drop has begun (`ShutdownQueued => DropBegun`).
  The proof has the following parts:
  - popping a message keeps the later ones (`HeadTailProperties`);
  - ArpRx appends only `UpdateArpTable` and `ArpRequest` messages (the
    lemma `RxArpMsgsNoShutdown`, with `ConcatProperties`);
  - no app action leaves `joining` or `dropped`.

`NetworkStack_proofs` proves three theorems, under `NetAssumption`:

- **TypeCorrect**: `Spec => []TypeOK`, strengthened with `SampleInv`.
  While `get_random_port` samples, `lockOn` is an (interface, address)
  pair, because `UdpSampleFree` indexes `udp` with it.
- **AddedRoutesUsableHolds**: `Spec => []AddedRoutesUsable`. The
  inductive invariant adds `RouteInv`: every route from `add_ipv4` has no
  gateway, is on a known interface, and its network is that of an
  address the interface holds. `AddIpv4` preserves it because it refuses
  a held address, so a held address's network is never replaced. The
  lemma `AddedRouteOk` then shows that `ipv4_tx` along such a route
  finds a source address.
- **UdpRefinement**: `Spec => UdpSpec`, with the same layout as
  `BarrierRefinement` (`UdpInit`, `UdpStep`, then `PTL`). The invariant
  `HoldInv` adds two facts:
  - an interface that has not been added holds no address, so
    `AddInterface` leaves `Held` unchanged;
  - while `get_random_port` samples, the mutex it holds belongs to an
    address in `Held`. This is what makes the free sample a `Listen` on
    a held address.

  `AddIpv4Held` shows that `add_ipv4` adds exactly one held pair.

`EthernetTx_proofs` proves **FramesCorrect**
(`Spec => []FramesCarryPayload`) and **TypeCorrect** (`Spec => []TypeOK`).
Both hold for every byte set, payload length, frame size and frame count
allowed by `EthernetAssumption`. They rest on:

- The inductive invariant `IInv` adds one fact to `TypeOK`. After n
  frames, the offset is `Consumed`, which is `min(n·size, Len(payload))`.
  This is where the closed form says frame n+1 begins.
- The lemma `RegionContent` describes one call of `build` into a region:
  - the region is `size` bytes long;
  - byte j is `payload[off+j]` while that exists, and `Junk` after it;
  - the new offset is `min(off+size, len)`.
- The step proof splits on whether the vector is already exhausted. The
  frame index works out because `(n+1)·size = n·size + size`.

## What is only model-checked

- The liveness properties (`ArpWaitEnds`, `DropCompletes`,
  `UdpListenReturns`): TLAPS does not handle liveness under fairness or
  ENABLED. Every safety invariant and refinement property of a passing run
  has a theorem. `WorkerOutlivesInterface` is the safety half of
  `DropCompletes` and `ArpWaitEnds`: the worker is still there to serve
  them.
- The violations (`HandleCurrentMac`, `SourceFallback`,
  `ArpReplyUnicast`, `UdpListenReturns`) are counterexamples found by TLC.
- The modules with proofs, and the modules they extend, declare no
  RECURSIVE operator, so the SMT backend stays available.

## What is not modelled

- The IPv4/UDP/ICMP builders and the receive demultiplexers. They are not
  under `src/`, and they are header arithmetic. Their shared state, the
  listener maps, is in NetworkStack.
- A successful send changes only the wire, so it is not an action.
- The reply's `tx_send!` can fail (datalink error, or `InvalidTx` if
  `set_mtu` races the worker's snapshot). `unwrap_or(())` swallows the
  error and the reply is lost. `tx_send!` is not under `src/`, so the
  model keeps the reply send atomic and successful.
- The 64-bit wrap-around of the version (`wrapping_add` in
  `TxBarrier::inc`). It needs 2^64 bumps and spec 4.8 accepts it, so the
  model keeps the version a natural number.
- The interface's receive thread is never stopped on drop (spec 9c).
  After drop the model drops ArpRx's messages, as the failed sends do.
- Listener callbacks re-entering the stack while dispatch holds a
  listener mutex: the callbacks are user code.
- Benchmarks.

## Plan

Next sittings:

- Compose NetworkStack with two StackInterface instances, so that
  `ipv4_tx`'s route choice feeds real MAC resolution.
- Model several waiters per address (two app threads) for `insert`'s
  drain, and the dead waiter that a failed ARP request leaves behind.
- Extend `TxBarrier` with the MAC a sender was built for, once the
  `stale_mac` bug is fixed. The refinement would then cover ARP changes
  too.
