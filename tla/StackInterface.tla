--------------------------- MODULE StackInterface ---------------------------
(***************************************************************************)
(* One StackInterface of the rips stack (src/src/stack.rs): the ARP table, *)
(* the interface worker thread and its control queue, the TxBarrier with   *)
(* its version, the application thread calling ipv4_tx / set_mtu /         *)
(* add_ipv4 / drop, the sender handles (TxImpl inside Ipv4TxImpl) held by  *)
(* application threads, and the receive thread running ArpRx.              *)
(*                                                                         *)
(* Threads and what they touch:                                            *)
(*   app     : the holder of &mut StackInterface; one call at a time       *)
(*   worker  : StackInterfaceThread::run, pops the mpsc queue              *)
(*   rx      : the detached receive thread, ArpRx feeding the queue        *)
(*   senders : threads holding a handle and calling send on it             *)
(*   network : peers whose ARP frames reach the receive thread             *)
(***************************************************************************)
EXTENDS Naturals, Sequences, FiniteSets

CONSTANTS
    LocalIps,      \* addresses add_ipv4 may bind on this interface
    RemoteIps,     \* next-hop addresses ipv4_tx may resolve
    Macs,          \* MAC addresses peers may announce
    Mtus,          \* values set_mtu may be called with
    DefaultMtu,    \* DEFAULT_MTU
    Nets,          \* the Ipv4Network arguments of add_ipv4: [ip, hosts]
    NoMac,         \* "no binding" / empty one-shot channel
    NoIp,          \* "no waiter registered" / gateway None
    BroadcastMac,  \* ff:ff:ff:ff:ff:ff
    MaxHandles,    \* bound: handles alive at once
    MaxFrames,     \* bound: ARP frames the network delivers
    MaxVersion     \* bound: set_mtu calls stop once version reaches it

ASSUME ConstAssumption ==
    /\ NoMac \notin Macs
    /\ BroadcastMac \notin Macs \cup {NoMac}
    /\ NoIp \notin RemoteIps
    /\ DefaultMtu \in Mtus
    /\ Mtus \subseteq Nat
    /\ Nets \subseteq [ip : LocalIps, hosts : SUBSET RemoteIps]
    /\ MaxHandles \in Nat
    /\ MaxFrames \in Nat
    /\ MaxVersion \in Nat

VARIABLES
    arp,        \* ArpTable bindings: RemoteIps -> Macs \cup {NoMac}
    waiting,    \* IP the app's live ArpTable waiter is registered under
    notified,   \* content of that waiter's one-shot channel
    version,    \* TxBarrier.version
    mtu,        \* StackInterface.mtu
    addresses,  \* StackInterfaceData.ipv4_addresses
    nets,       \* ipv4_datas: local ip -> hosts of its Ipv4Network
    queue,      \* the worker's mpsc queue of StackInterfaceMsg
    workerPc,   \* "recv" | "inc" (inside update_arp) | "done"
    rxWire,     \* ARP frames arrived, not yet read by the receive thread
    sentFrames, \* frames the network has delivered so far (bounded)
    lastReply,  \* the latest ARP reply the worker sent
    appPc,      \* where the app thread is
    appDst,     \* local_dst of the ipv4_tx in progress
    appMac,     \* dst_mac obtained by the ipv4_tx in progress
    handles     \* TxImpl snapshots inside live Ipv4TxImpl handles

arpVars == <<arp, waiting, notified>>
appVars == <<appPc, appDst, appMac>>
vars == <<arpVars, version, mtu, addresses, nets, queue, workerPc,
          rxWire, sentFrames, lastReply, appVars, handles>>

-----------------------------------------------------------------------------
(* Messages of the worker queue: StackInterfaceMsg. *)
UpdateArpMsgs == [type : {"UpdateArpTable"}, ip : RemoteIps, mac : Macs]
ArpRequestMsgs == [type : {"ArpRequest"}, ip : RemoteIps, mac : Macs,
                   target : LocalIps]
ShutdownMsg == [type |-> "Shutdown"]
Msgs == UpdateArpMsgs \cup ArpRequestMsgs \cup {ShutdownMsg}

(* ARP frames from peers: replies/announcements and requests. *)
Frames == [op : {"reply"}, ip : RemoteIps, mac : Macs]
          \cup [op : {"request"}, ip : RemoteIps, mac : Macs,
                target : LocalIps]

(* A TxImpl: the barrier version it snapshotted, plus what the Ipv4TxImpl *)
(* and EthernetTxImpl around it were built with.                         *)
HandleRecs == [dst : RemoteIps, mac : Macs, version : Nat, mtu : Mtus]

AppPcs == {"idle", "request", "wait", "resolved", "joining", "dropped"}

(* An ARP reply on the wire: the Ethernet destination of its frame and  *)
(* the target hardware address inside the ARP packet.                  *)
NoReply == [ethDst |-> NoMac, target |-> NoMac]

(* handle_arp_request's tx_send!(arp_reply_tx; target_ip, sender_mac,   *)
(* sender_ip): arp_reply_tx builds its EthernetTxImpl with dst_mac      *)
(* ff:ff:ff:ff:ff:ff, and the ARP packet targets the requester's MAC.  *)
ArpReply(m) == [ethDst |-> BroadcastMac, target |-> m.mac]

-----------------------------------------------------------------------------
(* ArpTable::insert: set the binding, drain and notify the waiters on ip.  *)
(* Returns whether the binding changed.                                    *)
Insert(ip, mac) ==
    /\ arp' = [arp EXCEPT ![ip] = mac]
    /\ IF waiting = ip
         THEN waiting' = NoIp /\ notified' = mac
         ELSE UNCHANGED <<waiting, notified>>

InsertChanged(ip, mac) == arp[ip] # mac

(* closest_local_ip: the local addresses whose network contains dst; the  *)
(* HashMap iteration order decides which one is returned.                 *)
ClosestLocalIps(dst) == {ip \in addresses : dst \in nets[ip]}

(* tx_send! on a fresh handle: barrier.version is read, then compared on  *)
(* send; InvalidTx makes the macro build a new handle and retry, so the   *)
(* call ends with a successful send or with a datalink error.             *)

-----------------------------------------------------------------------------
Init ==
    /\ arp = [ip \in RemoteIps |-> NoMac]
    /\ waiting = NoIp
    /\ notified = NoMac
    /\ version = 0
    /\ mtu = DefaultMtu
    /\ addresses = {}
    /\ nets = [ip \in LocalIps |-> {}]
    /\ queue = <<>>
    /\ workerPc = "recv"
    /\ rxWire = <<>>
    /\ sentFrames = 0
    /\ lastReply = NoReply
    /\ appPc = "idle"
    /\ appDst = NoIp
    /\ appMac = NoMac
    /\ handles = {}

(***************************** application thread **************************)

(* StackInterface::add_ipv4: Occupied -> IllegalArgument, nothing changes. *)
AddIpv4(n) ==
    /\ appPc = "idle"
    /\ n.ip \notin addresses
    /\ nets' = [nets EXCEPT ![n.ip] = n.hosts]
    /\ addresses' = addresses \cup {n.ip}
    /\ UNCHANGED <<arpVars, version, mtu, queue, workerPc, rxWire,
                   sentFrames, lastReply, appVars, handles>>

(* Variant of Ipv4TxLookup whose lookup on a miss only reads the table  *)
(* and does not register a waiter for local_dst.                        *)
Ipv4TxLookupNoRegister(dst, gw) ==
    LET localDst == IF gw = NoIp THEN dst ELSE gw IN
    /\ appPc = "idle"
    /\ Cardinality(handles) < MaxHandles
    /\ ClosestLocalIps(localDst) # {}
    /\ appDst' = localDst
    /\ IF arp[localDst] # NoMac
         THEN /\ appPc' = "resolved"
              /\ appMac' = arp[localDst]
         ELSE /\ appPc' = "request"
              /\ appMac' = NoMac
    /\ UNCHANGED <<arp, waiting, notified, version, mtu, addresses, nets,
                   queue, workerPc, rxWire, sentFrames, lastReply, handles>>

(* ipv4_tx up to arp_table.get: local_dst = gw.unwrap_or(dst); no local   *)
(* network containing it -> IllegalArgument (no step). get returns the   *)
(* binding, or registers a waiter and returns its receiver.              *)
Ipv4TxLookup(dst, gw) ==
    LET localDst == IF gw = NoIp THEN dst ELSE gw IN
    /\ appPc = "idle"
    /\ Cardinality(handles) < MaxHandles
    /\ ClosestLocalIps(localDst) # {}
    /\ appDst' = localDst
    /\ IF arp[localDst] # NoMac
         THEN /\ appPc' = "resolved"
              /\ appMac' = arp[localDst]
              /\ UNCHANGED <<waiting, notified>>
         ELSE /\ appPc' = "request"
              /\ appMac' = NoMac
              /\ waiting' = localDst
              /\ notified' = NoMac
    /\ UNCHANGED <<arp, version, mtu, addresses, nets, queue, workerPc,
                   rxWire, sentFrames, lastReply, handles>>

(* tx_send!(arp_request_tx; src, local_dst)?: the broadcast request goes  *)
(* out, or a datalink error returns from ipv4_tx and drops the receiver. *)
Ipv4TxRequest ==
    /\ appPc = "request"
    /\ \/ /\ appPc' = "wait"
          /\ UNCHANGED <<waiting, notified, appDst>>
       \/ /\ appPc' = "idle"
          /\ waiting' = NoIp
          /\ notified' = NoMac
          /\ appDst' = NoIp
    /\ UNCHANGED <<arp, version, mtu, addresses, nets, queue,
                   workerPc, rxWire, sentFrames, lastReply, appMac, handles>>

(* Variant of Ipv4TxWait using a non-blocking try_recv whose result is  *)
(* taken as the MAC even when the channel is still empty.              *)
Ipv4TxWaitNoBlock ==
    /\ appPc = "wait"
    /\ appPc' = "resolved"
    /\ appMac' = notified
    /\ notified' = NoMac
    /\ UNCHANGED <<arp, waiting, version, mtu, addresses, nets, queue,
                   workerPc, rxWire, sentFrames, lastReply, appDst, handles>>

(* rx.recv().unwrap(): blocks until insert has sent the MAC. *)
Ipv4TxWait ==
    /\ appPc = "wait"
    /\ notified # NoMac
    /\ appPc' = "resolved"
    /\ appMac' = notified
    /\ notified' = NoMac
    /\ UNCHANGED <<arp, waiting, version, mtu, addresses, nets, queue,
                   workerPc, rxWire, sentFrames, lastReply, appDst, handles>>

(* self.ethernet_tx(dst_mac) -> StackInterfaceData::tx reads the barrier *)
(* version now, after the MAC was obtained; Ipv4TxImpl keeps self.mtu.   *)
Ipv4TxBuild ==
    /\ appPc = "resolved"
    /\ handles' = handles \cup {[dst |-> appDst, mac |-> appMac,
                                 version |-> version, mtu |-> mtu]}
    /\ appPc' = "idle"
    /\ appDst' = NoIp
    /\ appMac' = NoMac
    /\ UNCHANGED <<arpVars, version, mtu, addresses, nets, queue, workerPc,
                   rxWire, sentFrames, lastReply>>

(* Variant of SetMtu that stores the MTU without bumping the barrier. *)
SetMtuNoInc(m) ==
    /\ appPc = "idle"
    /\ version < MaxVersion
    /\ mtu' = m
    /\ UNCHANGED <<arpVars, version, addresses, nets, queue, workerPc,
                   rxWire, sentFrames, lastReply, appVars, handles>>

(* set_mtu: self.mtu = mtu; self.data.tx.lock().inc(). *)
SetMtu(m) ==
    /\ appPc = "idle"
    /\ version < MaxVersion
    /\ mtu' = m
    /\ version' = version + 1
    /\ UNCHANGED <<arpVars, addresses, nets, queue, workerPc, rxWire,
                   sentFrames, lastReply, appVars, handles>>

(* Variant of DropInterface that sends Shutdown without bumping the  *)
(* barrier first.                                                   *)
DropInterfaceNoInc ==
    /\ appPc = "idle"
    /\ queue' = Append(queue, ShutdownMsg)
    /\ appPc' = "joining"
    /\ UNCHANGED <<arpVars, version, mtu, addresses, nets, workerPc, rxWire,
                   sentFrames, lastReply, appDst, appMac, handles>>

(* Drop for StackInterface bumps the barrier; then the field              *)
(* _thread_handle is dropped: it sends Shutdown and joins the worker.     *)
DropInterface ==
    /\ appPc = "idle"
    /\ version' = version + 1
    /\ queue' = Append(queue, ShutdownMsg)
    /\ appPc' = "joining"
    /\ UNCHANGED <<arpVars, mtu, addresses, nets, workerPc, rxWire,
                   sentFrames, lastReply, appDst, appMac, handles>>

Join ==
    /\ appPc = "joining"
    /\ workerPc = "done"
    /\ appPc' = "dropped"
    /\ UNCHANGED <<arpVars, version, mtu, addresses, nets, queue, workerPc,
                   rxWire, sentFrames, lastReply, appDst, appMac, handles>>

(******************************** sender threads ***************************)

(* TxImpl::send: a stale version fails with InvalidTx and the caller drops *)
(* the handle to refetch one; a current one sends and is kept.            *)
SendInvalid(h) ==
    /\ h.version # version
    /\ handles' = handles \ {h}
    /\ UNCHANGED <<arpVars, version, mtu, addresses, nets, queue, workerPc,
                   rxWire, sentFrames, lastReply, appVars>>

(******************************** worker thread ****************************)

(* Variant of WorkerUpdateArp where process_msg returns false after an *)
(* UpdateArpTable, so run's loop breaks as on Shutdown.               *)
WorkerUpdateArpQuits ==
    /\ workerPc = "recv"
    /\ queue # <<>>
    /\ Head(queue).type = "UpdateArpTable"
    /\ LET m == Head(queue) IN
         /\ Insert(m.ip, m.mac)
         /\ workerPc' = "done"
    /\ queue' = Tail(queue)
    /\ UNCHANGED <<version, mtu, addresses, nets, rxWire, sentFrames, lastReply,
                   appVars, handles>>

(* process_msg(UpdateArpTable) -> update_arp: arp_table.insert, then, if   *)
(* it changed the binding, the barrier is locked and inc'ed (WorkerInc).   *)
WorkerUpdateArp ==
    /\ workerPc = "recv"
    /\ queue # <<>>
    /\ Head(queue).type = "UpdateArpTable"
    /\ LET m == Head(queue) IN
         /\ Insert(m.ip, m.mac)
         /\ workerPc' = IF InsertChanged(m.ip, m.mac) THEN "inc" ELSE "recv"
    /\ queue' = Tail(queue)
    /\ UNCHANGED <<version, mtu, addresses, nets, rxWire, sentFrames, lastReply,
                   appVars, handles>>

(* TxBarrier::inc: version.wrapping_add(1). The model's version is a     *)
(* natural number: 2^64 bumps are out of reach, and spec 4.8 accepts it. *)
WorkerInc ==
    /\ workerPc = "inc"
    /\ version' = version + 1
    /\ workerPc' = "recv"
    /\ UNCHANGED <<arpVars, mtu, addresses, nets, queue, rxWire,
                   sentFrames, lastReply, appVars, handles>>

(* handle_arp_request: if target_ip is in ipv4_addresses (read under the *)
(* RwLock), an ARP reply is sent through tx_send! on a fresh handle; a    *)
(* send error is swallowed by unwrap_or(()). Otherwise nothing is sent.  *)
WorkerArpRequest ==
    /\ workerPc = "recv"
    /\ queue # <<>>
    /\ Head(queue).type = "ArpRequest"
    /\ LET m == Head(queue) IN
         \/ /\ m.target \in addresses
            /\ lastReply' = ArpReply(m)
         \/ /\ m.target \notin addresses
            /\ UNCHANGED lastReply
    /\ queue' = Tail(queue)
    /\ UNCHANGED <<arpVars, version, mtu, addresses, nets, workerPc,
                   rxWire, sentFrames, appVars, handles>>

(* Variant of WorkerShutdown where process_msg returns true for Shutdown *)
(* and run keeps receiving.                                             *)
WorkerShutdownContinue ==
    /\ workerPc = "recv"
    /\ queue # <<>>
    /\ Head(queue).type = "Shutdown"
    /\ queue' = Tail(queue)
    /\ UNCHANGED <<arpVars, version, mtu, addresses, nets, workerPc, rxWire,
                   sentFrames, lastReply, appVars, handles>>

(* Shutdown: process_msg returns false, run breaks, the receiver drops. *)
WorkerShutdown ==
    /\ workerPc = "recv"
    /\ queue # <<>>
    /\ Head(queue).type = "Shutdown"
    /\ queue' = Tail(queue)
    /\ workerPc' = "done"
    /\ UNCHANGED <<arpVars, version, mtu, addresses, nets, rxWire,
                   sentFrames, lastReply, appVars, handles>>

(******************************* receive thread ****************************)

(* ArpRx: a reply/announcement sends UpdateArpTable; a request sends      *)
(* UpdateArpTable then ArpRequest. Once the worker has quit the queue's   *)
(* receiver is gone and the sends fail.                                   *)
RxArpMsgs(f) ==
    LET upd == [type |-> "UpdateArpTable", ip |-> f.ip, mac |-> f.mac] IN
    IF f.op = "reply" THEN <<upd>>
    ELSE <<upd, [type |-> "ArpRequest", ip |-> f.ip, mac |-> f.mac,
                 target |-> f.target]>>

RxArp ==
    /\ rxWire # <<>>
    /\ queue' = IF workerPc = "done" THEN queue
                ELSE queue \o RxArpMsgs(Head(rxWire))
    /\ rxWire' = Tail(rxWire)
    /\ UNCHANGED <<arpVars, version, mtu, addresses, nets, workerPc,
                   sentFrames, lastReply, appVars, handles>>

(********************************** network ********************************)

NetworkDeliver(f) ==
    /\ sentFrames < MaxFrames
    /\ rxWire' = Append(rxWire, f)
    /\ sentFrames' = sentFrames + 1
    /\ UNCHANGED <<arpVars, version, mtu, addresses, nets, queue, workerPc,
                   lastReply, appVars, handles>>

-----------------------------------------------------------------------------
AppNext ==
    \/ \E n \in Nets : AddIpv4(n)
    \/ \E dst \in RemoteIps, gw \in RemoteIps \cup {NoIp} : Ipv4TxLookup(dst, gw)
    \/ Ipv4TxRequest
    \/ Ipv4TxWait
    \/ Ipv4TxBuild
    \/ \E m \in Mtus : SetMtu(m)
    \/ DropInterface
    \/ Join

WorkerNext ==
    WorkerUpdateArp \/ WorkerInc \/ WorkerArpRequest \/ WorkerShutdown

Next ==
    \/ AppNext
    \/ \E h \in handles : SendInvalid(h)
    \/ WorkerNext
    \/ RxArp
    \/ \E f \in Frames : NetworkDeliver(f)

(* The worker and receive threads run whenever they have input; the app *)
(* thread, once inside ipv4_tx or drop, runs the call to its end. New    *)
(* calls, senders and the network are never forced to act.             *)
Fairness ==
    /\ WF_vars(WorkerNext)
    /\ WF_vars(RxArp)
    /\ WF_vars(Ipv4TxRequest)
    /\ WF_vars(Ipv4TxWait)
    /\ WF_vars(Ipv4TxBuild)
    /\ WF_vars(Join)

Spec == Init /\ [][Next]_vars /\ Fairness

-----------------------------------------------------------------------------
(* Every variable holds a value of its type. *)
TypeOK ==
    /\ arp \in [RemoteIps -> Macs \cup {NoMac}]
    /\ waiting \in RemoteIps \cup {NoIp}
    /\ notified \in Macs \cup {NoMac}
    /\ version \in Nat
    /\ mtu \in Mtus
    /\ addresses \subseteq LocalIps
    /\ nets \in [LocalIps -> SUBSET RemoteIps]
    /\ queue \in Seq(Msgs)
    /\ workerPc \in {"recv", "inc", "done"}
    /\ rxWire \in Seq(Frames)
    /\ sentFrames \in Nat
    /\ lastReply \in {NoReply} \cup [ethDst : Macs \cup {BroadcastMac},
                                     target : Macs]
    /\ appPc \in AppPcs
    /\ appDst \in RemoteIps \cup {NoIp}
    /\ appMac \in Macs \cup {NoMac}
    /\ handles \subseteq HandleRecs

(* A handle passes the barrier's version check only while the interface  *)
(* is alive and only with the interface's current MTU: set_mtu and drop  *)
(* must invalidate every Ipv4TxImpl built before them (spec 4.8).        *)
HandleCurrentMtu ==
    \A h \in handles :
        h.version = version =>
            /\ h.mtu = mtu
            /\ appPc \notin {"joining", "dropped"}

(* No lost wake-up: while ipv4_tx is blocked in rx.recv() for local_dst,  *)
(* a binding of local_dst in the ARP table means its MAC is already in   *)
(* the waiter's channel (get and insert both hold the table lock).       *)
NoLostWakeup ==
    (appPc = "wait" /\ arp[appDst] # NoMac) => notified # NoMac

(* StackInterfaceThread::run ends only on the Shutdown that dropping the  *)
(* StackInterface sends: while the interface is in use the worker keeps  *)
(* receiving, so ArpRx's UpdateArpTable and ArpRequest messages are not   *)
(* silently lost and ARP waiters can still be woken.                      *)
WorkerOutlivesInterface ==
    workerPc = "done" => appPc \in {"joining", "dropped"}

(* ipv4_tx blocked on an ARP reply returns once a frame announcing its   *)
(* next hop has reached the receive thread: ArpRx, the worker queue and  *)
(* insert's notification carry it to the waiter.                         *)
ArpWaitEnds ==
    \A ip \in RemoteIps :
        (appPc = "wait" /\ appDst = ip
           /\ \E i \in 1..Len(rxWire) : rxWire[i].ip = ip)
        ~> (appPc # "wait")

(* Dropping a StackInterface returns: the Shutdown sent after the       *)
(* barrier bump reaches the worker behind every earlier message, the     *)
(* worker's loop ends and join() comes back.                             *)
DropCompletes ==
    (appPc = "joining") ~> (appPc = "dropped")

(* The barrier as the spec describes it (module TxBarrier): the senders  *)
(* that still pass the version check, with what they were built with,   *)
(* and whether the interface is still alive.                            *)
Barrier == INSTANCE TxBarrier WITH
    alive <- appPc \notin {"joining", "dropped"},
    valid <- {[dst |-> h.dst, mac |-> h.mac, mtu |-> h.mtu] :
                 h \in {g \in handles : g.version = version}}

(* The version protocol implements the barrier: every step of the        *)
(* interface is a step of TxBarrier's Spec or leaves it unchanged.       *)
BarrierSpec == Barrier!Spec

(* Spec 4.8: an ARP-table change bumps the barrier so that no sender      *)
(* keeps using a MAC resolved before it. A handle that passes the version *)
(* check, once the worker has finished update_arp, carries the MAC the   *)
(* table binds its next hop to.                                          *)
HandleCurrentMac ==
    workerPc # "inc" =>
        \A h \in handles : h.version = version => h.mac = arp[h.dst]

(* Spec 4.4: "ArpReplyTx sends unicast to the learned requester". Every  *)
(* ARP reply the worker sends in answer to a request is addressed, at the *)
(* Ethernet layer, to the MAC of the host that asked.                    *)
ArpReplyUnicast ==
    lastReply # NoReply => lastReply.ethDst = lastReply.target

=============================================================================
