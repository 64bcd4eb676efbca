----------------------- MODULE StackInterface_proofs -----------------------
(***************************************************************************)
(* Proofs about StackInterface for every value of the constants:           *)
(*   TypeCorrect   Spec => []TypeOK                                        *)
(*   MtuBarrier    Spec => []HandleCurrentMtu                              *)
(*   NoLostWakeupHolds  Spec => []NoLostWakeup                             *)
(*   BarrierRefinement  Spec => BarrierSpec (implements module TxBarrier)  *)
(*   WorkerOutlivesInterfaceHolds  Spec => []WorkerOutlivesInterface       *)
(***************************************************************************)
EXTENDS StackInterface, SequenceTheorems, TLAPS

-----------------------------------------------------------------------------
(* TypeOK alone is not inductive: Ipv4TxBuild stores appDst and appMac in *)
(* a handle, so while ipv4_tx is between lookup and build they must       *)
(* already be a remote address and a MAC.                                 *)
AppTypeInv ==
    /\ appPc \in {"request", "wait", "resolved"} => appDst \in RemoteIps
    /\ appPc = "resolved" => appMac \in Macs

TypeInv == TypeOK /\ AppTypeInv

(* Every message on the worker queue of type UpdateArpTable carries an   *)
(* address and a MAC.                                                    *)
LEMMA UpdateMsgFields ==
    ASSUME NEW m \in Msgs, m.type = "UpdateArpTable"
    PROVE  m.ip \in RemoteIps /\ m.mac \in Macs
BY DEF Msgs, UpdateArpMsgs, ArpRequestMsgs, ShutdownMsg

(* What ArpRx puts on the worker queue for a frame is a sequence of messages. *)
LEMMA RxArpMsgsType ==
    ASSUME NEW f \in Frames
    PROVE  RxArpMsgs(f) \in Seq(Msgs)
<1>1. [type |-> "UpdateArpTable", ip |-> f.ip, mac |-> f.mac] \in Msgs
  BY DEF Frames, Msgs, UpdateArpMsgs
<1>2. CASE f.op = "reply"
  BY <1>1, <1>2 DEF RxArpMsgs
<1>3. CASE f.op # "reply"
  <2>1. f \in [op : {"request"}, ip : RemoteIps, mac : Macs, target : LocalIps]
    BY <1>3 DEF Frames
  <2>2. [type |-> "ArpRequest", ip |-> f.ip, mac |-> f.mac,
         target |-> f.target] \in Msgs
    BY <2>1 DEF Msgs, ArpRequestMsgs
  <2>3. QED
    BY <1>1, <1>3, <2>2 DEF RxArpMsgs
<1>4. QED
  BY <1>2, <1>3

-----------------------------------------------------------------------------
LEMMA TypeInvInit == Init => TypeInv
BY ConstAssumption DEF Init, TypeInv, TypeOK, AppTypeInv, AppPcs

LEMMA TypeInvNext == TypeInv /\ [Next]_vars => TypeInv'
<1> SUFFICES ASSUME TypeInv, [Next]_vars PROVE TypeInv'
  OBVIOUS
<1> USE ConstAssumption DEF TypeInv, TypeOK, AppTypeInv, AppPcs, arpVars, appVars
<1>1. ASSUME NEW n \in Nets, AddIpv4(n) PROVE TypeInv'
  BY <1>1 DEF AddIpv4
<1>2. ASSUME NEW dst \in RemoteIps, NEW gw \in RemoteIps \cup {NoIp},
             Ipv4TxLookup(dst, gw)
      PROVE  TypeInv'
  BY <1>2 DEF Ipv4TxLookup
<1>3. CASE Ipv4TxRequest
  BY <1>3 DEF Ipv4TxRequest
<1>4. CASE Ipv4TxWait
  BY <1>4 DEF Ipv4TxWait
<1>5. CASE Ipv4TxBuild
  BY <1>5 DEF Ipv4TxBuild, HandleRecs
<1>6. ASSUME NEW m \in Mtus, SetMtu(m) PROVE TypeInv'
  BY <1>6 DEF SetMtu
<1>7. CASE DropInterface
  BY <1>7, AppendProperties DEF DropInterface, Msgs
<1>8. CASE Join
  BY <1>8 DEF Join
<1>9. ASSUME NEW h \in handles, SendInvalid(h) PROVE TypeInv'
  BY <1>9 DEF SendInvalid
<1>10. CASE WorkerUpdateArp
  <2> DEFINE m == Head(queue)
  <2>1. m \in Msgs /\ m.type = "UpdateArpTable"
    BY <1>10, HeadTailProperties DEF WorkerUpdateArp
  <2>2. m.ip \in RemoteIps /\ m.mac \in Macs
    BY <2>1, UpdateMsgFields
  <2>3. queue' \in Seq(Msgs)
    BY <1>10, HeadTailProperties DEF WorkerUpdateArp
  <2>4. QED
    BY <1>10, <2>2, <2>3 DEF WorkerUpdateArp, Insert
<1>11. CASE WorkerInc
  BY <1>11 DEF WorkerInc
<1>12. CASE WorkerArpRequest
  <2>1. Head(queue) \in Msgs /\ Tail(queue) \in Seq(Msgs)
    BY <1>12, HeadTailProperties DEF WorkerArpRequest
  <2>2. Head(queue).type = "ArpRequest" => Head(queue).mac \in Macs
    BY <2>1 DEF Msgs, UpdateArpMsgs, ArpRequestMsgs, ShutdownMsg
  <2>3. lastReply' \in {NoReply} \cup [ethDst : Macs \cup {BroadcastMac},
                                       target : Macs]
    BY <1>12, <2>2 DEF WorkerArpRequest, ArpReply
  <2>4. QED
    BY <1>12, <2>1, <2>3 DEF WorkerArpRequest
<1>13. CASE WorkerShutdown
  BY <1>13, HeadTailProperties DEF WorkerShutdown
<1>14. CASE RxArp
  <2>1. Head(rxWire) \in Frames /\ Tail(rxWire) \in Seq(Frames)
    BY <1>14, HeadTailProperties DEF RxArp
  <2>2. RxArpMsgs(Head(rxWire)) \in Seq(Msgs)
    BY <2>1, RxArpMsgsType
  <2>3. queue' \in Seq(Msgs)
    BY <1>14, <2>2, ConcatProperties DEF RxArp
  <2>4. QED
    BY <1>14, <2>1, <2>3 DEF RxArp
<1>15. ASSUME NEW f \in Frames, NetworkDeliver(f) PROVE TypeInv'
  BY <1>15, AppendProperties DEF NetworkDeliver
<1>16. CASE UNCHANGED vars
  BY <1>16 DEF vars, arpVars, appVars
<1>17. QED
  BY <1>1, <1>2, <1>3, <1>4, <1>5, <1>6, <1>7, <1>8, <1>9, <1>10, <1>11,
     <1>12, <1>13, <1>14, <1>15, <1>16
  DEF Next, AppNext, WorkerNext

(* Type correctness of the StackInterface model. *)
THEOREM TypeCorrect == Spec => []TypeOK
<1>1. Spec => []TypeInv
  BY TypeInvInit, TypeInvNext, PTL DEF Spec
<1>2. QED
  BY <1>1, PTL DEF TypeInv

-----------------------------------------------------------------------------
(* HandleCurrentMtu is not inductive by itself: a handle could be current *)
(* only because an older snapshot equals a later version. The barrier    *)
(* never runs ahead of itself: every snapshot is at most the version,     *)
(* and once drop has bumped it every snapshot is strictly older.          *)
MtuInv ==
    /\ \A h \in handles : h.version <= version
    /\ \A h \in handles : h.version = version => h.mtu = mtu
    /\ appPc \in {"joining", "dropped"} => \A h \in handles : h.version < version

LEMMA MtuInvInit == Init => MtuInv
BY DEF Init, MtuInv

LEMMA MtuInvNext == TypeInv /\ MtuInv /\ [Next]_vars => MtuInv'
<1> SUFFICES ASSUME TypeInv, MtuInv, [Next]_vars PROVE MtuInv'
  OBVIOUS
<1>0. \A h \in handles : h.version \in Nat
  BY DEF TypeInv, TypeOK, HandleRecs
<1> USE <1>0, ConstAssumption DEF TypeInv, TypeOK, MtuInv, arpVars, appVars
<1>1. ASSUME NEW n \in Nets, AddIpv4(n) PROVE MtuInv'
  BY <1>1 DEF AddIpv4
<1>2. ASSUME NEW dst \in RemoteIps, NEW gw \in RemoteIps \cup {NoIp},
             Ipv4TxLookup(dst, gw)
      PROVE  MtuInv'
  BY <1>2 DEF Ipv4TxLookup
<1>3. CASE Ipv4TxRequest
  BY <1>3 DEF Ipv4TxRequest
<1>4. CASE Ipv4TxWait
  BY <1>4 DEF Ipv4TxWait
<1>5. CASE Ipv4TxBuild
  (* The new handle snapshots the current version and MTU; the app is in *)
  (* ipv4_tx, so the interface is not being dropped.                     *)
  BY <1>5 DEF Ipv4TxBuild
<1>6. ASSUME NEW m \in Mtus, SetMtu(m) PROVE MtuInv'
  (* The bump leaves every snapshot strictly behind. *)
  BY <1>6 DEF SetMtu
<1>7. CASE DropInterface
  BY <1>7 DEF DropInterface
<1>8. CASE Join
  BY <1>8 DEF Join
<1>9. ASSUME NEW h \in handles, SendInvalid(h) PROVE MtuInv'
  BY <1>9 DEF SendInvalid
<1>10. CASE WorkerUpdateArp
  BY <1>10 DEF WorkerUpdateArp, Insert
<1>11. CASE WorkerInc
  BY <1>11 DEF WorkerInc
<1>12. CASE WorkerArpRequest
  BY <1>12 DEF WorkerArpRequest
<1>13. CASE WorkerShutdown
  BY <1>13 DEF WorkerShutdown
<1>14. CASE RxArp
  BY <1>14 DEF RxArp
<1>15. ASSUME NEW f \in Frames, NetworkDeliver(f) PROVE MtuInv'
  BY <1>15 DEF NetworkDeliver
<1>16. CASE UNCHANGED vars
  BY <1>16 DEF vars
<1>17. QED
  BY <1>1, <1>2, <1>3, <1>4, <1>5, <1>6, <1>7, <1>8, <1>9, <1>10, <1>11,
     <1>12, <1>13, <1>14, <1>15, <1>16
  DEF Next, AppNext, WorkerNext

LEMMA MtuInvImpliesProperty == TypeInv /\ MtuInv => HandleCurrentMtu
<1> SUFFICES ASSUME TypeInv, MtuInv, NEW h \in handles, h.version = version
             PROVE  h.mtu = mtu /\ appPc \notin {"joining", "dropped"}
  BY DEF HandleCurrentMtu
<1>1. h.version \in Nat
  BY DEF TypeInv, TypeOK, HandleRecs
<1>2. QED
  BY <1>1 DEF MtuInv

(* The TxBarrier protocol for set_mtu and drop: every handle that passes *)
(* the version check was built with the interface's current MTU, and none *)
(* passes once the interface has been dropped.                          *)
THEOREM MtuBarrier == Spec => []HandleCurrentMtu
<1>1. Spec => [](TypeInv /\ MtuInv)
  BY TypeInvInit, TypeInvNext, MtuInvInit, MtuInvNext, PTL DEF Spec
<1>2. TypeInv /\ MtuInv => HandleCurrentMtu
  BY MtuInvImpliesProperty
<1>3. QED
  BY <1>1, <1>2, PTL


-----------------------------------------------------------------------------
(* NoLostWakeup is not inductive by itself. While ipv4_tx is between the *)
(* lookup and the end of the wait, either its waiter is still registered *)
(* for an unbound next hop and nothing has been sent to it, or insert has *)
(* drained the waiter and sent the MAC. Outside ipv4_tx no waiter is      *)
(* registered and no MAC is pending.                                      *)
WaitInv ==
    /\ appPc \notin {"request", "wait"} => waiting = NoIp /\ notified = NoMac
    /\ appPc \in {"request", "wait"} =>
          \/ waiting = appDst /\ notified = NoMac /\ arp[appDst] = NoMac
          \/ waiting = NoIp /\ notified # NoMac

LEMMA WaitInvInit == Init => WaitInv
BY DEF Init, WaitInv

(* What an UpdateArpTable does to the waiter of ipv4_tx. *)
LEMMA InsertKeepsWaitInv ==
    ASSUME TypeInv, WaitInv, NEW ip \in RemoteIps, NEW mac \in Macs,
           Insert(ip, mac), UNCHANGED appVars
    PROVE  WaitInv'
<1> USE ConstAssumption DEF TypeInv, TypeOK, AppTypeInv, WaitInv, appVars
<1>1. CASE appPc \in {"request", "wait"} /\ waiting = appDst
  BY <1>1 DEF Insert
<1>2. CASE appPc \in {"request", "wait"} /\ waiting # appDst
  BY <1>2 DEF Insert
<1>3. CASE appPc \notin {"request", "wait"}
  BY <1>3 DEF Insert
<1>4. QED
  BY <1>1, <1>2, <1>3

LEMMA WaitInvNext == TypeInv /\ WaitInv /\ [Next]_vars => WaitInv'
<1> SUFFICES ASSUME TypeInv, WaitInv, [Next]_vars PROVE WaitInv'
  OBVIOUS
<1> USE ConstAssumption DEF TypeInv, TypeOK, AppTypeInv, WaitInv, arpVars, appVars
<1>1. ASSUME NEW n \in Nets, AddIpv4(n) PROVE WaitInv'
  BY <1>1 DEF AddIpv4
<1>2. ASSUME NEW dst \in RemoteIps, NEW gw \in RemoteIps \cup {NoIp},
             Ipv4TxLookup(dst, gw)
      PROVE  WaitInv'
  (* A miss registers the waiter on the unbound next hop. *)
  BY <1>2 DEF Ipv4TxLookup
<1>3. CASE Ipv4TxRequest
  BY <1>3 DEF Ipv4TxRequest
<1>4. CASE Ipv4TxWait
  BY <1>4 DEF Ipv4TxWait
<1>5. CASE Ipv4TxBuild
  BY <1>5 DEF Ipv4TxBuild
<1>6. ASSUME NEW m \in Mtus, SetMtu(m) PROVE WaitInv'
  BY <1>6 DEF SetMtu
<1>7. CASE DropInterface
  BY <1>7 DEF DropInterface
<1>8. CASE Join
  BY <1>8 DEF Join
<1>9. ASSUME NEW h \in handles, SendInvalid(h) PROVE WaitInv'
  BY <1>9 DEF SendInvalid
<1>10. CASE WorkerUpdateArp
  <2>1. Head(queue) \in Msgs /\ Head(queue).type = "UpdateArpTable"
    BY <1>10, HeadTailProperties DEF WorkerUpdateArp
  <2>2. Head(queue).ip \in RemoteIps /\ Head(queue).mac \in Macs
    BY <2>1, UpdateMsgFields
  <2>3. Insert(Head(queue).ip, Head(queue).mac) /\ UNCHANGED appVars
    BY <1>10 DEF WorkerUpdateArp
  <2>4. QED
    BY <2>2, <2>3, InsertKeepsWaitInv
<1>11. CASE WorkerInc
  BY <1>11 DEF WorkerInc
<1>12. CASE WorkerArpRequest
  BY <1>12 DEF WorkerArpRequest
<1>13. CASE WorkerShutdown
  BY <1>13 DEF WorkerShutdown
<1>14. CASE RxArp
  BY <1>14 DEF RxArp
<1>15. ASSUME NEW f \in Frames, NetworkDeliver(f) PROVE WaitInv'
  BY <1>15 DEF NetworkDeliver
<1>16. CASE UNCHANGED vars
  BY <1>16 DEF vars
<1>17. QED
  BY <1>1, <1>2, <1>3, <1>4, <1>5, <1>6, <1>7, <1>8, <1>9, <1>10, <1>11,
     <1>12, <1>13, <1>14, <1>15, <1>16
  DEF Next, AppNext, WorkerNext

(* No lost wake-up in ArpTable::get / insert: while ipv4_tx blocks in     *)
(* rx.recv() for its next hop, a binding of that hop in the table means   *)
(* the MAC is already in the waiter's channel.                            *)
THEOREM NoLostWakeupHolds == Spec => []NoLostWakeup
<1>1. Spec => [](TypeInv /\ WaitInv)
  BY TypeInvInit, TypeInvNext, WaitInvInit, WaitInvNext, PTL DEF Spec
<1>2. TypeInv /\ WaitInv => NoLostWakeup
  BY DEF WaitInv, NoLostWakeup
<1>3. QED
  BY <1>1, <1>2, PTL


-----------------------------------------------------------------------------
(* The barrier's senders and liveness under the refinement mapping. *)
ValidMap == {[dst |-> h.dst, mac |-> h.mac, mtu |-> h.mtu] :
               h \in {g \in handles : g.version = version}}
AliveMap == appPc \notin {"joining", "dropped"}

(* A bump of the version leaves no handle current. *)
LEMMA BumpEmptiesValid ==
    ASSUME TypeInv, MtuInv, version' = version + 1, handles' = handles
    PROVE  ValidMap' = {}
<1>1. \A h \in handles : h.version \in Nat /\ h.version <= version
  BY DEF TypeInv, TypeOK, HandleRecs, MtuInv
<1>2. version \in Nat
  BY DEF TypeInv, TypeOK
<1>3. QED
  BY <1>1, <1>2 DEF ValidMap

(* The initial state maps to TxBarrier's initial state. *)
LEMMA BarrierInit == Init => Barrier!Init
BY DEF Init, Barrier!Init

(* A new handle with the current version adds one sender to the set. *)
LEMMA AddHandleValid ==
    ASSUME NEW r, r.version = version,
           handles' = handles \cup {r}, version' = version
    PROVE  ValidMap' = ValidMap \cup {[dst |-> r.dst, mac |-> r.mac, mtu |-> r.mtu]}
<1>1. {g \in handles' : g.version = version'}
        = {g \in handles : g.version = version} \cup {r}
  OBVIOUS
<1>2. QED
  BY <1>1 DEF ValidMap

(* Every step maps to a TxBarrier step or a stutter: set_mtu to SetMtu,  *)
(* the build of a TxImpl to Create, drop to Drop, the worker's inc to    *)
(* Invalidate, and every other step leaves the senders and MTU alone.    *)
LEMMA BarrierStep ==
    TypeInv /\ MtuInv /\ [Next]_vars => [Barrier!Next]_(Barrier!absVars)
<1> SUFFICES ASSUME TypeInv, MtuInv, [Next]_vars
             PROVE  [Barrier!Next]_(Barrier!absVars)
  OBVIOUS
<1> DEFINE Stutter == UNCHANGED <<mtu, AliveMap, ValidMap>>
<1>0. Stutter => UNCHANGED Barrier!absVars
  BY DEF Barrier!absVars, AliveMap, ValidMap
<1> USE DEF arpVars, appVars
<1>1. ASSUME NEW n \in Nets, AddIpv4(n) PROVE Stutter
  BY <1>1 DEF AddIpv4, AliveMap, ValidMap
<1>2. ASSUME NEW dst \in RemoteIps, NEW gw \in RemoteIps \cup {NoIp},
             Ipv4TxLookup(dst, gw)
      PROVE  Stutter
  BY <1>2 DEF Ipv4TxLookup, AliveMap, ValidMap
<1>3. Ipv4TxRequest => Stutter
  BY DEF Ipv4TxRequest, AliveMap, ValidMap
<1>4. Ipv4TxWait => Stutter
  BY DEF Ipv4TxWait, AliveMap, ValidMap
<1>5. ASSUME Ipv4TxBuild PROVE Barrier!Next
  (* The new handle is a sender with the current MTU. *)
  <2> DEFINE r == [dst |-> appDst, mac |-> appMac, version |-> version,
                   mtu |-> mtu]
  <2>1. appDst \in RemoteIps /\ appMac \in Macs
    BY <1>5 DEF Ipv4TxBuild, TypeInv, AppTypeInv
  <2>2. ValidMap' = ValidMap \cup {[dst |-> appDst, mac |-> appMac, mtu |-> mtu]}
    <3>1. r.version = version /\ handles' = handles \cup {r} /\ version' = version
      BY <1>5 DEF Ipv4TxBuild
    <3>2. [dst |-> r.dst, mac |-> r.mac, mtu |-> r.mtu]
            = [dst |-> appDst, mac |-> appMac, mtu |-> mtu]
      OBVIOUS
    <3>3. QED
      BY <3>1, <3>2, AddHandleValid
  <2>3. AliveMap /\ UNCHANGED AliveMap /\ UNCHANGED mtu
    BY <1>5 DEF Ipv4TxBuild, AliveMap
  <2>4. \E d \in RemoteIps, c \in Macs : Barrier!Create(d, c)
    BY <2>1, <2>2, <2>3, Zenon DEF Barrier!Create, AliveMap, ValidMap
  <2>5. QED
    BY <2>4 DEF Barrier!Next
<1>6. ASSUME NEW m \in Mtus, SetMtu(m) PROVE Barrier!Next
  <2>1. ValidMap' = {}
    BY <1>6, BumpEmptiesValid DEF SetMtu
  <2>2. AliveMap /\ UNCHANGED AliveMap /\ mtu' = m
    BY <1>6 DEF SetMtu, AliveMap
  <2>3. Barrier!SetMtu(m)
    BY <2>1, <2>2 DEF Barrier!SetMtu, AliveMap, ValidMap
  <2>4. QED
    BY <2>3 DEF Barrier!Next
<1>7. ASSUME DropInterface PROVE Barrier!Next
  <2>1. ValidMap' = {}
    BY <1>7, BumpEmptiesValid DEF DropInterface
  <2>2. AliveMap /\ ~AliveMap' /\ UNCHANGED mtu
    BY <1>7 DEF DropInterface, AliveMap
  <2>3. Barrier!Drop
    BY <2>1, <2>2 DEF Barrier!Drop, AliveMap, ValidMap
  <2>4. QED
    BY <2>3 DEF Barrier!Next
<1>8. Join => Stutter
  BY DEF Join, AliveMap, ValidMap
<1>9. ASSUME NEW h \in handles, SendInvalid(h) PROVE Stutter
  (* Only a stale handle is discarded. *)
  <2>1. {g \in handles' : g.version = version'}
          = {g \in handles : g.version = version}
    BY <1>9 DEF SendInvalid
  <2>2. QED
    BY <1>9, <2>1 DEF SendInvalid, AliveMap, ValidMap
<1>10. WorkerUpdateArp => Stutter
  BY DEF WorkerUpdateArp, AliveMap, ValidMap
<1>11. ASSUME WorkerInc PROVE Barrier!Next
  <2>1. ValidMap' = {}
    BY <1>11, BumpEmptiesValid DEF WorkerInc
  <2>2. UNCHANGED <<mtu, AliveMap>>
    BY <1>11 DEF WorkerInc, AliveMap
  <2>3. Barrier!Invalidate
    BY <2>1, <2>2 DEF Barrier!Invalidate, AliveMap, ValidMap
  <2>4. QED
    BY <2>3 DEF Barrier!Next
<1>12. WorkerArpRequest => Stutter
  BY DEF WorkerArpRequest, AliveMap, ValidMap
<1>13. WorkerShutdown => Stutter
  BY DEF WorkerShutdown, AliveMap, ValidMap
<1>14. RxArp => Stutter
  BY DEF RxArp, AliveMap, ValidMap
<1>15. ASSUME NEW f \in Frames, NetworkDeliver(f) PROVE Stutter
  BY <1>15 DEF NetworkDeliver, AliveMap, ValidMap
<1>16. UNCHANGED vars => Stutter
  BY DEF vars, AliveMap, ValidMap
<1>17. QED
  BY <1>0, <1>1, <1>2, <1>3, <1>4, <1>5, <1>6, <1>7, <1>8, <1>9, <1>10,
     <1>11, <1>12, <1>13, <1>14, <1>15, <1>16
  DEF Next, AppNext, WorkerNext

(* The version protocol of TxImpl and TxBarrier implements the barrier of *)
(* spec 4.8: sets of senders invalidated by set_mtu, ARP changes and drop. *)
THEOREM BarrierRefinement == Spec => BarrierSpec
<1>1. Spec => [](TypeInv /\ MtuInv)
  BY TypeInvInit, TypeInvNext, MtuInvInit, MtuInvNext, PTL DEF Spec
<1>2. QED
  BY <1>1, BarrierInit, BarrierStep, PTL DEF Spec, BarrierSpec, Barrier!Spec


-----------------------------------------------------------------------------
(* WorkerOutlivesInterface is not inductive by itself: the worker quits   *)
(* on a Shutdown at the head of its queue, so the queue must hold one     *)
(* only after drop has begun.                                             *)
ShutdownQueued == \E k \in 1 .. Len(queue) : queue[k].type = "Shutdown"

DropBegun == appPc \in {"joining", "dropped"}

LifeInv ==
    /\ ShutdownQueued => DropBegun
    /\ WorkerOutlivesInterface

(* ArpRx never puts a Shutdown on the worker queue. *)
LEMMA RxArpMsgsNoShutdown ==
    ASSUME NEW f \in Frames
    PROVE  \A k \in 1 .. Len(RxArpMsgs(f)) : RxArpMsgs(f)[k].type # "Shutdown"
BY DEF RxArpMsgs

LEMMA LifeInvInit == Init => LifeInv
BY DEF Init, LifeInv, ShutdownQueued, WorkerOutlivesInterface

LEMMA LifeInvNext == TypeInv /\ LifeInv /\ [Next]_vars => LifeInv'
<1> SUFFICES ASSUME TypeInv, LifeInv, [Next]_vars PROVE LifeInv'
  OBVIOUS
<1> USE DEF TypeInv, TypeOK, arpVars, appVars
(* Steps that leave queue, workerPc and appPc alone. *)
<1>1. UNCHANGED <<queue, workerPc, appPc>> => LifeInv'
  BY DEF LifeInv, ShutdownQueued, DropBegun, WorkerOutlivesInterface
(* ipv4_tx, add_ipv4 and set_mtu run only before drop, so no Shutdown is *)
(* queued and the worker is running, and they touch neither.            *)
<1>2. ASSUME ~DropBegun, UNCHANGED <<queue, workerPc>> PROVE LifeInv'
  <2>1. ~ShutdownQueued /\ workerPc # "done"
    BY <1>2 DEF LifeInv, WorkerOutlivesInterface, DropBegun
  <2>2. QED
    BY <1>2, <2>1 DEF LifeInv, ShutdownQueued, WorkerOutlivesInterface
<1>3. ASSUME NEW n \in Nets, AddIpv4(n) PROVE LifeInv'
  BY <1>2, <1>3 DEF AddIpv4, DropBegun
<1>4. ASSUME NEW dst \in RemoteIps, NEW gw \in RemoteIps \cup {NoIp},
             Ipv4TxLookup(dst, gw)
      PROVE  LifeInv'
  <2>1. ~DropBegun /\ UNCHANGED <<queue, workerPc>>
    BY <1>4 DEF Ipv4TxLookup, DropBegun
  <2>2. QED
    BY <1>2, <2>1
<1>5. Ipv4TxRequest => LifeInv'
  BY <1>2 DEF Ipv4TxRequest, DropBegun
<1>6. Ipv4TxWait => LifeInv'
  BY <1>2 DEF Ipv4TxWait, DropBegun
<1>7. Ipv4TxBuild => LifeInv'
  BY <1>2 DEF Ipv4TxBuild, DropBegun
<1>8. ASSUME NEW m \in Mtus, SetMtu(m) PROVE LifeInv'
  BY <1>1, <1>8 DEF SetMtu
<1>9. DropInterface => LifeInv'
  BY DEF DropInterface, LifeInv, DropBegun, WorkerOutlivesInterface
<1>10. Join => LifeInv'
  BY DEF Join, LifeInv, DropBegun, WorkerOutlivesInterface
<1>11. ASSUME NEW h \in handles, SendInvalid(h) PROVE LifeInv'
  BY <1>1, <1>11 DEF SendInvalid
(* Popping a message keeps every later one: a Shutdown behind it was    *)
(* already queued.                                                       *)
<1>12. ASSUME queue # <<>>, queue' = Tail(queue), UNCHANGED appPc,
              workerPc' # "done"
       PROVE  LifeInv'
  <2>1. ShutdownQueued' => ShutdownQueued
    BY <1>12, HeadTailProperties DEF ShutdownQueued
  <2>2. QED
    BY <1>12, <2>1 DEF LifeInv, DropBegun, WorkerOutlivesInterface
<1>13. WorkerUpdateArp => LifeInv'
  BY <1>12 DEF WorkerUpdateArp
<1>14. WorkerInc => LifeInv'
  BY DEF WorkerInc, LifeInv, ShutdownQueued, DropBegun, WorkerOutlivesInterface
<1>15. WorkerArpRequest => LifeInv'
  BY <1>12 DEF WorkerArpRequest
(* The worker quits on the Shutdown at the head of its queue. *)
<1>16. WorkerShutdown => LifeInv'
  <2> SUFFICES ASSUME WorkerShutdown PROVE LifeInv'
    OBVIOUS
  <2>1. ShutdownQueued
    BY DEF WorkerShutdown, ShutdownQueued
  <2>2. DropBegun /\ DropBegun'
    BY <2>1 DEF LifeInv, WorkerShutdown, DropBegun
  <2>3. QED
    BY <2>2 DEF LifeInv, WorkerOutlivesInterface, DropBegun
(* ArpRx appends only UpdateArpTable and ArpRequest messages. *)
<1>17. RxArp => LifeInv'
  <2> SUFFICES ASSUME RxArp PROVE LifeInv'
    OBVIOUS
  <2>1. CASE workerPc = "done"
    BY <1>1, <2>1 DEF RxArp
  <2>2. CASE workerPc # "done"
    <3> DEFINE f == Head(rxWire)
    <3>1. f \in Frames
      BY HeadTailProperties DEF RxArp
    <3>2. RxArpMsgs(f) \in Seq(Msgs)
      BY <3>1, RxArpMsgsType
    <3>3. queue' = queue \o RxArpMsgs(f)
      BY <2>2 DEF RxArp
    <3>4. ShutdownQueued' => ShutdownQueued
      <4> SUFFICES ASSUME NEW k \in 1 .. Len(queue'), queue'[k].type = "Shutdown"
                   PROVE  ShutdownQueued
        BY DEF ShutdownQueued
      <4>1. /\ Len(queue') = Len(queue) + Len(RxArpMsgs(f))
            /\ queue'[k] = IF k <= Len(queue) THEN queue[k]
                           ELSE RxArpMsgs(f)[k - Len(queue)]
        BY <3>2, <3>3, ConcatProperties
      <4>2. CASE k <= Len(queue)
        BY <4>1, <4>2 DEF ShutdownQueued
      <4>3. CASE ~(k <= Len(queue))
        <5>1. k - Len(queue) \in 1 .. Len(RxArpMsgs(f))
          BY <4>1, <4>3, <3>2
        <5>2. QED
          BY <4>1, <4>3, <5>1, <3>1, RxArpMsgsNoShutdown
      <4>4. QED
        BY <4>2, <4>3
    <3>5. QED
      BY <2>2, <3>4 DEF RxArp, LifeInv, DropBegun, WorkerOutlivesInterface
  <2>3. QED
    BY <2>1, <2>2
<1>18. ASSUME NEW f \in Frames, NetworkDeliver(f) PROVE LifeInv'
  BY <1>1, <1>18 DEF NetworkDeliver
<1>19. UNCHANGED vars => LifeInv'
  BY <1>1 DEF vars
<1>20. QED
  BY <1>3, <1>4, <1>5, <1>6, <1>7, <1>8, <1>9, <1>10, <1>11, <1>13, <1>14,
     <1>15, <1>16, <1>17, <1>18, <1>19
  DEF Next, AppNext, WorkerNext

(* The interface worker thread quits only after the StackInterface began  *)
(* to drop, for all values of the constants: run's loop breaks only on   *)
(* Shutdown, and only Drop for StackInterfaceThreadHandle sends it.      *)
THEOREM WorkerOutlivesInterfaceHolds == Spec => []WorkerOutlivesInterface
<1>1. Spec => [](TypeInv /\ LifeInv)
  BY TypeInvInit, TypeInvNext, LifeInvInit, LifeInvNext, PTL DEF Spec
<1>2. QED
  BY <1>1, PTL DEF LifeInv

=============================================================================
