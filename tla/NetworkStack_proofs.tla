------------------------- MODULE NetworkStack_proofs -------------------------
(***************************************************************************)
(* Proofs, for all values of the constants, that the NetworkStack model    *)
(* stays well typed (TypeOK) and that a route add_ipv4 installed never     *)
(* makes ipv4_tx fail with IllegalArgument (AddedRoutesUsable).           *)
(***************************************************************************)
EXTENDS NetworkStack, TLAPS

(* While get_random_port samples, the app holds the udp_listeners mutex  *)
(* of a local address of an interface; UdpSampleFree indexes udp by it.  *)
SampleInv == appPc = "sampling" => lockOn \in Ifaces \X LocalIps

TypeInv == TypeOK /\ SampleInv

(* Every route add_ipv4 installed is direct (no gateway), on a known     *)
(* interface, and its network is the local network of an address that    *)
(* interface holds: add_route runs after the interface accepted it, and  *)
(* a held address's network is never replaced (duplicates are refused). *)
RouteInv ==
    \A r \in routes :
       r.origin = "add_ipv4" =>
          /\ r.gw = NoIp
          /\ r.iface \in ifaces
          /\ \E ip \in addrs[r.iface] : nets[r.iface][ip] = r.net

-----------------------------------------------------------------------------
LEMMA TypeInvInit == Init => TypeInv
BY NetAssumption DEF Init, TypeInv, TypeOK, SampleInv, NoLock, NoTx

LEMMA TypeInvNext == TypeInv /\ [Next]_vars => TypeInv'
<1> SUFFICES ASSUME TypeInv, [Next]_vars PROVE TypeInv'
  OBVIOUS
<1> USE NetAssumption DEF TypeInv, TypeOK, SampleInv
<1>1. ASSUME NEW i \in Ifaces, AddInterface(i) PROVE TypeInv'
  BY <1>1 DEF AddInterface
<1>2. ASSUME NEW i \in Ifaces, NEW n \in Nets, AddIpv4(i, n) PROVE TypeInv'
  <2>1. n.ip \in LocalIps /\ n.hosts \subseteq Addrs
    OBVIOUS
  <2>2. routes' \subseteq Routes
    BY <1>2, <2>1 DEF AddIpv4, Routes
  <2>3. QED
    BY <1>2, <2>1, <2>2 DEF AddIpv4
<1>3. ASSUME NEW r \in UserRoutes, AddRoute(r) PROVE TypeInv'
  BY <1>3 DEF AddRoute, Routes
<1>4. ASSUME NEW dst \in Addrs, Ipv4Tx(dst) PROVE TypeInv'
  <2>1. \A r \in BestRoutes(dst) : Ipv4TxResult(dst, r) \in TxResults
    BY DEF Ipv4TxResult, TxResults
  <2>2. BestRoutes(dst) \subseteq Routes
    BY DEF BestRoutes
  <2>3. QED
    BY <1>4, <2>1, <2>2 DEF Ipv4Tx, TxResults
<1>5. ASSUME NEW ip \in LocalIps, IcmpListen(ip) PROVE TypeInv'
  BY <1>5 DEF IcmpListen
<1>6. ASSUME NEW i \in Ifaces, NEW ip \in LocalIps, NEW port \in Ports \cup {0},
             UdpListen(i, ip, port)
      PROVE  TypeInv'
  <2>1. CASE port = 0
    BY <1>6, <2>1 DEF UdpListen
  <2>2. CASE port # 0
    <3>1. /\ port \in Ports /\ i \in Ifaces /\ ip \in LocalIps
          /\ udp' = [udp EXCEPT ![i][ip] = @ \cup {port}]
          /\ listenRes' = Bound(i, ip, port)
          /\ UNCHANGED <<ifaces, addrs, nets, routes, icmp, lastTx, appPc, lockOn>>
      BY <1>6, <2>2 DEF UdpListen
    <3>2. udp' \in [Ifaces -> [LocalIps -> SUBSET (Ports \cup EphemeralPorts)]]
      BY <3>1
    <3>3. listenRes' \in [iface : Ifaces, ip : LocalIps, port : Ports \cup EphemeralPorts]
      BY <3>1 DEF Bound
    <3>4. QED
      BY <3>1, <3>2, <3>3
  <2>3. QED
    BY <2>1, <2>2
<1>7. CASE UdpSampleFree
  <2>1. lockOn \in Ifaces \X LocalIps
    BY <1>7 DEF UdpSampleFree
  <2>2. PICK n \in EphemeralPorts \ udp[lockOn[1]][lockOn[2]] :
          /\ udp' = [udp EXCEPT ![lockOn[1]][lockOn[2]] = @ \cup {n}]
          /\ listenRes' = Bound(lockOn[1], lockOn[2], n)
    BY <1>7 DEF UdpSampleFree
  <2>3. udp' \in [Ifaces -> [LocalIps -> SUBSET (Ports \cup EphemeralPorts)]]
    BY <2>1, <2>2
  <2>4. listenRes' \in [iface : Ifaces, ip : LocalIps, port : Ports \cup EphemeralPorts]
    BY <2>1, <2>2 DEF Bound
  <2>5. QED
    BY <1>7, <2>3, <2>4 DEF UdpSampleFree, NoLock
<1>8. CASE UdpSampleTaken
  BY <1>8 DEF UdpSampleTaken, vars
<1>9. CASE UNCHANGED vars
  BY <1>9 DEF vars
<1>10. QED
  BY <1>1, <1>2, <1>3, <1>4, <1>5, <1>6, <1>7, <1>8, <1>9 DEF Next

(* Every reachable state of the NetworkStack model is well typed: bound   *)
(* UDP ports are requested ones or lie in [start, end), ICMP counts stay  *)
(* bounded and every route ipv4_tx reports is a route of the table.       *)
THEOREM TypeCorrect == Spec => []TypeOK
<1>1. Spec => []TypeInv
  BY TypeInvInit, TypeInvNext, PTL DEF Spec
<1>2. QED
  BY <1>1, PTL DEF TypeInv


-----------------------------------------------------------------------------
(* The invariant behind AddedRoutesUsable: the type, the shape of the    *)
(* routes add_ipv4 installed, and the property itself for lastTx.        *)
IInv == TypeInv /\ RouteInv /\ AddedRoutesUsable

LEMMA IInvInit == Init => IInv
BY TypeInvInit DEF Init, IInv, RouteInv, AddedRoutesUsable, NoTx

(* ipv4_tx along a route add_ipv4 installed finds a source address: the *)
(* destination lies in the route's network, which is the local network  *)
(* of an address the interface holds.                                    *)
LEMMA AddedRouteOk ==
    ASSUME TypeInv, RouteInv, NEW dst \in Addrs, NEW r \in BestRoutes(dst),
           r.origin = "add_ipv4"
    PROVE  Ipv4TxResult(dst, r) = "Ok"
<1>1. r \in routes /\ dst \in r.net
  BY DEF BestRoutes
<1>2. /\ r.gw = NoIp
      /\ r.iface \in ifaces
      /\ \E ip \in addrs[r.iface] : nets[r.iface][ip] = r.net
  BY <1>1 DEF RouteInv
<1>3. ClosestLocalIps(r.iface, dst) # {}
  BY <1>1, <1>2 DEF ClosestLocalIps
<1>4. QED
  BY <1>2, <1>3 DEF Ipv4TxResult

LEMMA IInvNext == IInv /\ [Next]_vars => IInv'
<1> SUFFICES ASSUME IInv, [Next]_vars PROVE IInv'
  OBVIOUS
<1>0. TypeInv'
  BY TypeInvNext DEF IInv
<1> USE DEF IInv
<1>1. ASSUME NEW i \in Ifaces, AddInterface(i) PROVE RouteInv' /\ AddedRoutesUsable'
  BY <1>1 DEF AddInterface, RouteInv, AddedRoutesUsable
<1>2. ASSUME NEW i \in Ifaces, NEW n \in Nets, AddIpv4(i, n)
      PROVE  RouteInv' /\ AddedRoutesUsable'
  (* The new address keeps its network; held addresses keep theirs.    *)
  <2>1. n.ip \in LocalIps
    BY NetAssumption
  <2>2. \A j \in Ifaces : \A ip \in addrs[j] : nets'[j][ip] = nets[j][ip]
    BY <1>2, <2>1 DEF AddIpv4, TypeInv, TypeOK
  <2>3. \A j \in Ifaces : addrs[j] \subseteq addrs'[j]
    BY <1>2 DEF AddIpv4, TypeInv, TypeOK
  <2>4. n.ip \in addrs'[i] /\ nets'[i][n.ip] = n.hosts
    BY <1>2, <2>1 DEF AddIpv4, TypeInv, TypeOK
  <2>5. RouteInv'
    <3> SUFFICES ASSUME NEW r \in routes', r.origin = "add_ipv4"
                 PROVE  /\ r.gw = NoIp
                        /\ r.iface \in ifaces'
                        /\ \E ip \in addrs'[r.iface] : nets'[r.iface][ip] = r.net
      BY DEF RouteInv
    <3>1. CASE r \in routes
      <4>1. r.iface \in Ifaces
        BY <3>1 DEF TypeInv, TypeOK, Routes
      <4>2. QED
        BY <3>1, <4>1, <2>2, <2>3, <1>2 DEF RouteInv, AddIpv4
    <3>2. CASE r = [net |-> n.hosts, gw |-> NoIp, iface |-> i, origin |-> "add_ipv4"]
      BY <3>2, <2>4, <1>2 DEF AddIpv4
    <3>3. QED
      BY <3>1, <3>2, <1>2 DEF AddIpv4
  <2>6. QED
    BY <2>5, <1>2 DEF AddIpv4, AddedRoutesUsable
<1>3. ASSUME NEW r \in UserRoutes, AddRoute(r) PROVE RouteInv' /\ AddedRoutesUsable'
  BY <1>3 DEF AddRoute, RouteInv, AddedRoutesUsable
<1>4. ASSUME NEW dst \in Addrs, Ipv4Tx(dst) PROVE RouteInv' /\ AddedRoutesUsable'
  <2>1. RouteInv'
    BY <1>4 DEF Ipv4Tx, RouteInv
  <2>2. CASE BestRoutes(dst) = {} /\ lastTx' = [dst |-> dst, res |-> "NoRouteToHost"]
    BY <2>1, <2>2 DEF AddedRoutesUsable
  <2>3. ASSUME NEW r \in BestRoutes(dst),
               lastTx' = [dst |-> dst, res |-> Ipv4TxResult(dst, r), route |-> r]
        PROVE  AddedRoutesUsable'
    <3>1. CASE r.origin = "add_ipv4"
      BY <2>3, <3>1, AddedRouteOk DEF AddedRoutesUsable
    <3>2. CASE r.origin # "add_ipv4"
      <4>1. r.origin \in {"add_ipv4", "user"}
        BY DEF BestRoutes, TypeInv, TypeOK, Routes
      <4>2. QED
        BY <2>3, <3>2, <4>1 DEF AddedRoutesUsable
    <3>3. QED
      BY <3>1, <3>2
  <2>4. QED
    BY <1>4, <2>1, <2>2, <2>3 DEF Ipv4Tx
<1>5. ASSUME NEW ip \in LocalIps, IcmpListen(ip) PROVE RouteInv' /\ AddedRoutesUsable'
  BY <1>5 DEF IcmpListen, RouteInv, AddedRoutesUsable
<1>6. ASSUME NEW i \in Ifaces, NEW ip \in LocalIps, NEW port \in Ports \cup {0},
             UdpListen(i, ip, port)
      PROVE  RouteInv' /\ AddedRoutesUsable'
  BY <1>6 DEF UdpListen, RouteInv, AddedRoutesUsable
<1>7. UdpSampleFree => RouteInv' /\ AddedRoutesUsable'
  BY DEF UdpSampleFree, RouteInv, AddedRoutesUsable
<1>8. UdpSampleTaken => RouteInv' /\ AddedRoutesUsable'
  BY DEF UdpSampleTaken, vars, RouteInv, AddedRoutesUsable
<1>9. UNCHANGED vars => RouteInv' /\ AddedRoutesUsable'
  BY DEF vars, RouteInv, AddedRoutesUsable
<1>10. QED
  BY <1>0, <1>1, <1>2, <1>3, <1>4, <1>5, <1>6, <1>7, <1>8, <1>9 DEF Next

(* A route that add_ipv4 installed never makes ipv4_tx fail with          *)
(* IllegalArgument, for all values of the constants: NetworkStack::add_ipv4 *)
(* adds the route only after the interface accepted the address and its   *)
(* network, and the interface never replaces a held address's network.    *)
THEOREM AddedRoutesUsableHolds == Spec => []AddedRoutesUsable
<1>1. Spec => []IInv
  BY IInvInit, IInvNext, PTL DEF Spec
<1>2. QED
  BY <1>1, PTL DEF IInv

-----------------------------------------------------------------------------
(* The invariant behind the refinement of UdpBinding: an interface not     *)
(* yet added holds no address, and while get_random_port samples, the     *)
(* mutex it holds belongs to an address an interface of the stack holds.  *)
HoldInv ==
    /\ \A i \in Ifaces \ ifaces : addrs[i] = {}
    /\ appPc = "sampling" => lockOn[1] \in ifaces /\ lockOn[2] \in addrs[lockOn[1]]

LEMMA HoldInvInit == Init => HoldInv
BY DEF Init, HoldInv

LEMMA HoldInvNext == TypeInv /\ HoldInv /\ [Next]_vars => HoldInv'
<1> SUFFICES ASSUME TypeInv, HoldInv, [Next]_vars PROVE HoldInv'
  OBVIOUS
<1> USE DEF TypeInv, TypeOK, HoldInv
<1>1. ASSUME NEW i \in Ifaces, AddInterface(i) PROVE HoldInv'
  BY <1>1 DEF AddInterface
<1>2. ASSUME NEW i \in Ifaces, NEW n \in Nets, AddIpv4(i, n) PROVE HoldInv'
  BY <1>2 DEF AddIpv4
<1>3. ASSUME NEW r \in UserRoutes, AddRoute(r) PROVE HoldInv'
  BY <1>3 DEF AddRoute
<1>4. ASSUME NEW dst \in Addrs, Ipv4Tx(dst) PROVE HoldInv'
  BY <1>4 DEF Ipv4Tx
<1>5. ASSUME NEW ip \in LocalIps, IcmpListen(ip) PROVE HoldInv'
  BY <1>5 DEF IcmpListen
<1>6. ASSUME NEW i \in Ifaces, NEW ip \in LocalIps, NEW port \in Ports \cup {0},
             UdpListen(i, ip, port)
      PROVE  HoldInv'
  BY <1>6 DEF UdpListen
<1>7. CASE UdpSampleFree
  BY <1>7 DEF UdpSampleFree
<1>8. CASE UdpSampleTaken \/ UNCHANGED vars
  BY <1>8 DEF UdpSampleTaken, vars
<1>9. QED
  BY <1>1, <1>2, <1>3, <1>4, <1>5, <1>6, <1>7, <1>8 DEF Next

(* The initial state maps to UdpBinding's initial state. *)
LEMMA UdpInit == Init => Udp!Init
BY DEF Init, Udp!Init, Held, Udp!NoResult, NoListen

(* add_ipv4 makes the interface hold one more address. *)
LEMMA AddIpv4Held ==
    ASSUME NEW i \in Ifaces, NEW n \in Nets, TypeInv, AddIpv4(i, n)
    PROVE  Held' = Held \cup {<<i, n.ip>>}
BY DEF AddIpv4, Held, TypeInv, TypeOK

(* Every step maps to a UdpBinding step or a stutter: add_ipv4 to Hold,   *)
(* udp_listen with a port and the free sample of get_random_port to      *)
(* Listen; entering and repeating the sampling loop, and every other      *)
(* call, leave the held addresses, the bound ports and the result alone. *)
LEMMA UdpStep ==
    TypeInv /\ HoldInv /\ [Next]_vars => [Udp!Next]_(Udp!absVars)
<1> SUFFICES ASSUME TypeInv, HoldInv, [Next]_vars
             PROVE  [Udp!Next]_(Udp!absVars)
  OBVIOUS
<1> DEFINE Stutter == UNCHANGED <<Held, udp, listenRes>>
<1>0. Stutter => UNCHANGED Udp!absVars
  BY DEF Udp!absVars
<1>1. ASSUME NEW i \in Ifaces, AddInterface(i) PROVE Stutter
  (* A new interface holds no address yet. *)
  <2>1. addrs[i] = {}
    BY <1>1 DEF AddInterface, HoldInv
  <2>2. QED
    BY <1>1, <2>1 DEF AddInterface, Held
<1>2. ASSUME NEW i \in Ifaces, NEW n \in Nets, AddIpv4(i, n) PROVE Udp!Next
  <2>1. n.ip \in LocalIps
    BY NetAssumption
  <2>2. Held' = Held \cup {<<i, n.ip>>} /\ UNCHANGED <<udp, listenRes>>
    BY <1>2, AddIpv4Held DEF AddIpv4
  <2>3. Udp!Hold(i, n.ip)
    BY <2>2 DEF Udp!Hold
  <2>4. QED
    BY <2>1, <2>3, Zenon DEF Udp!Next
<1>3. ASSUME NEW r \in UserRoutes, AddRoute(r) PROVE Stutter
  BY <1>3 DEF AddRoute, Held
<1>4. ASSUME NEW dst \in Addrs, Ipv4Tx(dst) PROVE Stutter
  BY <1>4 DEF Ipv4Tx, Held
<1>5. ASSUME NEW ip \in LocalIps, IcmpListen(ip) PROVE Stutter
  BY <1>5 DEF IcmpListen, Held
<1>6. ASSUME NEW i \in Ifaces, NEW ip \in LocalIps, NEW port \in Ports \cup {0},
             UdpListen(i, ip, port)
      PROVE  [Udp!Next]_(Udp!absVars)
  <2>1. CASE port = 0
    <3>1. Stutter
      BY <1>6, <2>1 DEF UdpListen, Held
    <3>2. QED
      BY <3>1, <1>0
  <2>2. CASE port # 0
    <3>1. /\ <<i, ip>> \in Held
          /\ port \in {port} \ udp[i][ip]
          /\ udp' = [udp EXCEPT ![i][ip] = @ \cup {port}]
          /\ listenRes' = [iface |-> i, ip |-> ip, port |-> port]
          /\ Held' = Held
      BY <1>6, <2>2 DEF UdpListen, Held, Bound
    <3>2. Udp!Listen(i, ip, port)
      BY <2>2, <3>1, Zenon DEF Udp!Listen
    <3>3. QED
      BY <3>2, Zenon DEF Udp!Next
  <2>3. QED
    BY <2>1, <2>2
<1>7. ASSUME UdpSampleFree PROVE Udp!Next
  (* The sample that ends get_random_port's loop is the atomic bind. *)
  <2> DEFINE i == lockOn[1]
             ip == lockOn[2]
  <2>1. i \in Ifaces /\ ip \in LocalIps
    BY <1>7 DEF UdpSampleFree, TypeInv, SampleInv
  <2>2. <<i, ip>> \in Held /\ Held' = Held
    BY <1>7 DEF UdpSampleFree, HoldInv, Held
  <2>3. PICK n \in EphemeralPorts \ udp[i][ip] :
          /\ udp' = [udp EXCEPT ![i][ip] = @ \cup {n}]
          /\ listenRes' = Bound(i, ip, n)
    BY <1>7 DEF UdpSampleFree
  <2>4. n \in (IF 0 = 0 THEN Udp!Ephemeral ELSE {0}) \ udp[i][ip]
    BY <2>3 DEF Udp!Ephemeral, EphemeralPorts
  <2>5. Udp!Listen(i, ip, 0)
    BY <2>2, <2>3, <2>4, Zenon DEF Udp!Listen, Bound
  <2>6. 0 \in Ports \cup {0}
    OBVIOUS
  <2>7. QED
    BY <2>1, <2>5, <2>6, Zenon DEF Udp!Next
<1>8. UdpSampleTaken \/ UNCHANGED vars => Stutter
  BY DEF UdpSampleTaken, vars, Held
<1>9. QED
  BY <1>0, <1>1, <1>2, <1>3, <1>4, <1>5, <1>6, <1>7, <1>8 DEF Next

(* NetworkStack's udp_listen implements UdpBinding, for all values of the *)
(* constants: the port get_random_port finds while it holds the address's *)
(* udp_listeners mutex is bound as in one atomic step, every SocketAddr   *)
(* udp_listen returns names a port no listener there held before, and a  *)
(* port-0 request gets one of [LOCAL_PORT_RANGE_START, LOCAL_PORT_RANGE_END). *)
THEOREM UdpRefinement == Spec => UdpSpec
<1>1. Spec => [](TypeInv /\ HoldInv)
  BY TypeInvInit, TypeInvNext, HoldInvInit, HoldInvNext, PTL DEF Spec
<1>2. QED
  BY <1>1, UdpInit, UdpStep, PTL DEF Spec, UdpSpec, Udp!Spec

=============================================================================
