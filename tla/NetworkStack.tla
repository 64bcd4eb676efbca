---------------------------- MODULE NetworkStack ----------------------------
(***************************************************************************)
(* The NetworkStack of rips (src/src/stack.rs): its interfaces, the local *)
(* networks bound with add_ipv4, the routing table, the choice of route   *)
(* and source address in ipv4_tx, and the UDP and ICMP listener maps that *)
(* udp_listen and icmp_listen fill. Resolving the next hop's MAC inside   *)
(* ipv4_tx is the StackInterface module's business; here a routed call    *)
(* with a source address ends in "Ok".                                    *)
(*                                                                         *)
(* The application thread holds &mut NetworkStack, so calls are atomic    *)
(* except udp_listen with port 0: get_random_port loops while holding     *)
(* the udp_listeners mutex of the local address, and the receive thread   *)
(* dispatching UDP to that address waits for the same mutex.             *)
(***************************************************************************)
EXTENDS Naturals, FiniteSets

CONSTANTS
    Ifaces,          \* Interface values add_interface may be called with
    LocalIps,        \* addresses add_ipv4 may bind
    Addrs,           \* every IPv4 address of the model (LocalIps among them)
    Nets,            \* Ipv4Network arguments of add_ipv4: [ip, hosts]
    UserRoutes,      \* routes the user adds through routing_table()
    Ports,           \* non-zero ports udp_listen may be asked for
    LocalPortStart,  \* LOCAL_PORT_RANGE_START
    LocalPortEnd,    \* LOCAL_PORT_RANGE_END (excluded)
    NoIp,            \* gateway None
    MaxIcmp          \* bound: ICMP listeners per local address

ASSUME NetAssumption ==
    /\ LocalIps \subseteq Addrs
    /\ NoIp \notin Addrs
    /\ Nets \subseteq [ip : LocalIps, hosts : SUBSET Addrs]
    /\ \A n \in Nets : n.ip \in n.hosts
    /\ UserRoutes \subseteq [net : SUBSET Addrs, gw : Addrs \cup {NoIp},
                             iface : Ifaces]
    /\ Ports \subseteq Nat \ {0}
    /\ LocalPortStart \in Nat \ {0}
    /\ LocalPortEnd \in Nat
    /\ LocalPortStart < LocalPortEnd
    /\ MaxIcmp \in Nat

(* RoutingTable::route results: the route taken and where it came from. *)
Routes == [net : SUBSET Addrs, gw : Addrs \cup {NoIp}, iface : Ifaces,
           origin : {"add_ipv4", "user"}]

VARIABLES
    ifaces,     \* keys of NetworkStack.interfaces
    addrs,      \* per interface: keys of ipv4_datas
    nets,       \* per interface and local address: hosts of Ipv4Data.net
    routes,     \* RoutingTable entries
    udp,        \* per interface and local address: bound UDP ports
    icmp,       \* per interface and local address: ICMP listeners
    appPc,      \* "idle" | "sampling" (inside get_random_port)
    lockOn,     \* <<iface, ip>> whose udp_listeners mutex the app holds
    lastTx,     \* outcome of the latest ipv4_tx
    listenRes   \* SocketAddr the latest successful udp_listen returned

vars == <<ifaces, addrs, nets, routes, udp, icmp, appPc, lockOn, lastTx,
          listenRes>>

NoLock == <<>>
TxResults == {"Ok", "IllegalArgument", "NoRouteToHost"}
NoTx == [dst |-> NoIp, res |-> "none"]
NoListen == [port |-> 0]
EphemeralPorts == LocalPortStart .. (LocalPortEnd - 1)

-----------------------------------------------------------------------------
(* RoutingTable::route: longest-prefix match. Networks are prefixes, so a *)
(* more specific network is a strict subset; ties are unordered.          *)
BestRoutes(dst) ==
    {r \in routes : /\ dst \in r.net
                    /\ ~\E r2 \in routes : dst \in r2.net /\ r2.net \subseteq r.net /\ r2.net # r.net}

(* StackInterface::closest_local_ip over the routed interface. *)
ClosestLocalIps(i, dst) == {ip \in addrs[i] : dst \in nets[i][ip]}

-----------------------------------------------------------------------------
Init ==
    /\ ifaces = {}
    /\ addrs = [i \in Ifaces |-> {}]
    /\ nets = [i \in Ifaces |-> [ip \in LocalIps |-> {}]]
    /\ routes = {}
    /\ udp = [i \in Ifaces |-> [ip \in LocalIps |-> {}]]
    /\ icmp = [i \in Ifaces |-> [ip \in LocalIps |-> 0]]
    /\ appPc = "idle"
    /\ lockOn = NoLock
    /\ lastTx = NoTx
    /\ listenRes = NoListen

(* add_interface: Occupied -> InvalidInterface, nothing changes. *)
AddInterface(i) ==
    /\ appPc = "idle"
    /\ i \notin ifaces
    /\ ifaces' = ifaces \cup {i}
    /\ UNCHANGED <<addrs, nets, routes, udp, icmp, appPc, lockOn, lastTx,
                   listenRes>>

(* Variant of AddIpv4 that ignores the interface's refusal of a duplicate *)
(* address and installs the route anyway.                               *)
AddIpv4RouteAlways(i, n) ==
    /\ appPc = "idle"
    /\ i \in ifaces
    /\ IF n.ip \notin addrs[i]
         THEN /\ addrs' = [addrs EXCEPT ![i] = @ \cup {n.ip}]
              /\ nets' = [nets EXCEPT ![i][n.ip] = n.hosts]
         ELSE UNCHANGED <<addrs, nets>>
    /\ routes' = routes \cup {[net |-> n.hosts, gw |-> NoIp, iface |-> i,
                              origin |-> "add_ipv4"]}
    /\ UNCHANGED <<ifaces, udp, icmp, appPc, lockOn, lastTx, listenRes>>

(* NetworkStack::add_ipv4: self.interface(i)? then the interface's         *)
(* add_ipv4(ip_net)? (duplicate ip -> IllegalArgument), then add_route.   *)
AddIpv4(i, n) ==
    /\ appPc = "idle"
    /\ i \in ifaces
    /\ n.ip \notin addrs[i]
    /\ addrs' = [addrs EXCEPT ![i] = @ \cup {n.ip}]
    /\ nets' = [nets EXCEPT ![i][n.ip] = n.hosts]
    /\ routes' = routes \cup {[net |-> n.hosts, gw |-> NoIp, iface |-> i,
                              origin |-> "add_ipv4"]}
    /\ UNCHANGED <<ifaces, udp, icmp, appPc, lockOn, lastTx, listenRes>>

(* routing_table().add_route by the user. *)
AddRoute(r) ==
    /\ appPc = "idle"
    /\ routes' = routes \cup {[net |-> r.net, gw |-> r.gw, iface |-> r.iface,
                              origin |-> "user"]}
    /\ UNCHANGED <<ifaces, addrs, nets, udp, icmp, appPc, lockOn, lastTx,
                   listenRes>>

(* NetworkStack::ipv4_tx (and udp_tx / icmp_tx, which wrap it): route, then *)
(* the interface's ipv4_tx(dst, gw): local_dst = gw.unwrap_or(dst) must lie *)
(* in a local network of the interface.                                   *)
Ipv4TxResult(dst, r) ==
    LET localDst == IF r.gw = NoIp THEN dst ELSE r.gw IN
    IF r.iface \notin ifaces \/ ClosestLocalIps(r.iface, localDst) = {}
      THEN "IllegalArgument"
      ELSE "Ok"

Ipv4Tx(dst) ==
    /\ appPc = "idle"
    /\ \/ /\ BestRoutes(dst) = {}
          /\ lastTx' = [dst |-> dst, res |-> "NoRouteToHost"]
       \/ \E r \in BestRoutes(dst) :
             lastTx' = [dst |-> dst, res |-> Ipv4TxResult(dst, r), route |-> r]
    /\ UNCHANGED <<ifaces, addrs, nets, routes, udp, icmp, appPc, lockOn,
                   listenRes>>

(* icmp_listen: registers on every interface holding local_ip; error when *)
(* none does (no step).                                                  *)
IcmpListen(ip) ==
    LET holders == {i \in ifaces : ip \in addrs[i]} IN
    /\ appPc = "idle"
    /\ holders # {}
    /\ \A i \in holders : icmp[i][ip] < MaxIcmp
    /\ icmp' = [i \in Ifaces |-> [a \in LocalIps |->
                  IF i \in holders /\ a = ip THEN icmp[i][a] + 1
                  ELSE icmp[i][a]]]
    /\ UNCHANGED <<ifaces, addrs, nets, routes, udp, appPc, lockOn, lastTx,
                   listenRes>>

(* The SocketAddr udp_listen_ipv4 returns for a listener bound on the    *)
(* local address of an interface.                                        *)
Bound(i, ip, port) == [iface |-> i, ip |-> ip, port |-> port]

(* Variant of UdpListen without the contains_key check: HashMap::insert *)
(* replaces the listener already bound to the port.                     *)
UdpListenReplace(i, ip, port) ==
    /\ appPc = "idle"
    /\ i \in ifaces
    /\ ip \in addrs[i]
    /\ IF port = 0
         THEN /\ appPc' = "sampling"
              /\ lockOn' = <<i, ip>>
              /\ UNCHANGED <<udp, listenRes>>
         ELSE /\ udp' = [udp EXCEPT ![i][ip] = @ \cup {port}]
              /\ listenRes' = Bound(i, ip, port)
              /\ UNCHANGED <<appPc, lockOn>>
    /\ UNCHANGED <<ifaces, addrs, nets, routes, icmp, lastTx>>

(* udp_listen_ipv4: the first interface (HashMap order) holding the local *)
(* address; its udp_listeners lock is taken. A non-zero port is bound or   *)
(* refused with AddrInUse in the same step; port 0 goes to get_random_port. *)
UdpListen(i, ip, port) ==
    /\ appPc = "idle"
    /\ i \in ifaces
    /\ ip \in addrs[i]
    /\ IF port = 0
         THEN /\ appPc' = "sampling"
              /\ lockOn' = <<i, ip>>
              /\ UNCHANGED <<udp, listenRes>>
         ELSE /\ port \notin udp[i][ip]
              /\ udp' = [udp EXCEPT ![i][ip] = @ \cup {port}]
              /\ listenRes' = Bound(i, ip, port)
              /\ UNCHANGED <<appPc, lockOn>>
    /\ UNCHANGED <<ifaces, addrs, nets, routes, icmp, lastTx>>

(* Variant of UdpSampleFree drawing from the closed range [start, end]. *)
UdpSampleFreeInclusive ==
    /\ appPc = "sampling"
    /\ \E n \in (LocalPortStart .. LocalPortEnd) \ udp[lockOn[1]][lockOn[2]] :
          /\ udp' = [udp EXCEPT ![lockOn[1]][lockOn[2]] = @ \cup {n}]
          /\ listenRes' = Bound(lockOn[1], lockOn[2], n)
    /\ appPc' = "idle"
    /\ lockOn' = NoLock
    /\ UNCHANGED <<ifaces, addrs, nets, routes, icmp, lastTx>>

(* get_random_port: sample the ephemeral range; a free sample ends the loop *)
(* and is bound (contains_key is then false), a bound one is drawn again.  *)
UdpSampleFree ==
    /\ appPc = "sampling"
    /\ \E n \in EphemeralPorts \ udp[lockOn[1]][lockOn[2]] :
          /\ udp' = [udp EXCEPT ![lockOn[1]][lockOn[2]] = @ \cup {n}]
          /\ listenRes' = Bound(lockOn[1], lockOn[2], n)
    /\ appPc' = "idle"
    /\ lockOn' = NoLock
    /\ UNCHANGED <<ifaces, addrs, nets, routes, icmp, lastTx>>

UdpSampleTaken ==
    /\ appPc = "sampling"
    /\ \E n \in EphemeralPorts : n \in udp[lockOn[1]][lockOn[2]]
    /\ UNCHANGED vars

-----------------------------------------------------------------------------
Next ==
    \/ \E i \in Ifaces : AddInterface(i)
    \/ \E i \in Ifaces, n \in Nets : AddIpv4(i, n)
    \/ \E r \in UserRoutes : AddRoute(r)
    \/ \E dst \in Addrs : Ipv4Tx(dst)
    \/ \E ip \in LocalIps : IcmpListen(ip)
    \/ \E i \in Ifaces, ip \in LocalIps, port \in Ports \cup {0} :
          UdpListen(i, ip, port)
    \/ UdpSampleFree
    \/ UdpSampleTaken

(* rand::thread_rng draws every port of the range with positive          *)
(* probability, so a free port, while there is one, is eventually drawn.  *)
Spec == Init /\ [][Next]_vars /\ WF_vars(UdpSampleFree)

-----------------------------------------------------------------------------
(* Every variable holds a value of its type; a bound UDP port is one the *)
(* user asked for or one of the ephemeral range [start, end).          *)
TypeOK ==
    /\ ifaces \subseteq Ifaces
    /\ addrs \in [Ifaces -> SUBSET LocalIps]
    /\ nets \in [Ifaces -> [LocalIps -> SUBSET Addrs]]
    /\ routes \subseteq Routes
    /\ udp \in [Ifaces -> [LocalIps -> SUBSET (Ports \cup EphemeralPorts)]]
    /\ icmp \in [Ifaces -> [LocalIps -> 0..MaxIcmp]]
    /\ appPc \in {"idle", "sampling"}
    /\ lockOn \in {NoLock} \cup (Ifaces \X LocalIps)
    /\ lastTx \in {NoTx}
                  \cup [dst : Addrs, res : {"NoRouteToHost"}]
                  \cup [dst : Addrs, res : TxResults, route : Routes]
    /\ listenRes \in {NoListen} \cup [iface : Ifaces, ip : LocalIps,
                                     port : Ports \cup EphemeralPorts]

(* A route that add_ipv4 installed is always usable: ipv4_tx along it     *)
(* never fails for want of a source address on the routed interface.     *)
(* It depends on add_route running only after the interface accepted the *)
(* network, and on the route's network being the interface's own.        *)
AddedRoutesUsable ==
    lastTx.res = "IllegalArgument" => lastTx.route.origin = "user"

(* Spec 4.7: the interface picks the first local network containing the   *)
(* next hop, otherwise its first local IP; so a routed ipv4_tx fails with *)
(* IllegalArgument only on an interface that has no local address.        *)
SourceFallback ==
    (lastTx.res = "IllegalArgument" /\ lastTx.route.iface \in ifaces)
        => addrs[lastTx.route.iface] = {}

(* udp_listen with port 0 returns: get_random_port finds a free port.    *)
UdpListenReturns ==
    (appPc = "sampling") ~> (appPc = "idle")

-----------------------------------------------------------------------------
(* The interface and address pairs udp_listen_ipv4's search can find: an *)
(* interface of the stack with an Ipv4Data for the address.              *)
Held == UNION {{<<i, ip>> : ip \in addrs[i]} : i \in ifaces}

Udp == INSTANCE UdpBinding WITH held <- Held, bound <- udp, result <- listenRes

(* udp_listen, the two steps of get_random_port's loop under the         *)
(* udp_listeners lock included, implements an atomic bind: every          *)
(* SocketAddr it returns names a port that no listener on that interface  *)
(* and address held before, the requested one or, for port 0, one of     *)
(* [LOCAL_PORT_RANGE_START, LOCAL_PORT_RANGE_END) (spec 4.2 (v), spec 5). *)
UdpSpec == Udp!Spec

=============================================================================
