-------------------------- MODULE MCNetworkStack --------------------------
(* Two interfaces, two local and two remote addresses. The ephemeral     *)
(* range is set in each cfg: one port (3, which a user may also ask for)  *)
(* for the safety run, two for the port allocation loop.                 *)
EXTENDS NetworkStack

CONSTANTS e1, e2, a1, a2, b1, b2

MCIfaces == {e1, e2}
MCLocalIps == {a1, a2}
MCAddrs == {a1, a2, b1, b2}
(* a1 is offered with two different networks; the second add_ipv4 of a1 *)
(* on an interface is refused.                                          *)
MCNets == {[ip |-> a1, hosts |-> {a1, b1}],
           [ip |-> a1, hosts |-> {a1, b2}],
           [ip |-> a2, hosts |-> {a1, a2, b1, b2}]}
(* An on-link route for b2 alone through e1. *)
MCUserRoutes == {[net |-> {b2}, gw |-> NoIp, iface |-> e1]}
MCPorts == {3}

(* One interface with one local address, for the port allocation loop. *)
MCOneIface == {e1}
MCOneLocalIp == {a1}
MCNoRoutes == {}
MCOneNet == {[ip |-> a1, hosts |-> {a1, b1}]}
=============================================================================
