----------------------------- MODULE UdpBinding -----------------------------
(***************************************************************************)
(* What udp_listen promises (spec 4.2 invariant (v), spec 5 guarantee 5),  *)
(* without locks or sampling: UDP ports are bound on a local address an    *)
(* interface holds, each successful call binds one port that no listener   *)
(* on that interface and address holds yet, in one step, and returns it;   *)
(* port 0 asks for any free port of [start, end). Listeners are never     *)
(* unbound.                                                                *)
(***************************************************************************)
EXTENDS Naturals

CONSTANTS Ifaces, LocalIps, Ports, LocalPortStart, LocalPortEnd

VARIABLES
    held,    \* <<iface, ip>>: the interface holds the local address ip
    bound,   \* per interface and local address: ports with a listener
    result   \* the SocketAddr the latest successful udp_listen returned

absVars == <<held, bound, result>>

NoResult == [port |-> 0]

Ephemeral == LocalPortStart .. (LocalPortEnd - 1)

Init ==
    /\ held = {}
    /\ bound = [i \in Ifaces |-> [ip \in LocalIps |-> {}]]
    /\ result = NoResult

(* An interface comes to hold a local address. *)
Hold(i, ip) ==
    /\ held' = held \cup {<<i, ip>>}
    /\ UNCHANGED <<bound, result>>

(* udp_listen on a held address asking for port req: the requested port, *)
(* or any ephemeral one for req = 0, provided nobody holds it yet.       *)
Listen(i, ip, req) ==
    /\ <<i, ip>> \in held
    /\ \E p \in (IF req = 0 THEN Ephemeral ELSE {req}) \ bound[i][ip] :
          /\ bound' = [bound EXCEPT ![i][ip] = @ \cup {p}]
          /\ result' = [iface |-> i, ip |-> ip, port |-> p]
    /\ UNCHANGED held

Next ==
    \E i \in Ifaces, ip \in LocalIps :
        \/ Hold(i, ip)
        \/ \E req \in Ports \cup {0} : Listen(i, ip, req)

Spec == Init /\ [][Next]_absVars
=============================================================================
