------------------------------ MODULE TxBarrier ------------------------------
(***************************************************************************)
(* What the TxBarrier of a StackInterface promises (spec 4.8), without    *)
(* version numbers: the set of senders that can still send. Building a   *)
(* sender adds one carrying the interface's MTU; an MTU change, an ARP    *)
(* table change and dropping the interface each invalidate every sender  *)
(* at once; a dropped interface gives out no new sender. Senders that    *)
(* fail are simply gone from the set.                                     *)
(***************************************************************************)
CONSTANTS RemoteIps, Macs, Mtus, DefaultMtu

VARIABLES
    mtu,    \* the interface's MTU
    alive,  \* the StackInterface has not been dropped
    valid   \* senders that pass the barrier: [dst, mac, mtu] records

absVars == <<mtu, alive, valid>>

Senders == [dst : RemoteIps, mac : Macs, mtu : Mtus]

Init ==
    /\ mtu = DefaultMtu
    /\ alive = TRUE
    /\ valid = {}

(* ipv4_tx hands out a sender built with the current MTU. *)
Create(dst, mac) ==
    /\ alive
    /\ valid' = valid \cup {[dst |-> dst, mac |-> mac, mtu |-> mtu]}
    /\ UNCHANGED <<mtu, alive>>

(* set_mtu: the new MTU, and no sender of the old one survives. *)
SetMtu(m) ==
    /\ alive
    /\ mtu' = m
    /\ valid' = {}
    /\ UNCHANGED alive

(* A changed ARP binding invalidates every sender. *)
Invalidate ==
    /\ valid' = {}
    /\ UNCHANGED <<mtu, alive>>

(* Dropping the interface invalidates every sender for good. *)
Drop ==
    /\ alive
    /\ alive' = FALSE
    /\ valid' = {}
    /\ UNCHANGED mtu

Next ==
    \/ \E dst \in RemoteIps, mac \in Macs : Create(dst, mac)
    \/ \E m \in Mtus : SetMtu(m)
    \/ Invalidate
    \/ Drop

Spec == Init /\ [][Next]_absVars

(* Every sender that can still send was built with the current MTU on a *)
(* live interface.                                                      *)
SendersCurrent == \A s \in valid : s.mtu = mtu /\ alive
=============================================================================
