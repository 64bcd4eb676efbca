------------------------- MODULE MCStackInterface -------------------------
(* A StackInterface with two local and two remote addresses, two MACs, *)
(* two MTUs; the frame and version bounds are set in the cfg.         *)
EXTENDS StackInterface, TLC

CONSTANTS l1, l2, r1, r2, m1, m2

MCLocalIps == {l1, l2}
MCRemoteIps == {r1, r2}
MCMacs == {m1, m2}
MCMtus == {1500, 600}
(* l1 is on the network holding r1; l2 on the one holding r1 and r2. *)
MCNets == {[ip |-> l1, hosts |-> {r1}], [ip |-> l2, hosts |-> {r1, r2}]}

MCSymmetry == Permutations(MCMacs)
=============================================================================
