------------------------------ MODULE MCVlanPool ------------------------------
(* Small instances of VlanPool for TLC. *)
EXTENDS VlanPool, TLC

(* Every network on one port: b1 has private networks on both ports and a  *)
(* public one beside the first, the others one network on each port.       *)
PlainTemplate ==
    [b \in Bookings |->
        IF b = "b1"
        THEN <<[x \in Ports |-> IF x = "eth0" THEN {"public", "red"} ELSE {"blue"}]>>
        ELSE <<[x \in Ports |-> IF x = "eth0" THEN {"public"} ELSE {"red"}]>>]

Symmetry == Permutations(Pollers) \cup Permutations(Hosts)
=============================================================================
