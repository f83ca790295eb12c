--------------------------- MODULE MCPodLifecycle ---------------------------
(* Small instances of PodLifecycle for TLC. *)
EXTENDS PodLifecycle, TLC

Symmetry == Permutations(Hosts) \cup Permutations(Bookings)
              \cup Permutations(Pollers) \cup Permutations(Freers)
=============================================================================
