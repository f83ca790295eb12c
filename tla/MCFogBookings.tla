---------------------------- MODULE MCFogBookings ----------------------------
(* Small instances of FogBookings for TLC: two bookings that follow each other on one
   machine without a gap, as the dashboard allows. *)
EXTENDS FogBookings

Slots(h, first, last) == [host |-> h, start |-> first, end |-> last]
OneMachine == [b \in {"b1", "b2"} |-> IF b = "b1" THEN Slots("h1", 0, 1) ELSE Slots("h1", 1, 3)]
MCWindows == {[start |-> 3, end |-> 4]}
=============================================================================
