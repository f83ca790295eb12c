--------------------------- MODULE MCBookingRules ---------------------------
(* Small instances of BookingRules for TLC. *)
EXTENDS BookingRules, TLC
=============================================================================
