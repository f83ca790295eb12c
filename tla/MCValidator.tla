---------------------------- MODULE MCValidator ----------------------------
(* Small instances of Validator for TLC.                                   *)
EXTENDS Validator

HardDisk == [sd |-> TRUE, size |-> 1000, rotational |-> 1]
Ssd100 == [sd |-> TRUE, size |-> 95, rotational |-> 0]
Good == [bitsize |-> 63, cores |-> 4, max |-> [i \in 0..3 |-> IF i = 1 THEN Unread ELSE 1710],
         mhz |-> 1900, memory |-> 64, disks |-> <<HardDisk, Ssd100, HardDisk>>]

(* One machine with a disk whose size cannot be read, one that has all it  *)
(* needs, and one whose only ssd is not an sd* disk.                       *)
ThreeKinds == (8 :> [Good EXCEPT !.disks = Append(@, [HardDisk EXCEPT !.size = Unread])])
              @@ (9 :> Good)
              @@ (10 :> [Good EXCEPT !.disks = <<HardDisk, [Ssd100 EXCEPT !.sd = FALSE], HardDisk, HardDisk>>])
=============================================================================
