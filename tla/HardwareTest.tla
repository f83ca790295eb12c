---------------------------- MODULE HardwareTest ----------------------------
(***************************************************************************)
(* What pharos-validator-node says of the machine it runs on: the probe of *)
(* its processor, memory and disks, and their evaluation against the       *)
(* minimum of const.py.                                                    *)
(*                                                                         *)
(* Frequencies are whole MHz, sizes of memory and disks whole GB, as the   *)
(* probe converts them: every bound they are compared with is whole too.   *)
(***************************************************************************)
EXTENDS Integers, Sequences, FiniteSets

MIN_MEMSIZE == 32000000     \* "In Kb"
MIN_CPUFREQ == 1800
MIN_CORECOUNT == 4
MIN_SSDSIZE == 100

Unread == -1        \* a file of /sys that cannot be opened

\* What there is to probe: the maximal frequency of each core, or the present one of all, and
\* the block devices, only some of which are called sd*.
Disk == [sd: BOOLEAN, size: Nat \cup {Unread}, rotational: {0, 1, Unread}]
Machine(m) ==
    /\ {m.bitsize, m.cores, m.mhz, m.memory} \subseteq Nat
    /\ \A i \in 0 .. m.cores - 1 : m.max[i] \in Int
    /\ m.disks \in Seq(Disk)

Tests == {"architecture", "corecount", "cpu", "memory", "disk", "diskcount"}

-----------------------------------------------------------------------------
(* probe.py *)

Frequency(m, i) ==
    LET read == IF m.max[i] = Unread THEN m.mhz ELSE m.max[i]
    IN  IF read < 0 THEN 0 ELSE read

Probed(m) == {k \in DOMAIN m.disks : m.disks[k].sd}

\* A disk whose kind cannot be read counts as a rotational one.
Ssd(m, k) == m.disks[k].rotational = 0

-----------------------------------------------------------------------------
(* evaluate.py *)

approxsize(x, y, deviation) ==
    LET dev == (y * deviation) \div 100
    IN  x >= y - dev /\ x <= y + dev

Suffices(x, y, deviation) == approxsize(x, y, deviation) \/ x > y

cpu(m) ==
    {t \in {"architecture", "corecount", "cpu"} :
        /\ t = "architecture" => m.bitsize >= 63
        /\ t = "corecount" => ~(m.cores < MIN_CORECOUNT)
        /\ t = "cpu" =>
              \A i \in 0 .. m.cores - 1 : Suffices(Frequency(m, i), MIN_CPUFREQ, 5)}

memory(m) == {t \in {"memory"} : Suffices(m.memory, MIN_MEMSIZE, 5)}

storage(m) ==
    {t \in {"disk", "diskcount"} :
        /\ t = "disk" => \A k \in Probed(m) : Suffices(m.disks[k].size, MIN_SSDSIZE, 10)
        /\ t = "diskcount" => Cardinality(Probed(m)) >= 3 /\ \E k \in Probed(m) : Ssd(m, k)}

\* A disk without a size is looked up in vain: KeyError, and the node sends nothing.
Raises(m) == \E k \in Probed(m) : m.disks[k].size = Unread

\* The tests that are passed.
hardware_test(m) == cpu(m) \cup memory(m) \cup storage(m)

-----------------------------------------------------------------------------
\* What const.py asks of a machine, less the memory, with the tolerance of evaluate.py.
Meets(m) ==
    /\ m.bitsize >= 63 /\ m.cores >= 4
    /\ \A i \in 0 .. m.cores - 1 : Frequency(m, i) >= 1710
    /\ \A k \in Probed(m) : m.disks[k].size >= 90
    /\ \E j, k, l \in Probed(m) : Cardinality({j, k, l}) = 3 /\ Ssd(m, l)
=============================================================================
