----------------------------- MODULE MCCPUAccess -----------------------------
(* CPUAccess for small machines.  The CPUs that stand for cores depend on    *)
(* how the firmware numbers threads and on the order of a directory.        *)
EXTENDS CPUAccess

\* AMD settings are not per core; two cores that are CPU 0 and 1; two cores
\* of which the first has the threads 0 and 1, or 0 and 2 read in reverse.
MCLayouts == {<<>>, <<0, 1>>, <<0, 2>>, <<2, 1>>}

\* Two cores, the first with the threads 0 and 1.
MCSiblings == {<<0, 2>>}
===============================================================================
