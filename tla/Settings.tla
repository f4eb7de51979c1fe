------------------------------- MODULE Settings -------------------------------
(***************************************************************************)
(* A packet for the device is a value for each of many settings.  The code *)
(* spells every one of them out: the feature that gates it, where its      *)
(* value goes, the error a failed write reports.  Here a setting is a row, *)
(* and a function of the code that goes through settings is a set of rows: *)
(*   stage   the loop of applySettings it belongs to, in the order they run*)
(*   turn    its place in the body of that loop                            *)
(* A place is a row for one CPU, core, card or device.                     *)
(***************************************************************************)
EXTENDS Integers

Row(stage, turn, slot, feature, error) ==
    [stage |-> stage, turn |-> turn, slot |-> slot, feature |-> feature, error |-> error]

\* The places of rows whose features the device has.
PlacesOf(rows, features, indices) ==
    {[stage |-> r.stage, index |-> i, turn |-> r.turn, slot |-> r.slot, error |-> r.error] :
        r \in {x \in rows : x.feature \in features}, i \in indices}

SlotsOf(rows) == {r.slot : r \in rows}

\* Stages run one after the other, and each is a loop over its indices.
Before(p, q) ==
    \/ p.stage < q.stage
    \/ p.stage = q.stage /\ p.index < q.index
    \/ p.stage = q.stage /\ p.index = q.index /\ p.turn < q.turn

\* A machine, as it is when the daemon makes its Device:
\*   amd        its CPU is one of AMD, and not of Intel; there are no others
\*   intel      the model of an Intel CPU, or "none"
\*   cpus       logical CPUs, numbered from 0; siblings are second threads
\*   cores      cores of AMD's Curve Optimizer, or CPUs that stand for cores
\*   devices    block devices and devices with power management
\*   intelGpus, amdGpus   graphics cards
\*   found      what probing finds: files, CPUID bits, options of the SMU
\*   readable   options whose value the SMU reports
\*   windows    times a power limit can have, each with what is read back for it
\*   places     places of the settings it has features for
\*   packets    packets clients and profiles have for it
MachineFields ==
    {"amd", "intel", "cpus", "siblings", "cores", "devices", "intelGpus", "amdGpus", "found",
     "readable", "windows", "places", "packets"}
===============================================================================
