--------------------------- MODULE MCDaemonService ---------------------------
(***************************************************************************)
(* Instances of DaemonService for TLC.  The settings differ in what the    *)
(* slots tell apart: whether and how often to re-apply, which profiles to  *)
(* apply on start and on battery, where to listen, what to log.            *)
(***************************************************************************)
EXTENDS DaemonService

CONSTANTS boot, battery,  \* profile names
          lan, any,      \* addresses
          pkA, pkB       \* packets

(* What DaemonSettings holds before anything was loaded.                   *)
MCDefaults ==
  [adr |-> any, port |-> 1, logLevel |-> "Error", applyInterval |-> 0,
   onStartProfile |-> NoProfile, onBatteryProfile |-> NoProfile,
   onPowerSupplyProfile |-> NoProfile,
   ignoreBatteryEvent |-> FALSE, applyOnWake |-> FALSE]

(* Everything on: re-application, start and battery profiles, wake.        *)
MCFull ==
  [adr |-> any, port |-> 2, logLevel |-> "Service", applyInterval |-> 2,
   onStartProfile |-> boot, onBatteryProfile |-> battery,
   onPowerSupplyProfile |-> boot,
   ignoreBatteryEvent |-> FALSE, applyOnWake |-> TRUE]

(* Another interval, another address, no profile on start, battery ignored. *)
MCOther ==
  [adr |-> lan, port |-> 2, logLevel |-> "None", applyInterval |-> 1,
   onStartProfile |-> NoProfile, onBatteryProfile |-> battery,
   onPowerSupplyProfile |-> NoProfile,
   ignoreBatteryEvent |-> TRUE, applyOnWake |-> TRUE]

MCSettings == {MCDefaults, MCFull, MCOther}
MCFewSettings == {MCDefaults, MCFull}
MCFullOnly == {MCFull}
MCLogLevels == {"None", "Error", "Service"}
=============================================================================
