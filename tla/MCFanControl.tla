---------------------------- MODULE MCFanControl ----------------------------
(***************************************************************************)
(* FanControl for TLC: the kernel driver, and three of the boards behind   *)
(* the embedded controller: one with a mode register, one without, one     *)
(* without and with two fans.                                              *)
(***************************************************************************)
EXTENDS FanControl

MCBoards ==
  {[ecRam |-> FALSE, shared |-> FALSE, fans |-> 1, maxPWM |-> 244],
   [ecRam |-> TRUE, shared |-> FALSE, fans |-> 1, maxPWM |-> 184],
   [ecRam |-> TRUE, shared |-> TRUE, fans |-> 1, maxPWM |-> 127],
   [ecRam |-> TRUE, shared |-> TRUE, fans |-> 2, maxPWM |-> 244]}

Point(t, s) == [temp |-> t, speed |-> s]

TwoPoints == <<Point(70, 100), Point(40, 0)>>
ThreePoints == <<Point(40, 0), Point(70, 100), Point(40, 30)>>

(* Firmware control, a fixed speed, curves that are out of order or name a *)
(* temperature twice, and a mode the client could not read.                *)
MCFanData ==
  {[mode |-> 0, curve |-> TwoPoints],
   [mode |-> 1, curve |-> <<Point(0, 30)>>],
   [mode |-> 1, curve |-> TwoPoints],
   [mode |-> 1, curve |-> ThreePoints],
   [mode |-> InvalidMode, curve |-> TwoPoints]}

MCTemps == {30, 40, 70, 90}
=============================================================================
