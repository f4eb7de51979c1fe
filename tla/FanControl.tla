------------------------------ MODULE FanControl ------------------------------
(***************************************************************************)
(* The fans: class Device with its fan curve timer, the one FANDevice the  *)
(* factory makes, and the GPD boards as the OS classes drive them.         *)
(*                                                                         *)
(* A board has a mode and one pwm register per fan.  On some boards the    *)
(* first pwm register is the mode as well: 0 hands the fans to the         *)
(* firmware, anything else takes them over.  Registers are written one     *)
(* after the other up to the first write that fails; without access to the *)
(* ports, or with a mode that cannot be read, nothing is written.          *)
(*                                                                         *)
(* Device is called on one thread, so a call is one action.                *)
(***************************************************************************)
EXTENDS Integers, Sequences

CONSTANTS
  Boards,           \* the boards, records of BoardFields
  Temps,            \* temperatures of the CPU
  FanData,          \* what packets hold for the fan: a mode and a curve
  InvalidMode,      \* the mode of a RWData that is not valid
  NoFanData,        \* a packet without data for this fan
  CurvePeriod       \* bound: ticks until the curve timer expires

(* A point of a curve: from this temperature on, this speed in percent.    *)
Points == [temp : Int, speed : 0..100]

FanDataFields == [mode : {0, 1, InvalidMode}, curve : Seq(Points)]

(* ecRam: driven through the ports of the embedded controller, else by the *)
(* kernel driver.  shared: the mode is the first pwm register.             *)
BoardFields ==
  [ecRam : BOOLEAN, shared : BOOLEAN, fans : Nat \ {0}, maxPWM : 1..255]

ASSUME FanAssumption ==
  /\ Boards \subseteq BoardFields
  /\ \A b \in Boards : b.shared => b.ecRam
  /\ Temps \subseteq Int
  /\ FanData \subseteq FanDataFields
  /\ InvalidMode \notin {0, 1}
  /\ NoFanData \notin FanDataFields
  /\ CurvePeriod \in Nat \ {0}

VARIABLES
  up,               \* the process runs
  board,            \* the board of this machine
  hw,               \* its registers
  curve,            \* FANDevice::curve
  fanCurveTimer,    \* Device::fanCurveTimer
  temp,             \* what the CPU's sensor says
  asked             \* history: the fan data of the last packet applied

vars == <<up, board, hw, curve, fanCurveTimer, temp, asked>>

-----------------------------------------------------------------------------
(* The board.  Where an access can fail, an operator gives the set of the  *)
(* registers that can come of it.                                          *)

IsManual(h) == IF board.shared THEN h.pwm[1] # 0 ELSE h.manual

PwmUnbounded(speed) ==                                       \* faulty variant
  IF board.ecRam THEN (board.maxPWM * speed) \div 100
                 ELSE (255 * speed) \div 100

Pwm(speed) ==
  LET pwm == (board.maxPWM * speed) \div 100 IN
  IF ~board.ecRam THEN (255 * speed) \div 100
  ELSE IF pwm < 1 THEN 1
  ELSE IF pwm > board.maxPWM THEN board.maxPWM ELSE pwm

(* `v` in the first n pwm registers.                                       *)
WithPwm(h, v, n) ==
  [h EXCEPT !.pwm = [i \in 1..board.fans |-> IF i <= n THEN v ELSE h.pwm[i]]]

Writes(h, v) == {WithPwm(h, v, n) : n \in 0..board.fans}

(* setFanMode: a mode that is not valid is no error and changes nothing.   *)
AfterMode(h, mode) ==
  IF mode = InvalidMode THEN {h}
  ELSE IF board.shared THEN Writes(h, IF mode = 0 THEN 0 ELSE board.maxPWM)
  ELSE {h, [h EXCEPT !.manual = (mode # 0)]}

AfterSpeedAlways(h, speed) == Writes(h, Pwm(speed))          \* faulty variant

(* setFanSpeed: fans the firmware controls are left alone.                 *)
AfterSpeed(h, speed) == IF IsManual(h) THEN Writes(h, Pwm(speed)) ELSE {h}

-----------------------------------------------------------------------------
(* The curve.                                                              *)

Orders(n) == {f \in [1..n -> 1..n] : \A j \in 1..n : \E i \in 1..n : f[i] = j}

IsSorted(c) == \A i, j \in DOMAIN c : i <= j => c[i].temp <= c[j].temp

AsGiven(c) == {c}                                            \* faulty variant

(* The results std::sort can have: points of one temperature in any order. *)
Sortings(c) ==
  {s \in {[i \in DOMAIN c |-> c[f[i]]] : f \in Orders(Len(c))} : IsSorted(s)}

HasCurve(c) == Len(c) > 1

PointFromBelow(c, t) ==                                      \* faulty variant
  LET below == {i \in DOMAIN c : t >= c[i].temp} IN
  IF below = {} THEN c[1] ELSE c[CHOOSE i \in below : \A j \in below : j <= i]

(* The point applyCurve stops at, looking from the hot end.                *)
PointFor(c, t) ==
  LET below == {i \in DOMAIN c : t > c[i].temp} IN
  IF below = {} THEN c[1] ELSE c[CHOOSE i \in below : \A j \in below : j <= i]

(* applyCurve, with a temperature that may be unreadable.                  *)
AfterCurve(h, c) ==
  IF HasCurve(c) THEN {h} \cup AfterSpeed(h, PointFor(c, temp).speed) ELSE {h}

(* FANDevice::applySettings: the curve is taken over, the mode set, and a  *)
(* curve of one point is a fixed speed.                                    *)
AfterApply(h, mode, c) ==
  UNION {IF Len(c) = 1 THEN AfterSpeed(m, c[1].speed) ELSE {m} :
           m \in AfterMode(h, mode)}

-----------------------------------------------------------------------------
(* The fan curve timer, a single shot.                                     *)

NullTimer == [state |-> "null", elapsed |-> 0]
RunningTimer == [state |-> "running", elapsed |-> 0]

StopCurveTimer(t) ==
  IF t.state = "null" THEN t ELSE [state |-> "stopped", elapsed |-> 0]

StartNoTimer(t) == t                                         \* faulty variant

StartCurveTimer(t) == IF t.state = "null" THEN t ELSE RunningTimer

(* setupFanCurveTimer; the handler that runs next starts the timer.        *)
SetupFanCurveTimer(t, enable) ==
  IF ~enable THEN NullTimer
  ELSE IF t.state = "null" THEN [state |-> "stopped", elapsed |-> 0] ELSE t

-----------------------------------------------------------------------------
Init ==
  /\ up = FALSE
  /\ board \in Boards
  /\ hw = [manual |-> FALSE, pwm |-> [i \in 1..board.fans |-> 0]]
  /\ curve = <<>>
  /\ fanCurveTimer = NullTimer
  /\ temp \in Temps
  /\ asked = NoFanData

Start ==
  /\ ~up
  /\ up' = TRUE
  /\ UNCHANGED <<board, hw, curve, fanCurveTimer, temp, asked>>

WantsManual(d) == d # NoFanData /\ d.mode \notin {InvalidMode, 0}

WantsCurve(d) == WantsManual(d) /\ HasCurve(d.curve)

(* applySettings, with the curve applied at once.  A packet without data   *)
(* for the fan ends the timer and leaves curve and board as they are.      *)
ApplySettings(d) ==
  /\ up
  /\ asked' = d
  /\ curve' \in IF d = NoFanData THEN {curve} ELSE Sortings(d.curve)
  /\ \E h \in IF d = NoFanData THEN {hw} ELSE AfterApply(hw, d.mode, curve') :
       hw' \in IF WantsCurve(d) THEN AfterCurve(h, curve') ELSE {h}
  /\ fanCurveTimer' =
       StartCurveTimer(
         SetupFanCurveTimer(StopCurveTimer(fanCurveTimer), WantsCurve(d)))
  /\ UNCHANGED <<up, board, temp>>

(* A packet for a client: mode and curve are read, the timer restarted.    *)
FillPacketDeviceData ==
  /\ up
  /\ fanCurveTimer' = StartCurveTimer(StopCurveTimer(fanCurveTimer))
  /\ UNCHANGED <<up, board, hw, curve, temp, asked>>

Expired ==
  /\ up
  /\ fanCurveTimer.state = "running"
  /\ fanCurveTimer.elapsed = CurvePeriod

OnFanCurveTimerTimeout ==
  /\ Expired
  /\ hw' \in AfterCurve(hw, curve)
  /\ fanCurveTimer' = RunningTimer
  /\ UNCHANGED <<up, board, curve, temp, asked>>

(* The timer goes on: only the mode of the board tells it to do nothing.   *)
PrepareForSleep ==
  /\ up
  /\ hw' \in AfterMode(hw, 0)
  /\ UNCHANGED <<up, board, curve, fanCurveTimer, temp, asked>>

Down ==
  /\ up
  /\ up' = FALSE
  /\ curve' = <<>>
  /\ fanCurveTimer' = NullTimer
  /\ asked' = NoFanData
  /\ UNCHANGED <<board, temp>>

(* The destructor hands the fans back; a process that is killed does not.  *)
Exit == Down /\ hw' \in AfterMode(hw, 0)
Killed == Down /\ UNCHANGED hw

Tick ==
  /\ up
  /\ fanCurveTimer.state = "running"
  /\ fanCurveTimer.elapsed < CurvePeriod
  /\ fanCurveTimer' = [fanCurveTimer EXCEPT !.elapsed = @ + 1]
  /\ UNCHANGED <<up, board, hw, curve, temp, asked>>

TempChanges ==
  /\ temp' \in Temps \ {temp}
  /\ UNCHANGED <<up, board, hw, curve, fanCurveTimer, asked>>

Next ==
  \/ Start \/ Exit \/ Killed
  \/ \E d \in FanData \cup {NoFanData} : ApplySettings(d)
  \/ FillPacketDeviceData
  \/ OnFanCurveTimerTimeout
  \/ PrepareForSleep
  \/ Tick \/ TempChanges

Spec == Init /\ [][Next]_vars

(* The registers when every access of a curve step succeeds.               *)
Followed(h) ==
  IF IsManual(h)
  THEN WithPwm(h, Pwm(PointFor(curve, temp).speed), board.fans) ELSE h

(* Time passes, an expired timer is delivered, and a curve step that could *)
(* succeed at infinitely many expiries succeeds at some.                   *)
FairSpec ==
  /\ Spec
  /\ WF_vars(Tick)
  /\ WF_vars(OnFanCurveTimerTimeout)
  /\ SF_vars(OnFanCurveTimerTimeout /\ hw' = Followed(hw))

-----------------------------------------------------------------------------
(* The values of the variables: pwm registers keep to their byte, and the  *)
(* curve of a fan is sorted.                                               *)
TypeOK ==
  /\ up \in BOOLEAN
  /\ board \in Boards
  /\ hw \in [manual : BOOLEAN, pwm : [1..board.fans -> 0..255]]
  /\ curve \in Seq(Points) /\ IsSorted(curve)
  /\ fanCurveTimer \in [state : {"null", "stopped", "running"},
                        elapsed : 0..CurvePeriod]
  /\ temp \in Temps
  /\ asked \in FanData \cup {NoFanData}

(* The curve timer is never lost and never left behind: it runs, on the    *)
(* points the last packet gave, exactly when that packet asked for manual  *)
(* fans on a curve.                                                        *)
CurveTimerMatchesPacket ==
  /\ fanCurveTimer.state = IF WantsCurve(asked) THEN "running" ELSE "null"
  /\ asked # NoFanData => curve \in Sortings(asked.curve)

(* Fans change hands on purpose only: neither a late curve timer after the *)
(* fans were handed back for a sleep, nor a speed of 0 on a board whose    *)
(* mode is its speed, switches between firmware and manual control.        *)
FansChangeHandsOnPurpose ==
  [][IsManual(hw)' # IsManual(hw) =>
       \/ \E d \in FanData : WantsManual(d) = IsManual(hw)' /\ ApplySettings(d)
       \/ ~IsManual(hw)' /\ (PrepareForSleep \/ Exit)]_vars

(* What a curve asks for at a temperature: the speed of the hottest point  *)
(* strictly below it, or of the coolest point.                             *)
SpeedsAsked(c, t) ==
  LET points == {c[i] : i \in DOMAIN c}
      below == {p \in points : p.temp < t}
  IN {p.speed : p \in
        IF below = {} THEN {p \in points : \A q \in points : p.temp <= q.temp}
                      ELSE {p \in below : \A q \in below : q.temp <= p.temp}}

(* A curve step writes only what the curve of the client's packet, in      *)
(* whatever order its points came, asks for at the temperature of the CPU. *)
SpeedFromCurve ==
  [][OnFanCurveTimerTimeout =>
       \A i \in 1..board.fans :
         \/ hw'.pwm[i] = hw.pwm[i]
         \/ \E s \in SpeedsAsked(asked.curve, temp) : hw'.pwm[i] = Pwm(s)]_vars

(* Once only time passes, fans on a curve end up at the speed the curve    *)
(* asks for, whatever failed before.                                       *)
CurveCatchesUp ==
  <>[][Tick \/ OnFanCurveTimerTimeout]_vars
    => []<>(up /\ WantsCurve(asked) /\ IsManual(hw) =>
              \A i \in 1..board.fans :
                \E s \in SpeedsAsked(asked.curve, temp) : hw.pwm[i] = Pwm(s))
=============================================================================
