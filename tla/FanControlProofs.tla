-------------------------- MODULE FanControlProofs --------------------------
(***************************************************************************)
(* Theorems about FanControl: its types, that the curve timer fits the     *)
(* last packet, that fans change hands on purpose only, and that a curve   *)
(* step writes what the curve asks for, for all boards, curves and         *)
(* temperatures.                                                           *)
(***************************************************************************)
EXTENDS FanControl, SequenceTheorems, WellFoundedInduction, TLAPS

(* A set of positions in a sequence has a last one.                        *)
LEMMA LastExists ==
  ASSUME NEW n \in Nat, NEW T \in SUBSET (1..n), T # {}
  PROVE  \E i \in T : \A j \in T : j <= i
<1> DEFINE R == {ss \in Nat \X Nat : ss[1] < ss[2]}
           D == {n - i : i \in T}
<1>1. \A i \in T : i \in 1..n /\ n - i \in Nat
  OBVIOUS
<1>2. D \subseteq Nat /\ D # {}
  BY <1>1
<1>3. PICK x \in D : \A y \in D : ~(<<y, x>> \in R)
  <2>1. IsWellFoundedOn(R, Nat)
    BY NatLessThanWellFounded DEF OpToRel
  <2> HIDE DEF R, D
  <2> QED
    BY <1>2, <2>1, WFMin
<1>4. PICK i \in T : x = n - i
  OBVIOUS
<1>5. \A j \in T : n - j \in D
  OBVIOUS
<1>6. \A j \in T : <<n - j, x>> \notin R
  BY <1>3, <1>5
<1>7. \A j \in T : ~(n - j < x)
  BY <1>6, <1>1, <1>4
<1> QED
  BY <1>7, <1>4, <1>1

-----------------------------------------------------------------------------
(* The board.                                                              *)

Hardware == [manual : BOOLEAN, pwm : [1..board.fans -> 0..255]]

LEMMA BoardType ==
  ASSUME board \in Boards
  PROVE  /\ board.ecRam \in BOOLEAN /\ board.shared \in BOOLEAN
         /\ board.fans \in Nat \ {0} /\ board.maxPWM \in 1..255
         /\ board.shared => board.ecRam
<1>1. board \in BoardFields /\ (board.shared => board.ecRam)
  BY FanAssumption
<1> QED
  BY <1>1 DEF BoardFields

(* A speed is written as a byte, and never as 0 through the controller.    *)
LEMMA PwmIsByte ==
  ASSUME board \in Boards, NEW s \in 0..100
  PROVE  Pwm(s) \in 0..255 /\ (board.ecRam => Pwm(s) # 0)
<1>1. board.maxPWM \in 1..255
  BY BoardType
<1>2. CASE board.ecRam
  <2> DEFINE p == (board.maxPWM * s) \div 100
  <2>1. p \in Int
    BY <1>1
  <2>2. Pwm(s) = IF p < 1 THEN 1 ELSE IF p > board.maxPWM THEN board.maxPWM
                                                          ELSE p
    BY <1>2 DEF Pwm
  <2> HIDE DEF p
  <2> QED
    BY <1>1, <2>1, <2>2
<1>3. CASE ~board.ecRam
  <2>1. Pwm(s) = (255 * s) \div 100
    BY <1>3 DEF Pwm
  <2> QED
    BY <2>1, <1>3
<1> QED
  BY <1>2, <1>3

(* What writing a byte can leave in the registers; a written byte that is  *)
(* not 0 leaves a manual board manual.                                     *)
LEMMA WritesFacts ==
  ASSUME board \in Boards, NEW h \in Hardware, NEW v \in 0..255,
         NEW w \in Writes(h, v)
  PROVE  /\ w \in Hardware
         /\ w.manual = h.manual
         /\ w.pwm[1] \in {h.pwm[1], v}
         /\ \A i \in 1..board.fans : w.pwm[i] \in {h.pwm[i], v}
<1>1. PICK n \in 0..board.fans : w = WithPwm(h, v, n)
  BY DEF Writes
<1>2. 1 \in 1..board.fans
  BY BoardType
<1>3. w = [h EXCEPT !.pwm = [i \in 1..board.fans |->
                               IF i <= n THEN v ELSE h.pwm[i]]]
  BY <1>1 DEF WithPwm
<1>4. w.pwm = [i \in 1..board.fans |-> IF i <= n THEN v ELSE h.pwm[i]]
  BY <1>3 DEF Hardware
<1>5. \A i \in 1..board.fans : w.pwm[i] \in {h.pwm[i], v}
  BY <1>4
<1>6. w.manual = h.manual
  BY <1>3 DEF Hardware
<1>7. w \in Hardware
  <2>1. [i \in 1..board.fans |-> IF i <= n THEN v ELSE h.pwm[i]]
          \in [1..board.fans -> 0..255]
    BY DEF Hardware
  <2> QED
    BY <1>3, <2>1 DEF Hardware
<1> QED
  BY <1>2, <1>5, <1>6, <1>7

(* A mode that takes effect, in full or in part, is the one asked for.     *)
LEMMA AfterModeFacts ==
  ASSUME board \in Boards, NEW h \in Hardware,
         NEW mode \in {0, 1, InvalidMode}, NEW m \in AfterMode(h, mode)
  PROVE  /\ m \in Hardware
         /\ IsManual(m) # IsManual(h) => mode # InvalidMode
         /\ IsManual(m) # IsManual(h) => IsManual(m) = (mode # 0)
<1>1. CASE mode = InvalidMode
  <2>1. m = h
    BY <1>1 DEF AfterMode
  <2> QED
    BY <2>1
<1>2. CASE mode # InvalidMode /\ board.shared
  <2> DEFINE v == IF mode = 0 THEN 0 ELSE board.maxPWM
  <2>1. v \in 0..255 /\ (v = 0 <=> mode = 0)
    <3>1. board.maxPWM \in Int /\ 1 <= board.maxPWM /\ board.maxPWM <= 255
      BY BoardType, SMT
    <3> QED
      BY <3>1, SMT
  <2>2. m \in Writes(h, v)
    BY <1>2 DEF AfterMode
  <2> HIDE DEF v
  <2>3. m \in Hardware /\ m.pwm[1] \in {h.pwm[1], v}
    BY <2>1, <2>2, WritesFacts, Zenon
  <2>4. IsManual(m) = (m.pwm[1] # 0) /\ IsManual(h) = (h.pwm[1] # 0)
    BY <1>2 DEF IsManual
  <2> QED
    BY <1>2, <2>1, <2>3, <2>4
<1>3. CASE mode # InvalidMode /\ ~board.shared
  <2>1. m \in {h, [h EXCEPT !.manual = (mode # 0)]}
    BY <1>3 DEF AfterMode
  <2>2. IsManual(m) = m.manual /\ IsManual(h) = h.manual
    BY <1>3 DEF IsManual
  <2>3. CASE m = h
    BY <2>3
  <2>4. CASE m = [h EXCEPT !.manual = (mode # 0)]
    <3>1. m.manual = (mode # 0) /\ m \in Hardware
      BY <2>4 DEF Hardware
    <3> QED
      BY <1>3, <2>2, <3>1
  <2> QED
    BY <2>1, <2>3, <2>4
<1> QED
  BY <1>1, <1>2, <1>3

(* Setting a speed writes it or leaves the register, and never the mode.   *)
LEMMA AfterSpeedFacts ==
  ASSUME board \in Boards, NEW h \in Hardware, NEW s \in 0..100,
         NEW m \in AfterSpeed(h, s)
  PROVE  /\ m \in Hardware
         /\ IsManual(m) = IsManual(h)
         /\ \A i \in 1..board.fans : m.pwm[i] \in {h.pwm[i], Pwm(s)}
<1>1. CASE ~IsManual(h)
  <2>1. m = h
    BY <1>1 DEF AfterSpeed
  <2> QED
    BY <2>1
<1>2. CASE IsManual(h)
  <2>1. m \in Writes(h, Pwm(s))
    BY <1>2 DEF AfterSpeed
  <2>2. Pwm(s) \in 0..255 /\ (board.shared => Pwm(s) # 0)
    BY PwmIsByte, BoardType
  <2>3. /\ m \in Hardware
        /\ m.manual = h.manual
        /\ m.pwm[1] \in {h.pwm[1], Pwm(s)}
        /\ \A i \in 1..board.fans : m.pwm[i] \in {h.pwm[i], Pwm(s)}
    BY <2>1, <2>2, WritesFacts, Zenon
  <2>4. IsManual(m)
    BY <1>2, <2>2, <2>3 DEF IsManual
  <2> QED
    BY <1>2, <2>3, <2>4
<1> QED
  BY <1>1, <1>2

-----------------------------------------------------------------------------
(* The curve.                                                              *)

(* Sorting keeps the points.                                               *)
LEMMA SortingsFacts ==
  ASSUME NEW g \in Seq(Points), NEW c \in Sortings(g)
  PROVE  /\ c \in Seq(Points) /\ IsSorted(c)
         /\ Len(c) = Len(g)
         /\ {c[i] : i \in DOMAIN c} = {g[i] : i \in DOMAIN g}
<1>1. PICK f \in Orders(Len(g)) : c = [i \in DOMAIN g |-> g[f[i]]]
  BY DEF Sortings
<1>2. IsSorted(c)
  BY DEF Sortings
<1>3. DOMAIN g = 1..Len(g) /\ Len(g) \in Nat
  OBVIOUS
<1>4. /\ f \in [1..Len(g) -> 1..Len(g)]
      /\ \A j \in 1..Len(g) : \E i \in 1..Len(g) : f[i] = j
  BY DEF Orders
<1>5. \A i \in 1..Len(g) : g[f[i]] \in Points
  BY <1>3, <1>4
<1>6. c \in Seq(Points) /\ Len(c) = Len(g) /\ DOMAIN c = 1..Len(g)
  <2>1. c = [i \in 1..Len(g) |-> g[f[i]]]
    BY <1>1, <1>3
  <2> DEFINE e(i) == g[f[i]]
             n == Len(g)
  <2>2. n \in Nat /\ c = [i \in 1..n |-> e(i)] /\ \A i \in 1..n : e(i) \in Points
    BY <1>3, <1>5, <2>1
  <2> HIDE DEF e, n
  <2>3. c \in [1..n -> Points] /\ DOMAIN c = 1..n
    BY <2>2
  <2>4. c \in Seq(Points)
    BY <2>2, <2>3, SeqDef
  <2>5. Len(c) = n
    BY <2>2, <2>3, <2>4, LenProperties
  <2> QED
    BY <2>3, <2>4, <2>5 DEF n
<1>7. {c[i] : i \in DOMAIN c} = {g[i] : i \in DOMAIN g}
  <2>1. \A i \in 1..Len(g) : c[i] = g[f[i]] /\ f[i] \in 1..Len(g)
    BY <1>1, <1>3, <1>4
  <2>2. \A j \in 1..Len(g) : \E i \in 1..Len(g) : c[i] = g[j]
    <3> SUFFICES ASSUME NEW j \in 1..Len(g)
                 PROVE  \E i \in 1..Len(g) : c[i] = g[j]
      OBVIOUS
    <3>1. PICK i \in 1..Len(g) : f[i] = j
      BY <1>4
    <3>2. c[i] = g[f[i]]
      BY <2>1, <3>1
    <3> QED
      BY <3>1, <3>2
  <2>3. ASSUME NEW x \in {c[i] : i \in DOMAIN c}
        PROVE  x \in {g[i] : i \in DOMAIN g}
    <3>1. PICK i \in 1..Len(g) : x = c[i]
      BY <1>6
    <3>2. x = g[f[i]] /\ f[i] \in DOMAIN g
      BY <1>3, <2>1, <3>1
    <3> QED
      BY <3>2
  <2>4. ASSUME NEW x \in {g[i] : i \in DOMAIN g}
        PROVE  x \in {c[i] : i \in DOMAIN c}
    <3>1. PICK j \in 1..Len(g) : x = g[j]
      BY <1>3
    <3>2. PICK i \in 1..Len(g) : c[i] = g[j]
      BY <2>2
    <3>3. i \in DOMAIN c /\ x = c[i]
      BY <1>6, <3>1, <3>2
    <3> QED
      BY <3>3
  <2> QED
    BY <2>3, <2>4
<1> QED
  BY <1>2, <1>6, <1>7

(* The point the curve stops at is the one the reference names.            *)
LEMMA PointForFacts ==
  ASSUME NEW c \in Seq(Points), Len(c) > 0, IsSorted(c), NEW t \in Int
  PROVE  PointFor(c, t) \in Points
         /\ PointFor(c, t).speed \in SpeedsAsked(c, t)
<1> DEFINE below == {i \in DOMAIN c : t > c[i].temp}
           points == {c[i] : i \in DOMAIN c}
           cooler == {p \in points : p.temp < t}
<1>1. DOMAIN c = 1..Len(c) /\ Len(c) \in Nat /\ \A i \in DOMAIN c : c[i] \in Points
  OBVIOUS
<1>2. \A i \in DOMAIN c : c[i].temp \in Int
  BY <1>1 DEF Points
<1>3. CASE below = {}
  <2>1. PointFor(c, t) = c[1]
    BY <1>3 DEF PointFor
  <2>2. 1 \in DOMAIN c
    BY <1>1
  <2>3. cooler = {}
    BY <1>2, <1>3
  <2>4. \A q \in points : c[1].temp <= q.temp
    BY <1>1, <2>2 DEF IsSorted
  <2>5. c[1] \in {p \in points : \A q \in points : p.temp <= q.temp}
    BY <2>2, <2>4
  <2>6. SpeedsAsked(c, t)
          = {p.speed : p \in {p \in points : \A q \in points : p.temp <= q.temp}}
    BY <2>3 DEF SpeedsAsked
  <2> QED
    BY <1>1, <2>1, <2>2, <2>5, <2>6
<1>4. CASE below # {}
  <2>1. below \in SUBSET (1..Len(c))
    BY <1>1
  <2>2. \E i \in below : \A j \in below : j <= i
    <3> HIDE DEF below
    <3> QED
      BY <1>1, <1>4, <2>1, LastExists
  <2> DEFINE k == CHOOSE i \in below : \A j \in below : j <= i
  <2>3. k \in below /\ \A j \in below : j <= k
    BY <2>2
  <2>4. PointFor(c, t) = c[k]
    BY <1>4 DEF PointFor
  <2> HIDE DEF k
  <2>5. k \in DOMAIN c /\ c[k] \in cooler
    BY <1>2, <2>3
  <2>6. \A q \in cooler : q.temp <= c[k].temp
    <3> SUFFICES ASSUME NEW q \in cooler PROVE q.temp <= c[k].temp
      OBVIOUS
    <3>1. PICK j \in DOMAIN c : q = c[j]
      OBVIOUS
    <3>2. j \in below
      BY <1>2, <3>1
    <3> QED
      BY <2>3, <2>5, <3>1, <3>2 DEF IsSorted
  <2>7. cooler # {}
    BY <2>5
  <2>8. SpeedsAsked(c, t)
          = {p.speed : p \in {p \in cooler : \A q \in cooler : q.temp <= p.temp}}
    BY <2>7 DEF SpeedsAsked
  <2>9. c[k] \in {p \in cooler : \A q \in cooler : q.temp <= p.temp}
    BY <2>5, <2>6
  <2>10. c[k].speed \in SpeedsAsked(c, t)
    BY <2>8, <2>9
  <2> QED
    BY <1>1, <2>4, <2>5, <2>10
<1> QED
  BY <1>3, <1>4

(* A curve step keeps the mode.                                            *)
LEMMA AfterCurveFacts ==
  ASSUME board \in Boards, temp \in Int, NEW h \in Hardware,
         NEW c \in Seq(Points), IsSorted(c), NEW m \in AfterCurve(h, c)
  PROVE  /\ m \in Hardware
         /\ IsManual(m) = IsManual(h)
         /\ \A i \in 1..board.fans :
              \/ m.pwm[i] = h.pwm[i]
              \/ \E s \in SpeedsAsked(c, temp) : m.pwm[i] = Pwm(s)
<1>1. CASE m = h
  BY <1>1
<1>2. CASE m # h
  <2>1. HasCurve(c) /\ m \in AfterSpeed(h, PointFor(c, temp).speed)
    BY <1>2 DEF AfterCurve
  <2>2. /\ PointFor(c, temp) \in Points
        /\ PointFor(c, temp).speed \in SpeedsAsked(c, temp)
    <3>1. Len(c) > 0
      BY <2>1 DEF HasCurve
    <3> QED
      BY <3>1, PointForFacts
  <2>3. PointFor(c, temp).speed \in 0..100
    BY <2>2 DEF Points
  <2>4. /\ m \in Hardware
        /\ IsManual(m) = IsManual(h)
        /\ \A i \in 1..board.fans :
             m.pwm[i] \in {h.pwm[i], Pwm(PointFor(c, temp).speed)}
    BY <2>1, <2>3, AfterSpeedFacts
  <2> QED
    BY <2>2, <2>4
<1> QED
  BY <1>1, <1>2

(* Taking over a packet's fan data changes the mode to the one it names,   *)
(* if at all.                                                              *)
LEMMA AfterApplyFacts ==
  ASSUME board \in Boards, NEW h \in Hardware,
         NEW mode \in {0, 1, InvalidMode}, NEW c \in Seq(Points),
         NEW m \in AfterApply(h, mode, c)
  PROVE  /\ m \in Hardware
         /\ IsManual(m) # IsManual(h) => mode # InvalidMode
         /\ IsManual(m) # IsManual(h) => IsManual(m) = (mode # 0)
<1>1. PICK k \in AfterMode(h, mode) :
        m \in IF Len(c) = 1 THEN AfterSpeed(k, c[1].speed) ELSE {k}
  BY DEF AfterApply
<1>2. /\ k \in Hardware
      /\ IsManual(k) # IsManual(h) => mode # InvalidMode
      /\ IsManual(k) # IsManual(h) => IsManual(k) = (mode # 0)
  BY AfterModeFacts
<1>3. m \in Hardware /\ IsManual(m) = IsManual(k)
  <2>1. CASE Len(c) = 1
    <3>1. c[1].speed \in 0..100
      <4>1. c[1] \in Points
        BY <2>1
      <4> QED
        BY <4>1 DEF Points
    <3>2. m \in AfterSpeed(k, c[1].speed)
      BY <1>1, <2>1
    <3> QED
      BY <1>2, <3>1, <3>2, AfterSpeedFacts
  <2>2. CASE Len(c) # 1
    BY <1>1, <1>2, <2>2
  <2> QED
    BY <2>1, <2>2
<1> QED
  BY <1>2, <1>3

-----------------------------------------------------------------------------
(* The specification.                                                      *)

Inv == TypeOK /\ CurveTimerMatchesPacket

LEMMA TypeFacts ==
  ASSUME TypeOK
  PROVE  /\ board \in Boards /\ temp \in Int /\ hw \in Hardware
         /\ curve \in Seq(Points) /\ IsSorted(curve)
BY FanAssumption DEF TypeOK, Hardware

(* Fan data of a packet is well typed.                                     *)
LEMMA FanDataType ==
  ASSUME NEW d \in FanData
  PROVE  /\ d.mode \in {0, 1, InvalidMode} /\ d.curve \in Seq(Points)
         /\ d # NoFanData
BY FanAssumption DEF FanDataFields

(* ApplySettings leaves timer, curve and board as the packet has them.     *)
LEMMA ApplySettingsFacts ==
  ASSUME Inv, NEW d \in FanData \cup {NoFanData}, ApplySettings(d)
  PROVE  /\ curve' \in Seq(Points) /\ IsSorted(curve')
         /\ d # NoFanData => curve' \in Sortings(d.curve)
         /\ hw' \in Hardware
         /\ fanCurveTimer' = IF WantsCurve(d) THEN RunningTimer ELSE NullTimer
         /\ IsManual(hw') # IsManual(hw)
              => d \in FanData /\ WantsManual(d) = IsManual(hw')
<1>1. /\ board \in Boards /\ temp \in Int /\ hw \in Hardware
      /\ curve \in Seq(Points) /\ IsSorted(curve)
  BY TypeFacts DEF Inv
<1>2. fanCurveTimer' = IF WantsCurve(d) THEN RunningTimer ELSE NullTimer
  <2>1. fanCurveTimer.state \in {"null", "stopped", "running"}
    BY DEF Inv, TypeOK
  <2>2. fanCurveTimer' =
          StartCurveTimer(
            SetupFanCurveTimer(StopCurveTimer(fanCurveTimer), WantsCurve(d)))
    BY DEF ApplySettings
  <2>3. WantsCurve(d) \in BOOLEAN
    BY DEF WantsCurve, WantsManual
  <2> QED
    BY <2>1, <2>2, <2>3 DEF StartCurveTimer, SetupFanCurveTimer,
       StopCurveTimer, RunningTimer, NullTimer
<1>3. PICK h \in IF d = NoFanData THEN {hw} ELSE AfterApply(hw, d.mode, curve') :
        hw' \in IF WantsCurve(d) THEN AfterCurve(h, curve') ELSE {h}
  BY DEF ApplySettings
<1>4. CASE d = NoFanData
  <2>1. ~WantsCurve(d)
    BY <1>4 DEF WantsCurve, WantsManual
  <2>2. hw' = hw
    BY <1>3, <1>4, <2>1
  <2>3. curve' = curve
    BY <1>4 DEF ApplySettings
  <2> QED
    BY <1>1, <1>2, <1>4, <2>2, <2>3
<1>5. CASE d # NoFanData
  <2>1. d \in FanData /\ d.mode \in {0, 1, InvalidMode} /\ d.curve \in Seq(Points)
    BY <1>5, FanDataType
  <2>2. curve' \in Sortings(d.curve)
    BY <1>5 DEF ApplySettings
  <2>3. curve' \in Seq(Points) /\ IsSorted(curve')
    BY <2>1, <2>2, SortingsFacts
  <2>4. h \in AfterApply(hw, d.mode, curve')
    BY <1>3, <1>5
  <2>5. /\ h \in Hardware
        /\ IsManual(h) # IsManual(hw) => d.mode # InvalidMode
        /\ IsManual(h) # IsManual(hw) => IsManual(h) = (d.mode # 0)
    BY <1>1, <2>1, <2>3, <2>4, AfterApplyFacts
  <2>6. hw' \in Hardware /\ IsManual(hw') = IsManual(h)
    <3>1. CASE WantsCurve(d)
      <4>1. hw' \in AfterCurve(h, curve')
        BY <1>3, <3>1
      <4> QED
        BY <1>1, <2>3, <2>5, <4>1, AfterCurveFacts
    <3>2. CASE ~WantsCurve(d)
      <4>1. hw' = h
        BY <1>3, <3>2
      <4> QED
        BY <2>5, <4>1
    <3> QED
      BY <3>1, <3>2
  <2>7. d.mode # InvalidMode => WantsManual(d) = (d.mode # 0)
    BY <1>5 DEF WantsManual
  <2> QED
    BY <1>2, <2>1, <2>2, <2>3, <2>5, <2>6, <2>7
<1> QED
  BY <1>4, <1>5

LEMMA Initial == Init => Inv
<1> SUFFICES ASSUME Init PROVE Inv
  OBVIOUS
<1>1. board \in Boards
  BY DEF Init
<1>2. hw \in [manual : BOOLEAN, pwm : [1..board.fans -> 0..255]]
  BY DEF Init
<1>3. <<>> \in Seq(Points) /\ IsSorted(<<>>)
  BY DEF IsSorted
<1>4. fanCurveTimer \in [state : {"null", "stopped", "running"},
                         elapsed : 0..CurvePeriod]
  BY FanAssumption DEF Init, NullTimer
<1>5. ~WantsCurve(NoFanData)
  BY DEF WantsCurve, WantsManual
<1> QED
  BY <1>1, <1>2, <1>3, <1>4, <1>5
     DEF Init, Inv, TypeOK, CurveTimerMatchesPacket, NullTimer

(* The invariant is inductive.                                             *)
LEMMA Inductive == Inv /\ [Next]_vars => Inv'
<1> SUFFICES ASSUME Inv, [Next]_vars PROVE Inv'
  OBVIOUS
<1>1. /\ board \in Boards /\ temp \in Int /\ hw \in Hardware
      /\ curve \in Seq(Points) /\ IsSorted(curve)
  BY TypeFacts DEF Inv
<1>2. /\ fanCurveTimer.state \in {"null", "stopped", "running"}
      /\ fanCurveTimer.elapsed \in 0..CurvePeriod
      /\ fanCurveTimer = [state |-> fanCurveTimer.state,
                          elapsed |-> fanCurveTimer.elapsed]
  BY DEF Inv, TypeOK
<1>3. RunningTimer \in [state : {"null", "stopped", "running"},
                        elapsed : 0..CurvePeriod]
      /\ NullTimer \in [state : {"null", "stopped", "running"},
                        elapsed : 0..CurvePeriod]
  BY FanAssumption DEF RunningTimer, NullTimer
<1>4. CASE Start \/ TempChanges \/ UNCHANGED vars
  <2>1. /\ UNCHANGED <<board, hw, curve, fanCurveTimer, asked>>
        /\ up' \in BOOLEAN /\ temp' \in Temps
    BY <1>4 DEF Inv, TypeOK, Start, TempChanges, vars
  <2>2. TypeOK'
    BY <2>1 DEF Inv, TypeOK
  <2>3. CurveTimerMatchesPacket'
    BY <2>1 DEF Inv, CurveTimerMatchesPacket
  <2> QED
    BY <2>2, <2>3 DEF Inv
<1>5. CASE Exit \/ Killed
  <2>1. hw' \in Hardware
    <3>1. CASE Exit
      <4>1. hw' \in AfterMode(hw, 0)
        BY <3>1 DEF Exit
      <4> QED
        BY <1>1, <4>1, AfterModeFacts
    <3>2. CASE Killed
      BY <1>1, <3>2 DEF Killed
    <3> QED
      BY <1>5, <3>1, <3>2
  <2>2. /\ up' = FALSE /\ curve' = <<>> /\ fanCurveTimer' = NullTimer
        /\ asked' = NoFanData /\ board' = board /\ temp' = temp
    BY <1>5 DEF Exit, Killed, Down
  <2>3. <<>> \in Seq(Points) /\ IsSorted(<<>>)
    BY DEF IsSorted
  <2>4. ~WantsCurve(NoFanData)
    BY DEF WantsCurve, WantsManual
  <2>5. TypeOK'
    BY <1>3, <2>1, <2>2, <2>3 DEF Inv, TypeOK, Hardware
  <2>6. CurveTimerMatchesPacket'
    BY <2>2, <2>4 DEF CurveTimerMatchesPacket, NullTimer
  <2> QED
    BY <2>5, <2>6 DEF Inv
<1>6. CASE \E d \in FanData \cup {NoFanData} : ApplySettings(d)
  <2>1. PICK d \in FanData \cup {NoFanData} : ApplySettings(d)
    BY <1>6
  <2>2. /\ curve' \in Seq(Points) /\ IsSorted(curve')
        /\ d # NoFanData => curve' \in Sortings(d.curve)
        /\ hw' \in Hardware
        /\ fanCurveTimer' = IF WantsCurve(d) THEN RunningTimer ELSE NullTimer
    BY <2>1, ApplySettingsFacts
  <2>3. asked' = d /\ up' = up /\ board' = board /\ temp' = temp
    BY <2>1 DEF ApplySettings
  <2>4. TypeOK'
    <3>1. IsSorted(curve)'
      BY <2>2 DEF IsSorted
    <3>2. fanCurveTimer' \in [state : {"null", "stopped", "running"},
                              elapsed : 0..CurvePeriod]
      BY <1>3, <2>2
    <3> QED
      BY <2>2, <2>3, <3>1, <3>2 DEF Inv, TypeOK, Hardware
  <2>5. CurveTimerMatchesPacket'
    BY <2>2, <2>3 DEF CurveTimerMatchesPacket, RunningTimer, NullTimer
  <2> QED
    BY <2>4, <2>5 DEF Inv
<1>7. CASE FillPacketDeviceData
  <2>1. fanCurveTimer'
          = IF fanCurveTimer.state = "null" THEN fanCurveTimer ELSE RunningTimer
    BY <1>2, <1>7 DEF FillPacketDeviceData, StartCurveTimer, StopCurveTimer
  <2>2. fanCurveTimer'.state = fanCurveTimer.state
    BY <2>1 DEF Inv, CurveTimerMatchesPacket, RunningTimer
  <2>3. fanCurveTimer' \in [state : {"null", "stopped", "running"},
                            elapsed : 0..CurvePeriod]
    BY <1>3, <2>1 DEF Inv, TypeOK
  <2> QED
    BY <1>7, <2>2, <2>3
       DEF Inv, TypeOK, CurveTimerMatchesPacket, FillPacketDeviceData
<1>8. CASE OnFanCurveTimerTimeout
  <2>1. hw' \in Hardware
    <3>1. hw' \in AfterCurve(hw, curve)
      BY <1>8 DEF OnFanCurveTimerTimeout
    <3> QED
      BY <1>1, <3>1, AfterCurveFacts
  <2>2. fanCurveTimer' = RunningTimer /\ fanCurveTimer.state = "running"
    BY <1>8 DEF OnFanCurveTimerTimeout, Expired
  <2>3. UNCHANGED <<up, board, curve, temp, asked>>
    BY <1>8 DEF OnFanCurveTimerTimeout
  <2> QED
    BY <1>3, <2>1, <2>2, <2>3
       DEF Inv, TypeOK, Hardware, CurveTimerMatchesPacket, RunningTimer
<1>9. CASE PrepareForSleep
  <2>1. hw' \in Hardware
    <3>1. hw' \in AfterMode(hw, 0)
      BY <1>9 DEF PrepareForSleep
    <3> QED
      BY <1>1, <3>1, AfterModeFacts
  <2>2. UNCHANGED <<up, board, curve, fanCurveTimer, temp, asked>>
    BY <1>9 DEF PrepareForSleep
  <2> QED
    BY <2>1, <2>2 DEF Inv, TypeOK, Hardware, CurveTimerMatchesPacket
<1>10. CASE Tick
  <2>1. /\ fanCurveTimer' = [fanCurveTimer EXCEPT !.elapsed = @ + 1]
        /\ fanCurveTimer.elapsed < CurvePeriod
        /\ UNCHANGED <<up, board, hw, curve, temp, asked>>
    BY <1>10 DEF Tick
  <2>2. fanCurveTimer.elapsed + 1 \in 0..CurvePeriod
    BY <1>2, <2>1, FanAssumption
  <2>3. /\ fanCurveTimer'.state = fanCurveTimer.state
        /\ fanCurveTimer' \in [state : {"null", "stopped", "running"},
                               elapsed : 0..CurvePeriod]
    BY <1>2, <2>1, <2>2
  <2> QED
    BY <2>1, <2>3 DEF Inv, TypeOK, CurveTimerMatchesPacket
<1> QED
  BY <1>4, <1>5, <1>6, <1>7, <1>8, <1>9, <1>10 DEF Next

LEMMA Invariant == Spec => []Inv
<1> QED
  BY Initial, Inductive, PTL DEF Spec

(* Registers keep to their byte and the curve of a fan is sorted, on every *)
(* board and whatever packets, sleeps and failed writes come.              *)
THEOREM TypeCorrect == Spec => []TypeOK
<1>1. Inv => TypeOK
  BY DEF Inv
<1> QED
  BY <1>1, Invariant, PTL

(* The curve timer runs exactly when the last packet asked for manual fans *)
(* on a curve, and the curve is a sorting of that packet's points.         *)
THEOREM CurveTimerKept == Spec => []CurveTimerMatchesPacket
<1>1. Inv => CurveTimerMatchesPacket
  BY DEF Inv
<1> QED
  BY <1>1, Invariant, PTL

(* Fans change hands by a packet that asks for it, by a sleep or by the    *)
(* exit of the daemon, and by no other step.                               *)
THEOREM FansKeepHands == Spec => FansChangeHandsOnPurpose
<1> DEFINE Purpose ==
      \/ \E d \in FanData : WantsManual(d) = IsManual(hw)' /\ ApplySettings(d)
      \/ ~IsManual(hw)' /\ (PrepareForSleep \/ Exit)
<1>1. ASSUME Inv, [Next]_vars
      PROVE  [IsManual(hw)' # IsManual(hw) => Purpose]_vars
  <2> SUFFICES ASSUME Next, IsManual(hw)' # IsManual(hw) PROVE Purpose
    BY <1>1
  <2>1. /\ board \in Boards /\ temp \in Int /\ hw \in Hardware
        /\ curve \in Seq(Points) /\ IsSorted(curve)
    BY <1>1, TypeFacts DEF Inv
  <2>2. board' = board
    BY DEF Next, Start, Exit, Killed, Down, ApplySettings,
       FillPacketDeviceData, OnFanCurveTimerTimeout, PrepareForSleep, Tick,
       TempChanges
  <2>3. IsManual(hw)' = IsManual(hw')
    BY <2>2 DEF IsManual
  <2>4. IsManual(hw') # IsManual(hw)
    BY <2>3
  <2>5. CASE Start \/ Killed \/ FillPacketDeviceData \/ Tick \/ TempChanges
    <3>1. hw' = hw
      BY <2>5 DEF Start, Killed, FillPacketDeviceData, Tick, TempChanges
    <3> QED
      BY <2>4, <3>1
  <2>6. CASE PrepareForSleep \/ Exit
    <3>1. hw' \in AfterMode(hw, 0)
      BY <2>6 DEF PrepareForSleep, Exit
    <3>2. IsManual(hw') = (0 # 0)
      BY <2>1, <2>4, <3>1, AfterModeFacts
    <3> QED
      BY <2>3, <2>6, <3>2
  <2>7. CASE OnFanCurveTimerTimeout
    <3>1. hw' \in AfterCurve(hw, curve)
      BY <2>7 DEF OnFanCurveTimerTimeout
    <3>2. IsManual(hw') = IsManual(hw)
      BY <2>1, <3>1, AfterCurveFacts
    <3> QED
      BY <2>4, <3>2
  <2>8. CASE \E d \in FanData \cup {NoFanData} : ApplySettings(d)
    <3>1. PICK d \in FanData \cup {NoFanData} : ApplySettings(d)
      BY <2>8
    <3>2. d \in FanData /\ WantsManual(d) = IsManual(hw')
      BY <1>1, <2>4, <3>1, ApplySettingsFacts
    <3> QED
      BY <2>3, <3>1, <3>2
  <2> QED
    BY <2>5, <2>6, <2>7, <2>8 DEF Next
<1>2. Spec => [][Next]_vars
  BY DEF Spec
<1> QED
  BY <1>1, <1>2, Invariant, PTL DEF FansChangeHandsOnPurpose

(* A curve step writes what the points of the last packet ask for at the   *)
(* temperature of the CPU, in whatever order those points came.            *)
THEOREM CurveStepFollowsPacket == Spec => SpeedFromCurve
<1> DEFINE Step ==
      OnFanCurveTimerTimeout =>
        \A i \in 1..board.fans :
          \/ hw'.pwm[i] = hw.pwm[i]
          \/ \E s \in SpeedsAsked(asked.curve, temp) : hw'.pwm[i] = Pwm(s)
<1>1. ASSUME Inv, [Next]_vars PROVE [Step]_vars
  <2> SUFFICES ASSUME OnFanCurveTimerTimeout PROVE Step
    OBVIOUS
  <2>1. /\ board \in Boards /\ temp \in Int /\ hw \in Hardware
        /\ curve \in Seq(Points) /\ IsSorted(curve)
    BY <1>1, TypeFacts DEF Inv
  <2>2. WantsCurve(asked)
    BY <1>1 DEF Inv, CurveTimerMatchesPacket, OnFanCurveTimerTimeout, Expired
  <2>3. asked # NoFanData
    BY <2>2 DEF WantsCurve, WantsManual
  <2>4. asked \in FanData /\ asked.curve \in Seq(Points)
    BY <1>1, <2>3, FanDataType DEF Inv, TypeOK
  <2>5. curve \in Sortings(asked.curve)
    BY <1>1, <2>3 DEF Inv, CurveTimerMatchesPacket
  <2>6. {curve[i] : i \in DOMAIN curve}
          = {asked.curve[i] : i \in DOMAIN asked.curve}
    BY <2>4, <2>5, SortingsFacts
  <2>7. SpeedsAsked(curve, temp) = SpeedsAsked(asked.curve, temp)
    BY <2>6 DEF SpeedsAsked
  <2>8. hw' \in AfterCurve(hw, curve)
    BY DEF OnFanCurveTimerTimeout
  <2>9. \A i \in 1..board.fans :
          \/ hw'.pwm[i] = hw.pwm[i]
          \/ \E s \in SpeedsAsked(curve, temp) : hw'.pwm[i] = Pwm(s)
    BY <2>1, <2>8, AfterCurveFacts
  <2> QED
    BY <2>7, <2>9
<1>2. Spec => [][Next]_vars
  BY DEF Spec
<1> QED
  BY <1>1, <1>2, Invariant, PTL DEF SpeedFromCurve
=============================================================================
