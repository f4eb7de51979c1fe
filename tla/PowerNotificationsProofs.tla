------------------------ MODULE PowerNotificationsProofs ------------------------
(***************************************************************************)
(* Types of PowerNotifications, who is subscribed to what, and that no     *)
(* change of the supply is dropped between the notice of it and the        *)
(* service, for any bound on what is under way and whatever is refused.    *)
(***************************************************************************)
EXTENDS PowerNotifications, TLAPS

\* How far the start has come says who cannot be subscribed yet.
NotYet ==
    /\ phase \in {"off", "connectUPower", "registerACDC"} => ~subscribed
    /\ phase \in {"off", "connectUPower", "readUPower", "connectLogin1"} => ~sleepSubscribed

IInv == TypeOK /\ NotYet

LEMMA OnBatteryType == TypeOK => OnBattery \in Supplies
BY DEF TypeOK, OnBattery, Supplies

\* What is queued is queued for a service that runs.
LEMMA PostType ==
    ASSUME NEW signal \in Supplies \cup {"sleep", "wake"}, TypeOK, platform = "Windows", Post(signal)
    PROVE  /\ posted' \in Seq(Supplies \cup {"sleep", "wake"})
           /\ posted' # <<>> => phase = "running"
BY DEF Post, TypeOK

LEMMA SleepsType ==
    ASSUME NEW event \in {"sleep", "wake"}, TypeOK, Sleeps(event)
    PROVE  /\ sleeps' \in Seq({"sleep", "wake"})
           /\ sleeps' # <<>> => sleepSubscribed
BY DEF Sleeps, TypeOK

\* Nothing under way is well-typed.
LEMMA NothingUnderWay ==
    /\ <<>> \in Seq({"sleep", "wake"})
    /\ <<>> \in Seq(Supplies \cup {"sleep", "wake"})
OBVIOUS

LEMMA InitHolds == Init => IInv
<1> SUFFICES ASSUME Init PROVE IInv
  OBVIOUS
<1>1. TypeOK
  <2>1. /\ sleeps \in Seq({"sleep", "wake"}) /\ sleeps = <<>>
        /\ posted \in Seq(Supplies \cup {"sleep", "wake"}) /\ posted = <<>>
    BY NothingUnderWay DEF Init
  <2>2. /\ platform \in Platforms /\ supply \in Supplies /\ published \in Supplies
        /\ upower \in BOOLEAN /\ asleep \in BOOLEAN /\ missed \in BOOLEAN
        /\ phase \in Phases /\ ~subscribed /\ ~sleepSubscribed
        /\ subscribed \in BOOLEAN /\ sleepSubscribed \in BOOLEAN
        /\ notices = 0 /\ prev \in Statuses /\ known \in Statuses
    BY DEF Init, Statuses, Phases
  <2>3. QED
    BY <2>1, <2>2 DEF TypeOK
<1>2. NotYet
  BY DEF Init, NotYet
<1>3. QED
  BY <1>1, <1>2 DEF IInv

LEMMA StartHolds == IInv /\ Start => IInv'
<1> SUFFICES ASSUME IInv, Start PROVE IInv'
  OBVIOUS
<1> USE PowerAssumption DEF IInv, TypeOK, NotYet, Phases, Statuses, world, history
<1>1. CASE InitDBusServices
  BY <1>1 DEF InitDBusServices, Supplies
<1>2. CASE ConnectUPower
  BY <1>2 DEF ConnectUPower
<1>3. CASE ReadUPower
  BY <1>3, OnBatteryType DEF ReadUPower
<1>4. CASE ConnectLogin1
  BY <1>4 DEF ConnectLogin1
<1>5. CASE RegisterSuspendResume
  BY <1>5 DEF RegisterSuspendResume
<1>6. CASE RegisterACDC
  BY <1>6 DEF RegisterACDC
<1>7. CASE ConnectService
  BY <1>7 DEF ConnectService
<1>8. QED
  BY <1>1, <1>2, <1>3, <1>4, <1>5, <1>6, <1>7 DEF Start

LEMMA StopHolds == IInv /\ Stop => IInv'
<1> SUFFICES ASSUME IInv, Stop PROVE IInv'
  OBVIOUS
<1>1. TypeOK'
  <2>1. /\ sleeps' \in Seq({"sleep", "wake"}) /\ sleeps' = <<>>
        /\ posted' \in Seq(Supplies \cup {"sleep", "wake"}) /\ posted' = <<>>
    BY NothingUnderWay DEF Stop
  <2>2. /\ platform' \in Platforms /\ supply' \in Supplies /\ published' \in Supplies
        /\ upower' \in BOOLEAN /\ asleep' \in BOOLEAN /\ missed' \in BOOLEAN
        /\ phase' \in Phases /\ ~subscribed' /\ ~sleepSubscribed'
        /\ subscribed' \in BOOLEAN /\ sleepSubscribed' \in BOOLEAN
        /\ notices' = 0 /\ prev' \in Statuses /\ known' \in Statuses
    BY DEF IInv, TypeOK, Stop, world, Statuses, Phases
  <2>3. QED
    BY <2>1, <2>2 DEF TypeOK, Supplies
<1>2. NotYet'
  BY DEF Stop, NotYet
<1>3. QED
  BY <1>1, <1>2 DEF IInv

LEMMA HandleHolds == IInv /\ Handle => IInv'
<1> SUFFICES ASSUME IInv, Handle PROVE IInv'
  OBVIOUS
<1> USE PowerAssumption DEF IInv, TypeOK, NotYet, Statuses, world, history
<1>1. CASE OnUPowerPropsChanged
  BY <1>1, OnBatteryType DEF OnUPowerPropsChanged
<1>2. CASE PowerACDCNotificationCB
  <2>1. CASE StatusUnread
    BY <1>2, <2>1 DEF PowerACDCNotificationCB, StatusUnread
  <2>2. ASSUME NEW status \in {published, "unknown"}, StatusRead(status)
        PROVE  IInv'
    <3>1. /\ posted' \in Seq(Supplies \cup {"sleep", "wake"})
          /\ posted' # <<>> => phase = "running"
      BY <1>2, <2>2, PostType DEF PowerACDCNotificationCB, StatusRead, Supplies
    <3>2. prev' \in Statuses /\ known' \in Statuses /\ missed' \in BOOLEAN
      BY <2>2 DEF StatusRead
    <3>3. QED
      BY <1>2, <3>1, <3>2 DEF PowerACDCNotificationCB
  <2>3. QED
    BY <1>2, <2>1, <2>2 DEF PowerACDCNotificationCB
<1>3. CASE SleepNotice
  <2>1. Head(sleeps) \in {"sleep", "wake"} /\ Tail(sleeps) \in Seq({"sleep", "wake"})
    BY <1>3 DEF SleepNotice
  <2>2. CASE platform = "Linux"
    BY <1>3, <2>1, <2>2 DEF SleepNotice
  <2>3. CASE platform = "Windows"
    BY <1>3, <2>1, <2>3, PostType DEF SleepNotice
  <2>4. QED
    BY <2>2, <2>3
<1>4. CASE Deliver
  BY <1>4 DEF Deliver
<1>5. QED
  BY <1>1, <1>2, <1>3, <1>4 DEF Handle

LEMMA SystemHolds == IInv /\ System => IInv'
<1> SUFFICES ASSUME IInv, System PROVE IInv'
  OBVIOUS
<1> USE DEF IInv, TypeOK, NotYet, code, world, history
<1>1. CASE SupplyChanges
  BY <1>1 DEF SupplyChanges
<1>2. CASE Publish
  BY <1>2 DEF Publish, Notify
<1>3. CASE OtherProperty
  BY <1>3 DEF OtherProperty, Notify
<1>4. CASE UPowerStops
  BY <1>4 DEF UPowerStops
<1>5. CASE UPowerStarts
  BY <1>5 DEF UPowerStarts
<1>6. CASE Suspend
  BY <1>6, SleepsType DEF Suspend
<1>7. CASE Resume
  BY <1>7, SleepsType DEF Resume
<1>8. QED
  BY <1>1, <1>2, <1>3, <1>4, <1>5, <1>6, <1>7 DEF System

LEMMA StutterHolds == IInv /\ UNCHANGED vars => IInv'
BY DEF IInv, TypeOK, NotYet, vars

\* Types, and nothing is under way for who is not subscribed (DBusServices,
\* PowerNotificationsWindows).
THEOREM TypeCorrect == Spec => []TypeOK
<1>1. IInv /\ [Next]_vars => IInv'
  BY StartHolds, StopHolds, HandleHolds, SystemHolds, StutterHolds DEF Next
<1>2. IInv => TypeOK
  BY DEF IInv
<1>3. QED
  BY InitHolds, <1>1, <1>2, PTL DEF Spec

-------------------------------------------------------------------------------
\* What is known of the supply.

\* No status is on its way to the service.
NoSupplyQueued == \A i \in 1 .. Len(posted) : posted[i] \notin Supplies

\* DBusServices passes on each status in the slot that reads it.
LinuxKnows ==
    platform = "Linux" /\ subscribed /\ phase \in {"connectLogin1", "running"} =>
        /\ prev = known
        /\ ~missed /\ notices = 0 => known = published

\* PowerNotificationsWindows keeps the status it read last, and the service is
\* at it or will be, unless the first notice is still to come.
AtBaseline == known = "unknown" /\ notices > 0

PrevIsOnItsWay ==
    /\ \E s \in Supplies : prev = s /\ WillKnow(s)
    /\ notices = 0 => prev = published

WindowsKnows ==
    platform = "Windows" =>
        /\ upower
        /\ phase \in {"off", "registerACDC"} => known = "unknown"
        /\ known = "unknown" => prev = "unknown" /\ NoSupplyQueued
        /\ subscribed /\ ~missed => AtBaseline \/ PrevIsOnItsWay

\* Each platform has a start of its own.
StartOfItsOwn ==
    /\ phase \in {"connectUPower", "readUPower", "connectLogin1"} => platform = "Linux"
    /\ phase \in {"registerACDC", "connect"} => platform = "Windows"

KInv == IInv /\ StartOfItsOwn /\ LinuxKnows /\ WindowsKnows

\* What is on its way depends on nothing but the queue and what is known.
LEMMA OnItsWaySame ==
    ASSUME UNCHANGED <<known, posted>>
    PROVE  /\ NoSupplyQueued => NoSupplyQueued'
           /\ \A s \in Supplies : WillKnow(s) => WillKnow(s)'
BY DEF NoSupplyQueued, WillKnow, Supplies

\* With an empty queue what will be known is what is.
LEMMA NothingOnItsWay ==
    ASSUME posted = <<>>
    PROVE  NoSupplyQueued /\ \A s \in Supplies : WillKnow(s) <=> known = s
BY DEF NoSupplyQueued, WillKnow

\* Of a queue without a status no element changes what is known.
LEMMA KnownIsOnItsWay ==
    ASSUME NoSupplyQueued, NEW s \in Supplies, known = s
    PROVE  WillKnow(s)
BY DEF NoSupplyQueued, WillKnow

\* A status queued last is the one that will be known.
LEMMA QueuedLast ==
    ASSUME TypeOK, NEW s \in Supplies, posted' = Append(posted, s)
    PROVE  WillKnow(s)'
<1>1. posted \in Seq(Supplies \cup {"sleep", "wake"})
  BY DEF TypeOK
<1>2. /\ Len(posted') = Len(posted) + 1 /\ Len(posted) \in Nat
      /\ posted'[Len(posted) + 1] = s
  BY <1>1
<1>3. QED
  BY <1>2 DEF WillKnow

\* Sleep and wake in the queue leave it at that.
LEMMA QueuedBehind ==
    ASSUME TypeOK, NEW e \in {"sleep", "wake"}, posted' = Append(posted, e), known' = known
    PROVE  /\ NoSupplyQueued => NoSupplyQueued'
           /\ \A s \in Supplies : WillKnow(s) => WillKnow(s)'
<1>1. posted \in Seq(Supplies \cup {"sleep", "wake"})
  BY DEF TypeOK
<1>2. /\ Len(posted') = Len(posted) + 1 /\ Len(posted) \in Nat
      /\ posted'[Len(posted) + 1] = e
      /\ \A i \in 1 .. Len(posted) : posted'[i] = posted[i]
  BY <1>1
<1>3. e \notin Supplies
  BY DEF Supplies
<1>4. NoSupplyQueued => NoSupplyQueued'
  BY <1>2, <1>3 DEF NoSupplyQueued
<1>5. ASSUME NEW s \in Supplies, WillKnow(s)
      PROVE  WillKnow(s)'
  <2>1. CASE known = s /\ NoSupplyQueued
    BY <2>1, <1>4 DEF WillKnow, NoSupplyQueued
  <2>2. ASSUME NEW i \in 1 .. Len(posted), posted[i] = s,
               \A j \in 1 .. Len(posted) : j > i => posted[j] \notin Supplies
        PROVE  WillKnow(s)'
    <3>1. i \in 1 .. Len(posted') /\ posted'[i] = s
      BY <2>2, <1>2
    <3>2. \A j \in 1 .. Len(posted') : j > i => posted'[j] \notin Supplies
      BY <2>2, <1>2, <1>3
    <3>3. QED
      BY <3>1, <3>2 DEF WillKnow
  <2>3. QED
    BY <1>5, <2>1, <2>2 DEF WillKnow, NoSupplyQueued
<1>6. QED
  BY <1>4, <1>5

\* The slots of DaemonService take the head of the queue and what will be known
\* stays the same.
LEMMA DeliveredInTurn ==
    ASSUME TypeOK, Deliver
    PROVE  /\ NoSupplyQueued => NoSupplyQueued' /\ known' = known
           /\ known' = "unknown" => known = "unknown"
           /\ \A s \in Supplies : WillKnow(s) => WillKnow(s)'
<1>1. posted \in Seq(Supplies \cup {"sleep", "wake"}) /\ posted # <<>>
  BY DEF TypeOK, Deliver
<1>2. /\ posted' = Tail(posted)
      /\ known' = IF posted[1] \in Supplies THEN posted[1] ELSE known
  BY DEF Deliver
<1>3. /\ Len(posted) \in Nat /\ Len(posted) > 0 /\ Len(posted') = Len(posted) - 1
      /\ \A i \in 1 .. Len(posted') : posted'[i] = posted[i + 1]
  BY <1>1, <1>2
<1>4. NoSupplyQueued => NoSupplyQueued' /\ known' = known
  BY <1>2, <1>3 DEF NoSupplyQueued
<1>5. known' = "unknown" => known = "unknown"
  BY <1>2 DEF Supplies
<1>6. ASSUME NEW s \in Supplies, WillKnow(s)
      PROVE  WillKnow(s)'
  <2>1. CASE known = s /\ NoSupplyQueued
    BY <2>1, <1>4 DEF WillKnow, NoSupplyQueued
  <2>2. ASSUME NEW i \in 1 .. Len(posted), posted[i] = s,
               \A j \in 1 .. Len(posted) : j > i => posted[j] \notin Supplies
        PROVE  WillKnow(s)'
    <3>1. CASE i = 1
      <4>1. known' = s
        BY <2>2, <3>1, <1>2
      <4>2. \A j \in 1 .. Len(posted') : posted'[j] \notin Supplies
        BY <2>2, <3>1, <1>3
      <4>3. QED
        BY <4>1, <4>2 DEF WillKnow
    <3>2. CASE i # 1
      <4>1. i - 1 \in 1 .. Len(posted') /\ posted'[i - 1] = s
        BY <2>2, <3>2, <1>3
      <4>2. \A j \in 1 .. Len(posted') : j > i - 1 => posted'[j] \notin Supplies
        BY <2>2, <3>2, <1>3
      <4>3. QED
        BY <4>1, <4>2 DEF WillKnow
    <3>3. QED
      BY <3>1, <3>2
  <2>3. QED
    BY <1>6, <2>1, <2>2 DEF WillKnow, NoSupplyQueued
<1>7. QED
  BY <1>4, <1>5, <1>6

LEMMA OwnStart ==
    /\ Init => StartOfItsOwn
    /\ StartOfItsOwn /\ [Next]_vars => StartOfItsOwn'
<1>1. Init => StartOfItsOwn
  BY DEF Init, StartOfItsOwn
<1> SUFFICES ASSUME StartOfItsOwn, [Next]_vars PROVE StartOfItsOwn'
  BY <1>1
<1> USE DEF StartOfItsOwn, world, code
<1>2. CASE Start
  BY <1>2 DEF Start, InitDBusServices, ConnectUPower, ReadUPower, ConnectLogin1,
              RegisterSuspendResume, RegisterACDC, ConnectService
<1>3. CASE Stop
  BY <1>3 DEF Stop
<1>4. CASE Handle
  BY <1>4 DEF Handle, OnUPowerPropsChanged, PowerACDCNotificationCB, SleepNotice, Deliver
<1>5. CASE System
  BY <1>5 DEF System, SupplyChanges, Publish, OtherProperty, UPowerStops, UPowerStarts, Suspend,
              Resume
<1>6. CASE UNCHANGED vars
  BY <1>6 DEF vars
<1>7. QED
  BY <1>2, <1>3, <1>4, <1>5, <1>6 DEF Next

LEMMA KnownAtInit == Init => LinuxKnows /\ WindowsKnows
<1>1. Init => NoSupplyQueued
  BY NothingOnItsWay DEF Init
<1>2. QED
  BY <1>1 DEF Init, LinuxKnows, WindowsKnows

LEMMA KnownAfterStart == KInv /\ Start => LinuxKnows' /\ WindowsKnows'
<1> SUFFICES ASSUME KInv, Start PROVE LinuxKnows' /\ WindowsKnows'
  OBVIOUS
<1> USE DEF KInv, IInv, NotYet, StartOfItsOwn, LinuxKnows, WindowsKnows, AtBaseline, PrevIsOnItsWay,
        world, history
<1> HIDE DEF NoSupplyQueued, WillKnow
<1>1. CASE InitDBusServices
  BY <1>1 DEF InitDBusServices
<1>2. CASE ConnectUPower
  <2>1. UNCHANGED <<known, posted>> /\ phase' \in {"readUPower", "connectLogin1"}
    BY <1>2 DEF ConnectUPower
  <2>2. LinuxKnows'
    BY <1>2 DEF ConnectUPower
  <2>3. QED
    BY <1>2, <2>1, <2>2, OnItsWaySame DEF ConnectUPower
<1>3. CASE ReadUPower
  BY <1>3 DEF ReadUPower, OnBattery
<1>4. CASE ConnectLogin1
  <2>1. UNCHANGED <<known, posted>>
    BY <1>4 DEF ConnectLogin1
  <2>2. QED
    BY <1>4, <2>1, OnItsWaySame DEF ConnectLogin1
<1>5. CASE RegisterSuspendResume
  <2>1. UNCHANGED <<known, posted>>
    BY <1>5 DEF RegisterSuspendResume
  <2>2. QED
    BY <1>5, <2>1, OnItsWaySame DEF RegisterSuspendResume
<1>6. CASE RegisterACDC
  <2>1. UNCHANGED <<known, posted>>
    BY <1>6 DEF RegisterACDC
  <2>2. QED
    BY <1>6, <2>1, OnItsWaySame DEF RegisterACDC
<1>7. CASE ConnectService
  <2>1. UNCHANGED <<known, posted>>
    BY <1>7 DEF ConnectService
  <2>2. QED
    BY <1>7, <2>1, OnItsWaySame DEF ConnectService
<1>8. QED
  BY <1>1, <1>2, <1>3, <1>4, <1>5, <1>6, <1>7 DEF Start

LEMMA KnownAfterStop == KInv /\ Stop => LinuxKnows' /\ WindowsKnows'
<1> SUFFICES ASSUME KInv, Stop PROVE LinuxKnows' /\ WindowsKnows'
  OBVIOUS
<1>1. NoSupplyQueued'
  BY DEF Stop, NoSupplyQueued
<1>2. QED
  BY <1>1 DEF KInv, LinuxKnows, WindowsKnows, Stop, world

\* A status read is one published, or counts as missed.
LEMMA KnownAfterStatus ==
    ASSUME KInv, PowerACDCNotificationCB, NEW status \in {published, "unknown"}, StatusRead(status)
    PROVE  WindowsKnows'
<1> USE DEF KInv, IInv, WindowsKnows, AtBaseline, PrevIsOnItsWay
<1> HIDE DEF NoSupplyQueued, WillKnow
<1>1. /\ platform = "Windows" /\ subscribed /\ notices > 0 /\ prev' = status
      /\ UNCHANGED <<world, phase, subscribed>>
      /\ published \in Supplies /\ "unknown" \notin Supplies /\ known \in Statuses
  BY DEF TypeOK, PowerACDCNotificationCB, StatusRead, Supplies
<1>2. upower' /\ phase' \notin {"off", "registerACDC"}
  BY <1>1 DEF NotYet, world
<1>3. CASE prev \notin {"unknown", status}
  <2>1. known' = known /\ known # "unknown"
    BY <1>1, <1>3 DEF StatusRead
  <2>2. ASSUME ~missed' PROVE PrevIsOnItsWay'
    <3>1. phase = "running" /\ status = published /\ published' = published
      BY <1>1, <1>3, <2>2 DEF StatusRead, world
    <3>2. posted' = Append(posted, published)
      BY <1>1, <1>3, <3>1 DEF StatusRead, Post, Supplies
    <3>3. WillKnow(published)'
      <4>1. ASSUME NEW s \in Supplies, posted' = Append(posted, s) PROVE WillKnow(s)'
        BY <4>1, QueuedLast
      <4>2. \E s \in Supplies : s = published /\ posted' = Append(posted, s) /\ WillKnow(s)'
        BY <1>1, <3>2, <4>1
      <4>3. QED
        BY <4>2, <3>1 DEF WillKnow
    <3>4. \E s \in Supplies : prev' = s /\ WillKnow(s)'
      BY <1>1, <3>1, <3>2, QueuedLast
    <3>5. QED
      BY <1>1, <3>1, <3>4
  <2>3. QED
    BY <1>1, <1>2, <2>1, <2>2
<1>4. CASE prev \in {"unknown", status} /\ known = "unknown"
  <2>1. known' = status /\ posted' = posted /\ missed' = (status = "unknown")
    BY <1>4 DEF StatusRead
  <2>2. NoSupplyQueued'
    BY <1>1, <1>4, <2>1 DEF NoSupplyQueued, Supplies
  <2>3. ASSUME ~missed' PROVE PrevIsOnItsWay'
    <3>1. status = published /\ published' = published /\ known' = published
      BY <1>1, <2>1, <2>3 DEF world
    <3>2. \E s \in Supplies : prev' = s /\ WillKnow(s)'
      BY <1>1, <2>2, <3>1 DEF NoSupplyQueued, WillKnow
    <3>3. QED
      BY <1>1, <3>1, <3>2
  <2>4. QED
    BY <1>1, <1>2, <2>1, <2>2, <2>3
<1>5. CASE prev \in {"unknown", status} /\ known # "unknown"
  <2>1. UNCHANGED <<known, posted>> /\ (~missed' => ~missed /\ prev # "unknown")
    BY <1>5, <1>1 DEF StatusRead, TypeOK
  <2>2. ASSUME ~missed' PROVE PrevIsOnItsWay'
    <3>1. prev = status /\ prev' = prev /\ status = published /\ published' = published
      BY <1>1, <1>5, <2>1, <2>2 DEF world
    <3>2. PrevIsOnItsWay
      BY <1>1, <1>5, <2>1, <2>2
    <3>3. QED
      BY <2>1, <3>1, <3>2, OnItsWaySame
  <2>3. QED
    BY <1>1, <1>2, <1>5, <2>1, <2>2
<1>6. QED
  BY <1>3, <1>4, <1>5

LEMMA KnownAfterHandle == KInv /\ Handle => LinuxKnows' /\ WindowsKnows'
<1> SUFFICES ASSUME KInv, Handle PROVE LinuxKnows' /\ WindowsKnows'
  OBVIOUS
<1> USE DEF KInv, IInv, LinuxKnows, WindowsKnows, AtBaseline, PrevIsOnItsWay, world, history
<1> HIDE DEF NoSupplyQueued, WillKnow
<1>1. CASE OnUPowerPropsChanged
  <2>1. platform = "Linux" /\ platform' = platform /\ subscribed
    BY <1>1 DEF OnUPowerPropsChanged, TypeOK
  <2>2. prev' = known' /\ (~missed' => known' = published')
    BY <1>1, <2>1 DEF OnUPowerPropsChanged, OnBattery
  <2>3. QED
    BY <2>1, <2>2
<1>2. CASE PowerACDCNotificationCB
  <2>1. platform = "Windows" /\ platform' = platform
    BY <1>2 DEF PowerACDCNotificationCB
  <2>2. CASE StatusUnread
    <3>1. UNCHANGED <<known, posted>> /\ missed'
      BY <2>2 DEF StatusUnread
    <3>2. QED
      BY <1>2, <2>1, <2>2, <3>1, OnItsWaySame DEF PowerACDCNotificationCB, StatusUnread
  <2>3. CASE \E status \in {published, "unknown"} : StatusRead(status)
    BY <1>2, <2>1, <2>3, KnownAfterStatus
  <2>4. QED
    BY <1>2, <2>2, <2>3 DEF PowerACDCNotificationCB
<1>3. CASE SleepNotice
  <2>1. platform' = platform /\ Head(sleeps) \in {"sleep", "wake"}
    BY <1>3 DEF SleepNotice, TypeOK
  <2>2. /\ NoSupplyQueued => NoSupplyQueued'
        /\ \A s \in Supplies : WillKnow(s) => WillKnow(s)'
    <3>1. known' = known /\ (posted' = posted \/ Post(Head(sleeps)))
      BY <1>3 DEF SleepNotice
    <3>2. posted' = posted \/ posted' = Append(posted, Head(sleeps))
      BY <3>1 DEF Post
    <3>3. QED
      BY <2>1, <3>1, <3>2, OnItsWaySame, QueuedBehind
  <2>3. QED
    BY <1>3, <2>1, <2>2 DEF SleepNotice
<1>4. CASE Deliver
  <2>1. platform = "Windows" /\ platform' = platform
    BY <1>4 DEF Deliver, TypeOK
  <2>2. /\ NoSupplyQueued => NoSupplyQueued' /\ known' = known
        /\ known' = "unknown" => known = "unknown"
        /\ \A s \in Supplies : WillKnow(s) => WillKnow(s)'
    BY <1>4, DeliveredInTurn
  <2>3. QED
    BY <1>4, <2>1, <2>2 DEF Deliver
<1>5. QED
  BY <1>1, <1>2, <1>3, <1>4 DEF Handle

LEMMA KnownAfterSystem == KInv /\ System => LinuxKnows' /\ WindowsKnows'
<1> SUFFICES ASSUME KInv, System PROVE LinuxKnows' /\ WindowsKnows'
  OBVIOUS
<1>1. /\ UNCHANGED <<platform, phase, subscribed, prev, known>>
      /\ NoSupplyQueued => NoSupplyQueued'
      /\ \A s \in Supplies : WillKnow(s) => WillKnow(s)'
  <2>1. UNCHANGED <<platform, phase, subscribed, prev, posted, known>>
    <3> USE DEF code, history
    <3>1. CASE SupplyChanges
      BY <3>1 DEF SupplyChanges
    <3>2. CASE Publish \/ OtherProperty
      BY <3>2 DEF Publish, OtherProperty, world
    <3>3. CASE UPowerStops \/ UPowerStarts
      BY <3>3 DEF UPowerStops, UPowerStarts
    <3>4. CASE Suspend \/ Resume
      BY <3>4 DEF Suspend, Resume
    <3>5. QED
      BY <3>1, <3>2, <3>3, <3>4 DEF System
  <2>2. QED
    BY <2>1, OnItsWaySame
<1>2. /\ platform = "Windows" /\ upower => upower'
      /\ ~subscribed \/ missed' \/ notices' > 0
         \/ UNCHANGED <<published, notices, missed>>
      /\ notices > 0 => notices' > 0
      /\ ~missed' => ~missed
  <2> USE DEF KInv, IInv, TypeOK, WindowsKnows, code, history
  <2>1. CASE SupplyChanges
    BY <2>1 DEF SupplyChanges
  <2>2. CASE Publish
    BY <2>2 DEF Publish, Notify
  <2>3. CASE OtherProperty
    BY <2>3 DEF OtherProperty, Notify, world
  <2>4. CASE UPowerStops
    BY <2>4 DEF UPowerStops
  <2>5. CASE UPowerStarts
    BY <2>5 DEF UPowerStarts
  <2>6. CASE Suspend \/ Resume
    BY <2>6 DEF Suspend, Resume
  <2>7. QED
    BY <2>1, <2>2, <2>3, <2>4, <2>5, <2>6 DEF System
<1>3. QED
  BY <1>1, <1>2 DEF KInv, LinuxKnows, WindowsKnows, AtBaseline, PrevIsOnItsWay

LEMMA KnownAfterStutter == KInv /\ UNCHANGED vars => LinuxKnows' /\ WindowsKnows'
<1> SUFFICES ASSUME KInv, UNCHANGED vars PROVE LinuxKnows' /\ WindowsKnows'
  OBVIOUS
<1>1. /\ NoSupplyQueued => NoSupplyQueued'
      /\ \A s \in Supplies : WillKnow(s) => WillKnow(s)'
  BY OnItsWaySame DEF vars
<1>2. QED
  BY <1>1 DEF KInv, LinuxKnows, WindowsKnows, AtBaseline, PrevIsOnItsWay, vars

\* A service that listens knows what was published last, or will.
LEMMA KnownIsEnough == KInv => NothingIsDropped
<1> SUFFICES ASSUME KInv, Listening, notices = 0 PROVE WillKnow(published)
  BY DEF NothingIsDropped
<1>1. phase = "running" /\ subscribed /\ ~missed
  BY DEF Listening
<1>2. CASE platform = "Linux"
  <2>1. posted = <<>> /\ published \in Supplies /\ known = published
    BY <1>1, <1>2 DEF KInv, IInv, TypeOK, LinuxKnows
  <2>2. QED
    BY <2>1, NothingOnItsWay
<1>3. CASE platform = "Windows"
  BY <1>1, <1>3 DEF KInv, WindowsKnows, AtBaseline, PrevIsOnItsWay
<1>4. QED
  BY <1>2, <1>3, PowerAssumption DEF KInv, IInv, TypeOK

\* Handlers that pass on a status only when it is another than the one before
\* drop no change (onDBusUPowerPropsChanged, powerACDCNotificationCB).
THEOREM NothingDropped == Spec => []NothingIsDropped
<1>1. Init => KInv
  BY InitHolds, OwnStart, KnownAtInit DEF KInv
<1>2. KInv /\ [Next]_vars => KInv'
  <2>1. KInv /\ [Next]_vars => IInv'
    BY StartHolds, StopHolds, HandleHolds, SystemHolds, StutterHolds DEF Next, KInv
  <2>2. KInv /\ [Next]_vars => LinuxKnows' /\ WindowsKnows'
    BY KnownAfterStart, KnownAfterStop, KnownAfterHandle, KnownAfterSystem, KnownAfterStutter
    DEF Next
  <2>3. QED
    BY <2>1, <2>2, OwnStart DEF KInv
<1>3. QED
  BY <1>1, <1>2, KnownIsEnough, PTL DEF Spec
===============================================================================
