--------------------------- MODULE PowerNotifications ---------------------------
(***************************************************************************)
(* How the service hears of the power supply, of sleep and of waking: on   *)
(* Linux from UPower and login1 over D-Bus (DBusServices), on Windows from *)
(* callbacks in a thread of the system (PowerNotificationsWindows), which  *)
(* queue their signals for the main thread.  A notice says that something  *)
(* changed; what it changed to is asked for when the notice is handled,    *)
(* and only a status other than the previous one is passed on.             *)
(***************************************************************************)
EXTENDS Integers, Sequences

CONSTANTS
    Platforms,      \* systems considered
    Results,        \* of subscribing and registering
    MaxNotices      \* bound on notices under way

ASSUME PowerAssumption ==
    /\ Platforms \subseteq {"Linux", "Windows"}
    /\ Results \subseteq BOOLEAN
    /\ MaxNotices \in Nat

VARIABLES
    platform,
    supply,         \* what the machine runs on
    published,      \* what UPower or the system has last given notice of
    upower,         \* UPower is on the bus
    asleep,
    phase,          \* how far the daemon has come in its start
    subscribed,     \* to changes of the supply
    sleepSubscribed,
    notices,        \* changes not handled yet
    sleeps,         \* sleep and wake not handled yet
    prev,           \* prevIsOnBattery, oldACLineStatus
    posted,         \* signals queued for the main thread (Windows)
    known,          \* history: what the service was told last, or what was so at first
    missed          \* history: a change was, or may have been, lost

world == <<platform, supply, published, upower, asleep>>
code == <<phase, subscribed, sleepSubscribed, notices, sleeps, prev, posted>>
history == <<known, missed>>

vars == <<platform, supply, published, upower, asleep, phase, subscribed, sleepSubscribed,
          notices, sleeps, prev, posted, known, missed>>

Supplies == {"mains", "battery"}
Statuses == Supplies \cup {"unknown"}

Init ==
    /\ platform \in Platforms
    /\ supply \in Supplies
    /\ published = supply
    /\ upower \in (IF platform = "Linux" THEN BOOLEAN ELSE {TRUE})
    /\ asleep = FALSE
    /\ phase = "off"
    /\ subscribed = FALSE /\ sleepSubscribed = FALSE
    /\ notices = 0 /\ sleeps = <<>>
    /\ prev = "unknown" /\ posted = <<>>
    /\ known = "unknown" /\ missed = FALSE

-------------------------------------------------------------------------------
\* Start on Linux.  The calls on the bus are steps of their own, as the world
\* does not wait for them.

\* What the daemon asks for on the bus; D-Bus has no path without a slash.
UPowerPath == <<"/", "org", "freedesktop", "UPower">>
Login1Path == <<"org.freedesktop.login1">>

IsObjectPath(path) == Head(path) = "/"

\* QDBusInterface::isValid: the path is one, and somebody is there.
UPowerIsValid == IsObjectPath(UPowerPath) /\ upower
Login1IsValid == IsObjectPath(Login1Path)

\* A property that cannot be read counts as false.
OnBattery == IF upower THEN published ELSE "mains"

\* The watcher for services that come and go is given no connection and tells
\* nothing: who is not there now will never be listened to.
InitDBusServices ==
    /\ platform = "Linux" /\ phase = "off"
    /\ phase' = IF UPowerIsValid THEN "connectUPower" ELSE "connectLogin1"
    /\ prev' = "mains"
    /\ UNCHANGED <<world, subscribed, sleepSubscribed, notices, sleeps, posted, history>>

\* onDBusServiceRegistered: changes are subscribed to before the status is
\* read, so that none falls in between.
ConnectUPower ==
    /\ phase = "connectUPower"
    /\ subscribed' \in Results
    /\ phase' = IF subscribed' THEN "readUPower" ELSE "connectLogin1"
    /\ UNCHANGED <<world, sleepSubscribed, notices, sleeps, prev, posted, history>>

ReadUPower ==
    /\ phase = "readUPower"
    /\ prev' = OnBattery
    /\ known' = OnBattery
    /\ missed' = ~upower
    /\ phase' = "connectLogin1"
    /\ UNCHANGED <<world, subscribed, sleepSubscribed, notices, sleeps, posted>>

ConnectLogin1 ==
    /\ phase = "connectLogin1"
    /\ \E ok \in Results : sleepSubscribed' = (Login1IsValid /\ ok)
    /\ phase' = "running"
    /\ UNCHANGED <<world, subscribed, notices, sleeps, prev, posted, history>>

-------------------------------------------------------------------------------
\* Start on Windows: PowerNotificationsWindows::initNotifications, and then
\* DaemonService connects to the signals.  Callbacks do not wait for that.

RegisterSuspendResume ==
    /\ platform = "Windows" /\ phase = "off"
    /\ sleepSubscribed' \in Results
    /\ phase' = "registerACDC"
    /\ UNCHANGED <<world, subscribed, notices, sleeps, prev, posted, history>>

\* The system calls back at once with the status there is.
RegisterACDC ==
    /\ phase = "registerACDC"
    /\ subscribed' \in Results
    /\ notices' = IF subscribed' THEN 1 ELSE 0
    /\ phase' = "connect"
    /\ UNCHANGED <<world, sleepSubscribed, sleeps, prev, posted, history>>

ConnectService ==
    /\ phase = "connect"
    /\ phase' = "running"
    /\ UNCHANGED <<world, subscribed, sleepSubscribed, notices, sleeps, prev, posted, history>>

\* The end of the daemon, where the destructors unregister.

\* faulty variant: the destructor does not unregister
StopRegistered ==
    /\ phase = "running"
    /\ phase' = "off"
    /\ notices' = 0 /\ sleeps' = <<>>
    /\ prev' = "unknown" /\ posted' = <<>>
    /\ known' = "unknown" /\ missed' = FALSE
    /\ UNCHANGED <<world, subscribed, sleepSubscribed>>

Stop ==
    /\ phase = "running"
    /\ phase' = "off"
    /\ subscribed' = FALSE /\ sleepSubscribed' = FALSE
    /\ notices' = 0 /\ sleeps' = <<>>
    /\ prev' = "unknown" /\ posted' = <<>>
    /\ known' = "unknown" /\ missed' = FALSE
    /\ UNCHANGED world

-------------------------------------------------------------------------------
\* Handlers.

\* faulty variant: the status is not kept
OnUPowerPropsChangedForgets ==
    /\ platform = "Linux" /\ phase = "running" /\ notices > 0
    /\ notices' = notices - 1
    /\ known' = IF OnBattery # prev THEN OnBattery ELSE known
    /\ missed' = ~upower
    /\ UNCHANGED <<world, phase, subscribed, sleepSubscribed, sleeps, prev, posted>>

OnUPowerPropsChanged ==
    /\ platform = "Linux" /\ phase = "running" /\ notices > 0
    /\ notices' = notices - 1
    /\ prev' = OnBattery
    /\ known' = IF OnBattery # prev THEN OnBattery ELSE known
    /\ missed' = ~upower
    /\ UNCHANGED <<world, phase, subscribed, sleepSubscribed, sleeps, posted>>

\* A signal that nobody is connected to is lost.
Post(signal) ==
    /\ Len(posted) < MaxNotices
    /\ posted' = IF phase = "running" THEN Append(posted, signal) ELSE posted

\* The system does not say: the callback gives up.
StatusUnread ==
    /\ UNCHANGED <<prev, posted, known>>
    /\ missed' = TRUE

\* The first status is a baseline; an unknown one is passed on as mains, and
\* makes the next one a baseline.
StatusRead(status) ==
    /\ prev' = status
    /\ IF prev \notin {"unknown", status}
       THEN /\ Post(IF status = "battery" THEN "battery" ELSE "mains")
            /\ missed' = (phase # "running" \/ status = "unknown")
            /\ UNCHANGED known
       ELSE /\ known' = IF known = "unknown" THEN status ELSE known
            /\ missed' = IF known = "unknown" THEN status = "unknown"
                                              ELSE missed \/ prev = "unknown"
            /\ UNCHANGED posted

PowerACDCNotificationCB ==
    /\ platform = "Windows" /\ notices > 0
    /\ notices' = notices - 1
    /\ \/ StatusUnread
       \/ \E status \in {published, "unknown"} : StatusRead(status)
    /\ UNCHANGED <<world, phase, subscribed, sleepSubscribed, sleeps>>

\* onDBusLogin1PrepareForSleep, powerSuspendResumeNotificationCB
SleepNotice ==
    /\ sleeps # <<>>
    /\ sleeps' = Tail(sleeps)
    /\ IF platform = "Linux"
       THEN phase = "running" /\ UNCHANGED posted
       ELSE Post(Head(sleeps))
    /\ UNCHANGED <<world, phase, subscribed, sleepSubscribed, notices, prev, history>>

\* The slots of DaemonService, for what was queued.
Deliver ==
    /\ phase = "running" /\ posted # <<>>
    /\ posted' = Tail(posted)
    /\ known' = IF Head(posted) \in Supplies THEN Head(posted) ELSE known
    /\ UNCHANGED <<world, phase, subscribed, sleepSubscribed, notices, sleeps, prev, missed>>

-------------------------------------------------------------------------------
\* The machine and its system.

SupplyChanges ==
    /\ \E s \in Supplies \ {supply} : supply' = s
    /\ UNCHANGED <<platform, published, upower, asleep, code, history>>

Notify == notices < MaxNotices /\ notices' = IF subscribed THEN notices + 1 ELSE notices

Publish ==
    /\ upower /\ published # supply
    /\ published' = supply
    /\ Notify
    /\ UNCHANGED <<platform, supply, upower, asleep, phase, subscribed, sleepSubscribed, sleeps,
                   prev, posted, history>>

\* UPower gives notice of other properties too.
OtherProperty ==
    /\ platform = "Linux" /\ upower /\ subscribed
    /\ Notify
    /\ UNCHANGED <<world, phase, subscribed, sleepSubscribed, sleeps, prev, posted, history>>

UPowerStops ==
    /\ platform = "Linux" /\ upower
    /\ upower' = FALSE
    /\ UNCHANGED <<platform, supply, published, asleep, code, history>>

\* A change while it was away is no change to it.
UPowerStarts ==
    /\ ~upower
    /\ upower' = TRUE
    /\ published' = supply
    /\ missed' = (missed \/ (subscribed /\ published # supply))
    /\ UNCHANGED <<platform, supply, asleep, code, known>>

\* The machine may sleep before anyone has heard of it.
Sleeps(event) ==
    /\ Len(sleeps) < MaxNotices
    /\ sleeps' = IF sleepSubscribed THEN Append(sleeps, event) ELSE sleeps

Suspend ==
    /\ ~asleep
    /\ asleep' = TRUE
    /\ Sleeps("sleep")
    /\ UNCHANGED <<platform, supply, published, upower, phase, subscribed, sleepSubscribed,
                   notices, prev, posted, history>>

Resume ==
    /\ asleep
    /\ asleep' = FALSE
    /\ Sleeps("wake")
    /\ UNCHANGED <<platform, supply, published, upower, phase, subscribed, sleepSubscribed,
                   notices, prev, posted, history>>

Start ==
    \/ InitDBusServices
    \/ ConnectUPower
    \/ ReadUPower
    \/ ConnectLogin1
    \/ RegisterSuspendResume
    \/ RegisterACDC
    \/ ConnectService

Handle ==
    \/ OnUPowerPropsChanged
    \/ PowerACDCNotificationCB
    \/ SleepNotice
    \/ Deliver

System ==
    \/ SupplyChanges
    \/ Publish
    \/ OtherProperty
    \/ UPowerStops
    \/ UPowerStarts
    \/ Suspend
    \/ Resume

Next == Start \/ Stop \/ Handle \/ System

Spec == Init /\ [][Next]_vars

\* The system gives notice, its threads and the event loop of the daemon run.
\* What the bound on notices disables at times is strongly fair: the queues of
\* the program have no such bound.
FairSpec ==
    /\ Spec
    /\ SF_vars(Publish)
    /\ WF_vars(OnUPowerPropsChanged)
    /\ SF_vars(PowerACDCNotificationCB)
    /\ SF_vars(SleepNotice)
    /\ WF_vars(Deliver)

-------------------------------------------------------------------------------

Phases ==
    {"off", "connectUPower", "readUPower", "connectLogin1", "registerACDC", "connect", "running"}

\* Types, and: who is not started is subscribed to nothing, and what is under
\* way is for who is subscribed.
TypeOK ==
    /\ platform \in Platforms
    /\ supply \in Supplies /\ published \in Supplies
    /\ upower \in BOOLEAN /\ asleep \in BOOLEAN
    /\ phase \in Phases
    /\ subscribed \in BOOLEAN /\ sleepSubscribed \in BOOLEAN
    /\ notices \in Nat
    /\ sleeps \in Seq({"sleep", "wake"})
    /\ prev \in Statuses
    /\ posted \in Seq(Supplies \cup {"sleep", "wake"})
    /\ known \in Statuses /\ missed \in BOOLEAN
    /\ notices > 0 => subscribed
    /\ sleeps # <<>> => sleepSubscribed
    /\ posted # <<>> => platform = "Windows" /\ phase = "running"
    /\ phase = "off" => ~subscribed /\ ~sleepSubscribed

Listening == phase = "running" /\ subscribed /\ upower /\ ~missed

\* With the signals that are queued the service ends up knowing status s.
WillKnow(s) ==
    \/ known = s /\ \A i \in 1 .. Len(posted) : posted[i] \notin Supplies
    \/ \E i \in 1 .. Len(posted) :
          posted[i] = s /\ \A j \in 1 .. Len(posted) : j > i => posted[j] \notin Supplies

\* A change is never dropped in between: when no notice is left to handle, the
\* service knows the status last published, or a signal with it is the last
\* queued, although handlers pass on a status only if it is another than the
\* one before (onDBusUPowerPropsChanged, powerACDCNotificationCB).
NothingIsDropped == Listening /\ notices = 0 => WillKnow(published)

\* Once the supply stays as it is, the service knows it, from what it was told
\* last or because it was so from the start, however notices and reads, other
\* properties and restarts of UPower fall together: but for changes while
\* UPower is away, and statuses Windows could not give, which last until the
\* next change (onDBusUPowerPropsChanged, powerACDCNotificationCB).
SupplyIsTold ==
    <>[]Listening /\ <>[][FALSE]_supply => <>[](known = supply)

\* src/README.md:123, "Apply last applied settings on wake from sleep": when the
\* machine wakes, a daemon that runs and whom nobody refused anything is given
\* notice of it, after whatever it has not handled yet.  On Linux it is not, as
\* login1 is looked for at a path that is none (login1Path).
WakeIsHeard ==
    [][asleep /\ ~asleep' /\ phase = "running" => sleeps' = Append(sleeps, "wake")]_vars
===============================================================================
