------------------------------ MODULE CPUAccess ------------------------------
(***************************************************************************)
(* How the CPU objects of the daemon reach the registers of CPUs on Linux: *)
(* MSRLinux keeps one descriptor per CPU, shared by reference count, and   *)
(* IntelCPU and AMDCPU bracket everything they read or write between       *)
(* openFd and closeFd, whatever the features of the CPU put inside.  All   *)
(* of it runs on the main thread; meanwhile CPUs are plugged in and out    *)
(* and the rest of the process opens and closes files.                     *)
(***************************************************************************)
EXTENDS Integers, Sequences

CONSTANTS
    NumCpus,    \* cpuInfo->numLogicalCpus
    Layouts,    \* coreIdxLists: OSLinux::getCPUCoreIndexList, AMD: <<>>
    MaxFd,      \* highest descriptor the process may have
    MaxCount,   \* bound of the model on reference counts, in the guard of Begin
    NoSlot      \* a CPU that is not in MSRLinux::fdMap

Cpus == 0 .. NumCpus - 1
Fds  == 0 .. MaxFd

ASSUME CpuAssumption ==
    /\ NumCpus \in Nat \ {0}
    /\ \A l \in Layouts : l \in Seq(Cpus) /\ Len(l) <= NumCpus
    /\ MaxFd \in Nat
    /\ MaxCount \in Nat \ {0}

ASSUME NoSlotAssumption == NoSlot \notin [fd : Int, count : Int]

\* What a descriptor of the process refers to: the registers of a CPU (its
\* number), or one of these.
Free  == -1     \* nothing
Stdin == -2     \* the standard input the daemon was started with
Other == -3     \* any other file or socket of the daemon

VARIABLES
    coreIdxList,\* Device::coreIdxList: the CPU that stands for each core
    slot,       \* MSRLinux::fdMap
    file,       \* the descriptors of the process
    online,     \* CPUs that are not parked or unplugged
    todo,       \* brackets the operation has still to go through
    pc,         \* where the first of them is
    what,       \* the last or running operation
    errors,     \* QSet<DError> it returns
    smooth,     \* history: every CPU was there and no access failed in it
    first       \* history: it is the first operation since Device was made

vars == <<coreIdxList, slot, file, online, todo, pc, what, errors, smooth, first>>

-------------------------------------------------------------------------------

Closed == [fd |-> -1, count |-> 0]

\* faulty variant: a new entry is left at zeros
AddSlotOfZeros(c) == IF slot[c] = NoSlot THEN [fd |-> 0, count |-> 0] ELSE slot[c]

\* fdMap holds nothing for a CPU until it is first named, and operator[]
\* makes an entry of zeros then; addSlotForCPU makes one that is closed.
AddSlotForCPU(c) == IF slot[c] = NoSlot THEN Closed ELSE slot[c]
Subscript(c) == IF slot[c] = NoSlot THEN [fd |-> 0, count |-> 0] ELSE slot[c]

Cores == 1 .. Len(coreIdxList)

Bracket(o, c, k) == [open |-> o, close |-> c, kind |-> k]

Package == <<Bracket(0, 0, "package")>>

\* faulty variant: CPUs are numbered from one
ThreadsFromOne == [i \in 1 .. NumCpus |-> Bracket(i, i, "thread")]

Threads == [i \in 1 .. NumCpus |-> Bracket(i - 1, i - 1, "thread")]

\* applyCoreSettings opens the CPU of the core and closes its index;
\* fillCoreData is called with the CPU alone.
ApplyCores == [i \in Cores |-> Bracket(coreIdxList[i], i - 1, "core")]
FillCores  == [i \in Cores |-> Bracket(coreIdxList[i], coreIdxList[i], "core")]

Brackets(w) ==
    CASE w = "apply" -> Package \o ApplyCores \o Threads
      [] w = "fill"  -> Package \o FillCores \o Threads
      [] w = "temperature" -> Package

Operations == {"apply", "fill", "temperature"}

\* After the Device constructor: getFeatures has opened and closed CPU 0.
Init ==
    /\ coreIdxList \in Layouts
    /\ slot = [c \in Cpus |-> IF c = 0 THEN Closed ELSE NoSlot]
    /\ file = [d \in Fds |-> IF d = 0 THEN Stdin ELSE Free]
    /\ online = Cpus
    /\ todo = <<>>
    /\ pc = "idle"
    /\ what = "none"
    /\ errors = {}
    /\ smooth = FALSE
    /\ first = TRUE

Begin(w) ==
    /\ pc = "idle"
    /\ \A c \in Cpus : slot[c] # NoSlot => slot[c].count < MaxCount
    /\ what' = w
    /\ todo' = Brackets(w)
    /\ pc' = "open"
    /\ errors' = {}
    /\ smooth' = (online = Cpus)
    /\ first' = (what = "none")
    /\ UNCHANGED <<coreIdxList, slot, file, online>>

\* A packet without data for the CPU, or for another number of cores.
Refuse ==
    /\ pc = "idle"
    /\ what' = "apply"
    /\ errors' \in {{}, {"CORE_DATA_MISMATCH"}}
    /\ smooth' = FALSE
    /\ first' = (what = "none")
    /\ UNCHANGED <<coreIdxList, slot, file, online, todo, pc>>

NextBracket ==
    /\ todo' = Tail(todo)
    /\ pc' = IF Len(todo) = 1 THEN "idle" ELSE "open"

\* openFd finds a descriptor, or takes what looks like one.
OpenAgain ==
    /\ pc = "open"
    /\ LET c == Head(todo).open
           s == AddSlotForCPU(c)
       IN  /\ s.fd >= 0
           /\ slot' = [slot EXCEPT ![c] = [fd |-> s.fd, count |-> s.count + 1]]
    /\ pc' = "use"
    /\ UNCHANGED <<coreIdxList, file, online, todo, what, errors, smooth, first>>

\* open() gives the lowest free descriptor.
IsLowestFree(d) == file[d] = Free /\ \A e \in Fds : file[e] = Free => d <= e

OpenNew ==
    /\ pc = "open"
    /\ LET c == Head(todo).open
       IN  /\ AddSlotForCPU(c).fd < 0
           /\ c \in online
           /\ \E d \in Fds :
                /\ IsLowestFree(d)
                /\ file' = [file EXCEPT ![d] = c]
                /\ slot' = [slot EXCEPT ![c] = [fd |-> d, count |-> AddSlotForCPU(c).count + 1]]
    /\ pc' = "use"
    /\ UNCHANGED <<coreIdxList, online, todo, what, errors, smooth, first>>

\* The msr module cannot be loaded, the CPU is not there, or open() fails
\* for another reason.  Only the package, and reads for a client, say so.
OpenFails ==
    /\ pc = "open"
    /\ LET c == Head(todo).open
       IN  /\ AddSlotForCPU(c).fd < 0
           /\ slot' \in {slot, [slot EXCEPT ![c] = AddSlotForCPU(c)]}
    /\ errors' = IF what = "fill" \/ (what = "apply" /\ Head(todo).kind = "package")
                 THEN errors \cup {"NO_MSR_FD"} ELSE errors
    /\ smooth' = FALSE
    /\ NextBracket
    /\ UNCHANGED <<coreIdxList, file, online, what, first>>

\* The registers of the bracket are read or written: the descriptor decides
\* what is reached.  A failed write is an error, a failed read is not.
Use ==
    /\ pc = "use"
    /\ LET c == Head(todo).open
           f == file[slot[c].fd]
       IN  \E ok \in BOOLEAN :
             /\ ok => f # Free /\ f # Stdin
             /\ ok /\ f = c => c \in online
             /\ errors' = IF ok \/ what # "apply" THEN errors ELSE errors \cup {"W"}
             /\ smooth' = (smooth /\ (f = c => ok))
    /\ pc' = "close"
    /\ UNCHANGED <<coreIdxList, slot, file, online, todo, what, first>>

\* faulty variant: the descriptor is kept when the last one lets go
CloseKeepingFile ==
    /\ pc = "close"
    /\ LET c == Head(todo).close
           s == Subscript(c)
       IN  \/ /\ s.count = 0
              /\ slot' = [slot EXCEPT ![c] = s]
           \/ /\ s.count > 0
              /\ slot' = [slot EXCEPT ![c] = [fd |-> s.fd, count |-> s.count - 1]]
    /\ NextBracket
    /\ UNCHANGED <<coreIdxList, file, online, what, errors, smooth, first>>

\* faulty variant: the descriptor is closed but remembered
CloseRememberingFd ==
    /\ pc = "close"
    /\ LET c == Head(todo).close
           s == Subscript(c)
       IN  \/ /\ s.count = 0
              /\ slot' = [slot EXCEPT ![c] = s]
              /\ UNCHANGED file
           \/ /\ s.count > 1
              /\ slot' = [slot EXCEPT ![c] = [fd |-> s.fd, count |-> s.count - 1]]
              /\ UNCHANGED file
           \/ /\ s.count = 1
              /\ slot' = [slot EXCEPT ![c] = [fd |-> s.fd, count |-> 0]]
              /\ file' = [file EXCEPT ![s.fd] = Free]
    /\ NextBracket
    /\ UNCHANGED <<coreIdxList, online, what, errors, smooth, first>>

\* closeFd: the descriptor goes with its last user.
Close ==
    /\ pc = "close"
    /\ LET c == Head(todo).close
           s == Subscript(c)
       IN  \/ /\ s.count = 0
              /\ slot' = [slot EXCEPT ![c] = s]
              /\ UNCHANGED file
           \/ /\ s.count > 1
              /\ slot' = [slot EXCEPT ![c] = [fd |-> s.fd, count |-> s.count - 1]]
              /\ UNCHANGED file
           \/ /\ s.count = 1
              /\ slot' = [slot EXCEPT ![c] = Closed]
              /\ file' = [file EXCEPT ![s.fd] = Free]
    /\ NextBracket
    /\ UNCHANGED <<coreIdxList, online, what, errors, smooth, first>>

\* Sockets of clients, the log, profiles: the rest of the process.
OpenOther ==
    /\ \E d \in Fds : IsLowestFree(d) /\ file' = [file EXCEPT ![d] = Other]
    /\ UNCHANGED <<coreIdxList, slot, online, todo, pc, what, errors, smooth, first>>

CloseOther ==
    /\ \E d \in Fds : file[d] = Other /\ file' = [file EXCEPT ![d] = Free]
    /\ UNCHANGED <<coreIdxList, slot, online, todo, pc, what, errors, smooth, first>>

\* CPUs are parked, by the daemon too, and come back.
Hotplug ==
    /\ online' \in SUBSET Cpus
    /\ smooth' = (smooth /\ online' = Cpus)
    /\ UNCHANGED <<coreIdxList, slot, file, todo, pc, what, errors, first>>

Next ==
    \/ \E w \in Operations : Begin(w)
    \/ Refuse
    \/ OpenAgain
    \/ OpenNew
    \/ OpenFails
    \/ Use
    \/ Close
    \/ OpenOther
    \/ CloseOther
    \/ Hotplug

Spec == Init /\ [][Next]_vars

-------------------------------------------------------------------------------

BracketSet == [open : Cpus, close : Cpus, kind : {"package", "core", "thread"}]

TypeOK ==
    /\ coreIdxList \in Layouts
    /\ slot \in [Cpus -> {NoSlot} \cup [fd : Fds \cup {-1}, count : Nat]]
    /\ file \in [Fds -> Cpus \cup {Free, Stdin, Other}]
    /\ online \in SUBSET Cpus
    /\ todo \in Seq(BracketSet)
    /\ pc \in {"idle", "open", "use", "close"}
    /\ pc = "idle" <=> todo = <<>>
    /\ what \in Operations \cup {"none"}
    /\ errors \in SUBSET {"CORE_DATA_MISMATCH", "NO_MSR_FD", "W"}
    /\ smooth \in BOOLEAN
    /\ first \in BOOLEAN

\* Every core is represented by the CPU of its own index.
Straight == \A i \in Cores : coreIdxList[i] = i - 1

\* Between operations no descriptor of any CPU is open, and none is counted:
\* whatever fails in between, each openFd meets its closeFd (IntelCPU.cpp,
\* AMDCPU.cpp).  The code keeps this where cores are straight.
NothingLeftOpen ==
    Straight /\ pc = "idle" =>
        /\ \A c \in Cpus : slot[c] \in {NoSlot, Closed}
        /\ \A d \in Fds : file[d] \notin Cpus

\* What is read and written in a bracket are the registers of its own CPU:
\* the descriptor kept for it is never one that was closed meanwhile and
\* given to another file (MSRLinux::read, write).
ReachesItsCPU ==
    Straight /\ pc = "use" => file[slot[Head(todo).open].fd] = Head(todo).open

\* No step of an operation closes a file that is not a CPU's: the standard
\* input, the sockets and files of the rest of the daemon.
OthersFilesKept ==
    [][Straight /\ todo' # todo => \A d \in Fds : file[d] \in {Stdin, Other} => file'[d] = file[d]]_vars

\* src/README.md: "Boot profile: profile to apply on daemon start."  The
\* first apply of a process reports no error if every CPU is there and no
\* access to its registers fails.
BootProfileApplies ==
    pc = "idle" /\ what = "apply" /\ first /\ smooth => errors = {}

\* The inductive invariant: slots are closed, but for the one of the bracket.
SlotsClosed ==
    \A c \in Cpus :
        \/ slot[c] \in {NoSlot, Closed}
        \/ /\ pc \in {"use", "close"}
           /\ c = Head(todo).open
           /\ slot[c].fd \in Fds /\ slot[c].count = 1
           /\ file[slot[c].fd] = c

OneFileOpen ==
    \A d \in Fds : file[d] \in Cpus =>
        /\ pc \in {"use", "close"}
        /\ slot[file[d]] = [fd |-> d, count |-> 1]

InBracket ==
    pc \in {"use", "close"} => slot[Head(todo).open] \notin {NoSlot, Closed}

ClosesWhatItOpens ==
    \A i \in 1 .. Len(todo) : todo[i].open = todo[i].close

IInv ==
    /\ TypeOK
    /\ Straight => SlotsClosed /\ OneFileOpen /\ InBracket /\ ClosesWhatItOpens
===============================================================================
