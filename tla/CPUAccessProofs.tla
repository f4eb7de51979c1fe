--------------------------- MODULE CPUAccessProofs ---------------------------
(* Proofs about CPUAccess, for any number of CPUs, cores and descriptors.   *)
EXTENDS CPUAccess, SequenceTheorems, TLAPS

USE CpuAssumption, NoSlotAssumption DEF Cpus, Fds, Cores

-------------------------------------------------------------------------------

\* What remains of the brackets after the first one.
LEMMA TailOfBrackets ==
  ASSUME NEW s \in Seq(BracketSet), s # <<>>
  PROVE  /\ Head(s) \in BracketSet /\ Head(s) = s[1]
         /\ Tail(s) \in Seq(BracketSet)
         /\ Len(s) = 1 <=> Tail(s) = <<>>
         /\ Len(s) >= 1
         /\ \A i \in 1 .. Len(Tail(s)) : i + 1 \in 1 .. Len(s) /\ Tail(s)[i] = s[i + 1]
<1> DEFINE S == BracketSet
<1> HIDE DEF S
<1>0. s \in Seq(S) BY DEF S
<1>1. Len(s) \in Nat /\ Len(s) # 0
  BY <1>0, EmptySeq, LenProperties
<1>2. /\ Head(s) \in S /\ Tail(s) \in Seq(S) /\ Len(Tail(s)) = Len(s) - 1
      /\ \A i \in 1 .. Len(Tail(s)) : Tail(s)[i] = s[i + 1]
  BY <1>0, HeadTailProperties
<1>3. Head(s) = s[1]
  BY <1>0, <1>1
<1>4. Len(Tail(s)) = 0 <=> Tail(s) = <<>>
  BY <1>2, EmptySeq
<1> QED BY <1>1, <1>2, <1>3, <1>4 DEF S

\* Every operation goes through at least one bracket; what holds of each
\* kind of bracket holds of all of them.
LEMMA BracketsFrom ==
  ASSUME coreIdxList \in Layouts, NEW S,
         Bracket(0, 0, "package") \in S,
         \A i \in Cores : /\ Bracket(coreIdxList[i], i - 1, "core") \in S
                         /\ Bracket(coreIdxList[i], coreIdxList[i], "core") \in S,
         \A c \in Cpus : Bracket(c, c, "thread") \in S,
         NEW w \in Operations
  PROVE  Brackets(w) \in Seq(S) /\ Brackets(w) # <<>>
<1>1. Package \in Seq(S) /\ Len(Package) = 1 /\ Package # <<>>
  BY DEF Package
<1>2. Len(coreIdxList) \in Nat /\ NumCpus \in Nat
  BY LenProperties
<1>3. /\ ApplyCores \in [1 .. Len(coreIdxList) -> S]
      /\ FillCores \in [1 .. Len(coreIdxList) -> S]
      /\ Threads \in [1 .. NumCpus -> S]
  <2>1. \A i \in 1 .. NumCpus : i - 1 \in Cpus
    BY <1>2
  <2> QED BY <1>2, <2>1 DEF ApplyCores, FillCores, Threads
<1>4. ApplyCores \in Seq(S) /\ FillCores \in Seq(S) /\ Threads \in Seq(S)
  <2>1. \A n \in Nat : [1 .. n -> S] \subseteq Seq(S)
    BY SeqDef
  <2> QED BY <1>2, <1>3, <2>1
<1>5. \A u \in Seq(S) : /\ Package \o u \o Threads \in Seq(S)
                         /\ Package \o u \o Threads # <<>>
  <2> TAKE u \in Seq(S)
  <2>1. Package \o u \in Seq(S) /\ Len(Package \o u) = 1 + Len(u)
    BY <1>1, ConcatProperties
  <2>2. /\ (Package \o u) \o Threads \in Seq(S)
        /\ Len((Package \o u) \o Threads) = 1 + Len(u) + Len(Threads)
    <3>1. \A x, y \in Seq(S) : x \o y \in Seq(S) /\ Len(x \o y) = Len(x) + Len(y)
      BY ConcatProperties
    <3>2. /\ (Package \o u) \o Threads \in Seq(S)
          /\ Len((Package \o u) \o Threads) = Len(Package \o u) + Len(Threads)
      BY <1>4, <2>1, <3>1
    <3> QED BY <2>1, <3>2
  <2>3. Len(u) \in Nat /\ Len(Threads) \in Nat
    BY <1>4, LenProperties
  <2> QED BY <2>2, <2>3, EmptySeq
<1> QED BY <1>1, <1>4, <1>5 DEF Brackets, Operations

\* All brackets are of CPUs that exist.
LEMMA BracketsTyped ==
  ASSUME coreIdxList \in Layouts, NEW w \in Operations
  PROVE  Brackets(w) \in Seq(BracketSet) /\ Brackets(w) # <<>>
<1>1. \A o, c \in Cpus, k \in {"package", "core", "thread"} : Bracket(o, c, k) \in BracketSet
  BY DEF Bracket, BracketSet
<1>2. \A i \in Cores : coreIdxList[i] \in Cpus /\ i - 1 \in Cpus
  <2>1. Len(coreIdxList) \in Nat
    BY LenProperties
  <2>2. \A i \in 1 .. Len(coreIdxList) : coreIdxList[i] \in Cpus
    BY ElementOfSeq
  <2> QED BY <2>1, <2>2
<1>3. 0 \in Cpus
  OBVIOUS
<1> HIDE DEF Cpus, Cores
<1> QED BY <1>1, <1>2, <1>3, BracketsFrom

\* Where core i is CPU i, what is opened is closed.
LEMMA BracketsMatch ==
  ASSUME coreIdxList \in Layouts, Straight, NEW w \in Operations,
         NEW i \in 1 .. Len(Brackets(w))
  PROVE  Brackets(w)[i].open = Brackets(w)[i].close
<1> DEFINE S == {b \in [open : Int, close : Int, kind : {"package", "core", "thread"}] : b.open = b.close}
<1>1. \A c \in Int, k \in {"package", "core", "thread"} : Bracket(c, c, k) \in S
  BY DEF Bracket
<1>2. \A j \in Cores : coreIdxList[j] = j - 1 /\ j - 1 \in Int
  <2>1. Len(coreIdxList) \in Nat
    BY LenProperties
  <2> QED BY <2>1 DEF Straight
<1>3. Cpus \subseteq Int /\ 0 \in Int
  OBVIOUS
<1>4. \A b \in S : b.open = b.close
  OBVIOUS
<1> HIDE DEF S, Cores, Cpus
<1>5. Brackets(w) \in Seq(S)
  <2>1. \A j \in Cores : /\ Bracket(coreIdxList[j], j - 1, "core") \in S
                         /\ Bracket(coreIdxList[j], coreIdxList[j], "core") \in S
    BY <1>1, <1>2
  <2>2. Bracket(0, 0, "package") \in S /\ \A c \in Cpus : Bracket(c, c, "thread") \in S
    BY <1>1, <1>3
  <2> QED BY <2>1, <2>2, BracketsFrom
<1>6. Brackets(w)[i] \in S
  BY <1>5, ElementOfSeq
<1> QED BY <1>4, <1>6

-------------------------------------------------------------------------------

\* An entry of fdMap is what it was, or one of zeros, or a closed one.
LEMMA Entries ==
  ASSUME TypeOK, NEW c \in Cpus
  PROVE  /\ AddSlotForCPU(c) \in [fd : Fds \cup {-1}, count : Nat]
         /\ Subscript(c) \in [fd : Fds \cup {-1}, count : Nat]
  BY DEF TypeOK, AddSlotForCPU, Subscript, Closed

\* Going on to the next bracket keeps the types of todo and pc.
LEMMA NextBracketTyped ==
  ASSUME TypeOK, pc # "idle", NextBracket
  PROVE  /\ todo' \in Seq(BracketSet)
         /\ pc' \in {"idle", "open", "use", "close"}
         /\ pc' = "idle" <=> todo' = <<>>
<1>1. todo \in Seq(BracketSet) /\ todo # <<>>
  BY DEF TypeOK
<1> QED BY <1>1, TailOfBrackets DEF NextBracket

\* Types are kept by every step, whatever CPU stands for a core.
LEMMA TypeStep ==
  ASSUME TypeOK, [Next]_vars
  PROVE  TypeOK'
<1> USE DEF TypeOK
<1>1. ASSUME NEW w \in Operations, Begin(w) PROVE TypeOK'
  BY <1>1, BracketsTyped DEF Begin
<1>2. CASE Refuse
  BY <1>2 DEF Refuse, Operations
<1>3. ASSUME pc # "idle"
      PROVE  /\ Head(todo) \in BracketSet
             /\ Head(todo).open \in Cpus /\ Head(todo).close \in Cpus
  BY <1>3, TailOfBrackets DEF BracketSet
<1>4. CASE OpenAgain
  <2> DEFINE s == AddSlotForCPU(Head(todo).open)
  <2>1. s \in [fd : Fds \cup {-1}, count : Nat]
    BY <1>3, <1>4, Entries DEF OpenAgain
  <2>2. [fd |-> s.fd, count |-> s.count + 1] \in [fd : Fds \cup {-1}, count : Nat]
    BY <2>1
  <2> QED BY <1>4, <2>2 DEF OpenAgain
<1>5. CASE OpenNew
  <2> DEFINE c == Head(todo).open
  <2>0. c \in Cpus
    BY <1>3, <1>5 DEF OpenNew
  <2>1. AddSlotForCPU(c) \in [fd : Fds \cup {-1}, count : Nat]
    BY <2>0, Entries
  <2>2. PICK d \in Fds :
          /\ file' = [file EXCEPT ![d] = c]
          /\ slot' = [slot EXCEPT ![c] = [fd |-> d, count |-> AddSlotForCPU(c).count + 1]]
    BY <1>5 DEF OpenNew
  <2>3. [fd |-> d, count |-> AddSlotForCPU(c).count + 1] \in [fd : Fds \cup {-1}, count : Nat]
    BY <2>1
  <2>4. /\ slot' \in [Cpus -> {NoSlot} \cup [fd : Fds \cup {-1}, count : Nat]]
        /\ file' \in [Fds -> Cpus \cup {Free, Stdin, Other}]
    BY <2>0, <2>2, <2>3
  <2>5. pc # "idle" /\ pc' = "use" /\ UNCHANGED <<coreIdxList, online, todo, what, errors, smooth, first>>
    BY <1>5 DEF OpenNew
  <2> QED BY <2>4, <2>5
<1>6. CASE OpenFails
  <2>1. pc # "idle"
    BY <1>6 DEF OpenFails
  <2> DEFINE c == Head(todo).open
  <2>a. AddSlotForCPU(c) \in [fd : Fds \cup {-1}, count : Nat] /\ c \in Cpus
    BY <1>3, <2>1, Entries
  <2>b. slot' \in {slot, [slot EXCEPT ![c] = AddSlotForCPU(c)]}
    BY <1>6 DEF OpenFails
  <2>2. slot' \in [Cpus -> {NoSlot} \cup [fd : Fds \cup {-1}, count : Nat]]
    BY <2>a, <2>b
  <2>3. errors' \in SUBSET {"CORE_DATA_MISMATCH", "NO_MSR_FD", "W"} /\ smooth' \in BOOLEAN
    BY <1>6 DEF OpenFails
  <2>4. NextBracket /\ UNCHANGED <<coreIdxList, file, online, what, first>>
    BY <1>6 DEF OpenFails
  <2> QED BY <2>1, <2>2, <2>3, <2>4, NextBracketTyped
<1>7. CASE Use
  <2>1. errors' \in SUBSET {"CORE_DATA_MISMATCH", "NO_MSR_FD", "W"}
    BY <1>7 DEF Use
  <2>2. smooth' \in BOOLEAN
    BY <1>7 DEF Use
  <2> QED BY <1>7, <2>1, <2>2 DEF Use
<1>8. CASE Close
  <2> DEFINE c == Head(todo).close
             s == Subscript(c)
  <2>1. pc # "idle" /\ c \in Cpus /\ s \in [fd : Fds \cup {-1}, count : Nat]
    BY <1>3, <1>8, Entries DEF Close
  <2>2. s.count > 1 => [fd |-> s.fd, count |-> s.count - 1] \in [fd : Fds \cup {-1}, count : Nat]
    BY <2>1
  <2>3. /\ slot' \in [Cpus -> {NoSlot} \cup [fd : Fds \cup {-1}, count : Nat]]
        /\ file' \in [Fds -> Cpus \cup {Free, Stdin, Other}]
    <3>1. CASE s.count = 0 /\ slot' = [slot EXCEPT ![c] = s] /\ UNCHANGED file
      BY <2>1, <3>1
    <3>2. CASE /\ s.count > 1
               /\ slot' = [slot EXCEPT ![c] = [fd |-> s.fd, count |-> s.count - 1]]
               /\ UNCHANGED file
      BY <2>1, <2>2, <3>2
    <3>3. CASE /\ s.count = 1
               /\ slot' = [slot EXCEPT ![c] = Closed]
               /\ file' = [file EXCEPT ![s.fd] = Free]
      BY <2>1, <3>3 DEF Closed
    <3> QED BY <1>8, <3>1, <3>2, <3>3 DEF Close
  <2>4. NextBracket /\ UNCHANGED <<coreIdxList, online, what, errors, smooth, first>>
    BY <1>8 DEF Close
  <2> QED BY <2>1, <2>3, <2>4, NextBracketTyped
<1>9. CASE OpenOther
  BY <1>9 DEF OpenOther
<1>10. CASE CloseOther
  BY <1>10 DEF CloseOther
<1>11. CASE Hotplug
  BY <1>11 DEF Hotplug
<1>12. CASE UNCHANGED vars
  BY <1>12 DEF vars
<1> QED BY <1>1, <1>2, <1>4, <1>5, <1>6, <1>7, <1>8, <1>9, <1>10, <1>11, <1>12 DEF Next

\* What holds of the entries and descriptors after the Device constructor.
LEMMA InitTypes ==
  ASSUME Init
  PROVE  TypeOK
<1>1. <<>> \in Seq(BracketSet)
  BY EmptySeq
<1> QED BY <1>1 DEF Init, TypeOK, Closed

\* Every variable of CPUAccess keeps its type for every number of CPUs and
\* every choice of the CPUs that stand for cores.
THEOREM TypeCorrect == Spec => []TypeOK
  BY InitTypes, TypeStep, PTL DEF Spec

-------------------------------------------------------------------------------

\* The invariant of straight layouts, action by action: opening is only ever
\* done while everything is closed, and closing closes it all.
LEMMA InvStep ==
  ASSUME Straight, IInv, [Next]_vars, TypeOK', UNCHANGED coreIdxList
  PROVE  IInv'
<1>c. ASSUME SlotsClosed', OneFileOpen', InBracket', ClosesWhatItOpens'
      PROVE  IInv'
  BY <1>c DEF IInv
<1> USE DEF TypeOK, IInv
<1>0. ASSUME pc # "idle"
      PROVE  /\ Head(todo).open \in Cpus /\ Head(todo).close = Head(todo).open
             /\ \A i \in 1 .. Len(Tail(todo)) : Tail(todo)[i].open = Tail(todo)[i].close
  <2>1. /\ Head(todo) \in BracketSet /\ Head(todo) = todo[1] /\ 1 \in 1 .. Len(todo)
        /\ \A i \in 1 .. Len(Tail(todo)) : i + 1 \in 1 .. Len(todo) /\ Tail(todo)[i] = todo[i + 1]
    <3>1. Len(todo) \in Nat
      BY LenProperties
    <3> QED BY <1>0, <3>1, TailOfBrackets
  <2> QED BY <2>1, SMTT(20) DEF BracketSet, ClosesWhatItOpens
<1>a. ASSUME pc \notin {"use", "close"}
      PROVE  /\ \A c \in Cpus : slot[c] \in {NoSlot, Closed}
             /\ \A d \in Fds : file[d] \notin Cpus
  BY <1>a DEF SlotsClosed, OneFileOpen
<1>b. ASSUME /\ \A c \in Cpus : slot'[c] \in {NoSlot, Closed}
             /\ \A d \in Fds : file'[d] \notin Cpus
             /\ pc' \notin {"use", "close"}
             /\ ClosesWhatItOpens'
      PROVE  IInv'
  BY <1>b DEF SlotsClosed, OneFileOpen, InBracket
<1>1. ASSUME NEW w \in Operations, Begin(w) PROVE IInv'
  <2>1. ClosesWhatItOpens'
    BY <1>1, BracketsMatch DEF Begin, ClosesWhatItOpens
  <2> QED BY <1>1, <1>a, <1>b, <2>1 DEF Begin
<1>2. CASE Refuse
  <2>1. ClosesWhatItOpens'
    BY <1>2 DEF Refuse, ClosesWhatItOpens
  <2> QED BY <1>2, <1>a, <1>b, <2>1 DEF Refuse
<1>3. CASE OpenAgain
  <2>1. AddSlotForCPU(Head(todo).open).fd = -1
    BY <1>0, <1>3, <1>a DEF OpenAgain, AddSlotForCPU, Closed
  <2> QED BY <1>3, <2>1 DEF OpenAgain
<1>4. CASE OpenNew
  <2> DEFINE c == Head(todo).open
  <2>1. /\ c \in Cpus /\ AddSlotForCPU(c).count = 0
        /\ pc' = "use" /\ UNCHANGED todo
    BY <1>0, <1>4, <1>a DEF OpenNew, AddSlotForCPU, Closed
  <2>2. PICK d \in Fds :
          /\ file' = [file EXCEPT ![d] = c]
          /\ slot' = [slot EXCEPT ![c] = [fd |-> d, count |-> AddSlotForCPU(c).count + 1]]
    BY <1>4 DEF OpenNew
  <2>3. /\ slot'[c] = [fd |-> d, count |-> 1] /\ file'[d] = c
        /\ \A e \in Cpus : e # c => slot'[e] \in {NoSlot, Closed}
        /\ \A e \in Fds : e # d => file'[e] \notin Cpus
    BY <1>4, <1>a, <2>1, <2>2 DEF OpenNew
  <2>4. slot'[c] # NoSlot /\ slot'[c] # Closed
    <3>1. slot'[c] \in [fd : Int, count : Int] /\ slot'[c].count = 1
      BY <2>3
    <3>2. Closed.count = 0
      BY DEF Closed
    <3> QED BY <3>1, <3>2, NoSlotAssumption, SMTT(20)
  <2>5. SlotsClosed' /\ OneFileOpen' /\ InBracket'
    BY <2>1, <2>3, <2>4, SMTT(20) DEF SlotsClosed, OneFileOpen, InBracket
  <2>6. ClosesWhatItOpens'
    BY <2>1 DEF ClosesWhatItOpens
  <2> QED BY <2>5, <2>6
<1>5. CASE OpenFails
  <2> DEFINE c == Head(todo).open
  <2>1. pc = "open" /\ UNCHANGED file /\ NextBracket
    BY <1>5 DEF OpenFails
  <2>2. AddSlotForCPU(c) \in {NoSlot, Closed} /\ c \in Cpus
    BY <1>0, <1>a, <2>1 DEF AddSlotForCPU
  <2>3. \A e \in Cpus : slot'[e] \in {NoSlot, Closed}
    BY <1>5, <1>a, <2>1, <2>2 DEF OpenFails
  <2>4. ClosesWhatItOpens' /\ pc' \notin {"use", "close"}
    BY <1>0, <2>1 DEF NextBracket, ClosesWhatItOpens
  <2> QED BY <1>a, <1>b, <2>1, <2>3, <2>4
<1>6. CASE Use
  <2>1. pc = "use" /\ pc' = "close" /\ UNCHANGED <<slot, file, todo>>
    BY <1>6 DEF Use
  <2> QED BY <2>1 DEF SlotsClosed, OneFileOpen, InBracket, ClosesWhatItOpens
<1>7. CASE Close
  <2> DEFINE c == Head(todo).open
  <2>1. pc = "close" /\ NextBracket /\ c \in Cpus /\ Head(todo).close = c
    BY <1>0, <1>7 DEF Close
  <2>2. /\ slot[c].fd \in Fds /\ slot[c].count = 1
        /\ Subscript(c) = slot[c]
    BY <2>1 DEF SlotsClosed, InBracket, Subscript
  <2>3. slot' = [slot EXCEPT ![c] = Closed] /\ file' = [file EXCEPT ![slot[c].fd] = Free]
    BY <1>7, <2>1, <2>2, SMTT(20) DEF Close
  <2>4. \A e \in Cpus : slot'[e] \in {NoSlot, Closed}
    BY <2>1, <2>3 DEF SlotsClosed
  <2>5. \A d \in Fds : file'[d] \notin Cpus
    <3> SUFFICES ASSUME NEW d \in Fds, file[d] \in Cpus PROVE d = slot[c].fd
      BY <2>2, <2>3 DEF Free
    <3>1. slot[file[d]].fd = d /\ slot[file[d]].count = 1
      BY DEF OneFileOpen
    <3>2. slot[file[d]] # Closed
      BY <3>1 DEF Closed
    <3>3. slot[file[d]] # NoSlot
      BY NoSlotAssumption DEF OneFileOpen
    <3>4. file[d] = c
      BY <3>2, <3>3 DEF SlotsClosed
    <3> QED BY <3>1, <3>4
  <2>6. ClosesWhatItOpens' /\ pc' \notin {"use", "close"}
    BY <1>0, <2>1 DEF NextBracket, ClosesWhatItOpens
  <2> QED BY <1>b, <2>4, <2>5, <2>6
<1>8. CASE OpenOther \/ CloseOther
  <2>1. PICK d \in Fds, x \in {Free, Other} :
          file[d] \in {Free, Other} /\ file' = [file EXCEPT ![d] = x]
    BY <1>8 DEF OpenOther, CloseOther, IsLowestFree
  <2>2. UNCHANGED <<slot, todo, pc>>
    BY <1>8 DEF OpenOther, CloseOther
  <2>3. \A e \in Fds : (file[e] \in Cpus \/ file'[e] \in Cpus) => file'[e] = file[e]
    BY <2>1 DEF Free, Other
  <2>4. SlotsClosed'
    <3> SUFFICES ASSUME NEW c \in Cpus, slot[c] \notin {NoSlot, Closed}
                 PROVE  /\ pc \in {"use", "close"} /\ c = Head(todo).open
                        /\ slot[c].fd \in Fds /\ slot[c].count = 1
                        /\ file'[slot[c].fd] = c
      BY <2>2 DEF SlotsClosed
    <3> QED BY <2>3 DEF SlotsClosed
  <2>5. OneFileOpen'
    BY <2>2, <2>3 DEF OneFileOpen
  <2>6. InBracket' /\ ClosesWhatItOpens'
    BY <2>2 DEF InBracket, ClosesWhatItOpens
  <2> QED BY <1>c, <2>4, <2>5, <2>6
<1>9. CASE Hotplug
  BY <1>9 DEF Hotplug, SlotsClosed, OneFileOpen, InBracket, ClosesWhatItOpens
<1>10. CASE UNCHANGED vars
  BY <1>10 DEF vars, SlotsClosed, OneFileOpen, InBracket, ClosesWhatItOpens
<1> QED BY <1>1, <1>2, <1>3, <1>4, <1>5, <1>6, <1>7, <1>8, <1>9, <1>10 DEF Next

LEMMA InitInv ==
  ASSUME Init
  PROVE  IInv
<1>1. Len(<<>>) = 0
  BY EmptySeq
<1>2. ClosesWhatItOpens
  BY <1>1 DEF Init, ClosesWhatItOpens
<1>3. SlotsClosed /\ InBracket
  BY DEF Init, SlotsClosed, InBracket
<1>4. OneFileOpen
  BY DEF Init, OneFileOpen, Free, Stdin
<1> QED BY <1>2, <1>3, <1>4, InitTypes DEF IInv

LEMMA Invariance == Spec => []IInv
<1>1. Init => IInv
  BY InitInv
<1>2. IInv /\ [Next]_vars => IInv'
  <2> SUFFICES ASSUME IInv, [Next]_vars PROVE IInv'
    BY Zenon
  <2>1. UNCHANGED coreIdxList
    BY DEF Next, vars, Begin, Refuse, OpenAgain, OpenNew, OpenFails, Use, Close, OpenOther, CloseOther,
           Hotplug
  <2>2. TypeOK' /\ Straight' = Straight
    BY <2>1, TypeStep DEF IInv, Straight, Cores
  <2>3. CASE Straight
    BY <2>1, <2>2, <2>3, InvStep
  <2> QED BY <2>2, <2>3 DEF IInv
<1> QED BY <1>1, <1>2, PTL DEF Spec

\* Where core i is CPU i, every operation ends with all descriptors of CPUs
\* closed and none counted (openFd, closeFd of MSRLinux).
THEOREM AllClosed == Spec => []NothingLeftOpen
<1>1. IInv => NothingLeftOpen
  BY DEF IInv, NothingLeftOpen, SlotsClosed, OneFileOpen
<1> QED BY <1>1, Invariance, PTL

\* Where core i is CPU i, a bracket reads and writes the registers of its own
\* CPU and no other file (MSRLinux::read, write).
THEOREM RightCPU == Spec => []ReachesItsCPU
<1>1. IInv => ReachesItsCPU
  <2> SUFFICES ASSUME IInv, Straight, pc = "use"
               PROVE  file[slot[Head(todo).open].fd] = Head(todo).open
    BY DEF ReachesItsCPU
  <2>1. Head(todo).open \in Cpus
    BY TailOfBrackets DEF IInv, TypeOK, BracketSet
  <2> QED BY <2>1 DEF IInv, SlotsClosed, InBracket
<1> QED BY <1>1, Invariance, PTL

\* Where core i is CPU i, no operation closes or takes over a file of the
\* rest of the daemon.
THEOREM OthersKept == Spec => OthersFilesKept
<1>1. IInv /\ [Next]_vars =>
        [Straight /\ todo' # todo => \A d \in Fds : file[d] \in {Stdin, Other} => file'[d] = file[d]]_vars
  <2> SUFFICES ASSUME IInv, Next, Straight, todo' # todo, NEW d \in Fds, file[d] \in {Stdin, Other}
               PROVE  file'[d] = file[d]
    OBVIOUS
  <2>1. CASE Close
    <3>1. Head(todo).close = Head(todo).open /\ Head(todo).open \in Cpus
      <4>1. todo \in Seq(BracketSet) /\ todo # <<>>
        BY <2>1 DEF IInv, TypeOK, Close
      <4>2. Head(todo) = todo[1] /\ 1 \in 1 .. Len(todo) /\ Head(todo) \in BracketSet
        BY <4>1, TailOfBrackets, LenProperties
      <4> QED BY <4>2 DEF IInv, ClosesWhatItOpens, BracketSet
    <3>2. /\ slot[Head(todo).open].count = 1
          /\ file[slot[Head(todo).open].fd] = Head(todo).open
          /\ Subscript(Head(todo).open) = slot[Head(todo).open]
      BY <2>1, <3>1 DEF IInv, SlotsClosed, InBracket, Close, Subscript
    <3>3. file' = [file EXCEPT ![slot[Head(todo).open].fd] = Free]
      BY <2>1, <3>1, <3>2 DEF Close
    <3>4. d # slot[Head(todo).open].fd
      BY <3>1, <3>2, SMTT(20) DEF Stdin, Other
    <3> QED BY <3>3, <3>4 DEF IInv, TypeOK
  <2>2. CASE ~Close
    BY <2>2 DEF Next, Begin, Refuse, OpenAgain, OpenNew, OpenFails, Use, OpenOther, CloseOther, Hotplug
  <2> QED BY <2>1, <2>2
<1> QED BY <1>1, Invariance, PTL DEF Spec, OthersFilesKept
===============================================================================
