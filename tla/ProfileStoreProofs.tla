--------------------------- MODULE ProfileStoreProofs ---------------------------
(***************************************************************************)
(* Proofs about profiles: what is written of a packet reads back, whatever *)
(* its values are and however many cores and threads it has, all of it but *)
(* the Curve Optimizer offset for all cores; the files of the store are a  *)
(* map from names to packets; a client is shown what would be applied, and *)
(* the present value of that offset.                                       *)
(***************************************************************************)
EXTENDS ProfileStore, SequenceTheorems, WellFoundedInduction, TLAPS

-------------------------------------------------------------------------------
\* Sequences put one after the other.

\* A set of numbers has a least one.
LEMMA LeastExists ==
    ASSUME NEW T \in SUBSET Nat, T # {}
    PROVE  \E i \in T : \A j \in T : i <= j
<1> DEFINE R == {ss \in Nat \X Nat : ss[1] < ss[2]}
<1>1. PICK x \in T : \A y \in T : ~(<<y, x>> \in R)
  <2>1. IsWellFoundedOn(R, Nat)
    BY NatLessThanWellFounded DEF OpToRel
  <2> HIDE DEF R
  <2> QED
    BY <2>1, WFMin
<1>2. \A y \in T : ~(y < x)
  BY <1>1
<1> QED
  BY <1>2

\* Sums of lengths: where each of the sequences that are put one after the
\* other ends.
Ends(n, seqs, end) ==
    /\ end \in [0..n -> Nat]
    /\ end[0] = 0
    /\ \A i \in 1..n : end[i] = end[i - 1] + Len(seqs[i])

InRow(n, seqs, end, row) ==
    /\ Len(row) = end[n]
    /\ \A i \in 1..n : \A j \in 1..Len(seqs[i]) :
          end[i - 1] + j \in 1..end[n] /\ row[end[i - 1] + j] = seqs[i][j]

LEMMA EndsExist ==
    ASSUME NEW n \in Nat, NEW seqs, \A i \in 1..n : Len(seqs[i]) \in Nat
    PROVE  \E end : Ends(n, seqs, end)
<1> DEFINE T == {k \in 0..n : ~ \E end : Ends(k, seqs, end)}
<1>1. ASSUME n \in T PROVE FALSE
  <2>1. T \in SUBSET Nat /\ T # {}
    <3>1. \A k \in 0..n : k \in Nat
      OBVIOUS
    <3> HIDE DEF Ends
    <3> QED
      BY <1>1, <3>1
  <2>2. PICK k \in T : \A j \in T : k <= j
    BY <2>1, LeastExists
  <2>3. k \in 0..n /\ ~ \E end : Ends(k, seqs, end)
    OBVIOUS
  <2>4. CASE k = 0
    <3>1. Ends(0, seqs, [i \in 0..0 |-> 0])
      BY DEF Ends
    <3> QED
      BY <2>3, <2>4, <3>1
  <2>5. CASE k # 0
    <3>1. k - 1 \in 0..n /\ k - 1 \notin T /\ k \in 1..n
      BY <2>2, <2>3, <2>5
    <3>2. PICK end : Ends(k - 1, seqs, end)
      BY <3>1
    <3> DEFINE next == [i \in 0..k |-> IF i = k THEN end[k - 1] + Len(seqs[k]) ELSE end[i]]
    <3>3. /\ end \in [0..(k - 1) -> Nat] /\ end[0] = 0
          /\ \A i \in 1..(k - 1) : end[i] = end[i - 1] + Len(seqs[i])
      BY <3>2 DEF Ends
    <3>4. Len(seqs[k]) \in Nat /\ k - 1 \in 0..(k - 1)
      BY <3>1
    <3>5. next \in [0..k -> Nat] /\ next[0] = 0
      BY <2>5, <3>1, <3>3, <3>4
    <3>6. ASSUME NEW i \in 1..k PROVE next[i] = next[i - 1] + Len(seqs[i])
      BY <3>1, <3>3
    <3>7. Ends(k, seqs, next)
      BY <3>5, <3>6 DEF Ends
    <3> QED
      BY <2>3, <3>7
  <2> QED
    BY <2>4, <2>5
<1>2. n \in 0..n
  OBVIOUS
<1> QED
  BY <1>1, <1>2

Chained(seqs, n, g) ==
    g = [i \in 1..n |-> IF i = 1 THEN seqs[i] ELSE g[i - 1] \o seqs[i]]

LEMMA ChainExists ==
    ASSUME NEW seqs, NEW n \in Nat
    PROVE  \E g : Chained(seqs, n, g)
<1> DEFINE T == {k \in 0..n : ~ \E g : Chained(seqs, k, g)}
<1>1. ASSUME n \in T PROVE FALSE
  <2>1. T \in SUBSET Nat /\ T # {}
    <3>1. \A k \in 0..n : k \in Nat
      OBVIOUS
    <3> HIDE DEF Ends
    <3> QED
      BY <1>1, <3>1
  <2>2. PICK k \in T : \A j \in T : k <= j
    BY <2>1, LeastExists
  <2>3. k \in 0..n /\ ~ \E g : Chained(seqs, k, g)
    OBVIOUS
  <2>4. CASE k = 0
    <3>1. Chained(seqs, 0, [i \in 1..0 |-> 0])
      BY DEF Chained
    <3> QED
      BY <2>3, <2>4, <3>1
  <2>5. CASE k # 0
    <3>1. k - 1 \in 0..n /\ k - 1 \notin T /\ k \in 1..n
      BY <2>2, <2>3, <2>5
    <3>2. PICK g : Chained(seqs, k - 1, g)
      BY <3>1
    <3> DEFINE last == IF k = 1 THEN seqs[1] ELSE g[k - 1] \o seqs[k]
               next == [i \in 1..k |-> IF i = k THEN last ELSE g[i]]
    <3>3. ASSUME NEW i \in 1..k
          PROVE  next[i] = IF i = 1 THEN seqs[i] ELSE next[i - 1] \o seqs[i]
      <4>1. CASE i = k
        <5>1. next[i] = last /\ (i # 1 => next[i - 1] = g[k - 1])
          BY <3>1, <4>1
        <5> QED
          BY <4>1, <5>1
      <4>2. CASE i # k
        <5>1. i \in 1..(k - 1) /\ next[i] = g[i] /\ (i # 1 => next[i - 1] = g[i - 1])
          BY <3>1, <4>2
        <5> HIDE DEF next
        <5>2. g[i] = IF i = 1 THEN seqs[i] ELSE g[i - 1] \o seqs[i]
          BY <3>2, <5>1 DEF Chained
        <5> QED
          BY <5>1, <5>2
      <4> QED
        BY <4>1, <4>2
    <3>4. next = [i \in 1..k |-> next[i]]
      OBVIOUS
    <3> HIDE DEF next
    <3>5. Chained(seqs, k, next)
      BY <3>3, <3>4 DEF Chained
    <3> QED
      BY <2>3, <3>5
  <2> QED
    BY <2>4, <2>5
<1>2. n \in 0..n
  OBVIOUS
<1> QED
  BY <1>1, <1>2

\* FlattenSeq puts the sequences one after the other.
LEMMA Flattened ==
    ASSUME NEW S, NEW n \in Nat, NEW seqs \in [1..n -> Seq(S)],
           NEW end, Ends(n, seqs, end)
    PROVE  FlattenSeq(seqs) \in Seq(S) /\ InRow(n, seqs, end, FlattenSeq(seqs))
<1>1. Len(seqs) = n
  OBVIOUS
<1>2. CASE n = 0
  BY <1>1, <1>2 DEF FlattenSeq, Ends, InRow
<1>3. CASE n # 0
  <2> DEFINE g == CHOOSE h : Chained(seqs, n, h)
  <2>1. Chained(seqs, n, g)
    BY ChainExists
  <2>2. FlattenSeq(seqs) = g[n]
    BY <1>1, <1>3 DEF FlattenSeq, Chained
  <2> HIDE DEF g
  <2>3. /\ end \in [0..n -> Nat] /\ end[0] = 0
        /\ \A i \in 1..n : end[i] = end[i - 1] + Len(seqs[i])
    BY DEF Ends
  <2>4. \A i \in 1..n : g[i] = IF i = 1 THEN seqs[i] ELSE g[i - 1] \o seqs[i]
    BY <2>1 DEF Chained
  <2> DEFINE Good(k) == /\ g[k] \in Seq(S) /\ Len(g[k]) = end[k]
                        /\ \A i \in 1..k : \A j \in 1..Len(seqs[i]) :
                             /\ end[i - 1] + j \in 1..end[k]
                             /\ g[k][end[i - 1] + j] = seqs[i][j]
             T == {k \in 1..n : ~Good(k)}
  <2>5. Good(1)
    <3>1. /\ g[1] = seqs[1] /\ seqs[1] \in Seq(S) /\ end[1] = Len(seqs[1]) /\ 1 \in 1..n
      BY <1>3, <2>3, <2>4
    <3>2. \A i \in 1..1 : i = 1 /\ end[i - 1] = 0
      BY <2>3
    <3> QED
      BY <3>1, <3>2
  <2>6. ASSUME NEW k \in 2..n, Good(k - 1)
        PROVE  Good(k)
    <3>0. k \in 1..n /\ k # 1 /\ k - 1 \in 1..n /\ k - 1 \in 0..n
      OBVIOUS
    <3>1. /\ g[k] = g[k - 1] \o seqs[k] /\ seqs[k] \in Seq(S)
          /\ g[k - 1] \in Seq(S) /\ Len(g[k - 1]) = end[k - 1]
          /\ end[k] = end[k - 1] + Len(seqs[k])
          /\ end[k - 1] \in Nat
      <4>1. g[k] = g[k - 1] \o seqs[k]
        BY <2>4, <3>0
      <4>2. end[k] = end[k - 1] + Len(seqs[k]) /\ end[k - 1] \in Nat
        BY <2>3, <3>0
      <4> QED
        BY <2>6, <3>0, <4>1, <4>2
    <3> DEFINE a == g[k - 1]
               b == seqs[k]
    <3>2. /\ a \o b \in Seq(S) /\ Len(a \o b) = Len(a) + Len(b)
          /\ \A j \in 1..Len(a) : (a \o b)[j] = a[j]
          /\ \A j \in 1..Len(b) : (a \o b)[Len(a) + j] = b[j]
          /\ Len(a) \in Nat /\ Len(b) \in Nat
      <4>1. a \in Seq(S) /\ b \in Seq(S)
        BY <3>1
      <4> HIDE DEF a, b
      <4>2. Len(a) \in Nat /\ Len(b) \in Nat
        BY <4>1
      <4> QED
        BY <4>1, <4>2
    <3>3. /\ g[k] = a \o b /\ a = g[k - 1] /\ b = seqs[k]
          /\ Len(a) = end[k - 1] /\ end[k] = Len(a) + Len(b)
      BY <3>1
    <3> HIDE DEF a, b
    <3>4. ASSUME NEW i \in 1..k, NEW j \in 1..Len(seqs[i])
          PROVE  end[i - 1] + j \in 1..end[k] /\ g[k][end[i - 1] + j] = seqs[i][j]
      <4>1. CASE i = k
        <5>1. j \in 1..Len(b) /\ end[i - 1] = Len(a)
          BY <3>3, <4>1
        <5>2. (a \o b)[Len(a) + j] = b[j] /\ Len(a) + j \in 1..(Len(a) + Len(b))
          BY <3>2, <5>1
        <5> QED
          BY <3>3, <4>1, <5>1, <5>2
      <4>2. CASE i # k
        <5>1. i \in 1..(k - 1)
          BY <4>2
        <5>2. /\ end[i - 1] + j \in 1..end[k - 1]
              /\ g[k - 1][end[i - 1] + j] = seqs[i][j]
          BY <2>6, <5>1
        <5>3. \A x \in 1..Len(a) :
                x \in 1..(Len(a) + Len(b)) /\ (a \o b)[x] = a[x]
          BY <3>2
        <5> QED
          BY <3>3, <5>2, <5>3
      <4> QED
        BY <4>1, <4>2
    <3> QED
      BY <3>2, <3>3, <3>4
  <2> HIDE DEF Good
  <2>7. Good(n)
    <3>0. n \in 1..n
      BY <1>3
    <3>1. SUFFICES ASSUME T # {} PROVE FALSE
      BY <3>0
    <3>2. PICK k \in T : \A j \in T : k <= j
      <4>1. T \in SUBSET Nat
        OBVIOUS
      <4> QED
        BY <3>1, <4>1, LeastExists
    <3>3. k # 1 /\ k \in 1..n /\ ~Good(k)
      BY <2>5
    <3>4. k \in 2..n /\ k - 1 \in 1..n /\ k - 1 \notin T
      BY <3>2, <3>3
    <3> QED
      BY <2>6, <3>3, <3>4
  <2> QED
    BY <2>2, <2>7 DEF Good, InRow
<1> QED
  BY <1>2, <1>3

-------------------------------------------------------------------------------
\* Layouts.

AllParts == {"linux", "windows", "fan", "intel", "amd", "linuxAmd"}

\* A sequence, whatever it is of.
IsRow(s) == Len(s) \in Nat /\ DOMAIN s = 1 .. Len(s)

IsLayout(layout) == IsRow(layout.head) /\ IsRow(layout.coreData) /\ IsRow(layout.threadData)

\* A row of fields that are those of a set.
IsRowOf(fields, row) == IsRow(row) /\ ToSet(row) = fields

\* What is written of a part with these fields, but for those in unsaved.
WritesAll(fields, layout, unsaved) ==
    /\ IsRowOf(fields.head \ unsaved, layout.head) /\ unsaved \subseteq fields.head
    /\ IsRowOf(fields.coreData, layout.coreData)
    /\ IsRowOf(fields.threadData, layout.threadData)

LEMMA LayoutParts ==
    ASSUME NEW head, NEW core, NEW thread
    PROVE  /\ Layout(head, core, thread).head = head
           /\ Layout(head, core, thread).coreData = core
           /\ Layout(head, core, thread).threadData = thread
BY Zenon DEF Layout

LEMMA NoRow == IsRowOf({}, <<>>)
BY SMT DEF IsRowOf, IsRow, ToSet

\* A row of sixteen.
LEMMA SixteenFields ==
    ASSUME NEW a, NEW b, NEW c, NEW d, NEW e, NEW f, NEW g, NEW h,
           NEW i, NEW j, NEW k, NEW l, NEW m, NEW n, NEW o, NEW p
    PROVE  IsRowOf({a, b, c, d, e, f, g, h, i, j, k, l, m, n, o, p},
                   <<a, b, c, d, e, f, g, h, i, j, k, l, m, n, o, p>>)
<1> DEFINE row == <<a, b, c, d, e, f, g, h, i, j, k, l, m, n, o, p>>
           fields == {a, b, c, d, e, f, g, h, i, j, k, l, m, n, o, p}
<1>1. /\ Len(row) = 16 /\ DOMAIN row = 1 .. 16
      /\ row[1] = a /\ row[2] = b /\ row[3] = c /\ row[4] = d
      /\ row[5] = e /\ row[6] = f /\ row[7] = g /\ row[8] = h
      /\ row[9] = i /\ row[10] = j /\ row[11] = k /\ row[12] = l
      /\ row[13] = m /\ row[14] = n /\ row[15] = o /\ row[16] = p
  BY SMT
<1> HIDE DEF row
<1>2. \A x \in 1 .. 16 : row[x] \in fields
  BY <1>1
<1>3. \A x \in fields : \E y \in 1 .. 16 : x = row[y]
  <2>1. {1, 2, 3, 4, 5, 6, 7, 8, 9, 10, 11, 12, 13, 14, 15, 16} \subseteq 1 .. 16
    OBVIOUS
  <2> QED
    BY <1>1, <2>1
<1> HIDE DEF fields
<1> QED
  BY <1>1, <1>2, <1>3 DEF IsRowOf, IsRow, ToSet, row, fields

LEMMA LinuxWritesAll == WritesAll(LinuxData, SerializeLinuxData, {})
<1>1. IsRowOf(LinuxData.head, SerializeLinuxData.head)
  BY LayoutParts, SMT DEF IsRowOf, IsRow, ToSet, LinuxData, SerializeLinuxData
<1>2. IsRowOf(LinuxData.threadData, SerializeLinuxData.threadData)
  BY LayoutParts, SMT DEF IsRowOf, IsRow, ToSet, LinuxData, SerializeLinuxData
<1> QED
  BY <1>1, <1>2, NoRow, LayoutParts DEF WritesAll, LinuxData, SerializeLinuxData

LEMMA WindowsWritesAll == WritesAll(WindowsData, SerializeWindowsData, {})
<1>1. IsRowOf(WindowsData.head, SerializeWindowsData.head)
  BY LayoutParts, SMT DEF IsRowOf, IsRow, ToSet, WindowsData, SerializeWindowsData
<1> QED
  BY <1>1, NoRow, LayoutParts DEF WritesAll, WindowsData, SerializeWindowsData

LEMMA FanWritesAll == WritesAll(FanData, SerializeFanData, {})
<1>1. IsRowOf(FanData.head, SerializeFanData.head)
  BY LayoutParts, SMT DEF IsRowOf, IsRow, ToSet, FanData, SerializeFanData
<1> QED
  BY <1>1, NoRow, LayoutParts DEF WritesAll, FanData, SerializeFanData

LEMMA LinuxAMDWritesAll == WritesAll(LinuxAMDData, SerializeLinuxAMDData, {})
<1>1. IsRowOf(LinuxAMDData.head, SerializeLinuxAMDData.head)
  BY LayoutParts, SMT DEF IsRowOf, IsRow, ToSet, LinuxAMDData, SerializeLinuxAMDData
<1>2. IsRowOf(LinuxAMDData.threadData, SerializeLinuxAMDData.threadData)
  BY LayoutParts, SMT DEF IsRowOf, IsRow, ToSet, LinuxAMDData, SerializeLinuxAMDData
<1> QED
  BY <1>1, <1>2, NoRow, LayoutParts DEF WritesAll, LinuxAMDData, SerializeLinuxAMDData

LEMMA IntelWritesAll == WritesAll(IntelData, SerializeIntelData, {})
<1> DEFINE fields ==
             {"pkgPowerLimit", "vrCurrentCfg", "pp1CurrentCfg", "turboPowerCurrentLimit",
              "turboRatioLimit", "miscProcFeatures", "powerCtl", "miscPwrMgmt", "hwpRequestPkg",
              "undervoltData", "pp0Priority", "pp1Priority", "energyPerfBias", "hwpEnable",
              "hwpPkgCtlPolarity", "mchbarPkgRaplLimit"}
<1>1. /\ IntelData.head = fields /\ IntelData.coreData = {"pkgCstConfigControl"}
      /\ IntelData.threadData = {"hwpRequest"}
  BY Zenon DEF IntelData, Layout
<1>2. IsRowOf(fields, SerializeIntelData.head)
  BY SixteenFields, Zenon DEF SerializeIntelData, Layout
<1>3. /\ SerializeIntelData.coreData = <<"pkgCstConfigControl">>
      /\ SerializeIntelData.threadData = <<"hwpRequest">>
  BY Zenon DEF SerializeIntelData, Layout
<1>4. \A f : IsRowOf({f}, <<f>>)
  BY SMT DEF IsRowOf, IsRow, ToSet
<1> HIDE DEF fields
<1> QED
  BY <1>1, <1>2, <1>3, <1>4 DEF WritesAll

LEMMA AMDWritesAll == WritesAll(AMDData, SerializeAMDData, {"curveOptimizer"})
<1> DEFINE saved ==
             {"stapmLimit", "fastLimit", "slowLimit", "tctlTemp", "apuSlow", "apuSkinTemp",
              "dgpuSkinTemp", "vrmCurrent", "vrmSocCurrent", "vrmMaxCurrent", "vrmSocMaxCurrent",
              "staticGfxClock", "minGfxClock", "maxGfxClock", "powerProfile", "cppcEnableBit"}
<1>1. \A f : f \in AMDData.head <=> f \in saved \/ f = "curveOptimizer"
  <2>1. AMDData.head =
          {"stapmLimit", "fastLimit", "slowLimit", "tctlTemp", "apuSlow", "apuSkinTemp",
           "dgpuSkinTemp", "vrmCurrent", "vrmSocCurrent", "vrmMaxCurrent", "vrmSocMaxCurrent",
           "staticGfxClock", "minGfxClock", "maxGfxClock", "powerProfile", "cppcEnableBit",
           "curveOptimizer"}
    BY Zenon DEF AMDData, Layout
  <2> QED
    BY <2>1
<1>2. "curveOptimizer" \notin saved
  OBVIOUS
<1>3. /\ AMDData.coreData = {"curveOptimizer"}
      /\ AMDData.threadData = {"cppcRequest", "pstateCmd", "corePerfBoost"}
  BY Zenon DEF AMDData, Layout
<1>4. IsRowOf(saved, SerializeAMDData.head)
  BY SixteenFields, Zenon DEF SerializeAMDData, Layout
<1>5. /\ SerializeAMDData.coreData = <<"curveOptimizer">>
      /\ SerializeAMDData.threadData = <<"cppcRequest", "pstateCmd", "corePerfBoost">>
  BY Zenon DEF SerializeAMDData, Layout
<1>6. /\ IsRowOf({"curveOptimizer"}, <<"curveOptimizer">>)
      /\ IsRowOf({"cppcRequest", "pstateCmd", "corePerfBoost"},
                 <<"cppcRequest", "pstateCmd", "corePerfBoost">>)
  BY SMT DEF IsRowOf, IsRow, ToSet
<1> HIDE DEF saved
<1>7. AMDData.head \ {"curveOptimizer"} = saved /\ {"curveOptimizer"} \subseteq AMDData.head
  BY <1>1, <1>2
<1> QED
  BY <1>3, <1>4, <1>5, <1>6, <1>7 DEF WritesAll

\* What is written of each part is everything but what is not saved.
LEMMA AllWritten ==
    ASSUME NEW part \in AllParts
    PROVE  WritesAll(Fields[part], WrittenLayouts[part], UnsavedFields(part))
<1>1. /\ Fields["linux"] = LinuxData /\ Fields["windows"] = WindowsData
      /\ Fields["fan"] = FanData /\ Fields["intel"] = IntelData
      /\ Fields["amd"] = AMDData /\ Fields["linuxAmd"] = LinuxAMDData
  BY Zenon DEF Fields
<1>2. /\ WrittenLayouts["linux"] = SerializeLinuxData
      /\ WrittenLayouts["windows"] = SerializeWindowsData
      /\ WrittenLayouts["fan"] = SerializeFanData
      /\ WrittenLayouts["intel"] = SerializeIntelData
      /\ WrittenLayouts["amd"] = SerializeAMDData
      /\ WrittenLayouts["linuxAmd"] = SerializeLinuxAMDData
  BY Zenon DEF WrittenLayouts
<1>3. UnsavedFields("amd") = {"curveOptimizer"} /\ \A p : p # "amd" => UnsavedFields(p) = {}
  BY DEF UnsavedFields
<1>4. CASE part \in {"linux", "windows", "fan"}
  BY <1>1, <1>2, <1>3, <1>4, LinuxWritesAll, WindowsWritesAll, FanWritesAll
<1>5. CASE part \in {"intel", "amd", "linuxAmd"}
  BY <1>1, <1>2, <1>3, <1>5, IntelWritesAll, AMDWritesAll, LinuxAMDWritesAll
<1> QED
  BY <1>4, <1>5 DEF AllParts

\* What is read is what is written, in the order in which it is written.
LEMMA ReadAsWritten == ReadLayouts = WrittenLayouts
<1>1. /\ DeserializeLinuxData = SerializeLinuxData
      /\ DeserializeWindowsData = SerializeWindowsData
      /\ DeserializeFanData = SerializeFanData
  BY Zenon DEF DeserializeLinuxData, SerializeLinuxData, DeserializeWindowsData,
               SerializeWindowsData, DeserializeFanData, SerializeFanData
<1>2. DeserializeIntelData = SerializeIntelData
  BY Zenon DEF DeserializeIntelData, SerializeIntelData
<1>3. /\ DeserializeAMDData = SerializeAMDData
      /\ DeserializeLinuxAMDData = SerializeLinuxAMDData
  BY Zenon DEF DeserializeAMDData, SerializeAMDData, DeserializeLinuxAMDData,
               SerializeLinuxAMDData
<1> QED
  BY <1>1, <1>2, <1>3, Zenon DEF ReadLayouts, WrittenLayouts

LEMMA Joined ==
    ASSUME NEW a, NEW b, NEW c
    PROVE  <<a>> \o <<b>> = <<a, b>> /\ <<a, b>> \o <<c>> = <<a, b, c>>
<1> DEFINE S == {a, b, c}
<1>1. /\ <<a>> \in Seq(S) /\ <<b>> \in Seq(S) /\ <<c>> \in Seq(S)
      /\ <<a, b>> \in Seq(S) /\ <<a, b, c>> \in Seq(S)
  <2>1. a \in S /\ b \in S /\ c \in S
    OBVIOUS
  <2> HIDE DEF S
  <2> QED
    BY <2>1
<1> HIDE DEF S
<1>2. <<a>> \o <<b>> = <<a, b>>
  <2> DEFINE x == <<a>> \o <<b>>
             y == <<a, b>>
  <2>1. x \in Seq(S) /\ Len(x) = 2 /\ x[1] = a /\ x[2] = b
    BY <1>1, SMT
  <2>2. y \in Seq(S) /\ Len(y) = 2 /\ y[1] = a /\ y[2] = b
    BY <1>1, SMT
  <2> HIDE DEF x, y
  <2>3. x = y
    BY <2>1, <2>2, SeqEqual
  <2> QED
    BY <2>3 DEF x, y
<1>3. <<a, b>> \o <<c>> = <<a, b, c>>
  <2> DEFINE x == <<a, b>> \o <<c>>
             y == <<a, b, c>>
  <2>1. x \in Seq(S) /\ Len(x) = 3 /\ x[1] = a /\ x[2] = b /\ x[3] = c
    BY <1>1, SMT
  <2>2. y \in Seq(S) /\ Len(y) = 3 /\ y[1] = a /\ y[2] = b /\ y[3] = c
    BY <1>1, SMT
  <2> HIDE DEF x, y
  <2>3. x = y
    BY <2>1, <2>2, SeqEqual
  <2> QED
    BY <2>3 DEF x, y
<1> QED
  BY <1>2, <1>3

LEMMA JoinedEmpty ==
    ASSUME NEW a, NEW b, NEW c
    PROVE  /\ <<>> \o <<>> = <<>> /\ <<>> \o <<a>> = <<a>> /\ <<a>> \o <<>> = <<a>>
           /\ <<a, b>> \o <<>> = <<a, b>> /\ <<a, b, c>> \o <<>> = <<a, b, c>>
BY SMT

LEMMA JoinedFour ==
    ASSUME NEW a, NEW b, NEW c, NEW d
    PROVE  <<a, b, c>> \o <<d>> = <<a, b, c, d>>
<1> DEFINE S == {a, b, c, d}
<1>1. /\ <<d>> \in Seq(S) /\ <<a, b, c>> \in Seq(S) /\ <<a, b, c, d>> \in Seq(S)
  <2>1. a \in S /\ b \in S /\ c \in S /\ d \in S
    OBVIOUS
  <2> HIDE DEF S
  <2> QED
    BY <2>1
<1> HIDE DEF S
<1> DEFINE x == <<a, b, c>> \o <<d>>
           y == <<a, b, c, d>>
<1>2. x \in Seq(S) /\ Len(x) = 4 /\ x[1] = a /\ x[2] = b /\ x[3] = c /\ x[4] = d
  BY <1>1, SMT
<1>3. y \in Seq(S) /\ Len(y) = 4 /\ y[1] = a /\ y[2] = b /\ y[3] = c /\ y[4] = d
  BY <1>1, SMT
<1> HIDE DEF x, y
<1>4. x = y
  BY <1>2, <1>3, SeqEqual
<1> QED
  BY <1>4 DEF x, y

\* No part twice.
PartsOnce(parts) ==
    /\ IsRow(parts)
    /\ \A i \in DOMAIN parts : parts[i] \in AllParts
    /\ \A i, j \in DOMAIN parts : parts[i] = parts[j] => i = j

LEMMA PartsKnown ==
    ASSUME NEW build
    PROVE  PartsOnce(PartsOf(build))
<1> DEFINE os == IF build.os = "Linux" THEN <<"linux">> ELSE <<"windows">>
           cpu == CASE build.cpu = "Intel" -> <<"intel">>
                    [] build.cpu = "AMD"   -> <<"amd">>
                    [] OTHER               -> <<>>
           both == IF build.cpu = "AMD" /\ build.os = "Linux" THEN <<"linuxAmd">> ELSE <<>>
<1>1. PartsOf(build) = ((os \o <<"fan">>) \o cpu) \o both
  BY Zenon DEF PartsOf
<1>2. os \in {<<"linux">>, <<"windows">>} /\ cpu \in {<<"intel">>, <<"amd">>, <<>>}
  <2>1. CASE build.cpu = "Intel"
    BY <2>1, Zenon
  <2>2. CASE build.cpu = "AMD"
    BY <2>2, Zenon
  <2>3. CASE build.cpu # "Intel" /\ build.cpu # "AMD"
    BY <2>3, Zenon
  <2> QED
    BY <2>1, <2>2, <2>3, Zenon
<1>3. both # <<>> => os = <<"linux">> /\ cpu = <<"amd">> /\ both = <<"linuxAmd">>
  BY Zenon
<1> HIDE DEF os, cpu, both
<1>4. os \o <<"fan">> \in {<<"linux", "fan">>, <<"windows", "fan">>}
  BY <1>2, Joined, Zenon
<1>5. (os \o <<"fan">>) \o cpu \in
        {<<"linux", "fan">>, <<"windows", "fan">>, <<"linux", "fan", "intel">>,
         <<"linux", "fan", "amd">>, <<"windows", "fan", "intel">>, <<"windows", "fan", "amd">>}
  <2> DEFINE two == os \o <<"fan">>
  <2>1. PICK a : two = <<a, "fan">> /\ a \in {"linux", "windows"}
    BY <1>4, Zenon
  <2> HIDE DEF two
  <2>2. two \o <<"intel">> = <<a, "fan", "intel">>
    BY <2>1, Joined, Zenon
  <2>3. two \o <<"amd">> = <<a, "fan", "amd">>
    BY <2>1, Joined, Zenon
  <2>4. two \o <<>> = <<a, "fan">>
    BY <2>1, JoinedEmpty, Zenon
  <2>5. two \o cpu \in {<<a, "fan", "intel">>, <<a, "fan", "amd">>, <<a, "fan">>}
    BY <1>2, <2>2, <2>3, <2>4, Zenon
  <2>6. a = "linux" \/ a = "windows"
    BY <2>1
  <2> QED
    BY <2>5, <2>6, Zenon DEF two
<1>6. PartsOf(build) \in
        {<<"linux", "fan">>, <<"windows", "fan">>, <<"linux", "fan", "intel">>,
         <<"linux", "fan", "amd">>, <<"windows", "fan", "intel">>, <<"windows", "fan", "amd">>,
         <<"linux", "fan", "amd", "linuxAmd">>}
  <2>1. CASE both = <<>>
    <3> DEFINE known == (os \o <<"fan">>) \o cpu
    <3>1. known \o <<>> = known
      <4>1. \A a, b : <<a, b>> \o <<>> = <<a, b>>
        BY JoinedEmpty, Zenon
      <4>2. \A a, b, c : <<a, b, c>> \o <<>> = <<a, b, c>>
        BY JoinedEmpty, Zenon
      <4> HIDE DEF known
      <4>3. (\E a, b : known = <<a, b>>) \/ (\E a, b, c : known = <<a, b, c>>)
        BY <1>5, Zenon DEF known
      <4> QED
        BY <4>1, <4>2, <4>3, Zenon
    <3>2. PartsOf(build) = known
      BY <1>1, <2>1, <3>1, Zenon
    <3> QED
      BY <1>5, <3>2, Zenon
  <2>2. CASE both # <<>>
    <3>1. (os \o <<"fan">>) \o cpu = <<"linux", "fan", "amd">>
      BY <2>2, <1>3, Joined, Zenon
    <3> QED
      BY <2>2, <1>1, <1>3, <3>1, JoinedFour, Zenon
  <2> QED
    BY <2>1, <2>2
<1>7. PartsOnce(<<"linux", "fan">>) /\ PartsOnce(<<"windows", "fan">>)
  BY SMT DEF PartsOnce, IsRow, AllParts
<1>8. PartsOnce(<<"linux", "fan", "intel">>) /\ PartsOnce(<<"windows", "fan", "intel">>)
  BY SMT DEF PartsOnce, IsRow, AllParts
<1>9. PartsOnce(<<"linux", "fan", "amd">>) /\ PartsOnce(<<"windows", "fan", "amd">>)
  BY SMT DEF PartsOnce, IsRow, AllParts
<1>10. PartsOnce(<<"linux", "fan", "amd", "linuxAmd">>)
  BY SMT DEF PartsOnce, IsRow, AllParts
<1> QED
  BY <1>6, <1>7, <1>8, <1>9, <1>10, Zenon

LEMMA PartKnown ==
    ASSUME NEW build, NEW part \in ToSet(PartsOf(build))
    PROVE  part \in AllParts
BY PartsKnown, Zenon DEF PartsOnce, ToSet

-------------------------------------------------------------------------------
\* What a part is written as.

\* The items of a list follow each other, each as long as its fields are many.
LEMMA ItemsRow ==
    ASSUME NEW S, NEW fields, IsRow(fields), NEW list, IsRow(list),
           \A i \in DOMAIN list : \A k \in DOMAIN fields : list[i][fields[k]] \in S
    PROVE  /\ Items(fields, list) \in Seq(S)
           /\ Len(Items(fields, list)) = Len(list) * Len(fields)
           /\ \A i \in DOMAIN list : \A k \in DOMAIN fields :
                /\ (i - 1) * Len(fields) + k \in 1 .. Len(list) * Len(fields)
                /\ Items(fields, list)[(i - 1) * Len(fields) + k] = list[i][fields[k]]
<1> DEFINE m == Len(fields)
           n == Len(list)
           seqs == [i \in 1 .. n |-> Values(fields, list[i])]
           end == [i \in 0 .. n |-> i * m]
<1>1. m \in Nat /\ n \in Nat /\ DOMAIN fields = 1 .. m /\ DOMAIN list = 1 .. n
  BY DEF IsRow
<1>2. \A i \in 1 .. n : Values(fields, list[i]) = [k \in 1 .. m |-> list[i][fields[k]]]
  BY <1>1 DEF Values
<1>3. \A i \in 1 .. n : /\ Values(fields, list[i]) \in Seq(S)
                        /\ Len(Values(fields, list[i])) = m
  <2>1. SUFFICES ASSUME NEW i \in 1 .. n
                 PROVE  Values(fields, list[i]) \in Seq(S) /\ Len(Values(fields, list[i])) = m
    OBVIOUS
  <2> DEFINE value == [k \in 1 .. m |-> list[i][fields[k]]]
  <2>2. \A k \in 1 .. m : list[i][fields[k]] \in S
    BY <1>1
  <2>3. value \in Seq(S) /\ Len(value) = m
    <3> HIDE DEF m, n
    <3> QED
      BY <1>1, <2>2
  <2> QED
    BY <1>2, <2>3
<1>4. Items(fields, list) = FlattenSeq(seqs)
  BY <1>1 DEF Items
<1>5. seqs \in [1 .. n -> Seq(S)]
  BY <1>3
<1>6. \A i \in 1 .. n : i * m = (i - 1) * m + m /\ i * m \in Nat
  <2> HIDE DEF m, n
  <2> QED
    BY <1>1
<1>7. Ends(n, seqs, end)
  <2>1. \A i \in 1 .. n : Len(seqs[i]) = m
    BY <1>3
  <2>2. end \in [0 .. n -> Nat] /\ end[0] = 0
    <3> HIDE DEF m, n
    <3> QED
      BY <1>1
  <2>3. \A i \in 1 .. n : end[i] = end[i - 1] + m
    <3> HIDE DEF m, n
    <3> QED
      BY <1>1, <1>6
  <2> HIDE DEF end, seqs, m, n
  <2> QED
    BY <1>1, <2>1, <2>2, <2>3 DEF Ends
<1>8. \A i \in 1 .. n : end[i - 1] = (i - 1) * m
  <2> HIDE DEF m, n
  <2> QED
    BY <1>1
<1>9. end[n] = n * m
  <2> HIDE DEF m, n
  <2> QED
    BY <1>1
<1>10. \A i \in 1 .. n : \A k \in 1 .. m : seqs[i][k] = list[i][fields[k]] /\ Len(seqs[i]) = m
  BY <1>2, <1>3
<1> DEFINE row == FlattenSeq(seqs)
<1> HIDE DEF end, seqs, m, n
<1>11. row \in Seq(S) /\ InRow(n, seqs, end, row)
  BY <1>1, <1>5, <1>7, Flattened
<1> HIDE DEF row
<1>12. Len(row) = n * m
  BY <1>9, <1>11 DEF InRow
<1>13. ASSUME NEW i \in 1 .. n, NEW k \in 1 .. m
       PROVE  (i - 1) * m + k \in 1 .. n * m /\ row[(i - 1) * m + k] = list[i][fields[k]]
  <2>1. k \in 1 .. Len(seqs[i])
    BY <1>1, <1>10
  <2>2. end[i - 1] + k \in 1 .. end[n] /\ row[end[i - 1] + k] = seqs[i][k]
    BY <1>11, <2>1 DEF InRow
  <2>3. end[i - 1] = (i - 1) * m
    BY <1>8
  <2> QED
    BY <1>9, <1>10, <2>2, <2>3
<1>14. Items(fields, list) = row
  BY <1>4 DEF row
<1> QED
  BY <1>1, <1>11, <1>12, <1>13, <1>14 DEF m, n

\* The lists of a part, as they are if it has none, one or both.
LEMMA ListsKnown ==
    ASSUME NEW layout
    PROVE  /\ layout.coreData = <<>> /\ layout.threadData = <<>>
                => ListsOf(layout) = <<>>
           /\ layout.coreData # <<>> /\ layout.threadData = <<>>
                => ListsOf(layout) = <<"coreData">>
           /\ layout.coreData = <<>> /\ layout.threadData # <<>>
                => ListsOf(layout) = <<"threadData">>
           /\ layout.coreData # <<>> /\ layout.threadData # <<>>
                => ListsOf(layout) = <<"coreData", "threadData">>
<1> DEFINE core == IF layout.coreData = <<>> THEN <<>> ELSE <<"coreData">>
           thread == IF layout.threadData = <<>> THEN <<>> ELSE <<"threadData">>
<1>1. ListsOf(layout) = core \o thread
  BY Zenon DEF ListsOf
<1>2. /\ layout.coreData = <<>> => core = <<>>
      /\ layout.coreData # <<>> => core = <<"coreData">>
      /\ layout.threadData = <<>> => thread = <<>>
      /\ layout.threadData # <<>> => thread = <<"threadData">>
  BY Zenon
<1> HIDE DEF core, thread
<1>3. /\ <<>> \o <<>> = <<>> /\ <<"coreData">> \o <<>> = <<"coreData">>
      /\ <<>> \o <<"threadData">> = <<"threadData">>
  BY JoinedEmpty, Zenon
<1>4. <<"coreData">> \o <<"threadData">> = <<"coreData", "threadData">>
  BY Joined, Zenon
<1> QED
  BY <1>1, <1>2, <1>3, <1>4, Zenon

\* Data of which everything in the lists is written, with all its values in S.
PartIn(S, layout, data) ==
    /\ Nat \subseteq S
    /\ \A k \in DOMAIN layout.head : data.head[layout.head[k]] \in S
    /\ \A l \in {"coreData", "threadData"} :
         /\ Len(data[l]) \in Nat
         /\ layout[l] = <<>> => Len(data[l]) = 0
         /\ data[l] = [i \in 1 .. Len(data[l]) |->
                         [f \in ToSet(layout[l]) |-> data[l][i][f]]]
         /\ \A i \in DOMAIN data[l] : \A k \in DOMAIN layout[l] :
               data[l][i][layout[l][k]] \in S

\* Values of a list.
Size(layout, l, data) == Len(data[l]) * Len(layout[l])

ItemsIn(layout, l, data, row) ==
    \A i \in DOMAIN data[l] : \A k \in DOMAIN layout[l] :
        /\ (i - 1) * Len(layout[l]) + k \in 1 .. Size(layout, l, data)
        /\ row[(i - 1) * Len(layout[l]) + k] = data[l][i][layout[l][k]]

LEMMA ListItems ==
    ASSUME NEW S, NEW layout, IsLayout(layout), NEW data, PartIn(S, layout, data),
           NEW l \in {"coreData", "threadData"}
    PROVE  /\ IsRow(data[l]) /\ IsRow(layout[l]) /\ Size(layout, l, data) \in Nat
           /\ layout[l] = <<>> => Len(data[l]) = 0 /\ Size(layout, l, data) = 0
           /\ Items(layout[l], data[l]) \in Seq(S)
           /\ Len(Items(layout[l], data[l])) = Size(layout, l, data)
           /\ ItemsIn(layout, l, data, Items(layout[l], data[l]))
<1>1. IsRow(layout[l])
  BY DEF IsLayout
<1>3. /\ Len(data[l]) \in Nat
      /\ layout[l] = <<>> => Len(data[l]) = 0
      /\ data[l] = [i \in 1 .. Len(data[l]) |->
                         [f \in ToSet(layout[l]) |-> data[l][i][f]]]
  BY Zenon DEF PartIn
<1>4. IsRow(data[l])
  <2> DEFINE list == data[l]
             item(i) == [f \in ToSet(layout[l]) |-> data[l][i][f]]
  <2>1. list = [i \in 1 .. Len(list) |-> item(i)] /\ Len(list) \in Nat
    BY <1>3
  <2> HIDE DEF list, item
  <2>2. IsRow(list)
    BY <2>1 DEF IsRow
  <2> QED
    BY <2>2 DEF list
<1> DEFINE list == data[l]
           fields == layout[l]
<1>5. \A i \in DOMAIN list : \A k \in DOMAIN fields : list[i][fields[k]] \in S
  BY DEF PartIn
<1>6. Size(layout, l, data) = Len(list) * Len(fields)
  BY DEF Size
<1>7. IsRow(list) /\ IsRow(fields)
  BY <1>1, <1>4
<1>8. fields = <<>> => Len(list) = 0
  BY <1>3
<1> HIDE DEF list, fields
<1>9. Size(layout, l, data) \in Nat /\ (fields = <<>> => Size(layout, l, data) = 0)
  <2>1. Len(list) \in Nat /\ Len(fields) \in Nat
    BY <1>7 DEF IsRow
  <2> QED
    BY <2>1, <1>6, <1>8
<1>10. /\ Items(fields, list) \in Seq(S)
       /\ Len(Items(fields, list)) = Len(list) * Len(fields)
       /\ \A i \in DOMAIN list : \A k \in DOMAIN fields :
            /\ (i - 1) * Len(fields) + k \in 1 .. Len(list) * Len(fields)
            /\ Items(fields, list)[(i - 1) * Len(fields) + k] = list[i][fields[k]]
  BY <1>5, <1>7, ItemsRow
<1>11. ItemsIn(layout, l, data, Items(fields, list))
  BY <1>6, <1>10, Zenon DEF ItemsIn, list, fields
<1> QED
  BY <1>6, <1>7, <1>8, <1>9, <1>10, <1>11, Zenon DEF list, fields

\* The rows a part consists of.
HeadRow(layout, data) == Values(layout.head, data.head)

LengthRow(layout, data) ==
    [i \in DOMAIN ListsOf(layout) |-> Len(data[ListsOf(layout)[i]])]

ItemRow(layout, data, i) == Items(layout[ListsOf(layout)[i]], data[ListsOf(layout)[i]])

ListRow(layout, data) == FlattenSeq([i \in DOMAIN ListsOf(layout) |-> ItemRow(layout, data, i)])

\* Two rows after one another.
Joins(S, s, t, row) ==
    /\ row \in Seq(S) /\ Len(row) = Len(s) + Len(t)
    /\ \A j \in 1 .. Len(s) : row[j] = s[j]
    /\ \A j \in 1 .. Len(t) : row[Len(s) + j] = t[j]

LEMMA ListOne ==
    ASSUME NEW S, NEW row \in Seq(S), NEW seqs, seqs = [i \in 1 .. 1 |-> row]
    PROVE  /\ FlattenSeq(seqs) \in Seq(S) /\ Len(FlattenSeq(seqs)) = Len(row)
           /\ \A j \in 1 .. Len(row) : FlattenSeq(seqs)[j] = row[j]
<1> DEFINE end == [i \in 0 .. 1 |-> IF i = 0 THEN 0 ELSE Len(row)]
<1>1. seqs \in [1 .. 1 -> Seq(S)] /\ seqs[1] = row /\ Len(row) \in Nat
  OBVIOUS
<1>2. end \in [0 .. 1 -> Nat] /\ end[0] = 0 /\ end[1] = Len(row)
  OBVIOUS
<1> HIDE DEF end
<1>3. \A i \in 1 .. 1 : i = 1 /\ end[i] = end[i - 1] + Len(seqs[i])
  BY <1>1, <1>2
<1>4. Ends(1, seqs, end)
  BY <1>2, <1>3 DEF Ends
<1>5. FlattenSeq(seqs) \in Seq(S) /\ InRow(1, seqs, end, FlattenSeq(seqs))
  BY <1>1, <1>4, Flattened
<1>6. \A j \in 1 .. Len(row) : FlattenSeq(seqs)[end[1 - 1] + j] = row[j]
  BY <1>1, <1>5 DEF InRow
<1>7. \A j \in 1 .. Len(row) : end[1 - 1] + j = j
  BY <1>1, <1>2
<1>8. Len(FlattenSeq(seqs)) = Len(row)
  BY <1>2, <1>5 DEF InRow
<1> QED
  BY <1>5, <1>6, <1>7, <1>8

LEMMA ListTwo ==
    ASSUME NEW S, NEW row1 \in Seq(S), NEW row2 \in Seq(S),
           NEW seqs, seqs = [i \in 1 .. 2 |-> IF i = 1 THEN row1 ELSE row2]
    PROVE  Joins(S, row1, row2, FlattenSeq(seqs))
<1> DEFINE n1 == Len(row1)
           n2 == Len(row2)
           end == [i \in 0 .. 2 |-> IF i = 0 THEN 0 ELSE IF i = 1 THEN n1 ELSE n1 + n2]
<1>1. /\ seqs \in [1 .. 2 -> Seq(S)] /\ seqs[1] = row1 /\ seqs[2] = row2
      /\ n1 \in Nat /\ n2 \in Nat
  OBVIOUS
<1>2. end \in [0 .. 2 -> Nat] /\ end[0] = 0 /\ end[1] = n1 /\ end[2] = n1 + n2
  <2> HIDE DEF n1, n2
  <2> QED
    BY <1>1
<1>3. Len(seqs[1]) = n1 /\ Len(seqs[2]) = n2
  BY <1>1
<1> HIDE DEF end, n1, n2
<1>4. \A i \in 1 .. 2 : end[i] = end[i - 1] + Len(seqs[i])
  <2>1. SUFFICES ASSUME NEW i \in 1 .. 2 PROVE end[i] = end[i - 1] + Len(seqs[i])
    OBVIOUS
  <2>2. CASE i = 1
    <3>1. end[i - 1] = 0
      BY <2>2, <1>2
    <3> QED
      BY <2>2, <3>1, <1>1, <1>2, <1>3
  <2>3. CASE i = 2
    <3>1. end[i - 1] = n1
      BY <2>3, <1>2
    <3> QED
      BY <2>3, <3>1, <1>1, <1>2, <1>3
  <2> QED
    BY <2>2, <2>3
<1>5. Ends(2, seqs, end)
  BY <1>2, <1>4 DEF Ends
<1>6. FlattenSeq(seqs) \in Seq(S) /\ InRow(2, seqs, end, FlattenSeq(seqs))
  BY <1>1, <1>5, Flattened
<1>7. \A j \in 1 .. n1 : FlattenSeq(seqs)[end[1 - 1] + j] = row1[j]
  <2>1. \A j \in 1 .. Len(seqs[1]) : FlattenSeq(seqs)[end[1 - 1] + j] = seqs[1][j]
    <3>1. 1 \in 1 .. 2
      OBVIOUS
    <3> QED
      BY <3>1, <1>6, Zenon DEF InRow
  <2> QED
    BY <1>1, <1>3, <2>1, Zenon
<1>8. \A j \in 1 .. n2 : FlattenSeq(seqs)[end[2 - 1] + j] = row2[j]
  <2>1. \A j \in 1 .. Len(seqs[2]) : FlattenSeq(seqs)[end[2 - 1] + j] = seqs[2][j]
    <3>1. 2 \in 1 .. 2
      OBVIOUS
    <3> QED
      BY <3>1, <1>6, Zenon DEF InRow
  <2> QED
    BY <1>1, <1>3, <2>1, Zenon
<1>9. (\A j \in 1 .. n1 : end[1 - 1] + j = j) /\ (\A j \in 1 .. n2 : end[2 - 1] + j = n1 + j)
  BY <1>1, <1>2
<1>10. Len(FlattenSeq(seqs)) = n1 + n2
  BY <1>2, <1>6 DEF InRow
<1>11. \A j \in 1 .. n1 : FlattenSeq(seqs)[j] = row1[j]
  BY <1>7, <1>9
<1>12. \A j \in 1 .. n2 : FlattenSeq(seqs)[n1 + j] = row2[j]
  BY <1>8, <1>9
<1> QED
  BY <1>6, <1>10, <1>11, <1>12 DEF n1, n2, Joins

LEMMA ListData ==
    ASSUME NEW S, NEW layout, IsLayout(layout), NEW data, PartIn(S, layout, data)
    PROVE  Joins(S, Items(layout.coreData, data.coreData),
                 Items(layout.threadData, data.threadData), ListRow(layout, data))
<1> DEFINE row == ListRow(layout, data)
           C == Items(layout.coreData, data.coreData)
           T == Items(layout.threadData, data.threadData)
           seqs == [i \in DOMAIN ListsOf(layout) |-> ItemRow(layout, data, i)]
<1>1. C \in Seq(S) /\ Len(C) \in Nat /\ (layout.coreData = <<>> => Len(C) = 0)
  <2>1. "coreData" \in {"coreData", "threadData"}
    OBVIOUS
  <2>2. /\ Size(layout, "coreData", data) \in Nat
        /\ layout["coreData"] = <<>> => Size(layout, "coreData", data) = 0
        /\ Items(layout["coreData"], data["coreData"]) \in Seq(S)
        /\ Len(Items(layout["coreData"], data["coreData"])) = Size(layout, "coreData", data)
    BY <2>1, ListItems, Zenon
  <2> QED
    BY <2>2, Zenon
<1>2. T \in Seq(S) /\ Len(T) \in Nat /\ (layout.threadData = <<>> => Len(T) = 0)
  <2>1. "threadData" \in {"coreData", "threadData"}
    OBVIOUS
  <2>2. /\ Size(layout, "threadData", data) \in Nat
        /\ layout["threadData"] = <<>> => Size(layout, "threadData", data) = 0
        /\ Items(layout["threadData"], data["threadData"]) \in Seq(S)
        /\ Len(Items(layout["threadData"], data["threadData"]))
             = Size(layout, "threadData", data)
    BY <2>1, ListItems, Zenon
  <2> QED
    BY <2>2, Zenon
<1>3. row = FlattenSeq(seqs)
  BY DEF ListRow
<1> SUFFICES Joins(S, C, T, row)
  OBVIOUS
<1> HIDE DEF row
<1>4. CASE layout.coreData = <<>> /\ layout.threadData = <<>>
  <2>1. ListsOf(layout) = <<>>
    BY <1>4, ListsKnown
  <2>2. DOMAIN ListsOf(layout) = {}
    BY <2>1
  <2>3. seqs = <<>>
    BY <2>2
  <2>4. FlattenSeq(<<>>) = <<>>
    BY DEF FlattenSeq
  <2>5. Len(C) = 0 /\ Len(T) = 0 /\ row = <<>>
    BY <1>1, <1>2, <1>3, <1>4, <2>3, <2>4
  <2> HIDE DEF C, T
  <2> QED
    BY <2>5 DEF Joins
<1>5. CASE layout.coreData # <<>> /\ layout.threadData = <<>>
  <2>1. ListsOf(layout) = <<"coreData">>
    BY <1>5, ListsKnown
  <2>2. DOMAIN ListsOf(layout) = 1 .. 1 /\ ListsOf(layout)[1] = "coreData"
    BY <2>1, SMT
  <2>3. ItemRow(layout, data, 1) = C
    BY <2>2, Zenon DEF ItemRow
  <2>4. seqs = [i \in 1 .. 1 |-> C]
    <3>1. \A i \in 1 .. 1 : i = 1
      OBVIOUS
    <3> HIDE DEF C
    <3> QED
      BY <2>2, <2>3, <3>1, Zenon
  <2> HIDE DEF C, T, seqs
  <2>5. /\ row \in Seq(S) /\ Len(row) = Len(C)
        /\ \A j \in 1 .. Len(C) : row[j] = C[j]
    BY <1>1, <1>3, <2>4, ListOne
  <2>6. Len(T) = 0
    BY <1>2, <1>5
  <2> QED
    BY <1>1, <2>5, <2>6 DEF Joins
<1>6. CASE layout.coreData = <<>> /\ layout.threadData # <<>>
  <2>1. ListsOf(layout) = <<"threadData">>
    BY <1>6, ListsKnown
  <2>2. DOMAIN ListsOf(layout) = 1 .. 1 /\ ListsOf(layout)[1] = "threadData"
    BY <2>1, SMT
  <2>3. ItemRow(layout, data, 1) = T
    BY <2>2, Zenon DEF ItemRow
  <2>4. seqs = [i \in 1 .. 1 |-> T]
    <3>1. \A i \in 1 .. 1 : i = 1
      OBVIOUS
    <3> HIDE DEF T
    <3> QED
      BY <2>2, <2>3, <3>1, Zenon
  <2> HIDE DEF C, T, seqs
  <2>5. /\ row \in Seq(S) /\ Len(row) = Len(T)
        /\ \A j \in 1 .. Len(T) : row[j] = T[j]
    BY <1>2, <1>3, <2>4, ListOne
  <2>6. Len(C) = 0
    BY <1>1, <1>6
  <2>7. \A j \in 1 .. Len(T) : Len(C) + j = j
    BY <1>2, <2>6
  <2> QED
    BY <1>2, <2>5, <2>6, <2>7 DEF Joins
<1>7. CASE layout.coreData # <<>> /\ layout.threadData # <<>>
  <2>1. ListsOf(layout) = <<"coreData", "threadData">>
    BY <1>7, ListsKnown
  <2>2. /\ DOMAIN ListsOf(layout) = 1 .. 2
        /\ ListsOf(layout)[1] = "coreData" /\ ListsOf(layout)[2] = "threadData"
    BY <2>1, SMT
  <2>3. ItemRow(layout, data, 1) = C /\ ItemRow(layout, data, 2) = T
    BY <2>2, Zenon DEF ItemRow
  <2>4. seqs = [i \in 1 .. 2 |-> IF i = 1 THEN C ELSE T]
    <3>1. \A i \in 1 .. 2 : i = 1 \/ (i = 2 /\ i # 1)
      OBVIOUS
    <3> HIDE DEF C, T
    <3> QED
      BY <2>2, <2>3, <3>1, Zenon
  <2> HIDE DEF C, T, seqs
  <2>5. Joins(S, C, T, FlattenSeq(seqs))
    BY <1>1, <1>2, <2>4, ListTwo
  <2> QED
    BY <1>3, <2>5
<1> QED
  BY <1>4, <1>5, <1>6, <1>7, Zenon

\* Four rows after one another.
Follow(S, s, t, u, v, row) ==
    /\ row \in Seq(S)
    /\ Len(row) = Len(s) + Len(t) + Len(u) + Len(v)
    /\ \A j \in 1 .. Len(t) : row[Len(s) + j] = t[j]
    /\ \A j \in 1 .. Len(u) : row[Len(s) + Len(t) + j] = u[j]
    /\ \A j \in 1 .. Len(v) : row[Len(s) + Len(t) + Len(u) + j] = v[j]

LEMMA FourRows ==
    ASSUME NEW S, NEW s \in Seq(S), NEW t \in Seq(S), NEW u \in Seq(S), NEW v \in Seq(S)
    PROVE  Follow(S, s, t, u, v, ((s \o t) \o u) \o v)
<1> DEFINE two == s \o t
           three == two \o u
           row == three \o v
<1>1. /\ two \in Seq(S) /\ Len(two) = Len(s) + Len(t)
      /\ Len(s) \in Nat /\ Len(t) \in Nat
      /\ \A j \in 1 .. Len(t) : two[Len(s) + j] = t[j]
  OBVIOUS
<1> HIDE DEF two
<1>2. /\ three \in Seq(S) /\ Len(three) = Len(two) + Len(u) /\ Len(u) \in Nat
      /\ \A j \in 1 .. Len(two) : three[j] = two[j]
      /\ \A j \in 1 .. Len(u) : three[Len(two) + j] = u[j]
  <2>1. two \in Seq(S)
    BY <1>1
  <2> QED
    BY <2>1
<1> HIDE DEF three
<1>4. /\ row \in Seq(S) /\ Len(row) = Len(three) + Len(v) /\ Len(v) \in Nat
      /\ \A j \in 1 .. Len(three) : row[j] = three[j]
      /\ \A j \in 1 .. Len(v) : row[Len(three) + j] = v[j]
  <2>1. three \in Seq(S)
    BY <1>2
  <2> QED
    BY <2>1
<1> HIDE DEF row
<1>5. ASSUME NEW j \in 1 .. Len(t) PROVE row[Len(s) + j] = t[j]
  <2>1. Len(s) + j \in 1 .. Len(two) /\ Len(s) + j \in 1 .. Len(three)
    BY <1>1, <1>2
  <2> QED
    BY <2>1, <1>1, <1>2, <1>4
<1>6. ASSUME NEW j \in 1 .. Len(u) PROVE row[Len(s) + Len(t) + j] = u[j]
  <2>1. Len(two) + j \in 1 .. Len(three) /\ Len(two) + j = Len(s) + Len(t) + j
    BY <1>1, <1>2
  <2>2. row[Len(two) + j] = three[Len(two) + j] /\ three[Len(two) + j] = u[j]
    BY <2>1, <1>2, <1>4
  <2> QED
    BY <2>1, <2>2
<1>7. ASSUME NEW j \in 1 .. Len(v) PROVE row[Len(s) + Len(t) + Len(u) + j] = v[j]
  <2>1. Len(three) + j = Len(s) + Len(t) + Len(u) + j
    BY <1>1, <1>2, <1>4
  <2> QED
    BY <2>1, <1>4
<1>8. Len(row) = Len(s) + Len(t) + Len(u) + Len(v)
  BY <1>1, <1>2, <1>4
<1>9. row = ((s \o t) \o u) \o v
  BY DEF row, three, two
<1>10. Follow(S, s, t, u, v, row)
  BY <1>4, <1>5, <1>6, <1>7, <1>8 DEF Follow
<1> QED
  BY <1>9, <1>10

\* Where a part that begins after pos has its lists.
Body(layout, pos) == pos + 1 + Len(layout.head) + Len(ListsOf(layout))

ItemsAt(layout, l, data, stream, pos) ==
    \A i \in DOMAIN data[l] : \A k \in DOMAIN layout[l] :
        LET j == pos + (i - 1) * Len(layout[l]) + k
        IN  j \in DOMAIN stream /\ stream[j] = data[l][i][layout[l][k]]

PartAt(layout, data, stream, pos) ==
    /\ \A k \in DOMAIN layout.head :
         /\ pos + 1 + k \in DOMAIN stream
         /\ stream[pos + 1 + k] = data.head[layout.head[k]]
    /\ \A k \in DOMAIN ListsOf(layout) :
         /\ pos + 1 + Len(layout.head) + k \in DOMAIN stream
         /\ stream[pos + 1 + Len(layout.head) + k] = Len(data[ListsOf(layout)[k]])
    /\ ItemsAt(layout, "coreData", data, stream, Body(layout, pos))
    /\ ItemsAt(layout, "threadData", data, stream,
               Body(layout, pos) + Size(layout, "coreData", data))

\* A row that is found in a stream.
RowAt(stream, pos, row) ==
    \A j \in 1 .. Len(row) : pos + j \in DOMAIN stream /\ stream[pos + j] = row[j]

LEMMA ListsRow ==
    ASSUME NEW layout
    PROVE  /\ IsRow(ListsOf(layout))
           /\ \A i \in DOMAIN ListsOf(layout) : ListsOf(layout)[i] \in {"coreData", "threadData"}
<1>1. ListsOf(layout) \in {<<>>, <<"coreData">>, <<"threadData">>, <<"coreData", "threadData">>}
  BY ListsKnown
<1>2. /\ IsRow(<<>>) /\ \A i \in DOMAIN <<>> : <<>>[i] \in {"coreData", "threadData"}
  BY SMT DEF IsRow
<1>3. ASSUME NEW l \in {"coreData", "threadData"}
      PROVE  IsRow(<<l>>) /\ \A i \in DOMAIN <<l>> : <<l>>[i] \in {"coreData", "threadData"}
  BY SMT DEF IsRow
<1>4. /\ IsRow(<<"coreData", "threadData">>)
      /\ \A i \in DOMAIN <<"coreData", "threadData">> :
            <<"coreData", "threadData">>[i] \in {"coreData", "threadData"}
  BY SMT DEF IsRow
<1> QED
  BY <1>1, <1>2, <1>3, <1>4, Zenon

IsHead(layout, data, row) ==
    /\ Len(row) = Len(layout.head)
    /\ \A k \in DOMAIN layout.head : row[k] = data.head[layout.head[k]]

AreLengths(layout, data, row) ==
    /\ Len(row) = Len(ListsOf(layout))
    /\ \A k \in DOMAIN ListsOf(layout) : row[k] = Len(data[ListsOf(layout)[k]])

LEMMA HeadRows ==
    ASSUME NEW S, NEW layout, IsLayout(layout), NEW data, PartIn(S, layout, data)
    PROVE  /\ HeadRow(layout, data) \in Seq(S)
           /\ IsHead(layout, data, HeadRow(layout, data))
<1> DEFINE fields == layout.head
           item == data.head
<1>1. IsRow(fields) /\ \A k \in DOMAIN fields : item[fields[k]] \in S
  BY DEF IsLayout, PartIn
<1>2. HeadRow(layout, data) = [k \in DOMAIN fields |-> item[fields[k]]]
  BY DEF HeadRow, Values
<1> HIDE DEF fields, item
<1>3. /\ HeadRow(layout, data) \in Seq(S) /\ Len(HeadRow(layout, data)) = Len(fields)
      /\ \A k \in DOMAIN fields : HeadRow(layout, data)[k] = item[fields[k]]
  <2>1. DOMAIN fields = 1 .. Len(fields) /\ Len(fields) \in Nat
    BY <1>1 DEF IsRow
  <2> QED
    BY <1>1, <1>2, <2>1
<1> QED
  BY <1>3 DEF IsHead, fields, item

LEMMA LengthRows ==
    ASSUME NEW S, NEW layout, IsLayout(layout), NEW data, PartIn(S, layout, data)
    PROVE  /\ LengthRow(layout, data) \in Seq(S)
           /\ AreLengths(layout, data, LengthRow(layout, data))
<1> DEFINE lists == ListsOf(layout)
           length(i) == Len(data[lists[i]])
<1>1. IsRow(lists) /\ \A i \in DOMAIN lists : lists[i] \in {"coreData", "threadData"}
  BY ListsRow
<1>2. \A i \in DOMAIN lists : length(i) \in Nat
  <2>1. \A l \in {"coreData", "threadData"} : Len(data[l]) \in Nat
    BY ListItems, Zenon DEF IsRow
  <2> QED
    BY <1>1, <2>1
<1>3. \A i \in DOMAIN lists : length(i) \in S
  BY <1>2 DEF PartIn
<1>4. LengthRow(layout, data) = [i \in DOMAIN lists |-> length(i)]
  BY DEF LengthRow
<1> HIDE DEF lists, length
<1>5. /\ LengthRow(layout, data) \in Seq(S) /\ Len(LengthRow(layout, data)) = Len(lists)
      /\ \A k \in DOMAIN lists : LengthRow(layout, data)[k] = length(k)
  <2>1. DOMAIN lists = 1 .. Len(lists) /\ Len(lists) \in Nat
    BY <1>1 DEF IsRow
  <2> QED
    BY <1>3, <1>4, <2>1
<1> QED
  BY <1>5 DEF AreLengths, lists, length

\* What SerializePart writes.
LEMMA PartRow ==
    ASSUME NEW S, NEW layout, IsLayout(layout), NEW data, PartIn(S, layout, data)
    PROVE  /\ Follow(S, <<DataVersion>>, HeadRow(layout, data), LengthRow(layout, data),
                     ListRow(layout, data), SerializePart(layout, data))
           /\ Len(<<DataVersion>>) = 1
           /\ Len(HeadRow(layout, data)) = Len(layout.head)
           /\ Len(LengthRow(layout, data)) = Len(ListsOf(layout))
           /\ Len(ListRow(layout, data))
                = Size(layout, "coreData", data) + Size(layout, "threadData", data)
<1> DEFINE s == <<DataVersion>>
           t == HeadRow(layout, data)
           u == LengthRow(layout, data)
           v == ListRow(layout, data)
<1>1. SerializePart(layout, data) = ((s \o t) \o u) \o v
  BY Zenon DEF SerializePart, HeadRow, LengthRow, ListRow, ItemRow
<1>2. s \in Seq(S) /\ Len(s) = 1
  <2>1. DataVersion \in S
    BY DEF PartIn, DataVersion
  <2> QED
    BY <2>1
<1>3. t \in Seq(S) /\ Len(t) = Len(layout.head)
  <2>1. t \in Seq(S) /\ IsHead(layout, data, t)
    BY HeadRows, Zenon
  <2> QED
    BY <2>1, Zenon DEF IsHead
<1>4. u \in Seq(S) /\ Len(u) = Len(ListsOf(layout))
  <2>1. u \in Seq(S) /\ AreLengths(layout, data, u)
    BY LengthRows, Zenon
  <2> QED
    BY <2>1, Zenon DEF AreLengths
<1>5. v \in Seq(S) /\ Len(v) = Size(layout, "coreData", data) + Size(layout, "threadData", data)
  <2> DEFINE C == Items(layout.coreData, data.coreData)
             T == Items(layout.threadData, data.threadData)
  <2>1. Joins(S, C, T, v)
    BY ListData
  <2>2. Len(C) = Size(layout, "coreData", data)
    <3>1. "coreData" \in {"coreData", "threadData"}
      OBVIOUS
    <3> QED
      BY <3>1, ListItems, Zenon
  <2>3. Len(T) = Size(layout, "threadData", data)
    <3>1. "threadData" \in {"coreData", "threadData"}
      OBVIOUS
    <3> QED
      BY <3>1, ListItems, Zenon
  <2> HIDE DEF C, T
  <2> QED
    BY <2>1, <2>2, <2>3 DEF Joins
<1> HIDE DEF s, t, u, v
<1>6. Follow(S, s, t, u, v, ((s \o t) \o u) \o v)
  BY <1>2, <1>3, <1>4, <1>5, FourRows
<1> QED
  BY <1>1, <1>2, <1>3, <1>4, <1>5, <1>6, Zenon DEF s, t, u, v

LEMMA ItemsWritten ==
    ASSUME NEW S, NEW layout, IsLayout(layout), NEW data, PartIn(S, layout, data),
           NEW l \in {"coreData", "threadData"}, NEW stream, NEW pos \in Nat,
           RowAt(stream, pos, Items(layout[l], data[l]))
    PROVE  ItemsAt(layout, l, data, stream, pos)
<1> DEFINE list == data[l]
           fields == layout[l]
           row == Items(fields, list)
           m == Len(fields)
           size == Size(layout, l, data)
<1>1. IsRow(list) /\ IsRow(fields) /\ size \in Nat /\ Len(row) = size
  <2> HIDE DEF size
  <2> QED
    BY ListItems, Zenon DEF size
<1>2. \A i \in DOMAIN list : \A k \in DOMAIN fields :
        (i - 1) * m + k \in 1 .. size /\ row[(i - 1) * m + k] = list[i][fields[k]]
  <2>1. ItemsIn(layout, l, data, row)
    BY ListItems, Zenon
  <2> QED
    BY <2>1, Zenon DEF ItemsIn
<1>3. \A j \in 1 .. Len(row) : pos + j \in DOMAIN stream /\ stream[pos + j] = row[j]
  BY DEF RowAt
<1>4. m = Len(fields)
  OBVIOUS
<1> HIDE DEF list, fields, row, m, size
<1>5. ASSUME NEW i \in DOMAIN list, NEW k \in DOMAIN fields
      PROVE  /\ pos + (i - 1) * m + k \in DOMAIN stream
             /\ stream[pos + (i - 1) * m + k] = list[i][fields[k]]
  <2>1. i \in Int /\ k \in Int /\ m \in Nat
    BY <1>1, <1>4 DEF IsRow
  <2> DEFINE r == (i - 1) * m
  <2>2. r \in Int
    BY <2>1
  <2>3. r + k \in 1 .. size /\ row[r + k] = list[i][fields[k]]
    BY <1>2
  <2> HIDE DEF r
  <2>4. pos + (r + k) \in DOMAIN stream /\ stream[pos + (r + k)] = row[r + k]
    BY <1>1, <1>3, <2>3
  <2>5. pos + (r + k) = pos + r + k
    BY <2>1, <2>2
  <2>6. pos + r + k \in DOMAIN stream /\ stream[pos + r + k] = list[i][fields[k]]
    BY <2>3, <2>4, <2>5
  <2> QED
    BY <2>6 DEF r
<1> QED
  BY <1>5, Zenon DEF ItemsAt, list, fields, m

\* Where a part is written, a part can be read.
LEMMA PartWritten ==
    ASSUME NEW S, NEW layout, IsLayout(layout), NEW data, PartIn(S, layout, data),
           NEW stream, NEW pos \in Nat, RowAt(stream, pos, SerializePart(layout, data))
    PROVE  PartAt(layout, data, stream, pos)
<1> DEFINE row == SerializePart(layout, data)
           h == Len(layout.head)
           q == Len(ListsOf(layout))
           a == Size(layout, "coreData", data)
           b == Size(layout, "threadData", data)
           s == <<DataVersion>>
           t == HeadRow(layout, data)
           u == LengthRow(layout, data)
           v == ListRow(layout, data)
           C == Items(layout.coreData, data.coreData)
           T == Items(layout.threadData, data.threadData)
<1>1. DOMAIN layout.head = 1 .. h /\ h \in Nat
  BY DEF IsLayout, IsRow
<1>2. DOMAIN ListsOf(layout) = 1 .. q /\ q \in Nat
  BY ListsRow DEF IsRow
<1>3. Joins(S, C, T, v)
  BY ListData
<1>4. a \in Nat /\ Len(C) = a
  <2>1. "coreData" \in {"coreData", "threadData"}
    OBVIOUS
  <2> QED
    BY <2>1, ListItems, Zenon
<1>5. b \in Nat /\ Len(T) = b
  <2>1. "threadData" \in {"coreData", "threadData"}
    OBVIOUS
  <2> QED
    BY <2>1, ListItems, Zenon
<1>6. Follow(S, s, t, u, v, row) /\ Len(s) = 1 /\ Len(t) = h /\ Len(u) = q /\ Len(v) = a + b
  BY PartRow, Zenon
<1>7. \A k \in DOMAIN layout.head : t[k] = data.head[layout.head[k]]
  <2>1. IsHead(layout, data, t)
    BY HeadRows, Zenon
  <2> QED
    BY <2>1, Zenon DEF IsHead
<1>8. \A k \in DOMAIN ListsOf(layout) : u[k] = Len(data[ListsOf(layout)[k]])
  <2>1. AreLengths(layout, data, u)
    BY LengthRows, Zenon
  <2> QED
    BY <2>1, Zenon DEF AreLengths
<1>9. Body(layout, pos) = pos + 1 + h + q /\ Size(layout, "coreData", data) = a
  BY DEF Body
<1>10. \A j \in 1 .. Len(row) : pos + j \in DOMAIN stream /\ stream[pos + j] = row[j]
  BY DEF RowAt
<1> HIDE DEF row, h, q, a, b, s, t, u, v, C, T
<1>11. /\ Len(row) = 1 + h + q + a + b
       /\ \A j \in 1 .. h : row[1 + j] = t[j]
       /\ \A j \in 1 .. q : row[1 + h + j] = u[j]
       /\ \A j \in 1 .. a + b : row[1 + h + q + j] = v[j]
  <2>1. /\ Len(row) = Len(s) + Len(t) + Len(u) + Len(v)
        /\ \A j \in 1 .. Len(t) : row[Len(s) + j] = t[j]
        /\ \A j \in 1 .. Len(u) : row[Len(s) + Len(t) + j] = u[j]
        /\ \A j \in 1 .. Len(v) : row[Len(s) + Len(t) + Len(u) + j] = v[j]
    BY <1>6, Zenon DEF Follow
  <2>2. Len(s) + Len(t) + Len(u) + Len(v) = 1 + h + q + a + b
    BY <1>1, <1>2, <1>4, <1>5, <1>6
  <2> QED
    BY <1>6, <2>1, <2>2, Zenon
<1>12. /\ h \in Nat /\ q \in Nat /\ a \in Nat /\ b \in Nat
       /\ Len(row) = 1 + h + q + a + b
  BY <1>1, <1>2, <1>4, <1>5, <1>11, Zenon
<1>13. (\A j \in 1 .. a : v[j] = C[j]) /\ (\A j \in 1 .. b : v[a + j] = T[j])
  BY <1>3, <1>4, <1>5 DEF Joins
<1>14. ASSUME NEW k \in DOMAIN layout.head
       PROVE  /\ pos + 1 + k \in DOMAIN stream
              /\ stream[pos + 1 + k] = data.head[layout.head[k]]
  <2>0. k \in 1 .. h
    BY <1>1, Zenon
  <2>1. 1 + k \in 1 .. Len(row) /\ pos + (1 + k) = pos + 1 + k
    BY <2>0, <1>12
  <2>2. pos + (1 + k) \in DOMAIN stream /\ stream[pos + (1 + k)] = row[1 + k]
    BY <2>1, <1>10
  <2> QED
    BY <2>1, <2>2, <1>1, <1>7, <1>11
<1>15. ASSUME NEW k \in DOMAIN ListsOf(layout)
       PROVE  /\ pos + 1 + h + k \in DOMAIN stream
              /\ stream[pos + 1 + h + k] = Len(data[ListsOf(layout)[k]])
  <2>0. k \in 1 .. q
    BY <1>2, Zenon
  <2>1. 1 + h + k \in 1 .. Len(row) /\ pos + (1 + h + k) = pos + 1 + h + k
    BY <2>0, <1>12
  <2>2. pos + (1 + h + k) \in DOMAIN stream /\ stream[pos + (1 + h + k)] = row[1 + h + k]
    BY <2>1, <1>10
  <2> QED
    BY <2>1, <2>2, <1>2, <1>8, <1>11
<1>16. ASSUME NEW j \in 1 .. a
       PROVE  pos + 1 + h + q + j \in DOMAIN stream /\ stream[pos + 1 + h + q + j] = C[j]
  <2>1. /\ 1 + h + q + j \in 1 .. Len(row) /\ j \in 1 .. a + b
        /\ pos + (1 + h + q + j) = pos + 1 + h + q + j
    BY <1>12
  <2>2. /\ pos + (1 + h + q + j) \in DOMAIN stream
        /\ stream[pos + (1 + h + q + j)] = row[1 + h + q + j]
    BY <2>1, <1>10
  <2> QED
    BY <2>1, <2>2, <1>11, <1>13
<1>17. ASSUME NEW j \in 1 .. b
       PROVE  /\ pos + 1 + h + q + a + j \in DOMAIN stream
              /\ stream[pos + 1 + h + q + a + j] = T[j]
  <2>1. /\ 1 + h + q + (a + j) \in 1 .. Len(row) /\ a + j \in 1 .. a + b
        /\ pos + (1 + h + q + (a + j)) = pos + 1 + h + q + a + j
    BY <1>12
  <2>2. /\ pos + (1 + h + q + (a + j)) \in DOMAIN stream
        /\ stream[pos + (1 + h + q + (a + j))] = row[1 + h + q + (a + j)]
    BY <2>1, <1>10
  <2> QED
    BY <2>1, <2>2, <1>11, <1>13
<1>18. ItemsAt(layout, "coreData", data, stream, pos + 1 + h + q)
  <2>1. pos + 1 + h + q \in Nat /\ "coreData" \in {"coreData", "threadData"}
    BY <1>1, <1>2
  <2>2. RowAt(stream, pos + 1 + h + q, C)
    BY <1>4, <1>16 DEF RowAt
  <2>3. RowAt(stream, pos + 1 + h + q, Items(layout["coreData"], data["coreData"]))
    BY <2>2, Zenon DEF C
  <2> QED
    BY <2>1, <2>3, ItemsWritten, Zenon
<1>19. ItemsAt(layout, "threadData", data, stream, pos + 1 + h + q + a)
  <2>1. pos + 1 + h + q + a \in Nat /\ "threadData" \in {"coreData", "threadData"}
    BY <1>1, <1>2, <1>4
  <2>2. RowAt(stream, pos + 1 + h + q + a, T)
    BY <1>5, <1>17 DEF RowAt
  <2>3. RowAt(stream, pos + 1 + h + q + a, Items(layout["threadData"], data["threadData"]))
    BY <2>2, Zenon DEF T
  <2> QED
    BY <2>1, <2>3, ItemsWritten, Zenon
<1> QED
  BY <1>9, <1>14, <1>15, <1>18, <1>19, Zenon DEF PartAt, h

\* What an item is when some of its fields were read.
Made(made, fields, item) == [f \in made |-> IF f \in ToSet(fields) THEN item[f] ELSE NoValue]

\* Reading one item where it is written.
LEMMA ItemRead ==
    ASSUME NEW made, NEW fields, NEW item, NEW stream, NEW pos,
           \A k \in DOMAIN fields :
              pos + k \in DOMAIN stream /\ stream[pos + k] = item[fields[k]]
    PROVE  ItemAt(made, fields, stream, pos) = Made(made, fields, item)
<1> DEFINE value(f) ==
             At(stream, pos + (CHOOSE i \in DOMAIN fields : fields[i] = f), NoValue)
<1>1. ASSUME NEW f \in ToSet(fields)
      PROVE  value(f) = item[f]
  <2> DEFINE k == CHOOSE i \in DOMAIN fields : fields[i] = f
  <2>1. k \in DOMAIN fields /\ fields[k] = f
    BY DEF ToSet
  <2> HIDE DEF k
  <2>2. At(stream, pos + k, NoValue) = item[f]
    BY <2>1 DEF At
  <2> QED
    BY <2>2 DEF k
<1>2. ItemAt(made, fields, stream, pos)
        = [f \in made |-> IF f \in ToSet(fields) THEN value(f) ELSE NoValue]
  BY Zenon DEF ItemAt
<1> HIDE DEF value
<1> QED
  BY <1>1, <1>2 DEF Made

\* The lengths of the lists, read where they are written.
LEMMA LengthRead ==
    ASSUME NEW S, NEW layout, IsLayout(layout), NEW data, PartIn(S, layout, data),
           NEW l \in {"coreData", "threadData"}, NEW stream, NEW pos,
           PartAt(layout, data, stream, pos)
    PROVE  LengthAt(layout, l, stream, pos) = Len(data[l])
<1> DEFINE lists == ListsOf(layout)
           where == {i \in DOMAIN lists : lists[i] = l}
           h == pos + 1 + Len(layout.head)
<1>1. CASE where = {}
  <2>1. layout[l] = <<>>
    <3>1. CASE l = "coreData"
      <4>1. SUFFICES ASSUME layout.coreData # <<>> PROVE FALSE
        BY <3>1, Zenon
      <4>2. ListsOf(layout) = <<"coreData">> \/ ListsOf(layout) = <<"coreData", "threadData">>
        BY <4>1, ListsKnown, Zenon
      <4>3. 1 \in DOMAIN lists /\ lists[1] = "coreData"
        BY <4>2, SMT
      <4> QED
        BY <4>3, <1>1, <3>1, Zenon
    <3>2. CASE l = "threadData"
      <4>1. SUFFICES ASSUME layout.threadData # <<>> PROVE FALSE
        BY <3>2, Zenon
      <4>2. ListsOf(layout) = <<"threadData">> \/ ListsOf(layout) = <<"coreData", "threadData">>
        BY <4>1, ListsKnown, Zenon
      <4>3. \E i \in DOMAIN lists : lists[i] = "threadData"
        <5>1. CASE ListsOf(layout) = <<"threadData">>
          <6>1. 1 \in DOMAIN lists /\ lists[1] = "threadData"
            BY <5>1, SMT
          <6> QED
            BY <6>1, Zenon
        <5>2. CASE ListsOf(layout) = <<"coreData", "threadData">>
          <6>1. 2 \in DOMAIN lists /\ lists[2] = "threadData"
            BY <5>2, SMT
          <6> QED
            BY <6>1, Zenon
        <5> QED
          BY <4>2, <5>1, <5>2, Zenon
      <4> QED
        BY <4>3, <1>1, <3>2, Zenon
    <3> QED
      BY <3>1, <3>2
  <2>2. Len(data[l]) = 0
    BY <2>1, ListItems, Zenon
  <2>3. LengthAt(layout, l, stream, pos) = 0
    BY <1>1, Zenon DEF LengthAt
  <2> QED
    BY <2>2, <2>3
<1>2. CASE where # {}
  <2> DEFINE k == CHOOSE i \in where : TRUE
  <2>1. k \in where
    BY <1>2, Zenon
  <2>2. k \in DOMAIN lists /\ lists[k] = l
    BY <2>1
  <2>3. LengthAt(layout, l, stream, pos) = At(stream, h + k, 0)
    BY <1>2, Zenon DEF LengthAt
  <2> HIDE DEF k
  <2>4. h + k \in DOMAIN stream /\ stream[h + k] = Len(data[lists[k]])
    BY <2>2, Zenon DEF PartAt
  <2>5. At(stream, h + k, 0) = Len(data[l])
    BY <2>2, <2>4, Zenon DEF At
  <2> QED
    BY <2>3, <2>5, Zenon
<1> QED
  BY <1>1, <1>2

\* Reading a list where it is written.
LEMMA ListRead ==
    ASSUME NEW S, NEW layout, IsLayout(layout), NEW data, PartIn(S, layout, data),
           NEW l \in {"coreData", "threadData"}, NEW stream, NEW pos,
           PartAt(layout, data, stream, pos),
           ItemsAt(layout, l, data, stream, StartAt(layout, l, stream, pos)),
           NEW made, made[l] = ToSet(layout[l])
    PROVE  ListAt(made, layout, l, stream, pos) = data[l]
<1> DEFINE list == data[l]
           fields == layout[l]
           start == StartAt(layout, l, stream, pos)
           n == Len(list)
           item(i) == [f \in ToSet(fields) |-> list[i][f]]
<1>1. LengthAt(layout, l, stream, pos) = n
  BY LengthRead
<1>2. DOMAIN list = 1 .. n
  <2>1. IsRow(data[l])
    BY ListItems, Zenon
  <2> QED
    BY <2>1, Zenon DEF IsRow
<1>4. list = [i \in 1 .. n |-> item(i)]
  BY Zenon DEF PartIn
<1>5. \A i \in DOMAIN list : \A k \in DOMAIN fields :
         /\ start + (i - 1) * Len(fields) + k \in DOMAIN stream
         /\ stream[start + (i - 1) * Len(fields) + k] = list[i][fields[k]]
  BY Zenon DEF ItemsAt
<1>6. ListAt(made, layout, l, stream, pos)
        = [i \in 1 .. n |-> ItemAt(ToSet(fields), fields, stream, start + (i - 1) * Len(fields))]
  BY <1>1, Zenon DEF ListAt
<1> HIDE DEF list, fields, start, n, item
<1>7. ASSUME NEW i \in 1 .. n
      PROVE  ItemAt(ToSet(fields), fields, stream, start + (i - 1) * Len(fields)) = item(i)
  <2> DEFINE at == start + (i - 1) * Len(fields)
  <2>1. \A k \in DOMAIN fields :
          at + k \in DOMAIN stream /\ stream[at + k] = list[i][fields[k]]
    BY <1>2, <1>5, Zenon
  <2> HIDE DEF at
  <2>2. ItemAt(ToSet(fields), fields, stream, at) = Made(ToSet(fields), fields, list[i])
    BY <2>1, ItemRead
  <2>3. Made(ToSet(fields), fields, list[i]) = [f \in ToSet(fields) |-> list[i][f]]
    BY DEF Made
  <2> QED
    BY <2>2, <2>3, Zenon DEF at, item
<1>8. [i \in 1 .. n |-> ItemAt(ToSet(fields), fields, stream, start + (i - 1) * Len(fields))]
        = [i \in 1 .. n |-> item(i)]
  BY <1>7, Zenon
<1> QED
  BY <1>4, <1>6, <1>8, Zenon DEF list

\* A part, read where it is written.
LEMMA PartRead ==
    ASSUME NEW S, NEW layout, IsLayout(layout), NEW data, PartIn(S, layout, data),
           NEW made, made.coreData = ToSet(layout.coreData),
           made.threadData = ToSet(layout.threadData),
           NEW stream, NEW pos \in Nat, RowAt(stream, pos, SerializePart(layout, data))
    PROVE  /\ DeserializePart(made, layout, stream, pos)
                = [head |-> Made(made.head, layout.head, data.head),
                   coreData |-> data.coreData, threadData |-> data.threadData]
           /\ EndAt(layout, stream, pos) = pos + Len(SerializePart(layout, data))
<1>1. PartAt(layout, data, stream, pos)
  BY PartWritten
<1> DEFINE h == Len(layout.head)
           q == Len(ListsOf(layout))
           a == Size(layout, "coreData", data)
           b == Size(layout, "threadData", data)
<1>2. h \in Nat /\ q \in Nat
  BY ListsRow DEF IsLayout, IsRow
<1>3. a \in Nat /\ b \in Nat
  <2>1. "coreData" \in {"coreData", "threadData"} /\ "threadData" \in {"coreData", "threadData"}
    OBVIOUS
  <2> QED
    BY <2>1, ListItems, Zenon
<1>4. SizeAt(layout, "coreData", stream, pos) = a /\ SizeAt(layout, "threadData", stream, pos) = b
  <2>1. LengthAt(layout, "coreData", stream, pos) = Len(data["coreData"])
    BY <1>1, LengthRead
  <2>2. LengthAt(layout, "threadData", stream, pos) = Len(data["threadData"])
    BY <1>1, LengthRead
  <2> QED
    BY <2>1, <2>2, Zenon DEF SizeAt, Size
<1>5. /\ StartAt(layout, "coreData", stream, pos) = pos + 1 + h + q + 0
      /\ StartAt(layout, "threadData", stream, pos) = pos + 1 + h + q + a
  BY <1>4, Zenon DEF StartAt
<1>6. Body(layout, pos) = pos + 1 + h + q
  BY Zenon DEF Body
<1>7. Len(SerializePart(layout, data)) = 1 + h + q + (a + b)
  <2> DEFINE row == SerializePart(layout, data)
             s == <<DataVersion>>
             t == HeadRow(layout, data)
             u == LengthRow(layout, data)
             v == ListRow(layout, data)
  <2>1. Follow(S, s, t, u, v, row) /\ Len(s) = 1 /\ Len(t) = h /\ Len(u) = q /\ Len(v) = a + b
    BY PartRow, Zenon
  <2> HIDE DEF row, s, t, u, v, h, q, a, b
  <2>2. Len(row) = Len(s) + Len(t) + Len(u) + Len(v)
    BY <2>1, Zenon DEF Follow
  <2>3. Len(row) = 1 + h + q + (a + b)
    BY <2>1, <2>2, Zenon
  <2> QED
    BY <2>3, Zenon DEF row
<1>8. EndAt(layout, stream, pos) = pos + 1 + h + q + a + b
  BY <1>4, <1>5, Zenon DEF EndAt
<1> HIDE DEF h, q, a, b
<1>9. EndAt(layout, stream, pos) = pos + Len(SerializePart(layout, data))
  BY <1>2, <1>3, <1>7, <1>8
<1>10. ListAt(made, layout, "coreData", stream, pos) = data.coreData
  <2>1. Body(layout, pos) = StartAt(layout, "coreData", stream, pos)
    BY <1>2, <1>5, <1>6
  <2>2. ItemsAt(layout, "coreData", data, stream, StartAt(layout, "coreData", stream, pos))
    BY <1>1, <2>1, Zenon DEF PartAt
  <2>3. "coreData" \in {"coreData", "threadData"}
    OBVIOUS
  <2>4. ListAt(made, layout, "coreData", stream, pos) = data["coreData"]
    BY <1>1, <2>2, <2>3, ListRead, SMT
  <2> QED
    BY <2>4, Zenon
<1>11. ListAt(made, layout, "threadData", stream, pos) = data.threadData
  <2>1. Body(layout, pos) + Size(layout, "coreData", data) = StartAt(layout, "threadData", stream, pos)
    BY <1>5, <1>6, Zenon DEF a
  <2>2. ItemsAt(layout, "threadData", data, stream, StartAt(layout, "threadData", stream, pos))
    BY <1>1, <2>1, Zenon DEF PartAt
  <2>3. "threadData" \in {"coreData", "threadData"}
    OBVIOUS
  <2>4. ListAt(made, layout, "threadData", stream, pos) = data["threadData"]
    BY <1>1, <2>2, <2>3, ListRead, SMT
  <2> QED
    BY <2>4, Zenon
<1> DEFINE fields == layout.head
           item == data.head
<1>12. ItemAt(made.head, fields, stream, pos + 1) = Made(made.head, fields, item)
  <2>1. \A k \in DOMAIN fields : pos + 1 + k \in DOMAIN stream /\ stream[pos + 1 + k] = item[fields[k]]
    BY <1>1, Zenon DEF PartAt
  <2> HIDE DEF fields, item
  <2> QED
    BY <2>1, ItemRead
<1>13. DeserializePart(made, layout, stream, pos)
         = [head |-> ItemAt(made.head, fields, stream, pos + 1),
            coreData |-> ListAt(made, layout, "coreData", stream, pos),
            threadData |-> ListAt(made, layout, "threadData", stream, pos)]
  BY Zenon DEF DeserializePart
<1> QED
  BY <1>9, <1>10, <1>11, <1>12, <1>13, Zenon

-------------------------------------------------------------------------------
\* Whole packets.

\* All fields of lists are written.
ListsIn(layout, data) ==
    \A l \in {"coreData", "threadData"} :
        /\ Len(data[l]) \in Nat
        /\ layout[l] = <<>> => Len(data[l]) = 0
        /\ data[l] = [i \in 1 .. Len(data[l]) |-> [f \in ToSet(layout[l]) |-> data[l][i][f]]]

LEMMA ListsOfPart ==
    ASSUME NEW part \in AllParts, NEW data, IsPart(part, data)
    PROVE  ListsIn(WrittenLayouts[part], data)
<1>1. ASSUME NEW l \in {"coreData", "threadData"}
      PROVE  /\ Fields[part][l] = ToSet(WrittenLayouts[part][l])
             /\ WrittenLayouts[part][l] = <<>> => Fields[part][l] = {}
  <2>1. /\ ToSet(WrittenLayouts[part].coreData) = Fields[part].coreData
        /\ ToSet(WrittenLayouts[part].threadData) = Fields[part].threadData
    BY AllWritten, Zenon DEF WritesAll, IsRowOf
  <2>2. ToSet(<<>>) = {}
    BY NoRow, Zenon DEF IsRowOf
  <2> QED
    BY <2>1, <2>2, Zenon
<1>2. \A l \in {"coreData", "threadData"} : l \in ToSet(Lists)
  <2>1. 1 \in DOMAIN Lists /\ 2 \in DOMAIN Lists /\ Lists[1] = "coreData" /\ Lists[2] = "threadData"
    BY DEF Lists
  <2> QED
    BY <2>1 DEF ToSet
<1>3. ASSUME NEW l \in {"coreData", "threadData"}
      PROVE  /\ Len(data[l]) \in Nat
             /\ Fields[part][l] = {} => Len(data[l]) = 0
             /\ data[l] = [i \in 1 .. Len(data[l]) |-> [f \in Fields[part][l] |-> data[l][i][f]]]
  BY <1>2, Zenon DEF IsPart
<1> QED
  BY <1>1, <1>3, Zenon DEF ListsIn

\* All values of a packet.
LEMMA PartsIn ==
    ASSUME NEW build, NEW packet, IsPacket(build, packet)
    PROVE  \E S : \A part \in ToSet(PartsOf(build)) :
                     PartIn(S, WrittenLayouts[part], packet[part])
<1> DEFINE parts == ToSet(PartsOf(build))
           layout(part) == WrittenLayouts[part]
           head(part) == {packet[part].head[layout(part).head[k]] :
                            k \in DOMAIN layout(part).head}
           list(part, l) == {packet[part][l][i][layout(part)[l][k]] :
                               i \in DOMAIN packet[part][l], k \in DOMAIN layout(part)[l]}
           heads == UNION {head(part) : part \in parts}
           cores == UNION {list(part, "coreData") : part \in parts}
           threads == UNION {list(part, "threadData") : part \in parts}
           S == Nat \cup heads \cup cores \cup threads
<1>1. ASSUME NEW part \in parts PROVE PartIn(S, layout(part), packet[part])
  <2> DEFINE data == packet[part]
  <2>1. ListsIn(layout(part), data)
    <3>1. IsPart(part, data)
      BY Zenon DEF IsPacket
    <3>2. part \in AllParts
      BY PartKnown, Zenon
    <3> QED
      BY <3>1, <3>2, ListsOfPart
  <2>2. \A k \in DOMAIN layout(part).head : data.head[layout(part).head[k]] \in head(part)
    OBVIOUS
  <2>3. ASSUME NEW l \in {"coreData", "threadData"}, NEW i \in DOMAIN data[l],
               NEW k \in DOMAIN layout(part)[l]
        PROVE  data[l][i][layout(part)[l][k]] \in list(part, l)
    OBVIOUS
  <2>4. head(part) \subseteq heads /\ list(part, "coreData") \subseteq cores
          /\ list(part, "threadData") \subseteq threads
    <3> HIDE DEF head, list
    <3> QED
      OBVIOUS
  <2> HIDE DEF head, list, heads, cores, threads
  <2>5. \A l \in {"coreData", "threadData"} : list(part, l) \subseteq S
    <3>1. list(part, "coreData") \subseteq S /\ list(part, "threadData") \subseteq S
      BY <2>4, Zenon
    <3> QED
      BY <3>1, Zenon
  <2>6. head(part) \subseteq S /\ Nat \subseteq S
    BY <2>4, Zenon
  <2> HIDE DEF S
  <2> QED
    BY <2>1, <2>2, <2>3, <2>5, <2>6, Zenon DEF PartIn, ListsIn
<1> HIDE DEF S
<1>2. \A part \in parts : PartIn(S, layout(part), packet[part])
  BY <1>1, Zenon
<1> QED
  BY <1>2, Zenon

EndsRead(parts, stream, e) ==
    e = [i \in 0 .. Len(parts) |->
            IF i = 0 THEN 0 ELSE EndAt(ReadLayouts[parts[i]], stream, e[i - 1])]

\* What profiles hold of a part: everything, but for the fields that are made
\* and not read.
LEMMA PartSaved ==
    ASSUME NEW build, NEW packet, IsPacket(build, packet), NEW part \in ToSet(PartsOf(build))
    PROVE  Saved(packet)[part]
             = [head |-> Made(Fields[part].head, WrittenLayouts[part].head, packet[part].head),
                coreData |-> packet[part].coreData, threadData |-> packet[part].threadData]
<1> DEFINE data == packet[part]
           made == Fields[part].head
           fields == WrittenLayouts[part].head
           unsaved == UnsavedFields(part)
<1>1. part \in AllParts
  BY PartKnown, Zenon
<1>2. packet = [p \in ToSet(PartsOf(build)) |-> packet[p]] /\ IsPart(part, data)
  BY Zenon DEF IsPacket
<1>3. /\ data = [head |-> data.head, coreData |-> data.coreData, threadData |-> data.threadData]
      /\ data.head = [f \in made |-> data.head[f]]
  BY <1>2, Zenon DEF IsPart
<1>4. Saved(packet)[part]
        = [data EXCEPT !.head = [f \in DOMAIN data.head |-> IF f \in unsaved THEN NoValue
                                                          ELSE data.head[f]]]
  BY <1>2, Zenon DEF Saved
<1>5. ToSet(fields) = made \ unsaved
  BY <1>1, AllWritten, Zenon DEF WritesAll, IsRowOf
<1> HIDE DEF made, fields, unsaved
<1>6. [f \in DOMAIN data.head |-> IF f \in unsaved THEN NoValue ELSE data.head[f]]
        = Made(made, fields, data.head)
  <2> DEFINE item == data.head
  <2>1. item = [f \in made |-> item[f]]
    BY <1>3
  <2> HIDE DEF item
  <2>2. [f \in DOMAIN item |-> IF f \in unsaved THEN NoValue ELSE item[f]] = Made(made, fields, item)
    BY <2>1, <1>5 DEF Made
  <2> QED
    BY <2>2 DEF item
<1> DEFINE head == Made(made, fields, data.head)
<1>7. Saved(packet)[part] = [data EXCEPT !.head = head]
  BY <1>4, <1>6, Zenon
<1> HIDE DEF data, head
<1>8. [data EXCEPT !.head = head]
        = [head |-> head, coreData |-> data.coreData, threadData |-> data.threadData]
  BY <1>3
<1> QED
  BY <1>7, <1>8, Zenon DEF head, data, made, fields

\* What is written of a packet reads back, field by field, whatever its values
\* are and however many cores and threads it has: all that profiles hold, and
\* every field but the Curve Optimizer offset for all cores, which is not valid
\* then (createProfileFromPacket, getDiskData).
THEOREM ReadsBack ==
    ASSUME NEW build, NEW packet, IsPacket(build, packet)
    PROVE  Deserialize(build, Serialize(build, packet)) = Saved(packet)
<1> DEFINE parts == PartsOf(build)
           n == Len(parts)
           row == Serialize(build, packet)
           data(i) == packet[parts[i]]
           layout(i) == WrittenLayouts[parts[i]]
           seqs == [i \in 1 .. n |-> SerializePart(layout(i), data(i))]
           back(part) ==
             [head |-> Made(Fields[part].head, WrittenLayouts[part].head, packet[part].head),
              coreData |-> packet[part].coreData, threadData |-> packet[part].threadData]
<1>1. /\ n \in Nat /\ DOMAIN parts = 1 .. n
      /\ \A i \in 1 .. n : parts[i] \in AllParts /\ parts[i] \in ToSet(parts)
  BY PartsKnown DEF PartsOnce, IsRow, ToSet
<1>2. PICK S : \A part \in ToSet(parts) : PartIn(S, WrittenLayouts[part], packet[part])
  BY PartsIn, Zenon
<1>3. \A i \in 1 .. n : PartIn(S, layout(i), data(i)) /\ IsLayout(layout(i))
  BY <1>1, <1>2, AllWritten DEF WritesAll, IsRowOf, IsLayout
<1>4. \A i \in 1 .. n : /\ Fields[parts[i]].coreData = ToSet(layout(i).coreData)
                        /\ Fields[parts[i]].threadData = ToSet(layout(i).threadData)
  BY <1>1, AllWritten DEF WritesAll, IsRowOf
<1>5. \A i \in 1 .. n : SerializePart(layout(i), data(i)) \in Seq(S)
  BY <1>1, <1>3, PartRow DEF Follow
<1>6. row = FlattenSeq(seqs)
  BY <1>1, Zenon DEF Serialize
<1>7. Saved(packet) = [part \in ToSet(parts) |-> back(part)]
  <2>1. DOMAIN packet = ToSet(parts)
    BY Zenon DEF IsPacket
  <2>2. Saved(packet) = [part \in DOMAIN packet |-> Saved(packet)[part]]
    BY Zenon DEF Saved
  <2>3. \A part \in ToSet(parts) : Saved(packet)[part] = back(part)
    BY PartSaved, Zenon
  <2> HIDE DEF back, parts
  <2> QED
    BY <2>1, <2>2, <2>3, Zenon
<1> DEFINE e == CHOOSE f : EndsRead(parts, row, f)
           at(part) == CHOOSE j \in DOMAIN parts : parts[j] = part
<1>8. Deserialize(build, row)
        = [part \in ToSet(parts) |->
             DeserializePart(Fields[part], WrittenLayouts[part], row, e[at(part) - 1])]
  <2>1. Deserialize(build, row)
          = [part \in ToSet(parts) |->
               DeserializePart(Fields[part], ReadLayouts[part], row, e[at(part) - 1])]
    BY Zenon DEF Deserialize, EndsRead
  <2> HIDE DEF parts, row, e, at
  <2> QED
    BY <2>1, ReadAsWritten
<1>9. \A part \in ToSet(parts) : at(part) \in DOMAIN parts /\ parts[at(part)] = part
  BY Zenon DEF ToSet
<1> HIDE DEF parts, n, row, data, layout, back, e, at
<1>10. seqs \in [1 .. n -> Seq(S)] /\ \A i \in 1 .. n : Len(seqs[i]) \in Nat
  BY <1>5
<1>11. PICK end : Ends(n, seqs, end)
  BY <1>1, <1>10, EndsExist
<1>12. \A i \in 1 .. n : seqs[i] = SerializePart(layout(i), data(i))
  OBVIOUS
<1> HIDE DEF seqs
<1>13. row \in Seq(S) /\ InRow(n, seqs, end, row)
  BY <1>1, <1>6, <1>10, <1>11, Flattened
<1>14. end \in [0 .. n -> Nat] /\ end[0] = 0
  BY <1>11 DEF Ends
<1>15. \A i \in 1 .. n : end[i] = end[i - 1] + Len(seqs[i]) /\ end[i - 1] \in Nat
  BY <1>1, <1>11, <1>14 DEF Ends
<1>16. ASSUME NEW i \in 1 .. n
       PROVE  /\ DeserializePart(Fields[parts[i]], layout(i), row, end[i - 1]) = back(parts[i])
              /\ EndAt(layout(i), row, end[i - 1]) = end[i]
  <2>1. RowAt(row, end[i - 1], seqs[i])
    <3>1. Len(row) = end[n] /\ DOMAIN row = 1 .. Len(row)
      BY <1>13 DEF InRow
    <3> QED
      BY <3>1, <1>13 DEF InRow, RowAt
  <2>2. RowAt(row, end[i - 1], SerializePart(layout(i), data(i)))
    BY <2>1, <1>12
  <2>3. parts[i] \in AllParts /\ end[i - 1] \in Nat
    BY <1>1, <1>15
  <2> DEFINE made == Fields[parts[i]]
             pos == end[i - 1]
  <2>4. /\ made.coreData = ToSet(layout(i).coreData)
        /\ made.threadData = ToSet(layout(i).threadData)
        /\ PartIn(S, layout(i), data(i)) /\ IsLayout(layout(i)) /\ pos \in Nat
    BY <1>3, <1>4, <2>3
  <2> HIDE DEF made, pos
  <2>5. /\ DeserializePart(made, layout(i), row, pos)
             = [head |-> Made(made.head, layout(i).head, data(i).head),
                coreData |-> data(i).coreData, threadData |-> data(i).threadData]
        /\ EndAt(layout(i), row, pos) = pos + Len(SerializePart(layout(i), data(i)))
    <3>1. RowAt(row, pos, SerializePart(layout(i), data(i)))
      BY <2>2 DEF pos
    <3> DEFINE l == layout(i)
               d == data(i)
    <3> HIDE DEF l, d
    <3>2. /\ made.coreData = ToSet(l.coreData) /\ made.threadData = ToSet(l.threadData)
          /\ PartIn(S, l, d) /\ IsLayout(l) /\ RowAt(row, pos, SerializePart(l, d))
      BY <2>4, <3>1 DEF l, d
    <3>3. /\ DeserializePart(made, l, row, pos)
               = [head |-> Made(made.head, l.head, d.head),
                  coreData |-> d.coreData, threadData |-> d.threadData]
          /\ EndAt(l, row, pos) = pos + Len(SerializePart(l, d))
      BY <2>4, <3>2, PartRead, Zenon
    <3> QED
      BY <3>3, Zenon DEF l, d
  <2>6. DeserializePart(made, layout(i), row, pos) = back(parts[i])
    BY <2>5, Zenon DEF back, made, layout, data
  <2> QED
    BY <2>5, <2>6, <1>12, <1>15 DEF made, pos
<1>17. EndsRead(parts, row, end)
  <2>1. end = [i \in 0 .. n |-> end[i]]
    BY <1>14
  <2>2. \A i \in 0 .. n : end[i] = IF i = 0 THEN 0 ELSE EndAt(layout(i), row, end[i - 1])
    BY <1>1, <1>14, <1>16
  <2> QED
    BY <2>1, <2>2, ReadAsWritten DEF EndsRead, n, layout
<1>18. EndsRead(parts, row, e)
  BY <1>17, Zenon DEF e
<1>19. \A i \in 0 .. n : e[i] = end[i]
  <2> DEFINE T == {i \in 0 .. n : e[i] # end[i]}
  <2>1. SUFFICES ASSUME T # {} PROVE FALSE
    OBVIOUS
  <2>2. T \in SUBSET Nat
    BY <1>1
  <2>3. PICK i \in T : \A j \in T : i <= j
    BY <2>1, <2>2, LeastExists
  <2>4. e[0] = 0 /\ \A j \in 1 .. n : e[j] = EndAt(layout(j), row, e[j - 1])
    <3>1. \A j \in 0 .. n : e[j] = IF j = 0 THEN 0 ELSE EndAt(layout(j), row, e[j - 1])
      BY <1>18, ReadAsWritten DEF EndsRead, n, layout
    <3>2. 0 \in 0 .. n /\ \A j \in 1 .. n : j \in 0 .. n /\ j # 0
      BY <1>1
    <3> QED
      BY <3>1, <3>2, Zenon
  <2>5. i \in 1 .. n /\ i - 1 \in 0 .. n /\ i - 1 \notin T
    BY <1>1, <1>14, <2>3, <2>4
  <2>6. e[i - 1] = end[i - 1]
    BY <2>5
  <2>7. e[i] = end[i]
    BY <1>16, <2>4, <2>5, <2>6
  <2> QED
    BY <2>7, <2>3
<1>20. ASSUME NEW part \in ToSet(parts)
       PROVE  DeserializePart(Fields[part], WrittenLayouts[part], row, e[at(part) - 1]) = back(part)
  <2> DEFINE i == at(part)
  <2>1. i \in 1 .. n /\ parts[i] = part
    BY <1>1, <1>9
  <2> HIDE DEF i
  <2>2. e[i - 1] = end[i - 1]
    <3>1. i - 1 \in 0 .. n
      BY <1>1, <2>1
    <3> QED
      BY <1>19, <3>1
  <2>3. DeserializePart(Fields[parts[i]], layout(i), row, end[i - 1]) = back(parts[i])
    BY <1>16, <2>1
  <2>4. DeserializePart(Fields[part], WrittenLayouts[part], row, e[i - 1]) = back(part)
    BY <2>1, <2>2, <2>3 DEF layout
  <2> QED
    BY <2>4 DEF i
<1>21. Deserialize(build, row) = [part \in ToSet(parts) |-> back(part)]
  BY <1>8, <1>20
<1> QED
  BY <1>7, <1>21, Zenon DEF row

-------------------------------------------------------------------------------
\* Files.

LEMMA RowsRead ==
    ASSUME NEW b \in Builds, NEW p \in Packets
    PROVE  Reading(b, Whole(p)) = p
<1> DEFINE same == {q \in Packets : Held(b, q) = Read(b, Whole(p))}
<1>1. Deserialize(b, Serialize(b, PacketOf[b][p])) = Held(b, p)
  BY ReadsBack, PacketsAssumption DEF Held
<1>2. Read(b, Whole(p)) = Deserialize(b, Serialize(b, PacketOf[b][p]))
  <2>1. Whole(p)[1] = "whole" /\ Whole(p)[2] = p
    BY DEF Whole
  <2> QED
    BY <2>1 DEF Read
<1>3. \A q \in Packets : q \in same <=> q = p
  BY <1>1, <1>2, PacketsAssumption
<1>4. Reading(b, Whole(p)) = IF same = {} THEN Garbled ELSE CHOOSE q \in same : TRUE
  BY Zenon DEF Reading
<1> HIDE DEF same
<1>5. same # {} /\ \A q \in same : q \in Packets
  BY <1>3 DEF same
<1>6. (CHOOSE q \in same : TRUE) \in same
  BY <1>5
<1> QED
  BY <1>3, <1>4, <1>5, <1>6

\* What a file loads as, in the build c.
Loads(c, f) == IF f # Nothing /\ IsValid(f) THEN c.reads[f[5]] ELSE Nothing

\* Of whole files only those that were created from a packet are valid.
LEMMA ValidFiles ==
    ASSUME NEW f \in WholeFiles, IsValid(f)
    PROVE  \E p \in Packets : f = CreateProfile(p)
<1> DEFINE q == CHOOSE r \in Packets : TRUE
           theirs == CreateProfile(q)
           damaged == Damaged(q)
<1>1. /\ theirs = [i \in 1..5 |-> theirs[i]]
      /\ theirs[4] = Sha256(Whole(q))
  BY DEF CreateProfile
<1>2. Sha256(Whole(q)) # Sha256(damaged)
  BY DEF Whole, Damaged, Sha256
<1>3. f \in {CreateProfile(p) : p \in Packets} \cup
           {<<"other">>, [theirs EXCEPT ![2] = FileVersion + 1],
            [theirs EXCEPT ![3] = "another device"],
            [theirs EXCEPT ![5] = damaged]}
  BY DEF WholeFiles, ForeignFiles
<1> HIDE DEF theirs, damaged
<1>4. ~IsValid(<<"other">>)
  BY DEF IsValid, Field, Signature
<1>5. ~IsValid([theirs EXCEPT ![2] = FileVersion + 1])
  <2>1. Field([theirs EXCEPT ![2] = FileVersion + 1], 2, 0) = FileVersion + 1
    BY <1>1 DEF Field
  <2>2. ~ (FileVersion + 1 <= FileVersion)
    BY DEF FileVersion
  <2> QED
    BY <2>1, <2>2 DEF IsValid
<1>6. ~IsValid([theirs EXCEPT ![3] = "another device"])
  <2>1. Field([theirs EXCEPT ![3] = "another device"], 3, "") = "another device"
    BY <1>1 DEF Field
  <2>2. DeviceHash # "another device"
    BY DEF DeviceHash
  <2> QED
    BY <2>1, <2>2 DEF IsValid
<1>7. ~IsValid([theirs EXCEPT ![5] = damaged])
  <2>1. /\ Field([theirs EXCEPT ![5] = damaged], 4, <<>>) = theirs[4]
        /\ Field([theirs EXCEPT ![5] = damaged], 5, <<>>) = damaged
    BY <1>1 DEF Field
  <2> QED
    BY <1>1, <1>2, <2>1 DEF IsValid
<1> QED
  BY <1>3, <1>4, <1>5, <1>6, <1>7

LEMMA CreatedFiles ==
    ASSUME NEW p \in Packets
    PROVE  /\ CreateProfile(p) \in WholeFiles /\ IsValid(CreateProfile(p))
           /\ CreateProfile(p)[5] = Whole(p) /\ Len(CreateProfile(p)) = 5
           /\ Field(CreateProfile(p), 1, "") = Signature
<1>1. /\ DOMAIN CreateProfile(p) = 1..5 /\ Len(CreateProfile(p)) = 5
      /\ CreateProfile(p)[1] = Signature /\ CreateProfile(p)[2] = FileVersion
      /\ CreateProfile(p)[3] = DeviceHash
      /\ CreateProfile(p)[4] = Sha256(Whole(p)) /\ CreateProfile(p)[5] = Whole(p)
  BY DEF CreateProfile
<1>2. Whole(p) # <<>>
  BY DEF Whole
<1> QED
  BY <1>1, <1>2 DEF IsValid, Field, WholeFiles, FileVersion

LEMMA FileParts ==
    ASSUME NEW f \in WholeFiles
    PROVE  \E n \in {1, 5} : Len(f) = n /\ f = [i \in 1..n |-> f[i]]
<1>1. \A p : /\ Len(CreateProfile(p)) = 5
             /\ CreateProfile(p) = [i \in 1..5 |-> CreateProfile(p)[i]]
  BY DEF CreateProfile
<1>2. Len(<<"other">>) = 1 /\ <<"other">> = [i \in 1..1 |-> <<"other">>[i]]
  OBVIOUS
<1> DEFINE theirs == CreateProfile(CHOOSE r \in Packets : TRUE)
           damaged == Damaged(CHOOSE r \in Packets : TRUE)
<1>3. f \in {CreateProfile(p) : p \in Packets} \cup
           {<<"other">>, [theirs EXCEPT ![2] = FileVersion + 1],
            [theirs EXCEPT ![3] = "another device"],
            [theirs EXCEPT ![5] = damaged]}
  BY DEF WholeFiles, ForeignFiles
<1>4. Len(theirs) = 5 /\ theirs = [i \in 1..5 |-> theirs[i]]
  BY <1>1
<1> HIDE DEF theirs, damaged
<1>5. \A j, x : [theirs EXCEPT ![j] = x] = [i \in 1..5 |-> [theirs EXCEPT ![j] = x][i]]
  BY <1>4
<1>6. \A x : x = [i \in 1..5 |-> x[i]] => Len(x) = 5
  OBVIOUS
<1>7. CASE f \in {CreateProfile(p) : p \in Packets}
  BY <1>1, <1>7
<1>8. CASE f = <<"other">>
  BY <1>2, <1>8
<1>9. CASE f \in {[theirs EXCEPT ![2] = FileVersion + 1],
                  [theirs EXCEPT ![3] = "another device"],
                  [theirs EXCEPT ![5] = damaged]}
  BY <1>5, <1>6, <1>9
<1> QED
  BY <1>3, <1>7, <1>8, <1>9

\* Cutting a file no shorter than it is leaves it.
LEMMA WholeIsUncut == \A f \in WholeFiles : CutFile(f, Len(f)) = f
<1> SUFFICES ASSUME NEW f \in WholeFiles PROVE CutFile(f, Len(f)) = f
  OBVIOUS
<1>1. PICK n \in {1, 5} : Len(f) = n /\ f = [i \in 1..n |-> f[i]]
  BY FileParts
<1>2. CutFile(f, Len(f)) = SubSeq(f, 1, n)
  BY <1>1 DEF CutFile
<1>3. SubSeq(f, 1, n) = [i \in 1..(1 + n - 1) |-> f[i + 1 - 1]]
  OBVIOUS
<1> QED
  BY <1>1, <1>2, <1>3

\* A file that was cut short is the whole one, or lacks its data.
LEMMA CutFiles ==
    ASSUME NEW f \in WholeFiles, NEW k \in Nat
    PROVE  CutFile(f, k) = f \/ ~IsValid(CutFile(f, k))
<1>1. PICK n \in {1, 5} : Len(f) = n /\ f = [i \in 1..n |-> f[i]]
  BY FileParts
<1> DEFINE m == IF k < n THEN k ELSE n
<1>2. m \in 0..n /\ CutFile(f, k) = [i \in 1..m |-> f[i]]
  <2>1. CutFile(f, k) = SubSeq(f, 1, m)
    BY <1>1 DEF CutFile
  <2>2. SubSeq(f, 1, m) = [i \in 1..(1 + m - 1) |-> f[i + 1 - 1]]
    OBVIOUS
  <2> QED
    BY <2>1, <2>2
<1>3. CASE m = n
  BY <1>1, <1>2, <1>3
<1>4. CASE m # n
  <2>1. 5 \notin DOMAIN CutFile(f, k)
    BY <1>2, <1>4
  <2>2. Field(CutFile(f, k), 5, <<>>) = <<>>
    BY <2>1 DEF Field
  <2> QED
    BY <2>2 DEF IsValid
<1> QED
  BY <1>3, <1>4

\* What a file may load as, and what is left of that when it is cut short.
LEMMA Loading ==
    ASSUME NEW b \in Builds
    PROVE  /\ Loads(Code(b), Nothing) = Nothing
           /\ \A p \in Packets : Loads(Code(b), CreateProfile(p)) = p
           /\ \A f \in WholeFiles : Loads(Code(b), f) \in Packets \cup {Nothing}
           /\ \A f \in WholeFiles, k \in Nat :
                Loads(Code(b), CutFile(f, k)) \in {Loads(Code(b), f), Nothing}
<1>1. \A p \in Packets : Loads(Code(b), CreateProfile(p)) = p
  <2> SUFFICES ASSUME NEW p \in Packets PROVE Loads(Code(b), CreateProfile(p)) = p
    OBVIOUS
  <2>1. /\ CreateProfile(p) \in WholeFiles /\ IsValid(CreateProfile(p))
        /\ CreateProfile(p)[5] = Whole(p)
    BY CreatedFiles
  <2>2. CreateProfile(p) # Nothing
    BY <2>1, NothingAssumption DEF Files
  <2>3. Code(b).reads[Whole(p)] = Reading(b, Whole(p))
    BY DEF Code, Rows
  <2> QED
    BY <2>1, <2>2, <2>3, RowsRead DEF Loads
<1>2. \A f \in WholeFiles : Loads(Code(b), f) \in Packets \cup {Nothing}
  BY <1>1, ValidFiles DEF Loads
<1>3. \A f \in WholeFiles, k \in Nat :
        Loads(Code(b), CutFile(f, k)) \in {Loads(Code(b), f), Nothing}
  BY CutFiles DEF Loads
<1> QED
  BY <1>1, <1>2, <1>3 DEF Loads

-------------------------------------------------------------------------------
\* The types, and that the code stays what it is.

Inv == TypeOK /\ code \in {Code(b) : b \in Builds}

LEMMA WrittenTypes ==
    ASSUME NEW n \in Names, NEW f \in WholeFiles, NEW ok, WriteBuffered(n, f, ok),
           files \in [Names -> {Nothing} \cup Files]
    PROVE  /\ files' \in [Names -> {Nothing} \cup Files]
           /\ changed' \in BOOLEAN
           /\ changed' => changed \/ watched
           /\ ~folder => files' = files
<1>1. \A k \in Cuts \cup {Len(f)} : CutFile(f, k) \in Files
  <2>1. CutFile(f, Len(f)) = f
    BY WholeIsUncut
  <2> QED
    BY <2>1 DEF Files
<1>2. files' \in [Names -> {Nothing} \cup Files]
  BY <1>1 DEF WriteBuffered, WriteFile, Files, FilePath
<1> QED
  BY <1>2 DEF WriteBuffered, WriteFile, Seen

LEMMA InitInv == Init => Inv
<1> SUFFICES ASSUME Init PROVE Inv
  OBVIOUS
<1>1. PICK b \in Builds : code = Code(b)
  BY DEF Init
<1>2. code.build = b
  BY <1>1 DEF Code
<1>3. files \in [Names -> {Nothing} \cup Files]
  BY DEF Init, Files
<1>4. answer.op \in Operations /\ answer.ok \in BOOLEAN
  BY DEF Init, NoAnswer, Answer, Operations
<1>5. ~folder => ProfilesIn(files) = {}
  BY DEF Init, ProfilesIn
<1> QED
  BY <1>1, <1>2, <1>3, <1>4, <1>5 DEF Init, Inv, TypeOK

\* An operation that answers and changes at most one file.
LEMMA AnsweredInv ==
    ASSUME Inv, up, path \/ files' = files,
           files' \in [Names -> {Nothing} \cup Files], changed' \in BOOLEAN,
           changed' => changed \/ (watched /\ path), ~folder => files' = files,
           told' \in {Nothing} \cup SUBSET {BaseName[n] : n \in Names},
           UNCHANGED <<code, up, path, folder, watched, waiting>>,
           NEW op \in Operations, NEW ok \in BOOLEAN, NEW got,
           answer' = Answer(op, ok, got)
    PROVE  Inv'
<1>1. answer'.op \in Operations /\ answer'.ok \in BOOLEAN
  BY DEF Answer
<1> QED
  BY <1>1 DEF Inv, TypeOK, ProfilesIn

LEMMA NextInv == Inv /\ [Next]_vars => Inv'
<1> SUFFICES ASSUME Inv, [Next]_vars PROVE Inv'
  OBVIOUS
<1>1. /\ files \in [Names -> {Nothing} \cup Files]
      /\ told \in {Nothing} \cup SUBSET {BaseName[n] : n \in Names}
      /\ up \in BOOLEAN /\ path \in BOOLEAN /\ folder \in BOOLEAN
      /\ watched \in BOOLEAN /\ changed \in BOOLEAN /\ waiting \in BOOLEAN
      /\ watched => path /\ up
  BY DEF Inv, TypeOK
<1>2. NoAnswer.op \in Operations /\ NoAnswer.ok \in BOOLEAN
  BY DEF NoAnswer, Answer, Operations
<1>3. /\ {"save", "destroy", "load", "show", "list", "export", "import"} \subseteq Operations
      /\ TRUE \in BOOLEAN /\ FALSE \in BOOLEAN
  BY DEF Operations
<1>4. GetProfilesList \in SUBSET {BaseName[n] : n \in Names}
  BY DEF GetProfilesList, ProfilesIn
<1>5. CASE Start
  <2>1. ~watched /\ ~changed /\ ~waiting
    BY <1>1, <1>5 DEF Start, Inv, TypeOK
  <2>2. /\ up' = TRUE /\ answer' = NoAnswer
        /\ code' = code /\ files' = files /\ changed' = changed /\ waiting' = waiting
        /\ told' = told
        /\ \/ path' = TRUE /\ folder' = TRUE /\ watched' \in BOOLEAN
           \/ path' = FALSE /\ folder' = folder /\ watched' = FALSE
    BY <1>5 DEF Start
  <2>3. ~folder' => ProfilesIn(files') = {} /\ ~watched'
    BY <2>2 DEF Inv, TypeOK
  <2>4. watched' \/ changed' \/ waiting' => up' /\ path'
    BY <2>1, <2>2
  <2>5. path' \in BOOLEAN /\ folder' \in BOOLEAN /\ watched' \in BOOLEAN
    BY <1>1, <2>2
  <2>6. code' \in {Code(b) : b \in Builds} /\ code'.build \in Builds
    BY <2>2 DEF Inv, TypeOK
  <2> QED
    BY <1>1, <1>2, <2>2, <2>3, <2>4, <2>5, <2>6 DEF Inv, TypeOK
<1>6. ASSUME NEW n \in Names, NEW f \in WholeFiles, NEW ok \in BOOLEAN,
             path, WriteBuffered(n, f, ok)
      PROVE  /\ files' \in [Names -> {Nothing} \cup Files] /\ changed' \in BOOLEAN
             /\ changed' => changed \/ (watched /\ path)
             /\ ~folder => files' = files
  BY <1>1, <1>6, WrittenTypes
<1>7. ASSUME NEW n \in Names, NEW p \in Packets, NEW ok \in BOOLEAN, Save(n, p, ok)
      PROVE  Inv'
  <2>1. CreateProfile(p) \in WholeFiles
    BY CreatedFiles
  <2>2. /\ files' \in [Names -> {Nothing} \cup Files] /\ changed' \in BOOLEAN
        /\ changed' => changed \/ (watched /\ path)
        /\ ~folder => files' = files
        /\ path \/ files' = files
    BY <1>1, <1>6, <1>7, <2>1 DEF Save, WriteBuffered
  <2> QED
    BY <1>1, <1>3, <1>7, <2>2, AnsweredInv DEF Save
<1>8. ASSUME NEW n \in Names, NEW f \in WholeFiles, NEW ok \in BOOLEAN,
             ImportProfile(n, f, ok)
      PROVE  Inv'
  <2>1. /\ files' \in [Names -> {Nothing} \cup Files] /\ changed' \in BOOLEAN
        /\ changed' => changed \/ (watched /\ path)
        /\ ~folder => files' = files
        /\ path \/ files' = files
    <3>1. \/ path /\ WriteBuffered(n, f, ok)
          \/ UNCHANGED <<files, changed>>
      BY <1>8 DEF ImportProfile
    <3> QED
      BY <1>1, <1>6, <3>1
  <2> QED
    BY <1>1, <1>3, <1>8, <2>1, AnsweredInv DEF ImportProfile
<1>9. ASSUME NEW n \in Names, NEW ok \in BOOLEAN, Destroy(n, ok)
      PROVE  Inv'
  <2>1. ok => folder
    BY <1>9 DEF Destroy, FileOf, FilePath, Inv, TypeOK, ProfilesIn
  <2>2. /\ files' \in [Names -> {Nothing} \cup Files] /\ changed' \in BOOLEAN
        /\ changed' => changed \/ (watched /\ path)
        /\ ~folder => files' = files
        /\ path \/ files' = files
    BY <1>1, <1>9, <2>1 DEF Destroy, FilePath, Seen
  <2> QED
    BY <1>1, <1>3, <1>9, <2>2, AnsweredInv DEF Destroy
<1>10. ASSUME NEW n \in Names, Load(n) \/ Show(n)
       PROVE  Inv'
  <2>1. /\ up /\ UNCHANGED <<code, up, path, folder, files, watched, changed, waiting, told>>
        /\ \E op \in {"load", "show"}, ok \in BOOLEAN : \E got : answer' = Answer(op, ok, got)
    BY <1>10 DEF Load, Show
  <2> QED
    BY <1>1, <1>3, <2>1, AnsweredInv
<1>11. ASSUME NEW ns, ListProfiles \/ ExportProfiles(ns)
       PROVE  Inv'
  <2>1. /\ up /\ UNCHANGED <<code, up, path, folder, files, watched, changed, waiting>>
        /\ \E op \in {"list", "export"} : \E got : answer' = Answer(op, TRUE, got)
    BY <1>11 DEF ListProfiles, ExportProfiles
  <2>2. told' \in {Nothing} \cup SUBSET {BaseName[n] : n \in Names}
    BY <1>1, <1>4, <1>11 DEF ListProfiles, ExportProfiles
  <2> QED
    BY <1>1, <1>3, <2>1, <2>2, AnsweredInv
<1>12. CASE OnDirChanged \/ OnFsWatcherTimerTimeout
  <2>1. /\ up /\ path /\ told' \in {Nothing} \cup SUBSET {BaseName[n] : n \in Names}
        /\ changed' \in BOOLEAN /\ waiting' \in BOOLEAN /\ answer' = NoAnswer
        /\ code' = code /\ up' = up /\ path' = path /\ folder' = folder
        /\ files' = files /\ watched' = watched
    <3>1. CASE OnDirChanged
      BY <1>1, <3>1 DEF OnDirChanged, Inv, TypeOK
    <3>2. CASE OnFsWatcherTimerTimeout
      BY <1>1, <1>4, <3>2 DEF OnFsWatcherTimerTimeout, Inv, TypeOK
    <3> QED
      BY <1>12, <3>1, <3>2
  <2> QED
    BY <1>2, <2>1 DEF Inv, TypeOK, ProfilesIn
<1>13. CASE Die
  <2>1. files' \in [Names -> {Nothing} \cup Files]
    <3>1. \A p \in Packets : CreateProfile(p) \in WholeFiles
      BY CreatedFiles
    <3>2. \A p \in Packets, k \in Cuts : CutFile(CreateProfile(p), k) \in Files
      BY <3>1 DEF Files
    <3> QED
      BY <1>1, <1>13, <3>2 DEF Die, FilePath
  <2>2. ~folder => files' = files
    BY <1>13 DEF Die
  <2> QED
    BY <1>2, <1>13, <2>1, <2>2 DEF Die, Inv, TypeOK, ProfilesIn
<1>14. ASSUME NEW n \in Names, NEW f \in {Nothing} \cup WholeFiles, OthersChange(n, f)
       PROVE  Inv'
  <2>1. files' \in [Names -> {Nothing} \cup Files]
    BY <1>1, <1>14 DEF OthersChange, Files
  <2>2. changed' \in BOOLEAN /\ (changed' => changed \/ watched)
    BY <1>1, <1>14 DEF OthersChange, Seen
  <2> QED
    BY <1>2, <1>14, <2>1, <2>2 DEF OthersChange, Inv, TypeOK
<1>15. CASE OthersRemoveFolder
  <2>1. files' \in [Names -> {Nothing} \cup Files] /\ ProfilesIn(files') = {}
    BY <1>15 DEF OthersRemoveFolder, ProfilesIn
  <2> QED
    BY <1>2, <1>15, <2>1 DEF OthersRemoveFolder, Inv, TypeOK
<1>16. CASE OthersMakeFolder
  BY <1>2, <1>16 DEF OthersMakeFolder, Inv, TypeOK
<1>17. CASE UNCHANGED vars
  BY <1>17 DEF vars, Inv, TypeOK, ProfilesIn
<1> QED
  BY <1>5, <1>7, <1>8, <1>9, <1>10, <1>11, <1>12, <1>13, <1>14, <1>15, <1>16, <1>17
  DEF Next

THEOREM Invariance == Spec => []Inv
  BY InitInv, NextInv, PTL DEF Spec

\* Every variable keeps its type, and only a daemon that runs, and has the
\* folder, watches it, has changes to handle or a list to send.
THEOREM TypeCorrect == Spec => []TypeOK
<1>1. Inv => TypeOK
  BY DEF Inv
<1> QED
  BY <1>1, Invariance, PTL

-------------------------------------------------------------------------------
\* ProfileStore implements ProfileMap.

LEMMA StoredBy ==
    /\ Stored = [n \in Names |-> Loads(code, files[n])]
    /\ Stored' = [n \in Names |-> Loads(code', files'[n])]
BY DEF Stored, Content, FileOf, FilePath, Loads

LEMMA SameStored ==
    ASSUME code' = code, files' = files
    PROVE  Stored' = Stored
BY StoredBy

LEMMA OneStored ==
    ASSUME code' = code, files \in [Names -> {Nothing} \cup Files],
           NEW n \in Names, NEW f, files' = [files EXCEPT ![n] = f]
    PROVE  Stored' = [Stored EXCEPT ![n] = Loads(code, f)]
BY StoredBy

\* What is under a name after a file was written there, or was to be.
LEMMA WriteStored ==
    ASSUME Inv, NEW n \in Names, NEW f \in WholeFiles, NEW ok \in BOOLEAN,
           WriteFile(n, f, ok), code' = code
    PROVE  IF ok THEN Map!Set(n, {Loads(code, f)})
                 ELSE Map!Set(n, {Stored[n], Loads(code, f), Nothing})
<1>1. PICK b \in Builds : code = Code(b)
  BY DEF Inv
<1>2. files \in [Names -> {Nothing} \cup Files]
  BY DEF Inv, TypeOK
<1>3. \A k \in Cuts : Loads(code, CutFile(f, k)) \in {Loads(code, f), Nothing}
  BY <1>1, Loading, CutsAssumption
<1>4. CutFile(f, Len(f)) = f
  BY WholeIsUncut
<1>5. CASE files' = [files EXCEPT ![n] = f]
  <2>1. Stored' = [Stored EXCEPT ![n] = Loads(code, f)]
    BY <1>2, <1>5, OneStored
  <2> QED
    BY <2>1 DEF Map!Set
<1>6. CASE ~ok /\ files' = files
  <2>1. Stored' = Stored /\ Stored = [Stored EXCEPT ![n] = Stored[n]]
    BY <1>6, SameStored DEF Stored
  <2> QED
    BY <1>6, <2>1 DEF Map!Set
<1>7. ASSUME ~ok, NEW k \in Cuts, files' = [files EXCEPT ![n] = CutFile(f, k)]
      PROVE  Map!Set(n, {Stored[n], Loads(code, f), Nothing})
  <2>1. Stored' = [Stored EXCEPT ![n] = Loads(code, CutFile(f, k))]
    BY <1>2, <1>7, OneStored
  <2> QED
    BY <1>3, <2>1 DEF Map!Set
<1> QED
  BY <1>4, <1>5, <1>6, <1>7 DEF WriteFile, FilePath

\* The same of a file that is imported.
LEMMA ImportStored ==
    ASSUME Inv, NEW n \in Names, NEW f \in WholeFiles, NEW ok \in BOOLEAN,
           WriteBuffered(n, f, ok), code' = code
    PROVE  IF ok THEN Map!Set(n, {Loads(code, f), Nothing})
                 ELSE Map!Set(n, {Stored[n], Loads(code, f), Nothing})
<1>1. CASE WriteFile(n, f, ok)
  <2>1. IF ok THEN Map!Set(n, {Loads(code, f)})
              ELSE Map!Set(n, {Stored[n], Loads(code, f), Nothing})
    BY <1>1, WriteStored
  <2> QED
    BY <2>1 DEF Map!Set
<1>2. ASSUME ok, NEW k \in Cuts, files' = [files EXCEPT ![n] = CutFile(f, k)]
      PROVE  Map!Set(n, {Loads(code, f), Nothing})
  <2>1. Loads(code, CutFile(f, k)) \in {Loads(code, f), Nothing}
    BY Loading, CutsAssumption DEF Inv
  <2>2. Stored' = [Stored EXCEPT ![n] = Loads(code, CutFile(f, k))]
    BY <1>2, OneStored DEF Inv, TypeOK
  <2> QED
    BY <2>1, <2>2 DEF Map!Set
<1> QED
  BY <1>1, <1>2 DEF WriteBuffered, FilePath

LEMMA InitRefines == Inv /\ Init => Map!Init
<1> SUFFICES ASSUME Inv, Init PROVE Map!Init
  OBVIOUS
<1>1. PICK b \in Builds : code = Code(b)
  BY DEF Inv
<1>2. \A n \in Names : Loads(code, files[n]) \in Packets \cup {Nothing}
  BY <1>1, Loading DEF Init
<1>3. answer.op = "none"
  BY DEF Init, NoAnswer, Answer
<1> QED
  BY <1>2, <1>3, StoredBy DEF Map!Init

LEMMA StepRefines == Inv /\ [Next]_vars => [Map!Next]_(Map!vars)
<1> SUFFICES ASSUME Inv, [Next]_vars PROVE [Map!Next]_(Map!vars)
  OBVIOUS
<1>1. PICK b \in Builds : code = Code(b)
  BY DEF Inv
<1>2. files \in [Names -> {Nothing} \cup Files]
  BY DEF Inv, TypeOK
<1>3. NoAnswer.op = "none"
  BY DEF NoAnswer, Answer
<1>4. ASSUME code' = code, files' = files, answer' = NoAnswer
      PROVE  Map!Outside
  BY <1>3, <1>4, SameStored DEF Map!Outside
<1>5. CASE Start
  BY <1>4, <1>5 DEF Start, Map!Next
<1>6. ASSUME NEW n \in Names, NEW p \in Packets, NEW ok \in BOOLEAN, Save(n, p, ok)
      PROVE  Map!Next
  <2>1. CreateProfile(p) \in WholeFiles /\ Loads(code, CreateProfile(p)) = p
    BY <1>1, CreatedFiles, Loading
  <2>2. code' = code /\ answer' = Answer("save", ok, Nothing)
    BY <1>6 DEF Save
  <2>3. IF ok THEN Map!Set(n, {p}) ELSE Map!Set(n, {Stored[n], p, Nothing})
    <3>1. CASE WriteFile(n, CreateProfile(p), ok)
      BY <2>1, <2>2, <3>1, WriteStored
    <3>2. CASE ~ok /\ files' = files
      <4>1. Stored' = Stored /\ Stored = [Stored EXCEPT ![n] = Stored[n]]
        BY <2>2, <3>2, SameStored DEF Stored
      <4> QED
        BY <3>2, <4>1 DEF Map!Set
    <3> QED
      BY <1>6, <3>1, <3>2 DEF Save
  <2> QED
    BY <2>2, <2>3 DEF Map!Next, Map!Save, Answer
<1>7. ASSUME NEW n \in Names, NEW f \in WholeFiles, NEW ok \in BOOLEAN,
             ImportProfile(n, f, ok)
      PROVE  Map!Next
  <2> DEFINE p == Loads(code, f)
  <2>1. p \in Packets \cup {Nothing}
    BY <1>1, Loading
  <2>2. code' = code /\ answer' = Answer("import", ok, Nothing)
    BY <1>7 DEF ImportProfile
  <2>3. WriteBuffered(n, f, ok) \/ (~ok /\ files' = files)
    BY <1>7 DEF ImportProfile
  <2>4. IF ok THEN Map!Set(n, {p, Nothing}) ELSE Map!Set(n, {Stored[n], p, Nothing})
    <3>1. CASE WriteBuffered(n, f, ok)
      BY <2>2, <3>1, ImportStored
    <3>2. CASE ~ok /\ files' = files
      <4>1. Stored' = Stored /\ Stored = [Stored EXCEPT ![n] = Stored[n]]
        BY <2>2, <3>2, SameStored DEF Stored
      <4> QED
        BY <3>2, <4>1 DEF Map!Set
    <3> QED
      BY <2>3, <3>1, <3>2
  <2> HIDE DEF p
  <2> QED
    BY <2>1, <2>2, <2>4 DEF Map!Next, Map!Import, Answer
<1>8. ASSUME NEW n \in Names, NEW ok \in BOOLEAN, Destroy(n, ok)
      PROVE  Map!Next
  <2>1. code' = code /\ answer' = Answer("destroy", ok, Nothing)
    BY <1>8 DEF Destroy
  <2>2. CASE ok
    <3>1. files' = [files EXCEPT ![n] = Nothing]
      BY <1>8, <2>2 DEF Destroy, FilePath
    <3>2. Loads(code, Nothing) = Nothing
      BY DEF Loads
    <3>3. Stored' = [Stored EXCEPT ![n] = Nothing]
      BY <1>2, <2>1, <3>1, <3>2, OneStored
    <3> QED
      BY <2>1, <2>2, <3>3 DEF Map!Next, Map!Destroy, Map!Set, Answer
  <2>3. CASE ~ok
    <3>1. files' = files
      BY <1>8, <2>3 DEF Destroy
    <3>2. Stored' = Stored /\ Stored = [Stored EXCEPT ![n] = Stored[n]]
      BY <2>1, <3>1, SameStored DEF Stored
    <3> QED
      BY <2>1, <2>3, <3>2 DEF Map!Next, Map!Destroy, Map!Set, Answer
  <2> QED
    BY <2>2, <2>3
<1>9. ASSUME NEW n \in Names, Load(n)
      PROVE  Map!Next
  <2>1. Stored' = Stored
    BY <1>9, SameStored DEF Load
  <2>2. Stored[n] = Content(n)
    BY DEF Stored
  <2> QED
    BY <1>9, <2>1, <2>2 DEF Load, Map!Next, Map!Load, Answer
<1>10. ASSUME NEW n \in Names, Show(n)
       PROVE  Map!Next
  <2>1. Stored' = Stored /\ answer'.op = "show"
    BY <1>10, SameStored DEF Show, Answer
  <2> QED
    BY <2>1 DEF Map!Next, Map!Look, Map!Looks
<1>11. ASSUME NEW ns, ListProfiles \/ ExportProfiles(ns)
       PROVE  Map!Next
  <2>1. Stored' = Stored /\ answer'.op \in {"list", "export"}
    BY <1>11, SameStored DEF ListProfiles, ExportProfiles, Answer
  <2> QED
    BY <2>1 DEF Map!Next, Map!Look, Map!Looks
<1>12. CASE OnDirChanged \/ OnFsWatcherTimerTimeout \/ OthersMakeFolder
  BY <1>4, <1>12 DEF OnDirChanged, OnFsWatcherTimerTimeout, OthersMakeFolder, Map!Next
<1>13. CASE Die
  <2>1. code' = code /\ answer' = NoAnswer
    BY <1>13 DEF Die
  <2>2. ASSUME NEW n \in Names, NEW p \in Packets, NEW k \in Cuts,
               files' = [files EXCEPT ![n] = CutFile(CreateProfile(p), k)]
        PROVE  Map!Outside
    <3>1. CreateProfile(p) \in WholeFiles /\ Loads(code, CreateProfile(p)) = p
      BY <1>1, CreatedFiles, Loading
    <3>2. Loads(code, CutFile(CreateProfile(p), k)) \in {p, Nothing}
      <4> DEFINE f == CreateProfile(p)
      <4>1. k \in Nat
        BY CutsAssumption
      <4>2. Loads(Code(b), CutFile(f, k)) \in {Loads(Code(b), f), Nothing}
        BY <3>1, <4>1, Loading
      <4> QED
        BY <1>1, <3>1, <4>2
    <3>3. Stored' = [Stored EXCEPT ![n] = Loads(code, CutFile(CreateProfile(p), k))]
      BY <1>2, <2>1, <2>2, OneStored
    <3> QED
      BY <1>3, <2>1, <3>2, <3>3 DEF Map!Outside, Map!Set
  <2> QED
    BY <1>4, <1>13, <2>1, <2>2 DEF Die, FilePath, Map!Next
<1>14. ASSUME NEW n \in Names, NEW f \in {Nothing} \cup WholeFiles, OthersChange(n, f)
       PROVE  Map!Next
  <2>1. Loads(code, f) \in Packets \cup {Nothing}
    BY <1>1, Loading
  <2>2. Stored' = [Stored EXCEPT ![n] = Loads(code, f)]
    BY <1>2, <1>14, OneStored DEF OthersChange
  <2>3. answer' = NoAnswer
    BY <1>14 DEF OthersChange
  <2> QED
    BY <1>3, <2>1, <2>2, <2>3 DEF Map!Next, Map!Outside, Map!Set
<1>15. CASE OthersRemoveFolder
  <2>1. code' = code /\ files' = [n \in Names |-> Nothing] /\ answer' = NoAnswer
    BY <1>15 DEF OthersRemoveFolder
  <2>2. Stored' = [n \in Names |-> Nothing]
    BY <1>1, <2>1, StoredBy, Loading
  <2> QED
    BY <1>3, <2>1, <2>2 DEF Map!Next, Map!Outside
<1>16. CASE UNCHANGED vars
  BY <1>16, SameStored DEF vars, Map!vars
<1> QED
  BY <1>5, <1>6, <1>7, <1>8, <1>9, <1>10, <1>11, <1>12, <1>13, <1>14, <1>15, <1>16
  DEF Next

\* The profiles on disk are a map from names to what was saved of packets,
\* changed only where it is asked to be, through everything that breaks off or
\* is damaged.  A packet that was saved is there; a file that was imported with
\* success may be cut short, and is nothing then (importProfile).
THEOREM ImplementsProfileMap == Spec => KeepsProfiles
<1>1. Init => Map!Init
  BY InitInv, InitRefines
<1> QED
  BY <1>1, StepRefines, Invariance, PTL DEF Spec, KeepsProfiles, Map!Spec

-------------------------------------------------------------------------------
\* What clients are shown.

\* A client is shown only what the sizes of the device allow it to be shown.
ShowsInv ==
    /\ code \in {Code(b) : b \in Builds}
    /\ answer.op = "show" /\ answer.ok => answer.got \in code.shows

LEMMA InitShows == Init => ShowsInv
<1> SUFFICES ASSUME Init PROVE ShowsInv
  OBVIOUS
<1>1. answer.op = "none"
  BY DEF Init, NoAnswer, Answer
<1> QED
  BY <1>1 DEF Init, ShowsInv

LEMMA NextShows == ShowsInv /\ [Next]_vars => ShowsInv'
<1> SUFFICES ASSUME ShowsInv, [Next]_vars PROVE ShowsInv'
  OBVIOUS
<1>1. ASSUME code' = code, NEW op, op # "show", NEW ok, NEW got, answer' = Answer(op, ok, got)
      PROVE  ShowsInv'
  <2>1. answer'.op = op
    BY <1>1 DEF Answer
  <2> QED
    BY <1>1, <2>1 DEF ShowsInv
<1>2. ASSUME code' = code, answer' = NoAnswer
      PROVE  ShowsInv'
  <2>1. answer'.op = "none"
    BY <1>2 DEF NoAnswer, Answer
  <2> QED
    BY <1>2, <2>1 DEF ShowsInv
<1>3. ASSUME NEW n \in Names, Show(n)
      PROVE  ShowsInv'
  <2>1. CASE Content(n) \in code.shows /\ answer' = Answer("show", TRUE, Content(n))
    BY <1>3, <2>1 DEF Show, ShowsInv, Answer
  <2>2. CASE answer' = Answer("show", FALSE, Nothing)
    <3>1. ~answer'.ok
      BY <2>2 DEF Answer
    <3> QED
      BY <1>3, <3>1 DEF Show, ShowsInv
  <2> QED
    BY <1>3, <2>1, <2>2 DEF Show
<1>4. ASSUME NEW n \in Names, NEW p \in Packets, NEW ok \in BOOLEAN, Save(n, p, ok)
      PROVE  ShowsInv'
  BY <1>1, <1>4 DEF Save
<1>5. ASSUME NEW n \in Names, NEW f \in WholeFiles, NEW ok \in BOOLEAN,
             ImportProfile(n, f, ok)
      PROVE  ShowsInv'
  BY <1>1, <1>5 DEF ImportProfile
<1>6. ASSUME NEW n \in Names, NEW ok \in BOOLEAN, Destroy(n, ok)
      PROVE  ShowsInv'
  BY <1>1, <1>6 DEF Destroy
<1>7. ASSUME NEW n \in Names, Load(n)
      PROVE  ShowsInv'
  BY <1>1, <1>7 DEF Load
<1>8. ASSUME NEW ns, ListProfiles \/ ExportProfiles(ns)
      PROVE  ShowsInv'
  BY <1>1, <1>8 DEF ListProfiles, ExportProfiles
<1>9. CASE Start \/ Die
  BY <1>2, <1>9 DEF Start, Die
<1>10. CASE OnDirChanged \/ OnFsWatcherTimerTimeout
  BY <1>2, <1>10 DEF OnDirChanged, OnFsWatcherTimerTimeout
<1>11. ASSUME NEW n, NEW f, OthersChange(n, f)
       PROVE  ShowsInv'
  BY <1>2, <1>11 DEF OthersChange
<1>12. CASE OthersRemoveFolder \/ OthersMakeFolder
  BY <1>2, <1>12 DEF OthersRemoveFolder, OthersMakeFolder
<1>13. CASE UNCHANGED vars
  BY <1>13 DEF vars, ShowsInv
<1> QED
  BY <1>3, <1>4, <1>5, <1>6, <1>7, <1>8, <1>9, <1>10, <1>11, <1>12, <1>13 DEF Next

\* What load makes of a profile that fits the device.
LEMMA Fits ==
    ASSUME NEW b \in Builds, NEW p \in Packets, Shown(b, p) # Nothing,
           NEW part \in ToSet(PartsOf(b))
    PROVE  /\ SameSizes(Held(b, p)[part], Current[b][part])
           /\ Shown(b, p)[part]
                = CopyPart(CopiedFields[part], Held(b, p)[part], Current[b][part])
<1>1. DOMAIN Current[b] = ToSet(PartsOf(b))
  <2>1. IsPacket(b, Current[b])
    BY PacketsAssumption, Zenon
  <2> QED
    BY <2>1, Zenon DEF IsPacket
<1>2. Shown(b, p) = Copy(Held(b, p), Current[b], Nothing)
  BY DEF Shown
<1>3. \A q \in DOMAIN Current[b] : SameSizes(Held(b, p)[q], Current[b][q])
  BY <1>2, Zenon DEF Copy
<1>4. Shown(b, p) = [q \in DOMAIN Current[b] |->
                       CopyPart(CopiedFields[q], Held(b, p)[q], Current[b][q])]
  BY <1>2, <1>3, Zenon DEF Copy
<1> QED
  BY <1>1, <1>3, <1>4

\* What is copied of a part with these fields: all but those in unsaved, and
\* maps by their keys in the head only.
CopiesAll(fields, copied, unsaved) ==
    /\ \A f \in fields.head : f \in copied.head <=> f \notin unsaved
    /\ unsaved \subseteq fields.head /\ unsaved \cap KeyedFields = {}
    /\ copied.coreData = fields.coreData /\ copied.threadData = fields.threadData
    /\ fields.coreData \cap KeyedFields = {} /\ fields.threadData \cap KeyedFields = {}

\* Fields of items: none of them is copied by its keys.
LEMMA NoKeys ==
    /\ {} \cap KeyedFields = {}
    /\ {"cpuFrequency", "scalingGovernor", "cpuOnlineStatus"} \cap KeyedFields = {}
    /\ {"pkgCstConfigControl"} \cap KeyedFields = {} /\ {"hwpRequest"} \cap KeyedFields = {}
    /\ {"curveOptimizer"} \cap KeyedFields = {} /\ {"epp"} \cap KeyedFields = {}
    /\ {"cppcRequest", "pstateCmd", "corePerfBoost"} \cap KeyedFields = {}
BY DEF KeyedFields

LEMMA LinuxCopiesAll == CopiesAll(LinuxData, LoadLinuxProfile, {})
<1> DEFINE items == {"cpuFrequency", "scalingGovernor", "cpuOnlineStatus"}
<1>1. LinuxData.head = LoadLinuxProfile.head
  <2>1. LinuxData.head =
          {"smtState", "cpuIdleGovernor", "blockDevicesQueSched", "miscPMDevices",
           "intelGpuData", "amdGpuData"}
    BY Zenon DEF LinuxData, Layout
  <2>2. LoadLinuxProfile.head =
          {"smtState", "cpuIdleGovernor", "miscPMDevices", "blockDevicesQueSched",
           "intelGpuData", "amdGpuData"}
    BY Zenon DEF LoadLinuxProfile, Layout
  <2> QED
    BY <2>1, <2>2, SMT
<1>2. /\ LinuxData.coreData = {} /\ LoadLinuxProfile.coreData = {}
      /\ LinuxData.threadData = items /\ LoadLinuxProfile.threadData = items
  BY Zenon DEF LinuxData, LoadLinuxProfile, Layout
<1>3. items \cap KeyedFields = {}
  BY NoKeys
<1> HIDE DEF items
<1> QED
  BY <1>1, <1>2, <1>3 DEF CopiesAll

LEMMA WindowsCopiesAll == CopiesAll(WindowsData, LoadWindowsProfile, {})
<1>1. WindowsData.head = LoadWindowsProfile.head
  BY Zenon DEF WindowsData, LoadWindowsProfile, Layout
<1>2. /\ WindowsData.coreData = {} /\ LoadWindowsProfile.coreData = {}
      /\ WindowsData.threadData = {} /\ LoadWindowsProfile.threadData = {}
  BY Zenon DEF WindowsData, LoadWindowsProfile, Layout
<1> QED
  BY <1>1, <1>2 DEF CopiesAll

LEMMA FanCopiesAll == CopiesAll(FanData, LoadFanProfile, {})
<1>1. FanData.head = LoadFanProfile.head
  BY Zenon DEF FanData, LoadFanProfile, Layout
<1>2. /\ FanData.coreData = {} /\ LoadFanProfile.coreData = {}
      /\ FanData.threadData = {} /\ LoadFanProfile.threadData = {}
  BY Zenon DEF FanData, LoadFanProfile, Layout
<1> QED
  BY <1>1, <1>2 DEF CopiesAll

LEMMA LinuxAMDCopiesAll == CopiesAll(LinuxAMDData, LoadLinuxAMDProfile, {})
<1>1. LinuxAMDData.head = LoadLinuxAMDProfile.head
  BY Zenon DEF LinuxAMDData, LoadLinuxAMDProfile, Layout
<1>2. /\ LinuxAMDData.coreData = {} /\ LoadLinuxAMDProfile.coreData = {}
      /\ LinuxAMDData.threadData = {"epp"} /\ LoadLinuxAMDProfile.threadData = {"epp"}
  BY Zenon DEF LinuxAMDData, LoadLinuxAMDProfile, Layout
<1> QED
  BY <1>1, <1>2, NoKeys DEF CopiesAll

LEMMA IntelCopiesAll == CopiesAll(IntelData, LoadIntelProfile, {})
<1>1. IntelData.head = LoadIntelProfile.head
  BY Zenon DEF IntelData, LoadIntelProfile, Layout
<1>2. /\ IntelData.coreData = {"pkgCstConfigControl"}
      /\ LoadIntelProfile.coreData = {"pkgCstConfigControl"}
      /\ IntelData.threadData = {"hwpRequest"} /\ LoadIntelProfile.threadData = {"hwpRequest"}
  BY Zenon DEF IntelData, LoadIntelProfile, Layout
<1> QED
  BY <1>1, <1>2, NoKeys DEF CopiesAll

LEMMA AMDCopiesAll == CopiesAll(AMDData, LoadAMDProfile, {"curveOptimizer"})
<1> DEFINE saved ==
             {"stapmLimit", "fastLimit", "slowLimit", "tctlTemp", "apuSlow", "apuSkinTemp",
              "dgpuSkinTemp", "vrmCurrent", "vrmSocCurrent", "vrmMaxCurrent", "vrmSocMaxCurrent",
              "staticGfxClock", "minGfxClock", "maxGfxClock", "powerProfile", "cppcEnableBit"}
           items == {"cppcRequest", "pstateCmd", "corePerfBoost"}
<1>1. \A f : f \in AMDData.head <=> f \in saved \/ f = "curveOptimizer"
  <2>1. AMDData.head =
          {"stapmLimit", "fastLimit", "slowLimit", "tctlTemp", "apuSlow", "apuSkinTemp",
           "dgpuSkinTemp", "vrmCurrent", "vrmSocCurrent", "vrmMaxCurrent", "vrmSocMaxCurrent",
           "staticGfxClock", "minGfxClock", "maxGfxClock", "powerProfile", "cppcEnableBit",
           "curveOptimizer"}
    BY Zenon DEF AMDData, Layout
  <2> QED
    BY <2>1
<1>2. LoadAMDProfile.head = saved
  BY Zenon DEF LoadAMDProfile, Layout
<1>3. "curveOptimizer" \notin saved
  OBVIOUS
<1>4. /\ AMDData.coreData = {"curveOptimizer"} /\ LoadAMDProfile.coreData = {"curveOptimizer"}
      /\ AMDData.threadData = items /\ LoadAMDProfile.threadData = items
  BY Zenon DEF AMDData, LoadAMDProfile, Layout
<1>5. items \cap KeyedFields = {} /\ {"curveOptimizer"} \cap KeyedFields = {}
  BY NoKeys
<1> HIDE DEF saved, items
<1> QED
  BY <1>1, <1>2, <1>3, <1>4, <1>5 DEF CopiesAll

\* What is copied of each part is everything but what is not saved.
LEMMA AllCopied ==
    ASSUME NEW part \in AllParts
    PROVE  CopiesAll(Fields[part], CopiedFields[part], UnsavedFields(part))
<1>1. /\ Fields["linux"] = LinuxData /\ Fields["windows"] = WindowsData
      /\ Fields["fan"] = FanData /\ Fields["intel"] = IntelData
      /\ Fields["amd"] = AMDData /\ Fields["linuxAmd"] = LinuxAMDData
  BY Zenon DEF Fields
<1>2. /\ CopiedFields["linux"] = LoadLinuxProfile
      /\ CopiedFields["windows"] = LoadWindowsProfile
      /\ CopiedFields["fan"] = LoadFanProfile
      /\ CopiedFields["intel"] = LoadIntelProfile
      /\ CopiedFields["amd"] = LoadAMDProfile
      /\ CopiedFields["linuxAmd"] = LoadLinuxAMDProfile
  BY Zenon DEF CopiedFields
<1>3. UnsavedFields("amd") = {"curveOptimizer"} /\ \A p : p # "amd" => UnsavedFields(p) = {}
  BY DEF UnsavedFields
<1>4. CASE part \in {"linux", "windows", "fan"}
  BY <1>1, <1>2, <1>3, <1>4, LinuxCopiesAll, WindowsCopiesAll, FanCopiesAll
<1>5. CASE part \in {"intel", "amd", "linuxAmd"}
  BY <1>1, <1>2, <1>3, <1>5, IntelCopiesAll, AMDCopiesAll, LinuxAMDCopiesAll
<1> QED
  BY <1>4, <1>5 DEF AllParts

\* A list of items with these fields.
IsList(fields, list) ==
    /\ Len(list) \in Nat
    /\ list = [i \in 1 .. Len(list) |-> [f \in fields |-> list[i][f]]]

\* A list is copied in whole over one of the same size.
LEMMA ListCopied ==
    ASSUME NEW fields, fields \cap KeyedFields = {}, NEW loaded, IsList(fields, loaded),
           NEW now, IsList(fields, now), Len(loaded) = Len(now)
    PROVE  CopyList(fields, loaded, now) = loaded
<1> DEFINE n == Len(loaded)
           old(i) == [f \in fields |-> now[i][f]]
           new(i) == [f \in fields |-> loaded[i][f]]
<1>1. loaded = [i \in 1 .. n |-> new(i)] /\ now = [i \in 1 .. n |-> old(i)]
  BY Zenon DEF IsList
<1>2. ASSUME NEW l, NEW o
      PROVE  CopyItem(fields, [f \in fields |-> l[f]], [f \in fields |-> o[f]])
               = [f \in fields |-> l[f]]
  BY DEF CopyItem, CopyField
<1>3. \A i : CopyItem(fields, new(i), old(i)) = new(i)
  BY <1>2, Zenon
<1> HIDE DEF n, old, new
<1>4. /\ DOMAIN now = 1 .. n /\ DOMAIN loaded = 1 .. n
      /\ \A i \in 1 .. n : now[i] = old(i) /\ loaded[i] = new(i)
  BY <1>1
<1>5. CopyList(fields, loaded, now)
        = [i \in DOMAIN now |->
             IF i \in DOMAIN loaded THEN CopyItem(fields, loaded[i], now[i]) ELSE now[i]]
  BY Zenon DEF CopyList
<1>6. CopyList(fields, loaded, now) = [i \in 1 .. n |-> new(i)]
  BY <1>3, <1>4, <1>5
<1> QED
  BY <1>1, <1>6, Zenon

\* What was copied of a part: everything but what the profile has not.
Copies(part, shown, loaded, now) ==
    /\ \A l \in ToSet(Lists) : shown[l] = loaded[l]
    /\ \A f \in DOMAIN shown.head \ (KeyedFields \cup UnsavedFields(part)) :
          shown.head[f] = loaded.head[f]
    /\ \A f \in DOMAIN shown.head \cap KeyedFields :
          \A k \in DOMAIN shown.head[f] :
             shown.head[f][k] = IF k \in DOMAIN loaded.head[f]
                                THEN loaded.head[f][k] ELSE now.head[f][k]
    /\ \A f \in UnsavedFields(part) : shown.head[f] = now.head[f]

HasLists(part, data) ==
    /\ IsList(Fields[part].coreData, data.coreData)
    /\ IsList(Fields[part].threadData, data.threadData)

LEMMA TwoLists == ToSet(Lists) = {"coreData", "threadData"}
<1>1. DOMAIN Lists = 1 .. 2 /\ Lists[1] = "coreData" /\ Lists[2] = "threadData"
  BY SMT DEF Lists
<1> QED
  BY <1>1 DEF ToSet

LEMMA Copied ==
    ASSUME NEW part \in AllParts, NEW loaded, HasLists(part, loaded),
           NEW now, HasLists(part, now), SameSizes(loaded, now),
           DOMAIN now.head = Fields[part].head
    PROVE  Copies(part, CopyPart(CopiedFields[part], loaded, now), loaded, now)
<1> DEFINE unsaved == UnsavedFields(part)
           copied == CopiedFields[part].head
           shown == CopyPart(CopiedFields[part], loaded, now)
           old == loaded.head
           is == now.head
           new == [f \in DOMAIN is |-> IF f \in copied THEN CopyField(f, old, is) ELSE is[f]]
<1>1. CopiesAll(Fields[part], CopiedFields[part], unsaved)
  BY AllCopied
<1>2. /\ \A f \in DOMAIN is : f \in copied <=> f \notin unsaved
      /\ unsaved \subseteq DOMAIN is /\ unsaved \cap KeyedFields = {}
  BY <1>1, Zenon DEF CopiesAll
<1>3. /\ shown.head = new
      /\ shown.coreData = CopyList(CopiedFields[part].coreData, loaded.coreData, now.coreData)
      /\ shown.threadData
           = CopyList(CopiedFields[part].threadData, loaded.threadData, now.threadData)
  BY Zenon DEF CopyPart, CopyItem
<1>4. /\ Len(loaded["coreData"]) = Len(now["coreData"])
      /\ Len(loaded["threadData"]) = Len(now["threadData"])
  BY TwoLists, Zenon DEF SameSizes
<1>5. shown.coreData = loaded.coreData
  <2>1. CopyList(Fields[part].coreData, loaded.coreData, now.coreData) = loaded.coreData
    BY <1>1, <1>4, ListCopied, Zenon DEF CopiesAll, HasLists
  <2> QED
    BY <1>1, <1>3, <2>1, Zenon DEF CopiesAll
<1>6. shown.threadData = loaded.threadData
  <2>1. CopyList(Fields[part].threadData, loaded.threadData, now.threadData)
          = loaded.threadData
    BY <1>1, <1>4, ListCopied, Zenon DEF CopiesAll, HasLists
  <2> QED
    BY <1>1, <1>3, <2>1, Zenon DEF CopiesAll
<1>7. \A l \in ToSet(Lists) : shown[l] = loaded[l]
  BY <1>5, <1>6, TwoLists, Zenon
<1> HIDE DEF unsaved, copied, shown, old, is
<1>8. ASSUME NEW f \in DOMAIN new \ (KeyedFields \cup unsaved)
      PROVE  new[f] = old[f]
  BY <1>2, <1>8, Zenon DEF CopyField
<1>9. ASSUME NEW f \in DOMAIN new \cap KeyedFields, NEW k \in DOMAIN new[f]
      PROVE  new[f][k] = IF k \in DOMAIN old[f] THEN old[f][k] ELSE is[f][k]
  <2>1. new[f] = CopyField(f, old, is)
    BY <1>2, Zenon
  <2>2. CopyField(f, old, is)
          = [j \in DOMAIN is[f] |-> IF j \in DOMAIN old[f] THEN old[f][j] ELSE is[f][j]]
    BY Zenon DEF CopyField
  <2> HIDE DEF new
  <2> QED
    BY <2>1, <2>2
<1>10. ASSUME NEW f \in unsaved PROVE new[f] = is[f]
  BY <1>2, <1>10, Zenon
<1> HIDE DEF new
<1> QED
  BY <1>3, <1>7, <1>8, <1>9, <1>10, Zenon DEF Copies, shown, old, is, unsaved

\* The lists of a part, and of what profiles hold of it.
LEMMA PartLists ==
    ASSUME NEW part, NEW data, IsPart(part, data)
    PROVE  HasLists(part, data) /\ DOMAIN data.head = Fields[part].head
<1>1. \A l \in {"coreData", "threadData"} :
        /\ Len(data[l]) \in Nat
        /\ data[l] = [i \in 1 .. Len(data[l]) |-> [f \in Fields[part][l] |-> data[l][i][f]]]
  BY TwoLists, Zenon DEF IsPart
<1>2. DOMAIN data.head = Fields[part].head
  BY Zenon DEF IsPart
<1> QED
  BY <1>1, <1>2, Zenon DEF HasLists, IsList

LEMMA SavedLists ==
    ASSUME NEW b \in Builds, NEW p \in Packets, NEW part \in ToSet(PartsOf(b))
    PROVE  HasLists(part, Held(b, p)[part])
<1> DEFINE packet == PacketOf[b][p]
           saved == Saved(packet)[part]
<1>1. IsPacket(b, packet) /\ Held(b, p)[part] = saved
  BY PacketsAssumption DEF Held
<1>2. HasLists(part, packet[part])
  BY <1>1, PartLists DEF IsPacket
<1> HIDE DEF packet
<1>3. saved.coreData = packet[part].coreData /\ saved.threadData = packet[part].threadData
  <2> DEFINE head == Made(Fields[part].head, WrittenLayouts[part].head, packet[part].head)
             core == packet[part].coreData
             thread == packet[part].threadData
  <2>1. saved = [head |-> head, coreData |-> core, threadData |-> thread]
    BY <1>1, PartSaved, Zenon
  <2> HIDE DEF saved, head, core, thread
  <2>2. saved.coreData = core /\ saved.threadData = thread
    BY <2>1, Zenon
  <2> QED
    BY <2>2, Zenon DEF core, thread
<1> HIDE DEF saved
<1>4. HasLists(part, saved)
  BY <1>2, <1>3, Zenon DEF HasLists
<1> QED
  BY <1>1, <1>4, Zenon

\* What a client is shown of a profile is what applying it will ask for, and
\* what there is now where the profile holds nothing: of devices it does not
\* know, and of the Curve Optimizer offset for all cores (load).
THEOREM ShowsWhatIsApplied == Spec => []ShownIsApplied
<1>1. ShowsInv => ShownIsApplied
  <2> SUFFICES ASSUME ShowsInv, answer.op = "show" /\ answer.ok,
                      NEW part \in ToSet(PartsOf(code.build))
               PROVE  /\ SameSizes(Held(code.build, answer.got)[part],
                                   Current[code.build][part])
                      /\ Copies(part, Shown(code.build, answer.got)[part],
                                Held(code.build, answer.got)[part],
                                Current[code.build][part])
    BY Zenon DEF ShownIsApplied, Copies
  <2>1. PICK b \in Builds : code = Code(b)
    BY DEF ShowsInv
  <2>2. code.build = b /\ code.shows = {p \in Packets : Shown(b, p) # Nothing}
    BY <2>1 DEF Code
  <2> DEFINE p == answer.got
  <2>3. p \in Packets /\ Shown(b, p) # Nothing
    BY <2>2 DEF ShowsInv
  <2>4. part \in ToSet(PartsOf(b))
    BY <2>2
  <2> DEFINE loaded == Held(b, p)[part]
             now == Current[b][part]
             shown == Shown(b, p)[part]
  <2>5. SameSizes(loaded, now) /\ shown = CopyPart(CopiedFields[part], loaded, now)
    BY <2>3, <2>4, Fits
  <2>6. HasLists(part, loaded) /\ HasLists(part, now) /\ DOMAIN now.head = Fields[part].head
    <3>1. HasLists(part, loaded)
      BY <2>3, <2>4, SavedLists
    <3>2. IsPart(part, now)
      BY <2>4, PacketsAssumption DEF IsPacket
    <3> HIDE DEF loaded, now
    <3> QED
      BY <3>1, <3>2, PartLists
  <2>7. part \in AllParts
    BY <2>4, PartKnown, Zenon
  <2> HIDE DEF p, loaded, now, shown
  <2>8. Copies(part, shown, loaded, now)
    BY <2>5, <2>6, <2>7, Copied, Zenon
  <2> QED
    BY <2>2, <2>5, <2>8, Zenon DEF p, loaded, now, shown
<1> QED
  BY <1>1, InitShows, NextShows, PTL DEF Spec

-------------------------------------------------------------------------------
\* No change is forgotten.

\* A daemon that does not run has told nobody anything.
ToldInv ==
    /\ watched \/ told # Nothing => up
    /\ watched => path
    /\ NoChangeForgotten

\* The list depends on nothing but the names.
LEMMA SameNames ==
    ASSUME ProfilesIn(files') = ProfilesIn(files)
    PROVE  GetProfilesList' = GetProfilesList
BY DEF GetProfilesList, ProfilesIn

LEMMA InitTold == Init => ToldInv
BY DEF Init, ToldInv, NoChangeForgotten

\* Whoever changes files is seen.
LEMMA SeenTold ==
    ASSUME ToldInv, Seen(files'), UNCHANGED <<up, path, watched, waiting, told>>
    PROVE  ToldInv'
<1>1. CASE ProfilesIn(files') = ProfilesIn(files)
  <2>1. GetProfilesList' = GetProfilesList
    BY <1>1, SameNames
  <2> QED
    BY <2>1 DEF ToldInv, NoChangeForgotten, Seen
<1>2. CASE ProfilesIn(files') # ProfilesIn(files)
  BY <1>2 DEF ToldInv, NoChangeForgotten, Seen
<1> QED
  BY <1>1, <1>2

\* Who leaves the files alone disturbs nothing.
LEMMA SameTold ==
    ASSUME ToldInv, UNCHANGED <<up, path, files, watched, changed, waiting, told>>
    PROVE  ToldInv'
<1>1. GetProfilesList' = GetProfilesList
  BY SameNames
<1> QED
  BY <1>1 DEF ToldInv, NoChangeForgotten

LEMMA NextTold == ToldInv /\ [Next]_vars => ToldInv'
<1> SUFFICES ASSUME ToldInv, [Next]_vars PROVE ToldInv'
  OBVIOUS
<1>1. CASE Start
  BY <1>1 DEF Start, ToldInv, NoChangeForgotten
<1>2. ASSUME NEW n \in Names, NEW p \in Packets, NEW ok \in BOOLEAN, Save(n, p, ok)
      PROVE  ToldInv'
  <2>1. /\ UNCHANGED <<up, path, watched, waiting, told>>
        /\ Seen(files') \/ UNCHANGED <<files, changed>>
    BY <1>2 DEF Save, WriteFile
  <2> QED
    BY <2>1, SeenTold, SameTold
<1>3. ASSUME NEW n \in Names, NEW ok \in BOOLEAN, Destroy(n, ok)
      PROVE  ToldInv'
  <2>1. /\ UNCHANGED <<up, path, watched, waiting, told>>
        /\ Seen(files') \/ UNCHANGED <<files, changed>>
    BY <1>3 DEF Destroy
  <2> QED
    BY <2>1, SeenTold, SameTold
<1>4. ASSUME NEW n \in Names, NEW f \in WholeFiles, NEW ok \in BOOLEAN, ImportProfile(n, f, ok)
      PROVE  ToldInv'
  <2>1. /\ UNCHANGED <<up, path, watched, waiting, told>>
        /\ Seen(files') \/ UNCHANGED <<files, changed>>
    BY <1>4 DEF ImportProfile, WriteBuffered, WriteFile
  <2> QED
    BY <2>1, SeenTold, SameTold
<1>5. ASSUME NEW n \in Names, NEW f, OthersChange(n, f)
      PROVE  ToldInv'
  BY <1>5, SeenTold DEF OthersChange
<1>6. ASSUME NEW n \in Names, Load(n) \/ Show(n)
      PROVE  ToldInv'
  <2>1. UNCHANGED <<up, path, files, watched, changed, waiting, told>>
    BY <1>6 DEF Load, Show
  <2> QED
    BY <2>1, SameTold
<1>7. ASSUME NEW ns, ExportProfiles(ns)
      PROVE  ToldInv'
  BY <1>7, SameTold DEF ExportProfiles
<1>8. CASE ListProfiles
  <2>1. GetProfilesList' = GetProfilesList
    BY <1>8, SameNames DEF ListProfiles
  <2> QED
    BY <1>8, <2>1 DEF ListProfiles, ToldInv, NoChangeForgotten
<1>9. CASE OnDirChanged
  BY <1>9 DEF OnDirChanged, ToldInv, NoChangeForgotten
<1>10. CASE OnFsWatcherTimerTimeout
  <2>1. GetProfilesList' = GetProfilesList
    BY <1>10, SameNames DEF OnFsWatcherTimerTimeout
  <2> QED
    BY <1>10, <2>1 DEF OnFsWatcherTimerTimeout, ToldInv, NoChangeForgotten
<1>11. CASE Die
  BY <1>11 DEF Die, ToldInv, NoChangeForgotten
<1>12. CASE OthersRemoveFolder
  BY <1>12 DEF OthersRemoveFolder, ToldInv, NoChangeForgotten
<1>13. CASE OthersMakeFolder
  <2>1. UNCHANGED <<up, path, files, watched, changed, waiting, told>>
    BY <1>13 DEF OthersMakeFolder
  <2> QED
    BY <2>1, SameTold
<1>14. CASE UNCHANGED vars
  <2>1. UNCHANGED <<up, path, files, watched, changed, waiting, told>>
    BY <1>14 DEF vars
  <2> QED
    BY <2>1, SameTold
<1> QED
  BY <1>1, <1>2, <1>3, <1>4, <1>5, <1>6, <1>7, <1>8, <1>9, <1>10, <1>11, <1>12, <1>13, <1>14
  DEF Next

\* The list clients got last is the list of the profiles there are, or a change
\* that was seen is still to be handled (onDirChanged, onFsWatcherTimerTimeout).
THEOREM NothingForgotten == Spec => []NoChangeForgotten
<1>1. ToldInv => NoChangeForgotten
  BY DEF ToldInv
<1> QED
  BY <1>1, InitTold, NextTold, PTL DEF Spec
===============================================================================
