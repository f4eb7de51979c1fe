------------------------- MODULE CPURegistersProofs -------------------------
(***************************************************************************)
(* Proofs about CPURegisters for every register layout whose fields are    *)
(* disjoint, every request, every interference and every refusal of the    *)
(* hardware.                                                               *)
(***************************************************************************)
EXTENDS CPURegisters, TLAPS

\* First what getBitfield and setBitfield compute, for every width of the word,
\* every field and every value.

\* The shifts of _setBitfield's mask leave a one exactly outside the field.
LEMMA MaskBits ==
    ASSUME NEW high \in Bits, NEW low \in Bits, low <= high
    PROVE  Mask(high, low) = [i \in Bits |-> IF low <= i /\ i <= high THEN 0 ELSE 1]
<1> DEFINE hd == (W - 1) - high
           Shifted(n, m) == [i \in Bits |-> IF i + n < W /\ i >= m THEN 1 ELSE 0]
<1>1. W \in Nat /\ high \in Nat /\ low \in Nat /\ high < W /\ hd \in Nat /\ hd + high = W - 1
  BY WAssumption DEF Bits
<1>2. \A i \in Bits : i \in Nat /\ i < W
  BY <1>1 DEF Bits
<1>3. \A n \in Nat, i \in Bits : (i + n < W => i + n \in Bits) /\ (i >= n => i - n \in Bits)
  BY <1>1 DEF Bits
<1> HIDE DEF hd
<1>4. Shr(AllOnes, low) = [i \in Bits |-> IF i + low < W THEN 1 ELSE 0]
  BY <1>1, <1>2, <1>3 DEF Shr, AllOnes
<1>5. Shl(Shr(AllOnes, low), low) = [i \in Bits |-> IF i >= low THEN 1 ELSE 0]
  <2>1. \A i \in Bits : i >= low => (i - low) + low < W
    BY <1>1, <1>2
  <2> QED BY <1>1, <1>2, <1>3, <1>4, <2>1 DEF Shl
<1>6. Shl(Shl(Shr(AllOnes, low), low), hd) = [i \in Bits |-> IF i >= low + hd THEN 1 ELSE 0]
  <2>1. \A i \in Bits : i >= hd => (i - hd >= low <=> i >= low + hd)
    BY <1>1, <1>2
  <2>2. \A i \in Bits : i >= low + hd => i >= hd
    BY <1>1, <1>2
  <2> QED BY <1>1, <1>2, <1>3, <1>5, <2>1, <2>2 DEF Shl
<1>7. Shr(Shl(Shl(Shr(AllOnes, low), low), hd), hd) = Shifted(hd, low)
  <2>1. \A i \in Bits : i + hd >= low + hd <=> i >= low
    BY <1>1, <1>2
  <2> QED BY <1>1, <1>2, <1>3, <1>6, <2>1 DEF Shr
<1>8. \A i \in Bits : i + hd < W <=> i <= high
  BY <1>1, <1>2
<1>9. Shifted(hd, low) = [i \in Bits |-> IF low <= i /\ i <= high THEN 1 ELSE 0]
  BY <1>1, <1>2, <1>8
<1> QED
  <2>1. Mask(high, low) = Complement(Shifted(hd, low))
    BY <1>7 DEF Mask, hd
  <2> HIDE DEF Shifted
  <2> QED BY <2>1, <1>9 DEF Complement

\* _setBitfield replaces bits high .. low by the low bits of the value and
\* leaves every other bit alone, whatever else the value holds.
THEOREM SetFieldBits ==
    ASSUME NEW high \in Bits, NEW low \in Bits, low <= high,
           NEW value \in Word, NEW x \in Word
    PROVE  SetField(high, low, value, x)
             = [i \in Bits |-> IF low <= i /\ i <= high THEN value[i - low] ELSE x[i]]
<1>1. \A i \in Bits : low <= i => i - low \in Bits /\ i >= low
  BY WAssumption DEF Bits
<1>2. \A i \in Bits : value[i] \in {0, 1} /\ x[i] \in {0, 1}
  BY DEF Word
<1> DEFINE M == [i \in Bits |-> IF low <= i /\ i <= high THEN 0 ELSE 1]
           C == [i \in Bits |-> IF low <= i /\ i <= high THEN 1 ELSE 0]
           A == [i \in Bits |-> IF low <= i /\ i <= high THEN 0 ELSE x[i]]
           B == [i \in Bits |-> IF low <= i /\ i <= high THEN value[i - low] ELSE 0]
<1>3. Mask(high, low) = M
  BY MaskBits
<1>4. Complement(M) = C
  BY DEF Complement
<1>5. And(x, M) = A
  BY <1>2 DEF And
<1>6. And(Shl(value, low), C) = B
  <2>1. \A i \in Bits : Shl(value, low)[i] = IF i >= low THEN value[i - low] ELSE 0
    BY DEF Shl
  <2>2. \A i \in Bits : low <= i => value[i - low] \in {0, 1}
    BY <1>1, <1>2
  <2> QED BY <1>1, <2>1, <2>2 DEF And
<1>7. Or(A, B) = [i \in Bits |-> IF low <= i /\ i <= high THEN value[i - low] ELSE x[i]]
  BY <1>1, <1>2 DEF Or
<1> QED
  <2> HIDE DEF M, C, A, B
  <2> QED BY <1>3, <1>4, <1>5, <1>6, <1>7 DEF SetField

\* _getBitfield returns the bits of the field, shifted down, and nothing else.
THEOREM GetFieldBits ==
    ASSUME NEW high \in Bits, NEW low \in Bits, low <= high, NEW x \in Word
    PROVE  GetField(high, low, x)
             = [i \in Bits |-> IF i < high - low + 1 THEN x[i + low] ELSE 0]
<1>1. W \in Nat /\ high \in Nat /\ low \in Nat /\ high < W /\ low < W
  BY WAssumption DEF Bits
<1>2. \A i \in Bits : i \in Nat /\ i < W /\ x[i] \in {0, 1}
  BY <1>1 DEF Bits, Word
<1>3. \A i \in Bits : i < high - low + 1 => i + low < W /\ i + low \in Bits
  BY <1>1 DEF Bits
<1>4. CASE high - low + 1 < W
  <2>1. GetField(high, low, x) = And(Shr(x, low), LowOnes(high - low + 1))
    BY <1>4 DEF GetField
  <2>2. \A i \in Bits : Shr(x, low)[i] = IF i + low < W THEN x[i + low] ELSE 0
    BY DEF Shr
  <2>3. \A i \in Bits : LowOnes(high - low + 1)[i] = IF i < high - low + 1 THEN 1 ELSE 0
    BY DEF LowOnes
  <2>4. \A i \in Bits : And(Shr(x, low), LowOnes(high - low + 1))[i]
                          = IF i < high - low + 1 THEN x[i + low] ELSE 0
    BY <1>2, <1>3, <2>2, <2>3 DEF And
  <2> QED BY <2>1, <2>4 DEF And
<1>5. CASE ~(high - low + 1 < W)
  <2>1. low = 0 /\ high = W - 1
    BY <1>1, <1>5
  <2>2. GetField(high, low, x) = x
    BY <1>5 DEF GetField
  <2>3. \A i \in Bits : i < high - low + 1 /\ i + low = i
    BY <1>1, <1>2, <2>1
  <2> QED BY <2>2, <2>3 DEF Word
<1> QED BY <1>4, <1>5

-------------------------------------------------------------------------------

USE DEF FieldOf

\* Field positions are bits of the word and fields do not overlap.
LEMMA FieldFacts ==
    ASSUME TypeOK, NEW f \in FieldOf(layout)
    PROVE  /\ High(layout, f) \in Bits /\ Low(layout, f) \in Bits
           /\ High(layout, f) \in Nat /\ Low(layout, f) \in Nat
           /\ Low(layout, f) <= High(layout, f)
           /\ data[f] \in Word
           /\ \A g \in FieldOf(layout) : f # g =>
                 \A i \in Bits : ~(Covers(layout, f, i) /\ Covers(layout, g, i))
<1>1. layout \in Layouts /\ data[f] \in Word
  BY DEF TypeOK
<1>2. layout.fields \in Seq(Bits \X Bits)
  BY <1>1, LayoutAssumption DEF LayoutAssumption
<1>3. layout.fields[f] \in Bits \X Bits
  BY <1>2
<1>4. High(layout, f) \in Bits /\ Low(layout, f) \in Bits
  BY <1>3 DEF High, Low
<1>5. Low(layout, f) <= High(layout, f)
  BY <1>1, LayoutAssumption DEF LayoutAssumption
<1>6. \A g \in FieldOf(layout) : f # g =>
         \A i \in Bits : ~(Covers(layout, f, i) /\ Covers(layout, g, i))
  BY <1>1, LayoutAssumption DEF LayoutAssumption
<1> QED BY <1>1, <1>4, <1>5, <1>6, WAssumption DEF Bits

LEMMA LayoutFacts ==
    ASSUME TypeOK
    PROVE  /\ Len(layout.fields) \in Nat /\ Len(layout.fields) >= 1
           /\ UNION layout.windows \subseteq FieldOf(layout)
           /\ Compared \subseteq Written /\ Written \subseteq FieldOf(layout)
<1>1. layout \in Layouts
  BY DEF TypeOK
<1>2. layout.fields \in Seq(Bits \X Bits) /\ layout.fields # <<>>
  BY <1>1, LayoutAssumption DEF LayoutAssumption
<1>3. layout.windows \in SUBSET SUBSET FieldOf(layout)
  BY <1>1, LayoutAssumption DEF LayoutAssumption
<1>4. Len(layout.fields) \in Nat /\ Len(layout.fields) >= 1
  BY <1>2
<1>5. UNION layout.windows \subseteq FieldOf(layout)
  BY <1>3
<1>6. skipped \subseteq UNION layout.windows
  BY DEF TypeOK
<1> QED BY <1>4, <1>5, <1>6 DEF Compared, Written

\* One setBitfield adds its field to those already replaced.
LEMMA ReplaceOne ==
    ASSUME TypeOK, NEW n \in FieldOf(layout), NEW F \in SUBSET FieldOf(layout), n \notin F,
           NEW w \in Word, Holds(w, F)
    PROVE  /\ SetField(High(layout, n), Low(layout, n), data[n], w) \in Word
           /\ Holds(SetField(High(layout, n), Low(layout, n), data[n], w), F \cup {n})
<1> DEFINE v == SetField(High(layout, n), Low(layout, n), data[n], w)
<1>1. /\ High(layout, n) \in Bits /\ Low(layout, n) \in Bits
      /\ Low(layout, n) <= High(layout, n) /\ data[n] \in Word
  BY FieldFacts
<1>2. v = [i \in Bits |-> IF Covers(layout, n, i) THEN data[n][i - Low(layout, n)] ELSE w[i]]
  BY <1>1, SetFieldBits DEF Covers
<1>3. \A i \in Bits : Covers(layout, n, i) => i - Low(layout, n) \in Bits
  BY <1>1, WAssumption DEF Bits, Covers
<1> HIDE DEF v
<1>4. v \in Word
  BY <1>1, <1>2, <1>3 DEF Word
<1>5. ASSUME NEW f \in F \cup {n}, NEW i \in Bits, Covers(layout, f, i)
      PROVE  v[i] = data[f][i - Low(layout, f)]
  <2>1. CASE f = n
    BY <2>1, <1>2, <1>5
  <2>2. CASE f # n
    <3>1. f \in F /\ f \in FieldOf(layout)
      BY <1>5, <2>2
    <3>2. ~Covers(layout, n, i)
      BY <3>1, <2>2, <1>5, FieldFacts
    <3>3. v[i] = w[i]
      BY <3>2, <1>2
    <3> QED BY <3>1, <3>3, <1>5 DEF Holds
  <2> QED BY <2>1, <2>2
<1>6. ASSUME NEW i \in Bits, \A f \in F \cup {n} : ~Covers(layout, f, i)
      PROVE  v[i] = seen[i]
  <2>1. v[i] = w[i]
    BY <1>2, <1>6
  <2> QED BY <2>1, <1>6 DEF Holds
<1> QED BY <1>4, <1>5, <1>6 DEF Holds, v

\* What get() answers for a field the word holds.
LEMMA HoldsShows ==
    ASSUME TypeOK, NEW w \in Word, NEW F \in SUBSET FieldOf(layout), Holds(w, F), NEW f \in F
    PROVE  Field(f, w) = Trimmed(f)
<1>1. /\ High(layout, f) \in Bits /\ Low(layout, f) \in Bits
      /\ High(layout, f) \in Nat /\ Low(layout, f) \in Nat
      /\ Low(layout, f) <= High(layout, f) /\ data[f] \in Word
  BY FieldFacts
<1>2. Field(f, w) = [i \in Bits |-> IF i < Room(f) THEN w[i + Low(layout, f)] ELSE 0]
  BY <1>1, GetFieldBits DEF Field, Room
<1>3. ASSUME NEW i \in Bits, i < Room(f)
      PROVE  w[i + Low(layout, f)] = data[f][i]
  <2>1. i \in Nat
    BY WAssumption DEF Bits
  <2>2. i + Low(layout, f) \in Bits /\ Covers(layout, f, i + Low(layout, f))
    BY <1>1, <1>3, <2>1, WAssumption DEF Bits, Room, Covers
  <2>3. (i + Low(layout, f)) - Low(layout, f) = i
    BY <1>1, <2>1
  <2> QED BY <2>2, <2>3 DEF Holds
<1> QED BY <1>2, <1>3 DEF Trimmed

\* What a clean comparison answers.
LEMMA CleanVerdict ==
    ASSUME TypeOK, Holds(word, Written)
    PROVE  Matches(word) <=>
             \A f \in Compared :
                IF f \in layout.loose THEN Trimmed(f) # Zero ELSE Trimmed(f) = data[f]
<1>1. \A f \in Compared : Field(f, word) = Trimmed(f)
  BY LayoutFacts, HoldsShows DEF TypeOK
<1>2. \A f \in Compared : Trimmed(f) # Zero => data[f] # Zero
  BY DEF Trimmed, Zero
<1> QED BY <1>1, <1>2 DEF Matches

\* Initially a call has not begun.
LEMMA InitIInv == Init => IInv
<1> SUFFICES ASSUME Init PROVE IInv
  OBVIOUS
<1>1. Zero \in Word
  BY DEF Zero, Word
<1>2. layout \in Layouts /\ layout.fields \in Seq(Bits \X Bits) /\ layout.fields # <<>>
  BY LayoutAssumption DEF Init, LayoutAssumption
<1>3. Len(layout.fields) \in Nat /\ Len(layout.fields) >= 1
  BY <1>2
<1>4. TypeOK
  <2>1. data \in [FieldOf(layout) -> Word] /\ word \in Word /\ reg \in Word /\ seen \in Word
    BY <1>1, ImagesAssumption DEF Init
  <2>2. next \in 1 .. Len(layout.fields) + 1
    BY <1>3 DEF Init
  <2>3. skipped \in SUBSET UNION layout.windows
    BY DEF Init
  <2> QED BY <1>2, <2>1, <2>2, <2>3 DEF Init, TypeOK
<1>5. Replacing /\ WholeRequest /\ Pending /\ CleanWord /\ VerdictIsHonest
  BY DEF Init, Replacing, WholeRequest, Pending, CleanWord, VerdictIsHonest
<1> QED BY <1>4, <1>5 DEF IInv

\* A set() that begins holds the word it has just read.
LEMMA CallIInv == IInv /\ Call => IInv'
<1> SUFFICES ASSUME IInv, Call PROVE IInv'
  OBVIOUS
<1> USE DEF Call
<1>1. TypeOK
  BY DEF IInv
<1>2. layout \in Layouts /\ word \in Word
  BY <1>1 DEF TypeOK
<1>3. data' \in [FieldOf(layout) -> Word]
  BY <1>2, RequestsAssumption
<1>4. skipped' \in SUBSET UNION layout.windows
  OBVIOUS
<1>5. TypeOK'
  BY <1>1, <1>2, <1>3, <1>4, LayoutFacts DEF TypeOK
<1>6. Replacing'
  <2>1. \A f \in Written' : ~(f < next')
    BY DEF Written
  <2> QED BY <2>1 DEF Replacing, Holds
<1>7. CleanWord' /\ WholeRequest' /\ Pending' /\ VerdictIsHonest'
  BY DEF CleanWord, WholeRequest, Pending, VerdictIsHonest
<1> QED BY <1>5, <1>6, <1>7 DEF IInv

\* One setBitfield more, or one window skipped.
LEMMA ModifyIInv == IInv /\ Modify => IInv'
<1> SUFFICES ASSUME IInv, Modify PROVE IInv'
  OBVIOUS
<1>1. TypeOK /\ Replacing /\ Pending /\ CleanWord
  BY DEF IInv
<1>2. /\ pc = "modify" /\ next' = next + 1
      /\ pc' = IF next = Len(layout.fields) THEN "write" ELSE "modify"
      /\ UNCHANGED <<layout, word, data, skipped, result, seen, clean>>
  BY DEF Modify
<1>3. /\ next \in FieldOf(layout) /\ next \in Nat /\ Len(layout.fields) \in Nat
      /\ reg \in Word
  BY <1>1, <1>2, LayoutFacts DEF TypeOK
<1> DEFINE F == {f \in Written : f < next}
           G == {f \in Written : f < next + 1}
<1>4. Written \subseteq FieldOf(layout) /\ F \in SUBSET FieldOf(layout) /\ next \notin F
  BY <1>1, <1>3, LayoutFacts
<1>5. Holds(reg, F)
  BY <1>1, <1>2 DEF Replacing
<1>6. reg' \in Word /\ Holds(reg', G)
  <2>1. CASE next \in skipped
    <3>1. G = F
      BY <1>3, <1>4, <2>1 DEF Written
    <3> QED BY <2>1, <3>1, <1>3, <1>5 DEF Modify
  <2>2. CASE next \notin skipped
    <3>1. G = F \cup {next}
      BY <1>3, <1>4, <2>2 DEF Written
    <3>2. reg' = SetField(High(layout, next), Low(layout, next), data[next], reg)
      BY <2>2 DEF Modify
    <3> HIDE DEF F, G
    <3> QED BY <1>1, <1>3, <1>4, <1>5, <3>1, <3>2, ReplaceOne
  <2> QED BY <2>1, <2>2
<1>7. TypeOK'
  BY <1>1, <1>2, <1>3, <1>6 DEF TypeOK
<1>8. Replacing'
  <2>1. Written' = Written /\ {f \in Written' : f < next'} = G
    BY <1>2 DEF Written
  <2> HIDE DEF G
  <2>2. Holds(reg, {f \in Written : f < next})'
    BY <1>2, <1>6, <2>1 DEF Holds, Covers, High, Low
  <2> QED BY <2>2 DEF Replacing
<1>9. WholeRequest' /\ Pending'
  BY <1>1, <1>2 DEF WholeRequest, Pending
<1>10. CleanWord'
  BY <1>1, <1>2 DEF CleanWord
<1>11. VerdictIsHonest'
  BY <1>1, <1>2 DEF VerdictIsHonest, Pending
<1> QED BY <1>7, <1>8, <1>9, <1>10, <1>11 DEF IInv

\* What a clean write leaves in the register is the whole request.
LEMMA WriteIInv == IInv /\ Write => IInv'
<1> SUFFICES ASSUME IInv, Write PROVE IInv'
  OBVIOUS
<1>1. TypeOK /\ Replacing /\ WholeRequest /\ Pending /\ CleanWord
  BY DEF IInv
<1>2. /\ pc = "write" /\ pc' = "compare" /\ clean' \in BOOLEAN
      /\ UNCHANGED <<layout, reg, next, data, skipped, result, seen>>
  BY <1>1 DEF Write, TypeOK
<1>3. PICK kept \in Refusals :
         /\ word' = [i \in Bits |-> IF i \in kept THEN word[i] ELSE reg[i]]
         /\ clean' = (clean /\ kept = {})
  BY DEF Write
<1>4. word' \in Word
  BY <1>1, <1>3 DEF TypeOK, Word
<1>5. TypeOK'
  BY <1>1, <1>2, <1>4 DEF TypeOK
<1>6. ASSUME clean' PROVE Holds(word, Written)'
  <2>1. kept = {} /\ reg \in Word
    BY <1>1, <1>3, <1>6 DEF TypeOK
  <2>2. word' = reg
    BY <1>3, <2>1 DEF Word
  <2>3. {f \in Written : f < next} = Written
    BY <1>1, <1>2, LayoutFacts DEF WholeRequest
  <2>4. Holds(reg, Written)
    BY <1>1, <1>2, <2>3 DEF Replacing
  <2> QED BY <1>2, <2>2, <2>4 DEF Holds, Written, Covers, High, Low
<1>7. CleanWord'
  BY <1>2, <1>6 DEF CleanWord
<1>8. Replacing' /\ WholeRequest' /\ Pending' /\ VerdictIsHonest'
  BY <1>1, <1>2 DEF Replacing, WholeRequest, Pending, VerdictIsHonest
<1> QED BY <1>5, <1>7, <1>8 DEF IInv

\* The comparison gives its verdict and leaves the register alone.
LEMMA CompareIInv == IInv /\ Compare => IInv'
<1> SUFFICES ASSUME IInv, Compare PROVE IInv'
  OBVIOUS
<1>1. TypeOK /\ CleanWord
  BY DEF IInv
<1>2. /\ pc = "compare" /\ pc' = "idle" /\ reg' = word
      /\ result' = IF Matches(word) THEN "accepted" ELSE "rejected"
      /\ UNCHANGED <<layout, word, next, data, skipped, seen, clean>>
  BY DEF Compare
<1>3. TypeOK'
  BY <1>1, <1>2 DEF TypeOK
<1>4. CleanWord'
  <2>1. Holds(word, Written)' <=> Holds(word, Written)
    BY <1>2 DEF Holds, Written, Covers, High, Low
  <2> QED BY <1>1, <1>2, <2>1 DEF CleanWord
<1>5. VerdictIsHonest'
  <2>1. ASSUME clean
        PROVE  Matches(word) <=>
                 \A f \in Compared :
                    IF f \in layout.loose THEN Trimmed(f) # Zero ELSE Trimmed(f) = data[f]
    BY <1>1, <1>2, <2>1, CleanVerdict DEF CleanWord
  <2> QED BY <1>2, <2>1 DEF VerdictIsHonest, Compared, Trimmed, Room, High, Low
<1>6. Replacing' /\ WholeRequest' /\ Pending'
  BY <1>2 DEF Replacing, WholeRequest, Pending
<1> QED BY <1>3, <1>4, <1>5, <1>6 DEF IInv

\* A failure or somebody else's write ends what the call knew.
LEMMA DisturbedIInv == IInv /\ (CallFails \/ TransferFails \/ Others) => IInv'
<1> SUFFICES ASSUME IInv, CallFails \/ TransferFails \/ Others PROVE IInv'
  OBVIOUS
<1>1. TypeOK /\ Replacing /\ WholeRequest /\ Pending
  BY DEF IInv
<1>2. /\ UNCHANGED <<layout, reg, next, data, skipped, seen>>
      /\ clean' = FALSE
      /\ word' = word \/ word' \in Images
      /\ \/ pc' = pc /\ result' = result
         \/ pc' = "idle" /\ result' = "rejected"
  BY DEF CallFails, TransferFails, Others
<1>3. TypeOK'
  <2>1. word' \in Word
    BY <1>1, <1>2, ImagesAssumption DEF TypeOK
  <2> QED BY <1>1, <1>2, <2>1 DEF TypeOK
<1>4. Replacing'
  <2>1. CASE pc' = "idle"
    BY <2>1 DEF Replacing
  <2>2. CASE pc' = pc
    BY <1>1, <1>2, <2>2 DEF Replacing, Holds, Written, Covers, High, Low
  <2> QED BY <1>2, <2>1, <2>2
<1>5. WholeRequest' /\ Pending' /\ CleanWord' /\ VerdictIsHonest'
  BY <1>1, <1>2 DEF WholeRequest, Pending, CleanWord, VerdictIsHonest
<1> QED BY <1>3, <1>4, <1>5 DEF IInv

LEMMA StutterIInv == IInv /\ UNCHANGED vars => IInv'
<1> SUFFICES ASSUME IInv, UNCHANGED vars PROVE IInv'
  OBVIOUS
<1>1. TypeOK'
  BY DEF IInv, TypeOK, vars
<1>2. Replacing'
  BY DEF IInv, vars, Replacing, Holds, Written, Covers, High, Low
<1>3. CleanWord'
  BY DEF IInv, vars, CleanWord, Holds, Written, Covers, High, Low
<1>4. WholeRequest' /\ Pending'
  BY DEF IInv, vars, WholeRequest, Pending
<1>5. VerdictIsHonest'
  BY DEF IInv, vars, VerdictIsHonest, Compared, Trimmed, Room, High, Low
<1> QED BY <1>1, <1>2, <1>3, <1>4, <1>5 DEF IInv

\* The invariant of every set() of every register class.
THEOREM Invariance == Spec => []IInv
<1>1. IInv /\ [Next]_vars => IInv'
  BY CallIInv, ModifyIInv, WriteIInv, CompareIInv, DisturbedIInv, StutterIInv DEF Next
<1> QED BY InitIInv, <1>1, PTL DEF Spec

\* Every variable keeps its type.
THEOREM TypeCorrect == Spec => []TypeOK
<1>1. IInv => TypeOK
  BY DEF IInv
<1> QED BY Invariance, <1>1, PTL

\* An undisturbed set() returns false only for a value that does not fit.
THEOREM HonestVerdict == Spec => []VerdictIsHonest
<1>1. IInv => VerdictIsHonest
  BY DEF IInv
<1> QED BY Invariance, <1>1, PTL

\* An accepted, undisturbed set() has replaced its fields and nothing else,
\* and get() answers what was asked.
THEOREM AcceptedShown == Spec => []AcceptedIsShown
<1>1. IInv => AcceptedIsShown
  <2> SUFFICES ASSUME IInv, clean, result = "accepted"
               PROVE  /\ \A f \in Written : Field(f, word) = Trimmed(f)
                      /\ \A i \in Bits :
                            (\A f \in Written : ~Covers(layout, f, i)) => word[i] = seen[i]
    BY DEF AcceptedIsShown
  <2>1. TypeOK /\ pc = "idle" /\ Holds(word, Written)
    BY DEF IInv, Pending, CleanWord
  <2>2. Written \in SUBSET FieldOf(layout) /\ word \in Word
    BY <2>1, LayoutFacts DEF TypeOK
  <2> QED BY <2>1, <2>2, HoldsShows DEF Holds
<1> QED BY Invariance, <1>1, PTL

\* A write changes only the fields of the request, and restores elsewhere
\* only bits the call itself read.
THEOREM OnlyTheRequestWritten == Spec => WritesOnlyTheRequest
<1>1. IInv /\ [Next]_vars =>
        (pc = "write" /\ pc' = "compare" =>
           \A i \in Bits :
              word'[i] # word[i] =>
                \/ \E f \in Written :
                      Covers(layout, f, i) /\ word'[i] = data[f][i - Low(layout, f)]
                \/ (\A f \in Written : ~Covers(layout, f, i)) /\ word'[i] = seen[i])
  <2> SUFFICES ASSUME IInv, [Next]_vars, pc = "write", pc' = "compare",
                      NEW i \in Bits, word'[i] # word[i]
               PROVE  \/ \E f \in Written :
                            Covers(layout, f, i) /\ word'[i] = data[f][i - Low(layout, f)]
                      \/ (\A f \in Written : ~Covers(layout, f, i)) /\ word'[i] = seen[i]
    OBVIOUS
  <2>1. Write
    BY DEF Next, Call, CallFails, Modify, TransferFails, Compare, Others, vars
  <2>2. word'[i] = reg[i]
    BY <2>1 DEF Write
  <2>3. {f \in Written : f < next} = Written
    BY LayoutFacts DEF IInv, WholeRequest
  <2>4. Holds(reg, Written)
    BY <2>3 DEF IInv, Replacing
  <2> QED BY <2>2, <2>4 DEF Holds
<1> QED BY Invariance, <1>1, PTL DEF Spec, WritesOnlyTheRequest

\* No set() returns true while the register holds something else in a field
\* it compares.
THEOREM AcceptedHeld == Spec => AcceptedIsHeld
<1>1. IInv /\ [Next]_vars =>
        (pc = "compare" /\ result' = "accepted" =>
           \A f \in Compared \ layout.loose : \A k \in Bits :
              data[f][k] = IF k < Room(f) THEN word[k + Low(layout, f)] ELSE 0)
  <2> SUFFICES ASSUME IInv, [Next]_vars, pc = "compare", result' = "accepted",
                      NEW f \in Compared \ layout.loose, NEW k \in Bits
               PROVE  data[f][k] = IF k < Room(f) THEN word[k + Low(layout, f)] ELSE 0
    OBVIOUS
  <2>1. TypeOK /\ result = "none"
    BY DEF IInv, Pending
  <2>2. Compare
    BY <2>1 DEF Next, Call, CallFails, Modify, Write, TransferFails, Others, vars
  <2>3. Field(f, word) = data[f]
    BY <2>2 DEF Compare, Matches
  <2>4. f \in FieldOf(layout)
    BY DEF Compared
  <2>5. /\ High(layout, f) \in Bits /\ Low(layout, f) \in Bits
        /\ Low(layout, f) <= High(layout, f) /\ word \in Word
    BY <2>1, <2>4, FieldFacts DEF TypeOK
  <2>6. Field(f, word) = [j \in Bits |-> IF j < Room(f) THEN word[j + Low(layout, f)] ELSE 0]
    BY <2>5, GetFieldBits DEF Field, Room
  <2> QED BY <2>3, <2>6
<1> QED BY Invariance, <1>1, PTL DEF Spec, AcceptedIsHeld
===============================================================================
