---------------------------- MODULE CPURegisters ----------------------------
(***************************************************************************)
(* The set() that every register class of the daemon repeats: read the     *)
(* register into a local word, replace its fields one after the other,     *)
(* write the word, read it back and compare field by field.  Nothing locks *)
(* the register: firmware and other programs change it between any two     *)
(* steps.  A behaviour follows one register of one class for any number of *)
(* calls.                                                                  *)
(***************************************************************************)
EXTENDS Bitfields, Sequences

CONSTANTS
    Layouts,        \* the register classes: records of fields, windows, loose
    Requests(_),    \* raw field values a call may ask of a layout
    Images,         \* words others leave in the register
    Refusals        \* sets of bits the hardware may keep at a write

FieldOf(l)  == 1 .. Len(l.fields)
High(l, f)  == l.fields[f][1]
Low(l, f)   == l.fields[f][2]
Covers(l, f, i) == Low(l, f) <= i /\ i <= High(l, f)

LayoutAssumption ==
    \A l \in Layouts :
        /\ l.fields \in Seq(Bits \X Bits)
        /\ l.fields # <<>>
        /\ \A f \in FieldOf(l) : Low(l, f) <= High(l, f)
        /\ \A f, g \in FieldOf(l) : f # g => \A i \in Bits : ~(Covers(l, f, i) /\ Covers(l, g, i))
        /\ l.windows \in SUBSET SUBSET FieldOf(l)
        /\ l.loose \in SUBSET FieldOf(l)

ASSUME LayoutAssumption
ASSUME RequestsAssumption == \A l \in Layouts : Requests(l) \subseteq [FieldOf(l) -> Word]
ASSUME ImagesAssumption == Images \subseteq Word
ASSUME RefusalsAssumption == Refusals \subseteq SUBSET Bits

VARIABLES
    layout,     \* the class the behaviour is about; never changes
    word,       \* the register itself
    pc,         \* where the call is
    reg,        \* the local word of set()
    next,       \* the field setBitfield is about to replace
    data,       \* the raw values of the call
    skipped,    \* the fields of the windows that are not representable
    result,     \* what the last call returned
    seen,       \* history: the word the call read
    clean       \* history: nobody else, and no failure, came in since that read

vars == <<layout, word, pc, reg, next, data, skipped, result, seen, clean>>

-------------------------------------------------------------------------------

Written  == FieldOf(layout) \ skipped
Compared == FieldOf(layout) \ UNION layout.windows

Field(f, w) == GetField(High(layout, f), Low(layout, f), w)

\* faulty variant: the comparison forgets to read the register again
MatchesLocalWord(w) ==
    \A f \in Compared :
        IF f \in layout.loose
        THEN Field(f, reg) # Zero /\ data[f] # Zero
        ELSE Field(f, reg) = data[f]

\* faulty variant: windows are compared too, even those that were skipped
MatchesWindowsToo(w) ==
    \A f \in FieldOf(layout) :
        IF f \in layout.loose
        THEN Field(f, w) # Zero /\ data[f] # Zero
        ELSE Field(f, w) = data[f]

Matches(w) ==
    \A f \in Compared :
        IF f \in layout.loose
        THEN Field(f, w) # Zero /\ data[f] # Zero
        ELSE Field(f, w) = data[f]

Init ==
    /\ layout \in Layouts
    /\ word \in Images
    /\ pc = "idle"
    /\ reg = Zero
    /\ next = 1
    /\ data = [f \in FieldOf(layout) |-> Zero]
    /\ skipped = {}
    /\ result = "none"
    /\ seen = Zero
    /\ clean = FALSE

\* faulty variant: goes on where the last call stopped
CallAtLastField ==
    /\ pc = "idle"
    /\ data' \in Requests(layout)
    /\ skipped' \in {UNION s : s \in SUBSET layout.windows}
    /\ reg' = word
    /\ seen' = word
    /\ clean' = TRUE
    /\ result' = "none"
    /\ pc' = "modify"
    /\ UNCHANGED <<next, layout, word>>

\* set() is called and its first read succeeds.
Call ==
    /\ pc = "idle"
    /\ data' \in Requests(layout)
    /\ skipped' \in {UNION s : s \in SUBSET layout.windows}
    /\ reg' = word
    /\ seen' = word
    /\ clean' = TRUE
    /\ result' = "none"
    /\ next' = 1
    /\ pc' = "modify"
    /\ UNCHANGED <<layout, word>>

\* The first read fails: set() returns false.
CallFails ==
    /\ pc = "idle"
    /\ result' = "rejected"
    /\ clean' = FALSE
    /\ UNCHANGED <<layout, word, pc, reg, next, data, skipped, seen>>

\* One setBitfield of the call, or a window left as it is.
Modify ==
    /\ pc = "modify"
    /\ reg' = IF next \in skipped
              THEN reg
              ELSE SetField(High(layout, next), Low(layout, next), data[next], reg)
    /\ next' = next + 1
    /\ pc' = IF next = Len(layout.fields) THEN "write" ELSE "modify"
    /\ UNCHANGED <<layout, word, data, skipped, result, seen, clean>>

\* The write is taken, but the hardware may keep locked or read-only bits.
Write ==
    /\ pc = "write"
    /\ \E kept \in Refusals :
        /\ word' = [i \in Bits |-> IF i \in kept THEN word[i] ELSE reg[i]]
        /\ clean' = (clean /\ kept = {})
    /\ pc' = "compare"
    /\ UNCHANGED <<layout, reg, next, data, skipped, result, seen>>

\* The write, or the read that follows it, fails: set() returns false.
TransferFails ==
    /\ pc \in {"write", "compare"}
    /\ pc' = "idle"
    /\ result' = "rejected"
    /\ clean' = FALSE
    /\ UNCHANGED <<layout, word, reg, next, data, skipped, seen>>

Compare ==
    /\ pc = "compare"
    /\ reg' = word
    /\ result' = IF Matches(word) THEN "accepted" ELSE "rejected"
    /\ pc' = "idle"
    /\ UNCHANGED <<layout, word, next, data, skipped, seen, clean>>

\* Firmware, the kernel or another program writes the register.
Others ==
    /\ word' \in Images
    /\ clean' = FALSE
    /\ UNCHANGED <<layout, pc, reg, next, data, skipped, result, seen>>

Next ==
    \/ Call
    \/ CallFails
    \/ Modify
    \/ Write
    \/ TransferFails
    \/ Compare
    \/ Others

Spec == Init /\ [][Next]_vars

-------------------------------------------------------------------------------

TypeOK ==
    /\ layout \in Layouts
    /\ word \in Word
    /\ pc \in {"idle", "modify", "write", "compare"}
    /\ reg \in Word
    /\ next \in 1 .. Len(layout.fields) + 1
    /\ pc = "modify" => next <= Len(layout.fields)
    /\ data \in [FieldOf(layout) -> Word]
    /\ skipped \in SUBSET UNION layout.windows
    /\ result \in {"none", "accepted", "rejected"}
    /\ seen \in Word
    /\ clean \in BOOLEAN

\* The bits of a value that a field has room for.
Room(f) == High(layout, f) - Low(layout, f) + 1
Trimmed(f) == [k \in Bits |-> IF k < Room(f) THEN data[f][k] ELSE 0]

\* Fields F of w hold the low bits of their values, and every other bit is
\* the one the call read.
Holds(w, F) ==
    /\ \A f \in F : \A i \in Bits :
          Covers(layout, f, i) => w[i] = data[f][i - Low(layout, f)]
    /\ \A i \in Bits :
          (\A f \in F : ~Covers(layout, f, i)) => w[i] = seen[i]

\* A write moves a bit of the register only to the bit the request has for
\* it, or, outside the fields of the request, back to what the call read:
\* no field spills into its neighbours, however large its value is, and
\* whatever others did in between (src/Utils/Utils.cpp, _setBitfield).
WritesOnlyTheRequest ==
    [][pc = "write" /\ pc' = "compare" =>
         \A i \in Bits :
            word'[i] # word[i] =>
              \/ \E f \in Written :
                    Covers(layout, f, i) /\ word'[i] = data[f][i - Low(layout, f)]
              \/ (\A f \in Written : ~Covers(layout, f, i)) /\ word'[i] = seen[i]]_vars

\* set() returns true only while the register itself holds the whole of
\* each value compared: a value too wide for its field, a bit the hardware
\* refused or a write of others in between is never taken for success.
\* (Loose fields and windows are not compared by value, see RegisterTable.)
AcceptedIsHeld ==
    [][pc = "compare" /\ result' = "accepted" =>
         \A f \in Compared \ layout.loose : \A k \in Bits :
            data[f][k] = IF k < Room(f) THEN word[k + Low(layout, f)] ELSE 0]_vars

\* When nothing failed and nobody came in between, set() returns false only
\* for a value that does not fit its field, or for a zero in a loose field.
VerdictIsHonest ==
    clean /\ result # "none" =>
        ( result = "accepted" <=>
            \A f \in Compared :
               IF f \in layout.loose THEN Trimmed(f) # Zero ELSE Trimmed(f) = data[f] )

\* After a call that returned true, and while nobody else came in, the
\* register is what the call read with the request's fields replaced, and
\* get() answers each value of the request, cut to its field; windows that
\* set() never compares and its bits outside the fields included.
AcceptedIsShown ==
    clean /\ result = "accepted" =>
        /\ \A f \in Written : Field(f, word) = Trimmed(f)
        /\ \A i \in Bits : (\A f \in Written : ~Covers(layout, f, i)) => word[i] = seen[i]

\* The inductive invariant: how far the local word is replaced, and what a
\* clean call has made of the register.
Replacing ==
    pc \in {"modify", "write"} => Holds(reg, {f \in Written : f < next})

WholeRequest == pc = "write" => next = Len(layout.fields) + 1

Pending == pc # "idle" => result = "none"

CleanWord ==
    clean =>
        /\ pc \in {"modify", "write"} => word = seen
        /\ pc \in {"compare", "idle"} => Holds(word, Written)

IInv == TypeOK /\ Replacing /\ WholeRequest /\ Pending /\ CleanWord /\ VerdictIsHonest
===============================================================================
