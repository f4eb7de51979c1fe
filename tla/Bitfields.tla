------------------------------ MODULE Bitfields ------------------------------
(***************************************************************************)
(* getBitfield and setBitfield of src/Utils/Utils.cpp, on which every      *)
(* register class of the daemon is built.  A word is its bits, so that the *)
(* shifts and masks of the code keep their width: what is shifted out is   *)
(* lost.  The functions are those of the overloads the registers call,     *)
(* whose size is the whole word.                                           *)
(***************************************************************************)
EXTENDS Naturals

CONSTANT W      \* bits of a word: 64 in the code

ASSUME WAssumption == W \in Nat \ {0}

Bits == 0 .. W - 1
Word == [Bits -> {0, 1}]

AllOnes == [i \in Bits |-> 1]
Zero    == [i \in Bits |-> 0]

\* (1 << n) - 1
LowOnes(n) == [i \in Bits |-> IF i < n THEN 1 ELSE 0]

Shl(x, n) == [i \in Bits |-> IF i >= n THEN x[i - n] ELSE 0]
Shr(x, n) == [i \in Bits |-> IF i + n < W THEN x[i + n] ELSE 0]

Complement(x) == [i \in Bits |-> 1 - x[i]]
And(x, y) == [i \in Bits |-> IF x[i] = 1 THEN y[i] ELSE 0]
Or(x, y)  == [i \in Bits |-> IF x[i] = 1 THEN 1 ELSE y[i]]

GetField(high, low, data) ==
    LET bits == high - low + 1
    IN  IF bits < W THEN And(Shr(data, low), LowOnes(bits)) ELSE data

\* The bits a field leaves alone: everything but high .. low.
Mask(high, low) ==
    LET highDiscard == (W - 1) - high
    IN  Complement(Shr(Shl(Shl(Shr(AllOnes, low), low), highDiscard), highDiscard))

\* faulty variant: without the "paranoid" trim of the value
SetFieldUntrimmed(high, low, value, data) ==
    Or(And(data, Mask(high, low)), Shl(value, low))

\* faulty variant: the mask forgets to discard what is above the field
SetFieldUpwards(high, low, value, data) ==
    LET mask == Complement(Shl(Shr(AllOnes, low), low))
    IN  Or(And(data, mask), And(Shl(value, low), Complement(mask)))

SetField(high, low, value, data) ==
    Or(And(data, Mask(high, low)), And(Shl(value, low), Complement(Mask(high, low))))
===============================================================================
