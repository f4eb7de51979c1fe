--------------------------- MODULE MCCPURegisters ---------------------------
(* CPURegisters over the daemon's own register table. *)
EXTENDS CPURegisters

Table == INSTANCE RegisterTable

MCLayouts == Table!RegisterClasses

Alternating == [i \in Bits |-> i % 2]

\* All fields with the same pattern: nothing, every bit that fits, one bit
\* more than fits, a negative int extended to the word; and one field too
\* wide by far among fields of zero.
MCRequests(l) ==
    LET Width(f) == High(l, f) - Low(l, f) + 1
    IN  {[f \in FieldOf(l) |-> Zero],
         [f \in FieldOf(l) |-> LowOnes(Width(f))],
         [f \in FieldOf(l) |-> LowOnes(Width(f) + 1)],
         [f \in FieldOf(l) |-> AllOnes]}
        \cup {[f \in FieldOf(l) |-> IF f = 1 THEN Shl(AllOnes, Width(f)) ELSE Zero]}

MCImages == {AllOnes, Alternating}

\* Nothing, a locked register that ignores the write, one read-only bit.
MCRefusals == {{}, Bits, {0}}
===============================================================================
