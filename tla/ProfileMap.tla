------------------------------- MODULE ProfileMap -------------------------------
(* What the profiles on disk promise: a map from names to packets, or to as  *)
(* much of them as a profile holds.  Who is told that a packet was saved     *)
(* finds that packet under the name, and no other name changed; whatever     *)
(* fails or breaks off loses a profile at worst and never makes another one  *)
(* of it.  That a file was imported promises less: it may be of no use.      *)
CONSTANTS
    Names,
    Packets,    \* the packets the device has
    Nothing     \* no profile, or one that is refused

VARIABLES
    stored,     \* the packet under each name
    answer      \* to the last operation

vars == <<stored, answer>>

\* Operations that look at profiles without changing them.
Looks == {"show", "list", "export"}

Init ==
    /\ stored \in [Names -> Packets \cup {Nothing}]
    /\ answer.op = "none"

\* Under no other name anything happens.
Set(n, ps) == \E p \in ps : stored' = [stored EXCEPT ![n] = p]

\* A profile that was not written in whole is of no use.
Save(n, p, ok) ==
    /\ answer' = [op |-> "save", ok |-> ok, got |-> Nothing]
    /\ Set(n, IF ok THEN {p} ELSE {stored[n], p, Nothing})

\* Files that load as no packet are imported as well, and what becomes of those
\* that do nobody checks.
Import(n, p, ok) ==
    /\ answer' = [op |-> "import", ok |-> ok, got |-> Nothing]
    /\ Set(n, IF ok THEN {p, Nothing} ELSE {stored[n], p, Nothing})

Destroy(n, ok) ==
    /\ answer' = [op |-> "destroy", ok |-> ok, got |-> Nothing]
    /\ Set(n, {IF ok THEN Nothing ELSE stored[n]})

Load(n) ==
    /\ \/ answer' = [op |-> "load", ok |-> TRUE, got |-> stored[n]] /\ stored[n] # Nothing
       \/ answer' = [op |-> "load", ok |-> FALSE, got |-> Nothing]
    /\ UNCHANGED stored

Look == answer'.op \in Looks /\ UNCHANGED stored

\* The daemon starts or dies, possibly while it saves; others change the folder.
Outside ==
    /\ answer'.op = "none"
    /\ \/ UNCHANGED stored
       \/ \E n \in Names : Set(n, Packets \cup {Nothing})
       \/ stored' = [n \in Names |-> Nothing]

Next ==
    \/ \E n \in Names, p \in Packets, ok \in BOOLEAN : Save(n, p, ok)
    \/ \E n \in Names, p \in Packets \cup {Nothing}, ok \in BOOLEAN : Import(n, p, ok)
    \/ \E n \in Names, ok \in BOOLEAN : Destroy(n, ok)
    \/ \E n \in Names : Load(n)
    \/ Look
    \/ Outside

Spec == Init /\ [][Next]_vars
===============================================================================
