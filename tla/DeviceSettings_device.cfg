\* Fourteen machines with at most seven places asked for each, and values on both
\* sides of what registers have room for; others set 0 and 1.
SPECIFICATION Spec
CONSTANTS
  Machines <- MCMachines
  NoValue = NoValue
INVARIANTS
  TypeOK
  
  
  ReadBack
