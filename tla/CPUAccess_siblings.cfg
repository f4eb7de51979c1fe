\* Two cores, the first with two threads that are neighbours.
SPECIFICATION Spec
CONSTANTS
  NumCpus = 3
  Layouts <- MCSiblings
  MaxFd = 3
  MaxCount = 2
  NoSlot = NoSlot
INVARIANTS
  BootProfileApplies
