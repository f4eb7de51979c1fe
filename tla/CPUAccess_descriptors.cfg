\* Three CPUs, two cores, four descriptors, any numbering.
SPECIFICATION Spec
CONSTANTS
  NumCpus = 3
  Layouts <- MCLayouts
  MaxFd = 3
  MaxCount = 2
  NoSlot = NoSlot
INVARIANTS
  TypeOK
  NothingLeftOpen
  ReachesItsCPU
PROPERTIES
  OthersFilesKept
