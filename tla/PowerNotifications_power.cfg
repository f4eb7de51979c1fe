\* Both systems, two notices under way, anything refused.
SPECIFICATION FairSpec
CONSTANTS
  Platforms = {"Linux", "Windows"}
  Results = {TRUE, FALSE}
  MaxNotices = 2
INVARIANTS
  TypeOK
  NothingIsDropped
PROPERTY
  SupplyIsTold
