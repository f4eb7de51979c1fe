\* Both systems, nothing is refused: who runs has subscribed to sleep.
SPECIFICATION FairSpec
CONSTANTS
  Platforms = {"Linux", "Windows"}
  Results = {TRUE}
  MaxNotices = 2
PROPERTY
  WakeIsHeard
