\* Four boards, five kinds of fan data, four temperatures.
SPECIFICATION FairSpec
CONSTANTS
  Boards <- MCBoards
  Temps <- MCTemps
  FanData <- MCFanData
  InvalidMode = InvalidMode
  NoFanData = NoFanData
  CurvePeriod = 2
INVARIANTS
  TypeOK
  CurveTimerMatchesPacket
PROPERTIES
  FansChangeHandsOnPurpose
  SpeedFromCurve
  CurveCatchesUp
