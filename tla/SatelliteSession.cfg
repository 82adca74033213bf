CONSTANTS
  Impairments = {"delay", "loss"}
  Interval = 1
  Threshold = 30
  Silent = Silent
  Coarse = 8
  Fine = 1
  MinPass = 3
  SampleInterval = 2
  MinElev = 1
  Count = 2
  MaxSearch = 38
  NoTime = NoTime
  NoProfile = NoProfile
  LookaheadSec = 8
  Infinity = 1000
  Unending = 1000
  Primary = Primary
  Peer = Peer
  Skies <- MCSkies
  Elevation <- MCElevation
  Model <- MCModel
  Speeds = {1, 5}
  StartTimes = {12}
  MaxGap <- MCMaxGap
  PositionEvery = 2
  Horizon = 46
SPECIFICATION FairSpec
INVARIANTS
  TypeOK
  SequenceTrue
  ReplayFaithful
PROPERTIES
  ClockDisciplined
  PassesPlayed
CHECK_DEADLOCK FALSE
