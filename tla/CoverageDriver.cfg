CONSTANTS
  Impairments = {"delay", "loss"}
  Interval = 4
  Threshold = 30
  Silent = Silent
  Profiles <- MCProfiles
  MaxGap = 2
SPECIFICATION Spec
INVARIANTS
  TypeOK
  NoticesTruthful
  LinkFresh
  PredictionHolds
PROPERTIES
  EventsInOrder
