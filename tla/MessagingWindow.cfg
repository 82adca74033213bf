CONSTANTS
  m1 = m1
  m2 = m2
  d1 = d1
  Messages <- TwoMessages
  Devices <- OneDevice
  Senders = {s1}
  Cloud = Cloud
  To <- AllToDevice
  NoMessage = NoMessage
  Capacity = 2
  ShortGaps = FALSE
  SubmitMayFail = FALSE
SPECIFICATION FairSpec
INVARIANTS
  NoneStranded
  OutcomeAnnounced
PROPERTIES
  QueuedIsReleased
  ClaimedIsSettled
