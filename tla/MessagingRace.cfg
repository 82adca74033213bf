CONSTANTS
  m1 = m1
  m2 = m2
  d1 = d1
  Messages <- TwoMessages
  Devices <- OneDevice
  Senders = {s1, s2}
  Cloud = Cloud
  To <- OneEach
  NoMessage = NoMessage
  Capacity = 1
  ShortGaps = TRUE
  SubmitMayFail = TRUE
SPECIFICATION Spec
SYMMETRY SendersAlike
INVARIANTS
  TypeOK
  AtMostOnce
  InFlightHeld
PROPERTIES
  Lifecycle
