SPECIFICATION FairSpec
CONSTANTS
  s1 = s1
  s2 = s2
  m1 = m1
  m2 = m2
  DeviceCount = 1
  SessionParticipants = 1
  MicSenders = 1
  Sessions = {s1}
  MaxClients = 1
  Mics = {m1, m2}
  TableCount = 2
INVARIANTS KeptWhileUnshared
PROPERTIES RepublishReturns
