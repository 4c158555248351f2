SPECIFICATION Spec
CONSTANTS
  s1 = s1
  s2 = s2
  m1 = m1
  m2 = m2
  DeviceCount = 0
  SessionParticipants = 1
  MicSenders = 0
  Sessions = {s1}
  MaxClients = 2
  Mics = {}
  TableCount = 3
INVARIANTS TableInUseIsKept
