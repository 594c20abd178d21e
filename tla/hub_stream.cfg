SPECIFICATION Spec
CONSTANTS
  r1 = r1
  r2 = r2
  c1 = c1
  c2 = c2
  NoRoom = NoRoom
  NoObj = NoObj
  Rooms = {r1}
  RoomObjs = {o1}
  Publishers = {p1, p2}
  Clients = {c1}
  Readers = {}
  RoomOf <- OnlyC1
  MaxBufferSize = 2
  SubscriberBuffer = 1
  MaxSubscribers = 2
  TTL = 2
  Burst = 4
  MaxDelay = 1
  MaxNow = 3
  MaxSends = 3
INVARIANT TypeOK
INVARIANT BufferKept
INVARIANT InOrderOnce
INVARIANT NoSilentGap
INVARIANT LiveComplete
