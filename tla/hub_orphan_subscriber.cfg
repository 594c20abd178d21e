SPECIFICATION Spec
CONSTANTS
  r1 = r1
  r2 = r2
  c1 = c1
  c2 = c2
  NoRoom = NoRoom
  NoObj = NoObj
  Rooms = {r1}
  RoomObjs = {o1, o2}
  Publishers = {p1}
  Clients = {c1}
  Readers = {}
  RoomOf <- OnlyC1
  MaxBufferSize = 2
  SubscriberBuffer = 1
  MaxSubscribers = 2
  TTL = 1
  Burst = 2
  MaxDelay = 1
  MaxNow = 1
  MaxSends = 1
INVARIANT SubscribersKeepRoom
