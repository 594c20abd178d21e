SPECIFICATION FairSpec
CONSTANTS
  r1 = r1
  r2 = r2
  c1 = c1
  c2 = c2
  NoRoom = NoRoom
  NoObj = NoObj
  Rooms = {r1}
  RoomObjs = {o1}
  Publishers = {p1}
  Clients = {c1, c2}
  Readers = {c1}
  RoomOf <- AllInRoom1
  MaxBufferSize = 2
  SubscriberBuffer = 2
  MaxSubscribers = 2
  TTL = 1
  Burst = 2
  MaxDelay = 1
  MaxNow = 1
  MaxSends = 2
PROPERTY StreamDelivers
