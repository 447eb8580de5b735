SPECIFICATION RoomFairSpec
CONSTANTS
  v1 = v1
  v2 = v2
  Vendors = {v1, v2}
  Nobody = Nobody
  Prices = {3}
  Configs <- OneAuction
  FloorsOf <- FloorOfOne
  Screen <- OnFloor
  BuyerOps = {"open", "cancel"}
  MaxBids = 2
  Horizon = 2
  Faults = 1
  Watched = {v1}
  Placeholder = 9
  Lag = 2
  Sends = 1
  Drops = 1
INVARIANTS
  TypeOK
  QuietRoomIsRight
PROPERTIES
  FloorSeesTheEnd
CHECK_DEADLOCK FALSE
