SPECIFICATION RoomSpec
CONSTANTS
  v1 = v1
  v2 = v2
  Vendors = {v1, v2}
  Nobody = Nobody
  Prices = {1, 3}
  Configs <- OneAuction
  FloorsOf <- FloorOfOne
  Screen <- OnTerminal
  BuyerOps = {"cancel"}
  MaxBids = 2
  Horizon = 2
  Faults = 0
  Watched = {v1}
  Placeholder = 9
  Lag = 2
  Sends = 1
  Drops = 0
INVARIANTS
  ShownRankIsRight
CHECK_DEADLOCK FALSE
