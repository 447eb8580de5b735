SPECIFICATION FairSpec
CONSTANTS
  v1 = v1
  v2 = v2
  v3 = v3
  Vendors = {v1, v2, v3}
  Nobody = Nobody
  Prices = {1, 4, 6}
  FloorsOf <- AnyFloors
  Configs <- BothAuctions
  BuyerOps = {"open", "cancel", "release"}
  MaxBids = 3
  Horizon = 2
  Faults = 1
INVARIANTS
  AuctionTypeOK
  WinnerIsLowest
  EachBidUndercuts
PROPERTIES
  AuctionEnds
CHECK_DEADLOCK FALSE
