SPECIFICATION FairSpec
CONSTANTS
  ann = ann
  sue = sue
  buyer = buyer
  supplier = supplier
  tab1 = tab1
  tab2 = tab2
  NoUser = NoUser
  Shared = Shared
  Me = Me
  Tabs <- TwoTabs
  SupplierPortal = supplier
  Users <- BuyerAndSupplier
  Suppliers <- TheSupplier
  Super <- Nobody
  MfaUsers <- TheSupplier
  Portals <- TwoPortals
  CookieOrder <- FallbackOrder
  PortalOf <- TabPerPortal
  Data = {d1}
  MaxLive = 1
  Acts = 4
  Lapses = 1
  Faults = 1
INVARIANTS
  TypeOK
  TabKeepsItsUser
  RenewalKeepsUser
  QueueHasRenewal
PROPERTIES
  RequestsEnd
  LogoutEndsOwnSession
CHECK_DEADLOCK FALSE
