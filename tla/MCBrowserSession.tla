--------------------------- MODULE MCBrowserSession ---------------------------
(***************************************************************************)
(* Instances of BrowserSession for TLC: two tabs of one browser, on two    *)
(* portals.                                                                *)
(***************************************************************************)
EXTENDS BrowserSession

CONSTANTS ann, sue, buyer, supplier, tab1, tab2

TwoTabs == {tab1, tab2}
TwoPortals == {buyer, supplier}
FallbackOrder == <<Shared, buyer, supplier>>
TabPerPortal == [t \in TwoTabs |-> IF t = tab1 THEN buyer ELSE supplier]
BuyerAndSupplier == {ann, sue}
TheSupplier == {sue}
Nobody == {}
=============================================================================
