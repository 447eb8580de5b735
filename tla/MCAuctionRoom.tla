---------------------------- MODULE MCAuctionRoom ----------------------------
(***************************************************************************)
(* Instances of a live auction and its rooms for TLC.                      *)
(***************************************************************************)
EXTENDS AuctionRoom, TLC

CONSTANTS v1, v2

\* An auction by absolute steps, with proxies, that a late bid extends once.
RoomAuction ==
    [decrementType |-> "ABSOLUTE", decrement |-> 2, reserve |-> Nobody,
     startAt |-> 0, closeAt |-> 1, trigger |-> 1, duration |-> 1,
     maxExtensions |-> 1, allowProxy |-> TRUE]
FloorOfOne == v1 :> {} @@ v2 :> {1}
OnFloor == v1 :> "floor"
OnTerminal == v1 :> "terminal"
OneAuction == {RoomAuction}
=============================================================================
