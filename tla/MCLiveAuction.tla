---------------------------- MODULE MCLiveAuction ----------------------------
(***************************************************************************)
(* Instances of a live auction for TLC.                                    *)
(***************************************************************************)
EXTENDS LiveAuction

CONSTANTS v1, v2, v3

\* An auction by absolute steps that a late bid extends once, with a reserve
\* price, and one by percentage with proxies.
StepAuction ==
    [decrementType |-> "ABSOLUTE", decrement |-> 2, reserve |-> 5,
     startAt |-> 0, closeAt |-> 1, trigger |-> 1, duration |-> 1,
     maxExtensions |-> 1, allowProxy |-> FALSE]
ProxyAuction ==
    [decrementType |-> "PERCENTAGE", decrement |-> 50, reserve |-> Nobody,
     startAt |-> 0, closeAt |-> 1, trigger |-> 0, duration |-> 1,
     maxExtensions |-> 1, allowProxy |-> TRUE]
AnyFloors == [v \in Vendors |-> {1}]
BothAuctions == {StepAuction, ProxyAuction}
=============================================================================
