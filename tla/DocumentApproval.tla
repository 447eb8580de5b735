--------------------------- MODULE DocumentApproval ---------------------------
(***************************************************************************)
(* What an approval workflow promises about a document, with no tasks, no  *)
(* assignees and no instance: the steps that apply are cleared one by one  *)
(* in their order, the document is approved when the last one is, and a    *)
(* decision is taken once, unless somebody decides it outside the          *)
(* workflow.  The order is promised as long as no step is approved more    *)
(* often than it asks for.  WorkflowEngine implements it.                  *)
(***************************************************************************)
EXTENDS Naturals, FiniteSetsExt

CONSTANT Applicable     \* step numbers whose condition holds for the document

VARIABLES
    decision,   \* the document's status
    cleared,    \* the steps cleared so far
    outside,    \* was it decided outside the workflow?
    surplus     \* did a step get an approval more than it asks for?

vars == <<decision, cleared, outside, surplus>>

\* The decision once the steps of S are cleared: the last one approves a
\* document that still waits.
DecisionAfter(S) ==
    IF S = Applicable /\ decision = "PENDING_APPROVAL" THEN "APPROVED" ELSE decision

\* Approval goes on for a document that waits, and for one decided outside.
GoesOn == decision = "PENDING_APPROVAL" \/ outside

Init == decision = "DRAFT" /\ cleared = {} /\ ~outside /\ ~surplus

\* The document enters approval; nothing to clear means nothing to wait for.
Submit ==
    /\ decision = "DRAFT"
    /\ decision' = IF Applicable = {} THEN "APPROVED" ELSE "PENDING_APPROVAL"
    /\ UNCHANGED <<cleared, outside, surplus>>

\* The next step in order is cleared.
ClearNext ==
    /\ GoesOn /\ ~surplus
    /\ Applicable \ cleared # {}
    /\ cleared' = cleared \cup {Min(Applicable \ cleared)}
    /\ decision' = DecisionAfter(cleared')
    /\ UNCHANGED <<outside, surplus>>

\* From the first surplus approval on, steps are cleared out of order or not at
\* all; still none is uncleared, and the document is decided once.
GoOnRegardless ==
    /\ GoesOn /\ surplus'
    /\ cleared \subseteq cleared' /\ cleared' \subseteq Applicable
    /\ \/ decision' = decision
       \/ decision = "PENDING_APPROVAL" /\ decision' = "APPROVED"
    /\ UNCHANGED outside

\* An approver or an administrator ends the approval.
Refuse ==
    /\ decision = "PENDING_APPROVAL"
    /\ decision' \in {"REJECTED", "CANCELLED"}
    /\ UNCHANGED <<cleared, outside, surplus>>

\* The document is withdrawn, or decided without its workflow.
DecideOutside ==
    /\ \/ decision \in {"DRAFT", "PENDING_APPROVAL"} /\ decision' = "WITHDRAWN"
       \/ decision = "PENDING_APPROVAL" /\ decision' \in {"APPROVED", "REJECTED"}
    /\ outside'
    /\ UNCHANGED <<cleared, surplus>>

Next == Submit \/ ClearNext \/ GoOnRegardless \/ Refuse \/ DecideOutside

Spec == Init /\ [][Next]_vars
=============================================================================
