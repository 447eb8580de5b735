--------------------------- MODULE MCWorkflowEngine ---------------------------
(***************************************************************************)
(* An instance of the workflow engine for TLC: a directory of a maker, who *)
(* is also the procurement administrator late tasks are reassigned to,     *)
(* three approvers and an escalation role, and a template in which the     *)
(* hard cases meet.                                                        *)
(***************************************************************************)
EXTENDS WorkflowEngine, Sequences

CONSTANTS maker, ann, bob, cat

People == {maker, ann, bob, cat}
MakerOnly == {maker}

\* bob's delegate is the maker, who may not act for him; the maker's is cat.
Delegates == [u \in People |-> CASE u = bob -> maker [] u = maker -> cat [] OTHER -> u]

\* 1. one approval asked of ann and the maker: where the maker has delegated,
\*    two approvals can arrive, and the second is a surplus;
\* 2. a step that does not apply;
\* 3. a majority of three;
\* 4. two of a group resolved to the maker alone: his delegate is too few, and
\*    without a delegation the escalation role decides.
Types == <<"SEQUENTIAL", "SEQUENTIAL", "PARALLEL", "PARALLEL">>
ConvergenceOf == <<"ALL", "ALL", "MAJORITY", "QUORUM">>
QuorumOf == <<1, 1, 1, 2>>
Applies == <<TRUE, FALSE, TRUE, TRUE>>
ResolvedFor == <<{maker, ann}, {cat}, {ann, bob, cat}, {maker}>>
EscalationOf == <<{}, {}, {}, {maker, ann, cat}>>
LateStep == {1}
=============================================================================
