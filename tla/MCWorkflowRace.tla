---------------------------- MODULE MCWorkflowRace ----------------------------
(***************************************************************************)
(* Instances of the concurrent workflow engine for TLC.                    *)
(***************************************************************************)
EXTENDS WorkflowRace

CONSTANTS ann, bob, cat, s1, s2

People == {ann, bob, cat}
TwoSessions == {s1, s2}
OneSession == {s1}

Approvals == {"APPROVE"}

NoMakers == {}
NoSteps == {}
Himself == [u \in People |-> u]
NoEscalation == [s \in 1..NumSteps |-> {}]
AlwaysMet == [s \in 1..NumSteps |-> TRUE]
Ones == [s \in 1..NumSteps |-> 1]

\* A group two of which decide for the third, then a single approver.
QuorumThenOne == <<"PARALLEL", "SEQUENTIAL">>
QuorumOf == <<"QUORUM", "ALL">>
TwoOfThree == <<2, 1>>
ThreeThenOne == <<{ann, bob, cat}, {cat}>>

\* A group that must agree, then a single approver.
AllThenOne == <<"PARALLEL", "SEQUENTIAL">>
AllOf == <<"ALL", "ALL">>
TwoThenOne == <<{ann, bob}, {cat}>>

\* The same before a step nobody can decide: what would enter it rolls back.
AllThenOneThenNobody == <<"PARALLEL", "SEQUENTIAL", "SEQUENTIAL">>
AllOfThree == <<"ALL", "ALL", "ALL">>
TwoThenOneThenNobody == <<{ann, bob}, {cat}, {}>>
=============================================================================
