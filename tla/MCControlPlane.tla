--------------------------- MODULE MCControlPlane ---------------------------
(* Instances of ControlPlane for model checking.                             *)
EXTENDS OperatorConsole, MCPlatformRun

TestDesign == {"test-design"}

\* Every route has reached stage s, the operator is there.
OperatedFrom(s) == UnderWay([r \in Route |-> s]) /\ OperatorInit

OperatorSpec == OperatedFrom("evaluation") /\ [][ControlPlaneNext]_allVars
=============================================================================
