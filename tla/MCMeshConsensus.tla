--------------------------- MODULE MCMeshConsensus ---------------------------
(* Small instances of the mesh.                                              *)
EXTENDS MeshConsensus

CONSTANTS n1, n2, n3

ThreeNodes == {n1, n2, n3}

\* n3 does not know n1 when it starts.
PartialMesh == [n \in Nodes |-> IF n = n3 THEN {n2} ELSE Nodes \ {n}]

N3LearnsN1    == {<<n3, n1>>}
N2DistrustsN1 == {<<n2, n1>>}
==============================================================================
