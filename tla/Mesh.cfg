SPECIFICATION MeshSpec
CONSTANTS
  n1 = n1
  n2 = n2
  n3 = n3
  Nodes <- ThreeNodes
  MaxProposals = 2
  InitialPeers <- PartialMesh
  LatePeers <- N3LearnsN1
  Distrust <- N2DistrustsN1
  Lossy = TRUE
CHECK_DEADLOCK FALSE
INVARIANTS MajorityBehindEveryValue CommitsIntersect ProposalNeverStuck
