CONSTANTS
  n1 = n1
  n2 = n2
  n3 = n3
  l1 = l1
  l2 = l2
  Node <- Nodes
  List <- Lists2
  NULL = NULL
  Prio <- TwoPrios
  name <- Names
SPECIFICATION Spec
INVARIANTS LinkTypeOK BothWays OnOwnersList FindsFirst
PROPERTIES ImplementsLists
