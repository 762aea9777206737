\* Up to four parts, spelled and damaged in every way, in any order, with a ring that wraps.
SPECIFICATION Spec
CONSTANTS
  MAX_NODE_CHILDREN = 2
  MAX_TX_NODES = 4
  MaxParts = 4
  Headers <- MCHeaders
  Nodes <- MCNodes
  Ids = {0, 1, 2, 3}
  Forms = {"plain", "padded", "long"}
  ChildForms = {"plain", "text"}
  MaxChildren = 2
  Kinds = {"create", "exercise"}
  Counts = {0, 1, 3, 4, 5}
  RootLists = "any"
  Faults = TRUE
INVARIANTS
  TypeOK TreeInv AcceptedTree AcceptedGraph DigestsOfChildren RootDigest NeverMissing LookupFailures
