\* A screen that waits for an input contract, over a tree with an orphan.
SPECIFICATION Spec
CONSTANTS
  MAX_HASHES = 3
  MAX_TRANSACTION_LEN = 2
  MaxMessages = 5
  GoodPaths = {"p1"}
  SigningTypes = {"SIGN_PREPARED_TRANSACTION"}
  Components <- MCComponents
  TopologyMessages <- MCTopologyMessages
  Screens = {"none", "shown", "deferred"}
  Trees = {"ok", "orphan"}
  Counts = {0, 1, 2}
  Damage = FALSE
INVARIANT DetailsOfOneTree
