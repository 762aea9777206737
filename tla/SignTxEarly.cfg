\* A prepared transaction ended before all its components have arrived.
SPECIFICATION Spec
CONSTANTS
  MAX_HASHES = 3
  MAX_TRANSACTION_LEN = 2
  MaxMessages = 4
  GoodPaths = {"p1"}
  SigningTypes = {"SIGN_PREPARED_TRANSACTION"}
  Components <- MCComponents
  TopologyMessages <- MCTopologyMessages
  Screens = {"none", "shown"}
  Trees = {"ok", "orphan"}
  Counts = {0, 1}
  Damage = FALSE
INVARIANT DetailsAfterVerdicts
