\* Onboarding flows for two keys, one message more than the hash store holds.
SPECIFICATION Spec
CONSTANTS
  MAX_HASHES = 3
  MAX_TRANSACTION_LEN = 2
  MaxMessages = 5
  GoodPaths = {"p1", "p2"}
  SigningTypes = {"SIGN_UNTYPED_VERSIONED_MESSAGE"}
  Components = {}
  TopologyMessages <- MCTopologyMessages
  Screens = {}
  Trees = {}
  Counts = {}
  Damage = FALSE
INVARIANTS MultiHashCovers OnboardingComplete
