\* Prepared transactions and plain hashes, any host, any user.
SPECIFICATION LiveSpec
CONSTANTS
  MAX_HASHES = 3
  MAX_TRANSACTION_LEN = 2
  MaxMessages = 6
  GoodPaths = {"p1"}
  SigningTypes = {"SIGN_HASH", "SIGN_PREPARED_TRANSACTION"}
  Components <- MCComponents
  TopologyMessages = {}
  Screens = {"none", "shown", "unreadable", "incomplete", "broken", "deferred"}
  Trees = {"ok", "unexpected", "impossible", "orphan"}
  Counts = {0, 1, 2}
  Damage = TRUE
INVARIANTS
  TypeOK ReplyOwed BlindNeedsSetting RefusedStaysClosed FlowPath ClearMeansChecked NoPairsLost
PROPERTIES ReviewsAreAnswered SignsAsAsked
