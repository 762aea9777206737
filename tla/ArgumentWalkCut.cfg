\* A create whose holding was read before a path that does not fit.
SPECIFICATION Spec
CONSTANTS
  Labels = {"t", "a", "wide"}
  Width <- MCWidth
  Segments <- MCSegments
  MAX_FIELD_PATH_LEN = 8
  MAX_LABEL_PATH_LEN = 8
  MAX_LABEL_DEPTH = 2
  FieldOrder <- MCFieldOrder
  Fields <- MCFields
  Preset = {"ASSET"}
  HoldingPaths <- MCHoldingPaths
  KnownTokens <- MCKnownTokens
  Leaves <- PartyLeaves
  ArgumentKinds = {"record", "opaque"}
  LateId = FALSE
  MaxSize = 8
INVARIANT CutIsUnreadable
CHECK_DEADLOCK FALSE
