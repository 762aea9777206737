\* A time where the screen has a text.
SPECIFICATION Spec
CONSTANTS
  Labels = {"t", "a", "wide"}
  Width <- MCWidth
  Segments <- MCSegments
  MAX_FIELD_PATH_LEN = 8
  MAX_LABEL_PATH_LEN = 8
  MAX_LABEL_DEPTH = 2
  FieldOrder <- MCFieldOrder
  Fields <- MCFields
  Preset = {"ASSET"}
  HoldingPaths <- MCHoldingPaths
  KnownTokens <- MCKnownTokens
  Leaves <- TypedLeaves
  ArgumentKinds = {"record", "opaque"}
  LateId = FALSE
  MaxSize = 6
INVARIANT ShownInItsType
CHECK_DEADLOCK FALSE
