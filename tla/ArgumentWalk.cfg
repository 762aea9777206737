\* Arguments of up to three containers, on the display walk and on the holding walk.  The paths
\* of the display parser overflow its buffer; those of the holding parser just fit.
SPECIFICATION Spec
CONSTANTS
  Labels = {"t", "a", "wide"}
  Width <- MCWidth
  Segments <- MCSegments
  MAX_FIELD_PATH_LEN = 8
  MAX_LABEL_PATH_LEN = 14
  MAX_LABEL_DEPTH = 2
  FieldOrder <- MCFieldOrder
  Fields <- MCFields
  Preset = {"ASSET"}
  HoldingPaths <- MCHoldingPaths
  KnownTokens <- MCKnownTokens
  Leaves <- MCLeaves
  ArgumentKinds = {"record", "opaque"}
  LateId = FALSE
  MaxSize = 8
INVARIANTS
  TypeOK PathFits ShownStandsAlone TokenIsKnown HoldingStandsAlone
PROPERTIES
  ReadsFields
CHECK_DEADLOCK FALSE
