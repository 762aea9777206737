\* A create or an exercise without its value.
SPECIFICATION Spec
CONSTANTS
  MAX_NODE_CHILDREN = 2
  SHA256_HASH_LEN = 2
  DEFAULT_DECODE_BUFFER_SIZE = 4
  StackRoom = 3
  Headers <- MCHeaders
  Nodes <- MCEmptyNodes
  Metadatas <- MCMetadatas
  Contracts <- MCContracts
INVARIANT MissingIsRefused
