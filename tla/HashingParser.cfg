\* Everything up to three nodes and two input contracts, one deviation per component.
SPECIFICATION Spec
CONSTANTS
  MAX_NODE_CHILDREN = 2
  SHA256_HASH_LEN = 2
  DEFAULT_DECODE_BUFFER_SIZE = 4
  StackRoom = 3
  Headers <- MCHeaders
  Nodes <- MCNodes
  Metadatas <- MCMetadatas
  Contracts <- MCContracts
INVARIANTS
  TypeOK
  MissingIsRefused
  DigestIdentifies
  HashIsTheScheme
