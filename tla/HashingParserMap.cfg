\* A map key that is a container: the count of the entry goes to the key.
SPECIFICATION Spec
CONSTANTS
  MAX_NODE_CHILDREN = 2
  SHA256_HASH_LEN = 2
  DEFAULT_DECODE_BUFFER_SIZE = 4
  StackRoom = 3
  Headers <- MCHeaders
  Nodes <- MCKeyNodes
  Metadatas <- MCMetadatas
  Contracts <- MCContracts
INVARIANT HashIsTheScheme
