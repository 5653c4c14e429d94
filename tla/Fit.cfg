SPECIFICATION Spec
CONSTANTS
  Trees <- MCTrees
  Contents <- MCContents
  Blobs <- MCBlobs
  ExtOffsets = {0, 320, 768, 2048}
  PropNames <- MCPropNames
  NodeNames <- MCNodeNames
  NameLen <- MCNameLen
  ValueLen <- MCValueLen
  BlockLens = {512, 2048, 4096}
INVARIANTS
  TypeOK
  BlobsApart
  ReadsBack
  Loadable
  RepackSame
CHECK_DEADLOCK FALSE
