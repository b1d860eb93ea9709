CONSTANTS
  Names <- MCNames
  MaxDepth <- MCMaxDepth
  MetaDir <- MCMetaDir
  Subtrees <- MCRoot
SPECIFICATION Spec
INVARIANT PhasesProvideCover
