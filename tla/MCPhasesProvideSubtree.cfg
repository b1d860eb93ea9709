CONSTANTS
  Names <- MCNames
  MaxDepth <- MCMaxDepth
  MetaDir <- MCMetaDir
  Subtrees <- MCSubtreeA
SPECIFICATION Spec
INVARIANT AssertionsHold
CONSTRAINT MCSubtreeUnprotected
