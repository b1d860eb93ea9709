CONSTANTS
  Names <- MCNames
  MaxDepth <- MCMaxDepth
SPECIFICATION Spec
PROPERTY MadeAsProvided
