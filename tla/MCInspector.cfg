SPECIFICATION Spec
CONSTANTS
  Inputs <- AnyInput
  Documents <- AllDocuments
  Paths <- AllPaths
  MaxDepth = 3
INVARIANTS
  FindsAllInOrder
