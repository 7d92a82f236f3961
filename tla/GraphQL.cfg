SPECIFICATION FairSpec
CONSTANTS
  Node <- MCNode
  Operation <- MCOperation
  Element <- MCElement
  Parent <- MCParent
  Index <- MCIndex
  Below <- MCBelow
  On <- MCOn
  Name <- MCName
INVARIANTS
  TypeOK
  NullPropagation
  NullHasError
  Joined
  InOrder
PROPERTIES
  NeverTwice
  Answered
\* A request that was answered asks for nothing more.
CHECK_DEADLOCK FALSE
