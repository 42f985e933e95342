SPECIFICATION FairSpec
CONSTANTS
  Plans <- SomePlans
  Limit <- SmallLimit
  BufferSize = 2
  PipeCapacity = 2
INVARIANTS
  TypeOK
  OutputIsExact
PROPERTIES
  AnswersTruthfully
  ChattyToolReturns
  InterruptReturns
