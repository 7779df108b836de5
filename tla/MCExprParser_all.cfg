CONSTANT
  Sources <- MCSources
SPECIFICATION Spec
INVARIANTS IteratorsInList NothingDropped PrecedenceKept ExpressionTakesAll StatementsAdvance
