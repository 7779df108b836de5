CONSTANT
  Sources <- RangeChains
SPECIFICATION Spec
INVARIANT RangesNotChained
