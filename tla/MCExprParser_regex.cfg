CONSTANT
  Sources <- Quotients
SPECIFICATION Spec
INVARIANT SlashAfterOperandDivides
