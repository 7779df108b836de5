SPECIFICATION Spec
CONSTANT Programs <- MCPrograms
INVARIANTS
  RecursiveMarks
  NonDynamicExact
  SizeSound
  FieldsPlaced
PROPERTY SecondPassStable
