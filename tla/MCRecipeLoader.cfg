CONSTANTS
  WordBits <- MCWordBits
  Names = {f1}
  Lines <- MCLines
  MaxLines = 5
  MaxInvalid = 2
SPECIFICATION Spec
INVARIANTS TypeOK EipClassification
CHECK_DEADLOCK FALSE
