SPECIFICATION Spec
CONSTANT MaxBytes = 6
INVARIANTS ValuesAreParsed
CHECK_DEADLOCK FALSE
