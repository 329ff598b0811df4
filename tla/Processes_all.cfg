SPECIFICATION Spec
CONSTANT MaxProcs = 5
INVARIANTS TypeOK NoneLeft ShownOnce
