INIT Init
NEXT Next
INVARIANTS StructuresSound AnswersRight ShellRight
PROPERTIES ImplementsContainers
CHECK_DEADLOCK FALSE
