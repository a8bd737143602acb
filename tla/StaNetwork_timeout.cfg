SPECIFICATION Spec
CONSTANT MaxRetry = 1
PROPERTY FailedStartResets
