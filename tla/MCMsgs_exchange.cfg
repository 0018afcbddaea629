SPECIFICATION Spec
CONSTANTS
    Requests <- MCRequests
    MaxRequests = 3
INVARIANTS TypeOK UndefinedOnlyUnknown AnsweredInOrder IdleMeansAnswered NoneMultiply CacheIsDaemons
CHECK_DEADLOCK FALSE
