SPECIFICATION MCSpec
INVARIANTS PathKeepsAnswer SortElisionSound JoinIsNestedLoop
CHECK_DEADLOCK FALSE
