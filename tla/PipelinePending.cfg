\* What README.md says of "pending", against what the code writes.
CONSTANT MaxInvocations = 1
SPECIFICATION Spec
INVARIANT PendingAfterFailure
CHECK_DEADLOCK FALSE
