\* What README.md says of a dry run, against what the stages write.
CONSTANT MaxInvocations = 1
SPECIFICATION Spec
INVARIANT DryRunPrepares
CHECK_DEADLOCK FALSE
