SPECIFICATION ATFairSpec
CONSTANT N = 3   \* container.ttl, storage.ttl, one dataset
INVARIANT ATTypeOK
INVARIANT OutcomeIsTrue
INVARIANT Recoverable
PROPERTY AttachmentEnds
PROPERTY ImplementsAtomicAttach
\* The command ends.
CHECK_DEADLOCK FALSE
