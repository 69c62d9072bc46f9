CONSTANTS
    BlockBytes = 50
    Batches <- MCBatches
    MaxBytes = 240
SPECIFICATION Spec
INVARIANTS ReadsWhatIsWhole ReadableBetweenWrites
\* There is an end to the batches.
CHECK_DEADLOCK FALSE
