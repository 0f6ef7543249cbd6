\* Four jobs over three workers: more jobs than workers, so workers come back
\* for a second job while others block in recv; batches of 0..4 jobs cover
\* fewer jobs than workers and the empty batch.
CONSTANTS
    MaxJobs = 4
    Concurrency = 3
SPECIFICATION FairPoolSpec
INVARIANTS
    ExactlyOnce
    NeverStuck
PROPERTIES
    CallReturns
    CallAdvances
    ImplementsBatch
