SPECIFICATION FairSpec
CONSTANTS
    Requests = {q1, q2, q3}
    MaxReloads = 1
INVARIANTS CountExact BootTasksReported
PROPERTY ExitsAfterDrain
