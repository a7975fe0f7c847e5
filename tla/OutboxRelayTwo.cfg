\* Two workers on the same outbox, with fairness.
SPECIFICATION FairSpec
CONSTANTS
    w1 = w1  w2 = w2
    N = 2
    Workers = {w1, w2}
    BatchSize = 1
    MaxRetries = 2
    MaxFaults = 2
    MaxRequeues = 1
INVARIANT PublishedWasDelivered
PROPERTY EventuallySettled
