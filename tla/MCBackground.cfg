\* Sweeps of any length: claims may be stale when they are recorded.
CONSTANTS
    sms = sms  email = email  inbox = inbox  w1 = w1  w2 = w2
    Messages = {sms, inbox}
    External = {sms}
    Aged = {sms}
    Workers = {w1, w2}
    MaxAttempts = 2
    BatchSize = 1
    MaxAborts = 1
    MaxRetries = 0
    NoClaim = NoClaim
    Sweepers = {"schedule", "office"}  Schedule = "schedule"
    Notices = {"n"}  Rows = {"s", "t"}  Batch = 1  MaxStops = 1  MaxRequeued = 1
    Requests = {"a", "b", "c"}  PoolMax = 2
SPECIFICATION MCSpec
INVARIANTS OutcomesAreEarned LedgerIsTrue OnlyCircleBlocks
PROPERTIES QueueDrains BacklogDrains EveryRequestIsServed
CHECK_DEADLOCK FALSE
