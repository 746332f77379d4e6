\* Sweeps shorter than the visibility timeout.
CONSTANTS
    Messages = {sms, inbox}
    External = {sms}
    Aged = {sms, inbox}
    Workers = {w1, w2}
    MaxAttempts = 3
    BatchSize = 2
    MaxAborts = 2
    MaxRetries = 2
    NoClaim = NoClaim
SPECIFICATION TimelySpec
INVARIANTS NeverTakenTwice AttemptsAccounted
PROPERTIES ErasedIsNeverSent MailboxSpec
CHECK_DEADLOCK FALSE
