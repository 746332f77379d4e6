\* The parts of an account, one after the other, with two requests at a time.
CONSTANTS
    q1 = q1  q2 = q2  d1 = d1
    Requests = {q1, q2}
    Devices = {d1}
    MaxSessions = 3
    MaxChanges = 1
    None = None
    Causes = {"overlap", "page", "outage"}
    Identifiers = {"email", "pcid"}
    MaxFailures = 1  IdentifierBudget = 2  AddressBudget = 2  MaxCounted = 3
    Sessions = {"s"}
    MaxEnrolments = 2  MaxStep = 2  MaxTries = 3
    MaxCredentials = 2  MaxTokens = 2
SPECIFICATION MCSpec
SYMMETRY Symmetry
INVARIANTS OneHolder SessionsEnd SignedOutIsExplained GuessesAreBounded
    SecondFactorHolds LostIsNeverConfirmed
PROPERTY ReuseEndsFamily
CHECK_DEADLOCK FALSE
