\* A transactional, a detached and a reading request side by side, verified over
\* every range while they run.
CONSTANTS
    r1 = r1  r2 = r2  r3 = r3  x1 = x1  x2 = x2
    Requests = {r1, r2, r3}
    Rows = {x1, x2}
    RowOf <- MCRowOf
    Detached = {r2}
    Reads = {r3}
    Starts <- MCStarts
    Ends <- MCEnds
    Payload <- MCPayload
    a1 = a1  a2 = a2
    Asides = {a1, a2}
    AsideOf <- MCAsideOf
    Hash <- MCHash
    Genesis = Genesis
    NoOne = NoOne
    NoRow = NoRow
SPECIFICATION FairSpec
INVARIANTS ChainIntact Accounted VerifierIsRight NobodyStandsStill
PROPERTIES LogSpec EveryRequestEnds
