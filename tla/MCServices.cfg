\* Two requests, tabs or syncs at a time.
CONSTANTS
    Jobs = {q1, q2}
    Records = {"r", "s"}
    Limit = 1
    MaxClock = 2
    Missing = {ann, bob}  Found = {u1}  Known = {ann}  NoOne = "nobody"
    MaxMatches = 2  MaxSightings = 1
    Case = {"c"}  Officers = {inv, sup}  Supervisors = {sup}  Subjects = {"s"}
    NoStatus = "none"  MaxNotes = 1
    Incidents = {"i"}  People = {"p", "q"}  NoPack = NoPack
    MaxReleases = 2  MaxKeys = 2
SPECIFICATION MCSpec
SYMMETRY Symmetry
INVARIANTS FieldRecordsHold NothingIsPassedOver
PROPERTY OnlyOverlapUndoes
CHECK_DEADLOCK FALSE
