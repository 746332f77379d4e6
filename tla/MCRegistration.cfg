\* Three applicants, two reviewers, one draw more than applicants; every role on every page.
CONSTANTS
    a1 = a1  a2 = a2  a3 = a3  p1 = p1  p2 = p2  p3 = p3  p4 = p4  n1 = n1
    v1 = v1  v2 = v2
    Applications = {a1, a2, a3}
    Reviews = {v1, v2}
    Pcids = {p1, p2, p3, p4}
    Nins = {n1}
    NoNin = NoNin
    NoPcid = NoPcid
    NinOf <- MCNinOf
    Resembles <- MCResembles
    None = None
    Fields = {"citizen.phonePrimary", "citizen.familyName", "citizen.bloodGroup"}
    Requests = {"q"}  Alerts = {"a"}  Values = {"x", "y"}  Unset = "unset"
SPECIFICATION MCSpec
SYMMETRY Symmetry
INVARIANTS IdentifiersAreUnique IssuedIsDecided QueuedCanBeFound PagesAreSound CorrectionsAreAnswered
PROPERTIES DecisionsStand
CHECK_DEADLOCK FALSE
