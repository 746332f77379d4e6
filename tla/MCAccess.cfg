SPECIFICATION Spec
SYMMETRY Alike
CONSTANTS
    officer = officer
    chief = chief
    deputy = deputy
    justified = justified
    unjustified = unjustified
    Verdicts = {justified, unjustified}
    Users <- MCUsers
    Profile <- MCProfile
    Person = person
    PersonArea = "JOS"
    CaseFile <- MCCaseFile
    LinkedCases <- MCLinkedCases
    Catalogue <- MCCatalogue
    Intents <- MCIntents
    GateSets <- MCGateSets
    Calls = {p}
    Requests = {r}
    Grants = {g}
    BREAK_GLASS_MAX_TTL = 1
    APPROVAL_MAX_TTL = 1
    MaxTime = 1
    MaxUses = 1
    MaxChanges = 1
    None = None
    Idle = Idle
INVARIANTS
    ReliedOnWhatHeld
PROPERTIES
    BreakGlassSpec
    RulingsStand
