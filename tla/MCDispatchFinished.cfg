SPECIFICATION Spec
CONSTANTS
    u1 = u1  u2 = u2  i1 = i1  i2 = i2  h1 = h1  h2 = h2
    police = police  ambulance = ambulance  o1 = o1  p1 = p1
    Units = {u1}
    Incidents = {i1}
    Agencies = {ambulance}
    Officers = {o1}
    Persons = {}
    Handlers = {h1}
    UnitAgency <- MCUnitAgency
    OfficerAgency <- MCSameAgency
    StatusRequests <- MCStatusRequests
PROPERTIES
    NoDispatchToFinished
