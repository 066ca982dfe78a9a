SPECIFICATION Spec
CONSTANTS
    Requests <- AllRequests
    Policies <- AllPolicies
    Profiles <- NamedProfiles
    Hosts = {"qtsp", "other"}
    Qualified = {"qtsp"}
    MaxSeals = 2
    MaxChanges = 2
    MaxEdits = 1
    MaxTime = 3
INVARIANTS TypeOK FreshVerifies VerifiedIsAuthentic ProfileIsEarned VerifiersAgree BrowserNotLaxer SurfacesAgree StatementIsHonest
PROPERTY TooOldForGood
CHECK_DEADLOCK FALSE
