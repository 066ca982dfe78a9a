SPECIFICATION Spec
CONSTANTS
    Requests <- AllRequests
    Policies <- AllPolicies
    Profiles <- NamedProfiles
    Hosts = {"qtsp", "other"}
    Qualified = {"qtsp"}
    MaxSeals = 2
    MaxChanges = 1
    MaxEdits = 1
    MaxTime = 2
INVARIANT AnchorIsOfThisSeal
CHECK_DEADLOCK FALSE
