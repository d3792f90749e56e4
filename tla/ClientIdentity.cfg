SPECIFICATION Spec
CONSTANTS
    ann = ann
    bob = bob
    People = {ann, bob}
    Managers = {ann}
    Nobody = Nobody
    MaxAuthChanges = 3
    MaxCalls = 1
    Names = {ann, bob}
    MaxEntries = 1
    MaxSaves = 1
    MaxProfileRequests = 3
INVARIANTS
    IdentitySafe
PROPERTIES
    IdentityProgress
CHECK_DEADLOCK FALSE
