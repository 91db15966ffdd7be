\* Three requests about one address, with a restart, a fault and expiring links.
SPECIFICATION Spec
CONSTANTS
    Request = {q1, q2, q3}
    Seed = Seed
    None = None
    Undefined = Undefined
    TokenTtl = 1
    Ops = {"register", "social", "login", "forgot", "reset", "promote", "demote"}
    BrokerStates = {"ready", "absent"}
    MaxCrashes = 1
    MaxFaults = 1
SYMMETRY Symmetry
INVARIANTS
    AccountTypeOK
    RegistrationStands
    CredentialsNeverReturn
    OneResetPerLink
    RoleAsGranted
    LinkNotLost
CHECK_DEADLOCK FALSE
PROPERTIES
    ImplementsCredentials
