SPECIFICATION Spec
CONSTANTS
    NONE = NONE
    Callers = {c1, c2}
    Jobs = {j1}
    Names = {1, 2}
    IPs = {"ip1", "ip2"}
    Macs = {NONE, "m"}
    Values = {"v"}
    Addresses = {"a"}
    Spots = {"s1", "s2"}
    Users = {"ann", "bob", "admin"}
    StoreIds = {0, 7, 8}
    SessionTTL = 2
    ImpersonateTTL = 1
    Opening <- MCOpening
    Budgets <- MCBudgets
    MaxFaults = 1
    Window = 2
    MaxKeys = 1
    Kinds = {"web", "operator"}
    Logins <- MCLogins
    LoginFailMax = 2
    LoginGlobalMax = 3
SYMMETRY Symmetry
INVARIANTS
    ReceiptHandedOn
    EveryEditIsPushed
    OneBuiltin
    RightDoor
    RetryAfterIsExact
CHECK_DEADLOCK FALSE
