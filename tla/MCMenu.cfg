SPECIFICATION BankSpec
CONSTANTS
    NONE = NONE
    TenantOf <- MCTenantOf
    InitDb <- MCInitDb
    Rules <- MCRules
    Wishes <- MCWishes
    Locations = {"A", "B"}
    Managers = {"A"}
    Names = {"wings"}
    Cents = {100}
    Printers = {"p1", "p2", "p3"}
    Vendors = {"vwings", "wings"}
    Files <- MCFiles
    MaxEdits = 2
    MaxRuns = 2
INVARIANTS RoutesHome NothingVanishes RerunCompletes
CHECK_DEADLOCK FALSE
