SPECIFICATION StorefrontSpec
CONSTANTS
    DayLen = 6
    WeekLen = 2
    SlotLen = 1
    LookAhead = 3
    PresetLen <- MCPresetLen
    NONE = NONE
    Nil = Nil
    Items = {"b1", "b2"}
    Options = {"ham"}
    MaxEta = 6
    MaxDays = 2
    ResetHour = 1
    Start = 5
    Horizon = 8
    Hours <- MCHours
    Exceptions <- MCExceptions
    ExcDays = {1}
    Orderings <- MCOrderings
    Untils <- MCUntils
    MaxEdits = 1
    MaxFaults = 1
    Menu <- MCMenu
    Carts <- MCCarts
    Settings <- MCSettings
    Deals <- MCDeals
    Shops <- MCShops
    MaxDeals = 5
INVARIANTS
    PromiseKept
    StatusIsTrue
    MoneyAddsUp
    TaxFollowsFood
PROPERTIES
    BackWhenDue
CHECK_DEADLOCK FALSE
