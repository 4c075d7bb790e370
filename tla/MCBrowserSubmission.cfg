SPECIFICATION BrowserSpec
CONSTANTS
    First = first
    Customer = customer
    Pages = {g1}
    Principals = {customer}
    Nobody = nobody
    Selections = {first}
    Selector <- SelectorOf
    BootMayFail = TRUE
INVARIANTS
    MadeIsRecovered
CHECK_DEADLOCK FALSE
