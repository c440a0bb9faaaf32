CONSTANTS
    Asha = Asha
    Ravi = Ravi
    Travellers = {Asha}
    HasPlan = TRUE
    Corporate = FALSE
    SizeMax = 1
    IsLocked = FALSE
    MaxRows = 1
    MaxOrders = 1
    Prices = {9}
    SizeMin = 1
    KeysSet = TRUE
    AgencyLinked = TRUE
    Refundable = {}
    Chargeable = {}
    BankReports = {"OPEN", "WON", "LOST"}
    Complaints = {}
    Outages = FALSE
    Slow <- FirstRowOnly
SPECIFICATION Spec
PROPERTY CapturedNeverFails
CHECK_DEADLOCK FALSE
