CONSTANTS
    Asha = Asha
    Ravi = Ravi
    Travellers = {Asha, Ravi}
    HasPlan = FALSE
    Corporate = FALSE
    SizeMax = 2
    IsLocked = FALSE
    MaxRows = 2
    MaxOrders = 2
    Prices = {9}
    SizeMin = 2
    KeysSet = TRUE
    AgencyLinked = TRUE
    Refundable = {}
    Chargeable = {}
    BankReports = {"OPEN", "WON", "LOST"}
    Complaints = {}
    Outages = FALSE
    Slow = {}
SPECIFICATION Spec
PROPERTY ConfirmedMeansEveryonePaid
CHECK_DEADLOCK FALSE
