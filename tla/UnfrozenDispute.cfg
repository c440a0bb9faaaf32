CONSTANTS
    Asha = Asha
    Ravi = Ravi
    Travellers = {Asha}
    HasPlan = FALSE
    Corporate = FALSE
    SizeMax = 1
    IsLocked = FALSE
    MaxRows = 2
    MaxOrders = 1
    Prices = {9}
    SizeMin = 1
    KeysSet = TRUE
    AgencyLinked = TRUE
    Refundable = {}
    Chargeable = {1}
    BankReports = {"OPEN"}
    Complaints <- FirstRowOnly
    Outages = FALSE
    Slow = {}
SPECIFICATION Spec
INVARIANT HeldWhileDisputed
CHECK_DEADLOCK FALSE
