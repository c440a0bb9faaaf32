CONSTANTS
    Asha = Asha
    Ravi = Ravi
    Travellers = {Asha}
    HasPlan = FALSE
    Corporate = FALSE
    SizeMax = 1
    IsLocked = FALSE
    MaxRows = 2
    MaxOrders = 1
    Prices = {9}
    SizeMin = 1
    KeysSet = TRUE
    AgencyLinked = TRUE
    Refundable = {1}
    Chargeable = {1}
    BankReports = {"OPEN", "WON"}
    Complaints <- FirstRowOnly
    Outages = TRUE
    Slow <- FirstRowOnly
SPECIFICATION Spec
INVARIANTS MoneyBehindCapture RefundStopsPayout
PROPERTIES SettlesLikeLedger
CHECK_DEADLOCK FALSE
