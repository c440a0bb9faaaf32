CONSTANTS
    Asha = Asha
    Ravi = Ravi
    Travellers = {Asha, Ravi}
    HasPlan = FALSE
    Corporate = FALSE
    SizeMax = 2
    IsLocked = FALSE
    MaxRows = 1
    MaxOrders = 2
    Prices = {9}
    SizeMin = 2
    KeysSet = TRUE
    AgencyLinked = TRUE
    Refundable = {}
    Chargeable = {}
    BankReports = {"OPEN", "WON", "LOST"}
    Complaints = {}
    Outages = FALSE
    Slow = {}
SPECIFICATION FairSpec
INVARIANTS TypeOK CreatorIsActive SizeNeverOvercounts
PROPERTIES ConfirmationPaysAgency CompletionSettles StuckTripIsConfirmed CapturedMoneyIsBooked
CHECK_DEADLOCK FALSE
