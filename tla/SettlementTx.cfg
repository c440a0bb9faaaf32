CONSTANTS
    Asha = Asha
    Ravi = Ravi
    Travellers = {Asha, Ravi}
    Sessions = {"webhook1","callback1","webhook2","beat","refund1","admin"}
    Job <- Everything
    SizeMin = 2
    MaxFaults = 1
SPECIFICATION FairSpec
INVARIANTS TypeOK ConfirmedOnCaptures BooksMatchTransfers DebitedOnce
PROPERTIES ConfirmationLasts PaidTripIsConfirmed RequestsEnd
CHECK_DEADLOCK FALSE
