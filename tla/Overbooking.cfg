CONSTANTS
    Travellers = {Asha, Ravi, Mina}
    HasPlan = FALSE
    Corporate = FALSE
    SizeMax = 2
    IsLocked = FALSE
SPECIFICATION GroupSpec
PROPERTY BookingRespectsCapacity
CHECK_DEADLOCK FALSE
