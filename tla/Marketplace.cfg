SPECIFICATION Spec
CONSTANTS
  \* Marketplace
  Agencies = {a, b}
  OfferIds = {1, 2}
  Prices = {1, 2}
  Terms = {1, 2}
  Workers = {1, 2}
  MaxRounds = 2
  MaxRequests = 4
  None = None
  \* Catalogue
  Users = {u1, u2}
  Sizes = {1, 2}
  MaxWrites = 5
  \* Mail
  MaxRetries = 3
  MaxCrashes = 2
INVARIANTS MarketplaceTypeOK DealsHold CatalogueHolds MailHolds
PROPERTIES FinalStaysFinal WorkersDeliver NoOverbooking
CHECK_DEADLOCK FALSE
