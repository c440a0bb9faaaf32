SPECIFICATION MembersSpec
CONSTANTS
  \* Credits
  Users = {r}
  Referrer = r
  Newcomers = {p, q}
  Payments = {e1, e2}
  Buyer <- MCBuyer
  Callers = {h1, h2}
  Bonus = 250
  WalletCap = 200
  PromoLimit = 1
  UserLimit = 1
  MaxLinks = 1
  MaxOrders = 2
  MaxRequests = 2
  MaxLooks = 1
  None = none
  \* Accounts
  People = {p, q}
  Emails = {e1, e2}
  Handlers = {h1, h2}
  MaxSerial = 4
  NoEmail = none
  \* Reviews
  Reviewers = {p, q, r}
  Firm = f
  Groups = {e1, e2}
  Travelled <- MCTravelled
  Ratings = {1, 5}
  Forms = {h1, h2}
  MaxForms = 3
  \* Discovery
  Stock <- MCStock
  PageSizes = {1, 3}
  Viewers = {"t", "g"}
  AgencyViewers = {"g"}
  Nobody = "none"
  \* Invoicing
  Rates = {2, 3}
  Credit = 5
  Codes <- MCCodes
  Desks = {h1, h2}
  MaxVisits = 3
  Nothing = none
INVARIANTS MembersTypeOK CreditsHold LinksHold AggregatesMatch  InvoicesHold
SYMMETRY Symmetry
CHECK_DEADLOCK FALSE
