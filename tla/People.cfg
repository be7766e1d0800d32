SPECIFICATION PeopleSpec
CONSTANTS
  w1 = w1
  w2 = w2
  x1 = x1
  x2 = x2
  Focuses = {"carts", "views", "coupons", "pricing", "invoices", "sessions", "roles",
             "addresses", "sellers", "stores", "terms", "grievances", "privacy", "deposits"}
  Variants = {x1, x2}
  Tabs = {w1, w2}
  MaxLine = 2
  MaxGuests = 1
  MaxAsked = 2
  MaxUpsets = 1
  ListPrices = {1, 2}
  MaxStirs = 3
  Buyers = {x1, x2}
  CouponStores = {"s1"}
  Carters = {w1, w2}
  MaxRedeemed = 2
  MaxEdits = 2
  Baskets <- MCBaskets
  Offers <- MCOffers
  Configs <- MCConfigs
  Kind <- MCKind
  Commission = 7
  Fares = {6137}
  MaxSwings = 1
  SellerOrders = {"p1", "p2", "p3"}
  SellerOf <- MCSellerOf
  CodeOf <- MCCodeOf
  Years = {"y1", "y2"}
  Clerks = {w1, w2}
  MaxRenders = 3
  Clients = {w1, w2}
  MaxTokens = 2
  MaxChanges = 1
  MaxFailures = 2
  MaxOutages = 1
  Admins = {w1, w2}
  Roles = {"superAdmin", "staff"}
  Super = "superAdmin"
  Permits = {x1, x2}
  MaxMoves = 1
  Browsers = {w1, w2}
  MaxAddresses = 3
  MaxFaults = 1
  Sections = {"pan", "documents"}
  Desks = {w1, w2}
  MaxRulings = 1
  Managers = {w1, w2}
  MaxRows = 2
  MaxVerdicts = 1
  Currencies = {x1, x2}
  MaxPatches = 2
  Officers = {w1, w2}
  Priorities = {"HIGH", "NORMAL"}
  Sla <- MCSla
  First = "NORMAL"
  MaxAge = 3
  MaxReopens = 1
  Hands = {w1, w2}
  MaxRequests = 2
  MaxRestores = 1
  Suppliers = {"a"}
  Keepers = {w1, w2}
  MaxMonths = 2
  MaxEntries = 2
SYMMETRY Symmetry
CHECK_DEADLOCK FALSE
INVARIANTS
  PeopleTypeOK
  
  
  DutiesKept
