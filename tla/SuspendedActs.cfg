SPECIFICATION PeopleSpec
CONSTANTS
  w1 = w1
  w2 = w2
  x1 = x1
  x2 = x2
  Focuses = {"roles"}
  Variants = {}
  Tabs = {}
  MaxLine = 1
  MaxGuests = 0
  MaxAsked = 0
  MaxUpsets = 0
  ListPrices = {1}
  MaxStirs = 0
  Buyers = {}
  CouponStores = {}
  Carters = {}
  MaxRedeemed = 1
  MaxEdits = 0
  Baskets <- MCBaskets
  Offers <- MCOffers
  Configs <- MCConfigs
  Kind <- MCKind
  Commission = 7
  Fares = {}
  MaxSwings = 0
  SellerOrders = {"p1", "p2", "p3"}
  SellerOf <- MCSellerOf
  CodeOf <- MCCodeOf
  Years = {"y1"}
  Clerks = {}
  MaxRenders = 0
  Clients = {}
  MaxTokens = 0
  MaxChanges = 0
  MaxFailures = 1
  MaxOutages = 0
  Admins = {w1, w2}
  Roles = {"superAdmin", "staff"}
  Super = "superAdmin"
  Permits = {x1, x2}
  MaxMoves = 1
  Browsers = {}
  MaxAddresses = 1
  MaxFaults = 0
  Sections = {}
  Desks = {}
  MaxRulings = 0
  Managers = {}
  MaxRows = 1
  MaxVerdicts = 0
  Currencies = {x1}
  MaxPatches = 0
  Officers = {}
  Priorities = {"HIGH", "NORMAL"}
  Sla <- MCSla
  First = "NORMAL"
  MaxAge = 0
  MaxReopens = 0
  Hands = {}
  MaxRequests = 0
  MaxRestores = 0
  Suppliers = {}
  Keepers = {}
  MaxMonths = 1
  MaxEntries = 0
SYMMETRY Symmetry
CHECK_DEADLOCK FALSE
INVARIANTS
  SuspendedAreDenied
