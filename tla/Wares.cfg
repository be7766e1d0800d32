SPECIFICATION WaresSpec
CONSTANTS
  w1 = w1
  w2 = w2
  x1 = x1
  x2 = x2
  Focuses = {"products", "listing", "gallery", "uploads", "names", "categories", "attributes",
             "labels", "collections", "reviews", "newsletter", "alerts", "notices", "courier", "logins",
             "gateways", "mail", "keys", "pages", "sliders", "slides", "menus", "figures", "rows"}
  Combos = {x1}
  Prices = {1, 2}
  Merchants = {w1, w2}
  MaxVariants = 2
  MaxAxes = 1
  MaxLapses = 1
  Editors = {w1, w2}
  MaxShopEdits = 3
  Shooters = {w1, w2}
  MaxImages = 2
  Senders = {w1, w2}
  Formats = {"jpg", "png"}
  MaxUploads = 2
  MaxJams = 1
  Words = {"acme"}
  Spellings = {x1, x2}
  Namers = {w1, w2}
  MaxNames = 3
  Cats = {"k1", "k2"}
  Root = "root"
  Values = {x1, x2}
  Curators = {w1, w2}
  MaxReshapes = 2
  Depth = 3
  Servers = {x1, x2}
  Visitors = {w1, w2}
  RuleSets <- MCRuleSets
  Drafts <- MCDrafts
  Things <- MCThings
  TTL = 1
  MaxClock = 1
  MaxRuleEdits = 2
  MaxSold = 1
  Critics = {w1, w2}
  MaxVersions = 3
  MaxReaders = 2
  MaxTurns = 3
  MaxDrops = 1
  Sweepers = {w1, w2}
  MaxWishes = 2
  MaxAlerts = 1
  MaxRestocks = 1
  Criers = {w1, w2}
  Devices = {x1}
  MaxChoices = 1
  Couriers = {w1, w2}
  MaxParcels = 2
  MaxScans = 2
  MaxMishaps = 1
  Callers = {w1, w2}
  Operations = {"track", "assignAwb"}
  MaxConnections = 2
  Wardens = {w1, w2}
  Gateways = {x1, x2}
  MaxSecrets = 1
  ApiKeys = {x1}
  Machines = {w1, w2}
  MaxDays = 2
  PageSize = 1
  MaxTrail = 2
  Sales = {x1}
  Year = 2
  UsualRange = 1
  MaxRange = 1
  MaxUnrest = 1
  Records = {x1, x2}
  MaxTxs = 2
  MaxStrokes = 2
  Writers = {w1, w2}
  Slugs = {x1, x2}
  MaxPages = 2
  MaxLives = 2
  MaxSliders = 2
  MaxSlides = 3
SYMMETRY Symmetry
CHECK_DEADLOCK FALSE
INVARIANTS
  WaresTypeOK
  
  ShopFrontHolds
  
  
