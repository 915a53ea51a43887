SPECIFICATION Spec
CONSTANTS
  Off = Off
  Paid = 2
  Refunds = {a1, a2}
  NoRefund = NoRefund
  Clerks = {b1, b2}
  MaxRefreshes = 1
  MaxRequests = 3
  MaxMisses = 1
  Grants = {a1, a2, g3}
  Lifetime = {a1, a2}
  MaxFaults = 1
  Views = {a1, a2}
  NoView = NoView
  Visits = {b1, b2}
  Reads = {d1, d2}
  MaxViews = 1
  RateLimit = 1
  Askers = {a1, a2}
  Spenders = {b1, b2}
  Tokens = {k1}
  MaxRecent = 1
  MaxCodes = 2
  Users = {a1, a2}
  NoUser = NoUser
  Edits = {b1, b2}
  MaxEdits = 4
  Subjects = {j1, j2}
  Topics = {a1, a2, h3}
  Questions = {m1}
  None = None
  Editors = {b1, b2}
  MaxCalls = 4
  Assets = {a1, a2}
  Pieces = {p1}
  Notes = {n1}
  Fields = {f1, f2}
  Writers = {b1, b2}
  NoAsset = NoAsset
  Kept = Kept
  MaxWrites = 3
  Plans = {l1}
  Coupons = {q1}
  NewOrders = {o1}
  Nothing = Nothing
  Sellers = {a1, a2}
  Inputs <- MCInputs
  LifetimeDays = 730
  MaxEditions = 5
  MaxVersion = 2
  Publishers = {a1, a2}
  Loaders = {b1, b2}
  MaxPublished = 2
  First = {a1, a2}
  Second = {b1, b2}
  Third = {c1, c2}
  Drills = {b1, b2}
  Themes = {c1, c2}
  NoTheme = NoTheme
  NoDrill = NoDrill
  Items <- MCItems
  Requests = {a1, a2}
  MaxItems = 2
  MaxRequested = 2
  MaxChanges = 1
  Boots = {b1, b2}
  MaxBoots = 2
  MaxActs = 1
  MaxSettings = 4
  Processes = {b1, b2}
  Sales = {o1}
  Readers = {a1, a2}
  MaxDay = 2
  Calls = {a1, a2}
  MaxTokens = 4
  Papers = {a1, a2}
  MaxTroubles = 3
  Purchases = {a1, a2, t3}
  Endless = {t3}
  Length = 2
  Never = Never
  Stackings = {TRUE, FALSE}
  Horizon = 2
  MaxMishaps = 1
INVARIANTS
  OfficeTypeOK
  BooksAgree
  LimitsHold
  ContentHoldsTogether
  AdminsRemain
SYMMETRY OfficeSymmetry
CHECK_DEADLOCK FALSE
