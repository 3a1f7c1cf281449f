CONSTANTS
  o1 = o1
  u1 = u1
  u2 = u2
  u3 = u3
  c1 = c1
  c2 = c2
  NoUser = NoUser
  NoOrder = NoOrder
  Users <- MCUsers
  Orders <- MCOrders
  NeedsStock <- MCOrders
  Amounts <- MCAmounts
  Threshold = 1
  Ordered = 3
  OverBp = 3333
  UnderBp = 3333
  ReportSizes <- MCReportSizes
  Calls <- MCCalls
  MaxVersion = 7
  Clerk = {1, 2}
  Owner = {"w1", "w2"}
  Contact = {1, 2}
  Address = {1, 2}
  Request = {1, 2}
  Consent = {1, 2, 3}
  MaxTime = 1
  Planner = {1, 2}
  Item = {"x", "y", "z"}
  Bom = {1, 2, 3}
  MAX_EXPLOSION_DEPTH = 2
  MaxBomVersion = 3
  Pricer = {1, 2}
  Customer = {"w1"}
  Code = {1, 2}
  Line = {1, 2}
  MaxDate = 1
  MaxTier = 2
  MaxPrice = 1
  Sync = {1, 2}
  Currency = {"JPY", "USD"}
  Day = {1, 2}
  MaxRate = 2
  RATE_SCALE = 2
  Keeper = {1, 2}
  TaxCode = {1, 2}
  Article = {1}
  BASIS_POINTS = 2
  MaxMinor = 10
  Filer <- MCFilers
  Name = {"a", "b"}
  BranchNumber = {"0", "1"}
  AccountType = {"ASSET", "LIABILITY"}
  Sheets <- MCSheets
  MAX_DEPTH = 1
  MAX_IMPORT_ROWS = 2
SPECIFICATION MCSpec
INVARIANTS
  TypeOK
  ApproversAreDistinct
  AuditTrailTellsStatus
  ProducedMatchesReports
  KeysStayBelowVersion
  PartnersHoldTogether
  RecipesHoldTogether
  TermsHoldTogether
  CatalogueHoldsTogether
PROPERTIES
  ImplementsLifecycle
  FiguresMoveForTheirReaders
CHECK_DEADLOCK FALSE
