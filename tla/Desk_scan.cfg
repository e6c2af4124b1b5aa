SPECIFICATION DeskSpec
CONSTANTS
  Admins = {a1}
  Customers = {c1}
  Jobs = {j1}
  Scanners = {s1, s2}
  Prices = {1, 6}
  Verdicts <- SomeVerdicts
  Given = {"none", "NORMAL"}
  Bulk = 2
  Outlier = 1
  MinReviews = 2
  MinOverrides = 2
  DedupWindow = 1
  OrderWindow = 1
  HistoryWindow = 2
  ReviewWindow = 1
  GradeWindow = 1
  MaxTime = 2
  MaxRows = 2
  MaxScans = 2
  MaxFaults = 1
  Catalogue <- SmallCatalogue
  Lines <- SomeLines
  MaxLines = 2
  Chances <- SomeChances
  Tags <- SomeTags
  Books <- SomeBooks
  Bulky <- BulkyBooks
  MaxBooks = 4
  Seen <- SomeSeen
  Loaded <- SomeLoaded
  Sizes <- SomeSizes
  Regions <- SomeRegions
  Found <- SomeFound
  Visitors = {v1}
  Batches = {b1, b2}
  WeekDays = 2
  MaxDay = 2
  MaxJobs = 1
  MaxDeleted = 1
  MaxLosses = 1
INVARIANTS
  ScreensAgree
  QuotesAreRight
  PlacesAreRight
PROPERTIES
  ScansAreFair
  WeeklyIsRight
SYMMETRY DeskSymmetry
CHECK_DEADLOCK FALSE
