\* The pages and hooks of web-frontend.
SPECIFICATION Spec
CONSTANTS
  Tabs = {p1, p2}
  MaxIssued = 3
  MaxCalls = 2
  Certificates = {p1, p2}
  NoFile = NoFile
  Names = {"n", "m"}
  Details = {"d", "e"}
  Forms = {p1, p2}
  Creations = {q1, q2}
  Same = {"alto"}
  Rest = {"red", "blue"}
  DUPLICATE_CREATE_WINDOW = 1
  MaxMinutes = 2
  MaxListed = 3
  VehicleTypes = {"CAR", "BIKE", "TRUCK", "TRACTOR"}
  Columns = {"seats", "abs", "abs_equipped", "axle_count", "sunroof", "moonroof", "alloy_wheels", "service_records", "stock_number"}
  MAX_DYNAMIC_SPEC_KEYS = 1
  MaxFilled = 2
  MaxSaves = 1
  Cars = {"a", "b"}
  APPROVE_SELECTED_BATCH = 1
  MaxClicks = 2
  MaxUploads = 2
  InvalidCounts = {0, 3}
  ExportSize = 2
  HistorySize = 2
  UnderReview = {p1, p2}
  Batches = {1, 2, 3}
  NobodyBusy = NobodyBusy
  MaxConsoleChanges = 2
  MaxCounts = 2
  MaxSales = 1
  Facets = {"a", "b"}
  MaxSearches = 3
  MaxPanelClicks = 4
  RecLimit = 1
  MaxFetches = 3
  PresignExpiry = 3
  Margin = 1
  MaxAge = 3
  MaxMoves = 1
  Vehicles = {"v", "w"}
  Clicks = {p1, p2}
  MaxElsewhere = 1
CONSTRAINT Followed
SYMMETRY Exchangeable
INVARIANTS
  TypesOK
  SessionSurvives
  OwnersPagesAreTrue
  ConsoleIsTrue
  ListingIsAsMeant
  PagesShowServer
  BuyersPagesAreTrue
CHECK_DEADLOCK FALSE
