\* The services around listings and search, row stages and file readers.
SPECIFICATION Spec
CONSTANTS
  Admins = {p1, p2}
  DealerTabs = {q1, q2}
  MaxDecisions = 4
  Ids = {1}
  Details = {"d", "e"}
  Requests = {p1, p2}
  NoVehicle = NoVehicle
  NoId = 0
  Photos = {q1, q2}
  Branches = {b1}
  Edits = {p1, p2}
  MaxBatches = 1
  NoPhoto = NoPhoto
  Bytes = {"[", "]", "{", "}", ",", "quote", "backslash", "1", "s", "lead", "trail"}
  MaxBytes = 6
  StoreRuns = {p1, p2}
  MaxColumns = 2
  MaxRows = 2
  MaxCells = 2
  Makes = {"honda", "toyota"}
  OneTypeMakes = {"honda"}
  Plates = {"p"}
  Unread = "unread"
  Matches = {10}
  Threshold = 6
  BatchSize = 1
  SeededMakes = {"rover", "bmw"}
  Aliases <- MCAliases
  Typed = {"r v"}
  NewMakes = {"r v"}
  KeyOf <- MCKeyOf
  NameScore <- MCNameScore
  KeyScore <- MCKeyScore
  REVIEW_OCCURRENCES = 1
  PROMOTE_OCCURRENCES = 1
  Reviewers = {p1, p2}
  NoMake = "none"
  MaxWords = 3
  Vocabulary = {"toyota", "honda", "toyotta", "corolla", "corola", "civic", "wagon", "r", "prado", "diesel", "double", "cab", "2015", "3", "5m", "95k", "million", "under", "from", "between", "cheaper", "newest", "lowest", "mileage", "seats", "family", "estate", "estat", "hatch", "back"}
  QueryFields = {"mileageRange", "model", "make", "maxPrice"}
  MaxStock = 2
  MaxFilters = 2
  Loads = {p1, p2}
  OptionsTTL = 1
  MaxLoad = 1
  MaxClock = 2
  MaxEdits = 1
  PageLimit = 2
  MaxShifts = 1
SYMMETRY Exchangeable
INVARIANTS
  TypesOK
  
  PhotosAreRight
  
  RowsComeAsJudged
  SearchIsHonest
  ChoicesAreReal
PROPERTIES
  LifecyclesHold
  SpellingsAreSettled
CHECK_DEADLOCK FALSE
