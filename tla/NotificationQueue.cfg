\* Two handlers and two sweepers on one event: crashes, early redelivery, lost answers.
SPECIFICATION FairSpec
CONSTANTS
  Handlers = {"h1", "h2"}
  Sweepers = {"s1", "s2"}
  Intakes = {"queue", "sync"}
  MAX_DELIVERY_ATTEMPTS = 3
  Mortal = {"h1", "h2"}
  Faults = {"visibility", "answer", "db", "recipient"}
  MaxMishaps = 3
  MaxReceives = 5
INVARIANTS
  TypeOK
  EachDeliveryMailsOnce
  SentMeansMailed
PROPERTIES
  PublishedIsDecided
CHECK_DEADLOCK FALSE
