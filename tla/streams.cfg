SPECIFICATION FairSpec
CONSTANTS
  Readers = {"server", "secure_server", "client", "secure_client"}
  Faults = {"close", "reset", "cut"}
  Messages = 8
  Capacity = 3
INVARIANTS HandledAsSent
PROPERTIES ReaderStops
