SPECIFICATION FairSpec
CONSTANTS
  c1 = c1  c2 = c2  c3 = c3
  Client = {c1, c2, c3}
  Descriptors = 8
  RefsPerSsl = 2
  SIZE_QUEUE = 2
  MaxVisits = 2
INVARIANTS HalfTheDescriptors ByesCostTheContext
PROPERTIES QueueIsServed
