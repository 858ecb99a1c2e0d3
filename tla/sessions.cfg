SPECIFICATION FairSpec
CONSTANTS
  a = a  b = b  c = c  R = R
  NULL = NULL  Other = Other
  Client = {a, b, c}
  Room = {R}
  Settings <- AllSettings
INVARIANTS TypeOK RoomsAgree LoginAgrees PairedKeys
PROPERTIES PlainFollows LoginSettles
