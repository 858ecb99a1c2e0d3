SPECIFICATION Spec
CONSTANTS
  Character = {48, 57, 65, 90, 97, 122}
  MaxLength = 4
  HASH_ROOM_SIZE = 1997
INVARIANTS TypeOK IndexInTable HashIsTheNumber
