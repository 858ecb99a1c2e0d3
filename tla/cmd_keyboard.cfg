SPECIFICATION Spec
CONSTANTS
  A = A  R = R  S = S
  Name = {A, R, S}
  NULL = NULL
  Thread = {"send"}
  Commands <- Keyboard
  MaxCommands = 3
PROPERTIES SentAsAsked
