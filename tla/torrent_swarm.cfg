SPECIFICATION Spec
CONSTANTS
  Nodes = {n1, n2}
  Pieces = {p1, p2}
  Creators = {n2}
  Seeds = {{}, {n1}}
  Workers = {w1}
  Slots = 1
  MaxSteps = 3
  MaxCalls = 2
  MaxFaults = 2
  NoPiece = NoPiece
INVARIANTS
  HeldCanBeServed
  SavedIsHeldOrWanted
  CompletionIsPossession
PROPERTIES
  PiecesStayOnDisk
  DownloadEnds
CHECK_DEADLOCK FALSE
