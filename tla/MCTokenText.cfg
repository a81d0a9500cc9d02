SPECIFICATION TextSpec
CONSTANTS
  Texts <- MCTexts
  MaxPiece = 6
  Piece = 3
  MetaBuffer = 4
  FewTokens = 3
  Longest = 8
  Room = 9
  Refusals <- MCRefusals
  Methods <- MCMethods
CHECK_DEADLOCK FALSE
INVARIANTS
  TextTypeOK
  TextIsTheBytes
  LoseNothing
  WholeOrError
  AnyLength
