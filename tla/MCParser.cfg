SPECIFICATION FairSpec
CONSTANTS
  NULL = NULL
  LexerResults <- AllResults
  Words = {"NUMERIC_NODE", "OPEN_BRACKET", "CLOSE_BRACKET", "ADD", "MUL", "POW", "SIN"}
  MoreWords = {"VARIABLE_NODE", "EQUALS"}
  MaxWords = 5
  MaxBroken = 3
  MaxOperators = 4
INVARIANTS
  TypeOK
  CursorSafe
  LostNotAccepted
  LinksAgree
  LinkedAlive
  RegisteredBottomUp
  FitsDifferentiate
  AcceptsSentences
  MisparseDropsTokens
  DumpDescribesTree
PROPERTIES
  Termination
CHECK_DEADLOCK FALSE
