SPECIFICATION Spec
CONSTANTS
  NULL = NULL
  LexerResults <- AllResults
  Words = {"NUMERIC_NODE", "VARIABLE_NODE", "OPEN_BRACKET", "CLOSE_BRACKET", "ADD", "POW", "SIN"}
  MoreWords = {}
  MaxWords = 4
  MaxBroken = 0
  MaxOperators = 1
INVARIANT AcceptsOnlySentences
CHECK_DEADLOCK FALSE
