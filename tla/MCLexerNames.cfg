SPECIFICATION FairSpec
CONSTANTS
  NULL = NULL
  Space = {" "}
  Letter = {"c", "e", "i", "l", "n", "o", "p", "q", "r", "s", "t", "x"}
  Punct = {"(", "+", ".", "?"}
  Inputs <- AllLines
  MAX_WORD_LENGTH = 4
  Capacity = 7
  MaxLost = 0
  Alphabet = {"l", "n", "+", "?", "1", " "}
  MaxLength = 3
  MoreSymbols = {"x", "e", "0", ".", "other"}
  MaxMixed = 2
INVARIANTS
  IndexNamesWord
CHECK_DEADLOCK FALSE
