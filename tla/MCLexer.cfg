SPECIFICATION FairSpec
CONSTANTS
  NULL = NULL
  Space = {" "}
  Letter = {"c", "e", "i", "l", "n", "o", "p", "q", "r", "s", "t", "x"}
  Punct = {"(", "+", ".", "?"}
  Inputs <- AllLines
  MAX_WORD_LENGTH = 4
  Capacity = 7
  MaxLost = 1
  Alphabet = {"l", "n", "+", "?", "1", " "}
  MaxLength = 5
  MoreSymbols = {"x", "e", "0", ".", "other"}
  MaxMixed = 3
INVARIANTS
  TypeOK
  NamesOnce
  TerminatorLast
  NormalOnlyIfScannable
  MemoryFollowsInput
PROPERTIES
  ImplementsTokens
  Termination
CHECK_DEADLOCK FALSE
