------------------------------- MODULE MCLexer -------------------------------
(***************************************************************************)
(* Instances of Lexer for TLC, and its refinement of Tokens.                  *)
(***************************************************************************)
EXTENDS Lexer, SequencesExt

CONSTANTS
  Alphabet, MaxLength,     (* The longest lines, and their symbols.             *)
  MoreSymbols, MaxMixed    (* Further symbols, in shorter lines.               *)

AllLines ==
  BoundedSeq(Alphabet, MaxLength)
  \cup BoundedSeq(Alphabet \cup MoreSymbols, MaxMixed)
  \cup {<<"s", "i", "n", "x">>, <<"e", "x", "p", "0">>, <<"0", "x", "c", "+">>,
        <<"s", "q", "r", "t", "x">>, <<"x", "x", "x", "x", "x">>,
        <<"e", "?", "x", "x", "x">>, <<"c", "o", "s", "e">>, <<"1", "e", "x", "p", "x">>}

(* A token whose node was lost stands for what it was to be.                      *)
T == INSTANCE Tokens WITH
       text   <- input,
       at     <- IF spelled = <<>> THEN 1 ELSE spelled[Len(spelled)].end,
       tokens <- [i \in DOMAIN tokens |->
                    IF tokens[i].kind = NULL THEN spelled[i].kind ELSE tokens[i].kind]

(* The loops over symbols, the word buffer and the name table yield the tokens      *)
(* of the line: each step takes nothing or the next token.                       *)
ImplementsTokens == T!Spec

(* The lexer returns normally only from lines it can cut into tokens ...           *)
NormalOnlyIfScannable ==
  status = "NO_PARSING_ERRORS" => T!Scannable(input)

(* ... and on those lines it never needs more memory than the line has symbols:   *)
(* a lexer that runs out of memory on a line of ordinary length is stuck at a      *)
(* symbol that is in no class or at a number sscanf refuses.                     *)
MemoryFollowsInput ==
  T!Scannable(input) => Len(tokens) <= Len(input) + 1

=============================================================================
