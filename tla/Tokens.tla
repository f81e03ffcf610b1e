------------------------------- MODULE Tokens -------------------------------
(***************************************************************************)
(* What the lexer promises: the line is cut into tokens from left to right,   *)
(* one token a step.  A number is what sscanf takes; a word is the shortest    *)
(* designation that begins at its place, or else the whole stretch of letters  *)
(* or of punctuation, and a variable.  Where nothing can be taken the scan     *)
(* stays and invents a variable.                                             *)
(***************************************************************************)
EXTENDS Text

VARIABLES
  text,    (* The line.                                                     *)
  at,      (* The position after the last token.                              *)
  tokens   (* The kinds of the tokens.                                       *)

Class(symbol) == IF symbol \in Letter THEN Letter ELSE IF symbol \in Punct THEN Punct ELSE {}

(* The word that begins at a position: its length, 0 where there is none.        *)
WordLength(line, from) ==
  LET stretch == RunLength(line, from, Class(line[from]))
      found == {n \in 1..stretch :
                  FindOperationByDesignation(SubSeq(line, from, from + n - 1)) # {}}
  IN  IF found = {} THEN stretch ELSE Min(found)

WordKind(word) ==
  IF FindOperationByDesignation(word) = {} THEN "VARIABLE_NODE"
  ELSE CHOOSE op \in FindOperationByDesignation(word) : TRUE

(* How many symbols the token at a position takes; 0 where the scan is stuck.     *)
TokenLength(line, from) ==
  IF line[from] \in Digit THEN NumberLength(line, from) ELSE WordLength(line, from)

(* The first symbol that is not a space.                                       *)
Start(line, from) == from + RunLength(line, from, Space)

(* The scan comes to the end of the line.                                      *)
Scannable(line) ==
  LET scannable[from \in 1..(Len(line) + 1)] ==
        LET start == Start(line, from)
        IN  \/ start > Len(line)
            \/ /\ TokenLength(line, start) > 0
               /\ scannable[start + TokenLength(line, start)]
  IN  scannable[1]

-----------------------------------------------------------------------------
Terminated == tokens # <<>> /\ tokens[Len(tokens)] = "TERMINATOR"

Here == Start(text, at)

Init == at = 1 /\ tokens = <<>>

Token(kind, next) ==
  /\ tokens' = Append(tokens, kind)
  /\ at' = next
  /\ UNCHANGED text

TakeNumber ==
  /\ text[Here] \in Digit
  /\ NumberLength(text, Here) > 0
  /\ Token("NUMERIC_NODE", Here + NumberLength(text, Here))

TakeWord ==
  LET length == WordLength(text, Here)
  IN  /\ length > 0
      /\ Token(WordKind(SubSeq(text, Here, Here + length - 1)), Here + length)

Invent == TokenLength(text, Here) = 0 /\ Token("VARIABLE_NODE", Here)

Terminate == Here > Len(text) /\ ~Terminated /\ Token("TERMINATOR", Here)

Next == \/ Here <= Len(text) /\ (TakeNumber \/ TakeWord \/ Invent)
        \/ Terminate

Spec == Init /\ [][Next]_<<text, at, tokens>>

=============================================================================
