-------------------------------- MODULE Lexer --------------------------------
(***************************************************************************)
(* TreeLexer (Lexer.cpp), one symbol at a time.  The buffers, calloc and the   *)
(* allocation of a node may fail at any call; that tokens are allocated on and  *)
(* on is only stopped by memory, of which Capacity is a bound.                 *)
(***************************************************************************)
EXTENDS Text, Naturals

CONSTANTS
  NULL,
  Inputs,           (* The lines of input.                                     *)
  MAX_WORD_LENGTH,
  Capacity,         (* The tokens there is memory for.                         *)
  MaxLost           (* The nodes CreateNode may fail to allocate.               *)

ASSUME LexerBounds ==
  /\ MAX_WORD_LENGTH \in Nat \ {0}
  /\ Capacity \in Nat
  /\ MaxLost \in Nat
  /\ NULL \notin Nat \cup TokenKinds

Symbols == UNION {{line[i] : i \in DOMAIN line} : line \in Inputs}

Words == Seq(Symbols)

ASSUME LinesAreWords == Inputs \subseteq Words

(* sizeof (NameTableRecord): a pointer and a double.                            *)
RECORD_SIZE == 16

VARIABLES
  input,         (* fileContent                                               *)
  symbol,        (* The position of the next symbol, from 1.                   *)
  word,          (* The word buffer up to its '\0', or NULL if there is none.    *)
  letterNumber,  (* The letters of the present word read so far.               *)
  nameTable,     (* The names, in order.                                      *)
  tokens,        (* context->tokens: the kind and variableIndex of the nodes.     *)
  spelled,       (* History: the kind each token was to have, the word it was made  *)
                 (* from and where it ends.                                     *)
  status         (* The place in TreeLexer, or how it returned.                *)

vars == <<input, symbol, word, letterNumber, nameTable, tokens, spelled, status>>

Outcomes == {"NO_PARSING_ERRORS", "WORD_TOO_LONG", "TOKEN_ARRAY_ERROR", "NAME_TABLE_ERROR"}

Init ==
  /\ input \in Inputs
  /\ symbol = 1
  /\ word \in {<<>>, NULL}
  /\ letterNumber = 0
  /\ nameTable = <<>>
  /\ tokens = <<>>
  /\ spelled = <<>>
  /\ status = "scan"

InLine  == symbol <= Len(input)
Current == input[symbol]

(* What the array holds where CreateNode found no memory: NULL.                   *)
LostNode == [kind |-> NULL, variableIndex |-> NULL]

LostNodes == {i \in DOMAIN tokens : tokens[i] = LostNode}

(* WriteNodePointer: the token that ends before `end' is written and the lexer     *)
(* goes on at `next', or the array cannot grow and it returns.  The pointer is not  *)
(* looked at: NULL, from a CreateNode that failed, is written like any other.      *)
WriteNodePointer(kind, index, text, end, next) ==
  \/ /\ Len(tokens) < Capacity
     /\ \/ tokens' = Append(tokens, [kind |-> kind, variableIndex |-> index])
        \/ Cardinality(LostNodes) < MaxLost /\ tokens' = Append(tokens, LostNode)
     /\ spelled' = Append(spelled, [kind |-> kind, word |-> text, end |-> end])
     /\ status' = next
  \/ /\ status' = "TOKEN_ARRAY_ERROR"
     /\ UNCHANGED <<tokens, spelled>>

(* Fault: spaces are recognised but not passed.                                *)
StayAtSpace == UNCHANGED symbol

PassSpace == symbol' = symbol + 1

SkipSpace ==
  /\ status = "scan" /\ InLine
  /\ Current \in Space
  /\ PassSpace
  /\ UNCHANGED <<input, word, letterNumber, nameTable, tokens, spelled, status>>

IsNumber == Current \in Digit /\ NumberLength(input, symbol) > 0

(* A token that cannot be written leaves the symbol where it is.                *)
ReadNumber ==
  /\ status = "scan" /\ InLine
  /\ IsNumber
  /\ WriteNodePointer("NUMERIC_NODE", NULL, <<>>, symbol + NumberLength(input, symbol), "scan")
  /\ symbol' = IF status' = "scan" THEN symbol + NumberLength(input, symbol) ELSE symbol
  /\ UNCHANGED <<input, word, letterNumber, nameTable>>

BeginWord ==
  /\ status = "scan" /\ InLine
  /\ Current \notin Space /\ ~IsNumber
  /\ letterNumber' = 0
  /\ status' = "word"
  /\ UNCHANGED <<input, symbol, word, nameTable, tokens, spelled>>

(* Fault: punctuation is no part of a word.                                    *)
LettersOnly == InLine /\ Current \in Letter

WordGoesOn == InLine /\ Current \in Letter \cup Punct

WordTooLong ==
  /\ status = "word" /\ WordGoesOn
  /\ letterNumber >= MAX_WORD_LENGTH
  /\ status' = "WORD_TOO_LONG"
  /\ UNCHANGED <<input, symbol, word, letterNumber, nameTable, tokens, spelled>>

(* What the word buffer holds once the symbol is stored and '\0' after it.        *)
Longer == Append(SubSeq(word, 1, letterNumber), Current)

ReadOperation ==
  /\ status = "word" /\ WordGoesOn
  /\ letterNumber < MAX_WORD_LENGTH
  /\ word # NULL
  /\ word' = Longer
  /\ symbol' = symbol + 1
  /\ \E op \in FindOperationByDesignation(Longer) :
       WriteNodePointer(op, NULL, Longer, symbol + 1, "scan")
  /\ UNCHANGED <<input, letterNumber, nameTable>>

(* Fault: a word goes on over the border between letters and punctuation.         *)
NoBoundary(before, after) == FALSE

(* At the end of the line the symbol read is '\0', in neither class.            *)
Boundary(before, after) ==
  \/ after \in Letter /\ before \in Punct
  \/ after \in Punct /\ before \in Letter

ReadLetter ==
  /\ status = "word" /\ WordGoesOn
  /\ letterNumber < MAX_WORD_LENGTH
  /\ word # NULL
  /\ FindOperationByDesignation(Longer) = {}
  /\ word' = Longer
  /\ symbol' = symbol + 1
  /\ letterNumber' = letterNumber + 1
  /\ status' = IF Boundary(Current, At(input, symbol + 1)) THEN "name" ELSE "word"
  /\ UNCHANGED <<input, nameTable, tokens, spelled>>

EndWord ==
  /\ status = "word" /\ ~WordGoesOn
  /\ status' = "name"
  /\ UNCHANGED <<input, symbol, word, letterNumber, nameTable, tokens, spelled>>

(* Fault: names are compared as pointers.                                     *)
FindNothing(name) == {}

(* FindValueInBuffer with CompareNames: the positions, from 0.                   *)
FindName(name) == {i \in 0..(Len(nameTable) - 1) : nameTable[i + 1] = name}

(* Fault: the index is that of the record before the found one.                  *)
IndexBefore(position) == position - 1

(* The difference of the pointers, which counts records, is divided by their      *)
(* size all the same.                                                         *)
NameIndex(position) == position \div RECORD_SIZE

(* Fault: a symbol that began no word is passed.                               *)
PassUnknown == symbol' = IF letterNumber = 0 THEN symbol + 1 ELSE symbol

AfterName == UNCHANGED symbol

(* The word is a variable, also if not a single letter was read and the buffer     *)
(* still holds an earlier word.                                               *)
ReuseName ==
  /\ status = "name"
  /\ word # NULL
  /\ \E position \in FindName(word) :
       WriteNodePointer("VARIABLE_NODE", NameIndex(position), word, symbol, "scan")
  /\ AfterName
  /\ UNCHANGED <<input, word, letterNumber, nameTable>>

AddName ==
  /\ status = "name"
  /\ word # NULL
  /\ FindName(word) = {}
  /\ nameTable' = Append(nameTable, word)
  /\ WriteNodePointer("VARIABLE_NODE", NameIndex(Len(nameTable)), word, symbol, "scan")
  /\ AfterName
  /\ UNCHANGED <<input, word, letterNumber>>

(* No memory for the name, or for its record.                                  *)
NameTableError ==
  /\ status = "name"
  /\ word # NULL
  /\ FindName(word) = {}
  /\ status' = "NAME_TABLE_ERROR"
  /\ UNCHANGED <<input, symbol, word, letterNumber, nameTable, tokens, spelled>>

(* The result of calloc for the word buffer is not looked at.                   *)
UseNoWord ==
  /\ word = NULL
  /\ \/ status = "name"
     \/ status = "word" /\ WordGoesOn /\ letterNumber < MAX_WORD_LENGTH
  /\ status' = "undefined"
  /\ UNCHANGED <<input, symbol, word, letterNumber, nameTable, tokens, spelled>>

(* Fault: the array is left without TERMINATOR.                                 *)
ReturnSilently ==
  /\ status = "scan" /\ ~InLine
  /\ status' = "NO_PARSING_ERRORS"
  /\ UNCHANGED <<input, symbol, word, letterNumber, nameTable, tokens, spelled>>

Terminate ==
  /\ status = "scan" /\ ~InLine
  /\ WriteNodePointer("TERMINATOR", NULL, <<>>, symbol, "NO_PARSING_ERRORS")
  /\ UNCHANGED <<input, symbol, word, letterNumber, nameTable>>

Next ==
  \/ SkipSpace \/ ReadNumber
  \/ BeginWord \/ WordTooLong \/ ReadOperation \/ ReadLetter \/ EndWord
  \/ ReuseName \/ AddName \/ NameTableError \/ UseNoWord
  \/ Terminate

Spec     == Init /\ [][Next]_vars
FairSpec == Spec /\ WF_vars(Next)

-----------------------------------------------------------------------------
(* The variables keep their types: the buffer never holds more than              *)
(* MAX_WORD_LENGTH letters and a variable's index is that of a record.           *)
TypeOK ==
  /\ input \in Inputs
  /\ symbol \in 1..(Len(input) + 1)
  /\ word # NULL => word \in Words /\ Len(word) <= MAX_WORD_LENGTH
  /\ letterNumber \in 0..MAX_WORD_LENGTH
  /\ nameTable \in Seq(Words)
  /\ spelled \in Seq([kind : TokenKinds, word : Words, end : 1..(Len(input) + 1)])
  /\ Len(spelled) = Len(tokens)
  /\ \A i \in DOMAIN tokens :
       /\ tokens[i].kind \in {spelled[i].kind, NULL}
       /\ IF tokens[i].kind = "VARIABLE_NODE"
          THEN tokens[i].variableIndex \in 0..(Len(nameTable) - 1)
          ELSE tokens[i].variableIndex = NULL
  /\ status \in {"scan", "word", "name", "undefined"} \cup Outcomes

Variables == {i \in DOMAIN tokens : tokens[i].kind = "VARIABLE_NODE"}

(* A word is in the name table once, however often it occurs, and every variable   *)
(* token's word is there; so a record can stand for a variable.                  *)
NamesOnce ==
  /\ \A i, j \in DOMAIN nameTable : nameTable[i] = nameTable[j] => i = j
  /\ \A i \in Variables : Cardinality(FindName(spelled[i].word)) = 1

(* Everything that prints or evaluates a variable takes the record at its index    *)
(* for the variable's own.                                                    *)
IndexNamesWord ==
  \A i \in Variables : nameTable[tokens[i].variableIndex + 1] = spelled[i].word

(* TERMINATOR, which is all that stops the parser, is only ever written last, by a   *)
(* lexer that returns normally; and such a lexer leaves TERMINATOR last or, where    *)
(* there was no memory for its node, a NULL that the parser stumbles over.          *)
TerminatorLast ==
  /\ \A i \in DOMAIN tokens :
       tokens[i].kind = "TERMINATOR" => status = "NO_PARSING_ERRORS" /\ i = Len(tokens)
  /\ status = "NO_PARSING_ERRORS" =>
       tokens # <<>> /\ tokens[Len(tokens)].kind \in {"TERMINATOR", NULL}

(* One way or the other TreeLexer returns, as memory is finite.                  *)
Termination == <>(status \in Outcomes \cup {"undefined"})

=============================================================================
