----------------------------- MODULE Operations -----------------------------
(***************************************************************************)
(* The operation table of the program.  The table is an X-macro list        *)
(* (headers/Differentiator/DifferentiatorOperations.def); every file that   *)
(* includes it picks some of its columns.  This module holds the columns    *)
(* the control flow depends on: the name, the priority the parser and the   *)
(* printer compare, and the number of operands the callbacks use.           *)
(***************************************************************************)
EXTENDS Naturals

(* The functions of one argument: every callback of theirs uses `left' only. *)
FunctionOps == {"SIN", "COS", "SQRT", "LN", "EXP"}

(* The operators whose evaluation callback uses both children. *)
BinaryOps == {"ADD", "SUB", "MUL", "DIV", "POW"}

Brackets == {"OPEN_BRACKET", "CLOSE_BRACKET"}

(* Rows of the table.                                                        *)
OperationNames == {"EQUALS"} \cup Brackets \cup BinaryOps \cup FunctionOps

(* What a node, and so a token, can be: the words of an expression, and the  *)
(* TERMINATOR the lexer appends, an operation that has no row.               *)
Operands   == {"NUMERIC_NODE", "VARIABLE_NODE"}
WordKinds  == Operands \cup OperationNames
TokenKinds == WordKinds \cup {"TERMINATOR"}

Priority ==
  [op \in OperationNames |->
     CASE op \in Brackets                -> 0
       [] op = "POW"                     -> 1
       [] op \in FunctionOps             -> 2
       [] op \in {"MUL", "DIV"}          -> 3
       [] op \in {"EQUALS", "ADD", "SUB"} -> 4]

MAX_PRIORITY == 4

=============================================================================
