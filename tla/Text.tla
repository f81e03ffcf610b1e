-------------------------------- MODULE Text --------------------------------
(***************************************************************************)
(* The line of input as the lexer sees it: symbols in the classes of ctype.h, *)
(* the designations of the operation table, and what sscanf takes for a        *)
(* number.                                                                   *)
(***************************************************************************)
EXTENDS Operations, Sequences, FiniteSetsExt

CONSTANTS Space, Letter, Punct   (* isspace, isalpha, ispunct: sets of symbols. *)

(* isdigit; a symbol in no class is a byte that is none of these.               *)
Digit == {"0", "1", "2"}

ASSUME ClassAssumption ==
  /\ Space \cap (Letter \cup Punct \cup Digit) = {}
  /\ Letter \cap (Punct \cup Digit) = {}
  /\ Punct \cap Digit = {}

(* The designation column, TERMINATOR having none.                             *)
Designation ==
  [op \in OperationNames |->
     CASE op = "EQUALS" -> <<"=">>
       [] op = "OPEN_BRACKET"  -> <<"(">>
       [] op = "CLOSE_BRACKET" -> <<")">>
       [] op = "ADD"  -> <<"+">>
       [] op = "SUB"  -> <<"-">>
       [] op = "MUL"  -> <<"*">>
       [] op = "DIV"  -> <<"/">>
       [] op = "POW"  -> <<"^">>
       [] op = "SIN"  -> <<"s", "i", "n">>
       [] op = "COS"  -> <<"c", "o", "s">>
       [] op = "SQRT" -> <<"s", "q", "r", "t">>
       [] op = "LN"   -> <<"l", "n">>
       [] op = "EXP"  -> <<"e", "x", "p">>]

(* The operations with the designation: one or none, as no two rows share one.   *)
FindOperationByDesignation(word) == {op \in OperationNames : Designation[op] = word}

(* How many symbols from position `from' on belong to the class.                *)
RunLength(text, from, class) ==
  Max({n \in 0..(Len(text) - from + 1) : \A k \in from..(from + n - 1) : text[k] \in class})

At(text, position) == IF position <= Len(text) THEN text[position] ELSE ""

(* sscanf ("%lf%n") at a digit: the symbols it takes, 0 if it refuses them.      *)
(* After "0x" it wants a hexadecimal digit or a point; elsewhere an "e" is taken  *)
(* as the beginning of an exponent whatever follows.                           *)
NumberLength(text, at) ==
  LET HexDigit == Digit \cup {"e", "c"}
      Fraction(from, digits) ==
        LET whole == from + RunLength(text, from, digits)
        IN  IF At(text, whole) = "." THEN whole + 1 + RunLength(text, whole + 1, digits)
            ELSE whole
      Exponent(from, mark) ==
        LET sign == IF At(text, from + 1) \in {"+", "-"} THEN from + 2 ELSE from + 1
        IN  IF At(text, from) = mark THEN sign + RunLength(text, sign, Digit) ELSE from
      hexadecimal == At(text, at) = "0" /\ At(text, at + 1) = "x"
  IN  IF ~hexadecimal THEN Exponent(Fraction(at, Digit), "e") - at
      ELSE IF At(text, at + 2) \notin HexDigit \cup {"."} THEN 0
      ELSE Exponent(Fraction(at + 2, HexDigit), "p") - at

=============================================================================
