----------------------------- MODULE Arithmetic -----------------------------
(***************************************************************************)
(* The evaluation callbacks of the operation table, over the integers modulo *)
(* a prime in place of doubles.  The arithmetic is exact: two expressions     *)
(* have the same value or they do not, and the laws the rules of the table    *)
(* rely on hold.  A function of the table is just a function here, and NaN     *)
(* stands for every result that is not a finite number.                      *)
(***************************************************************************)
EXTENDS Operations, Integers

CONSTANTS Modulus, NaN

Residues == 0..(Modulus - 1)

Reciprocal(r) == CHOOSE i \in Residues : (i * r) % Modulus = 1

Quotient(l, r) == IF r = 0 THEN NaN ELSE (l * Reciprocal(r)) % Modulus

(* What an operation yields on numbers.                                        *)
OnNumbers(op, l, r) ==
  CASE op = "ADD"    -> (l + r) % Modulus
    [] op = "SUB"    -> (l - r) % Modulus
    [] op = "MUL"    -> (l * r) % Modulus
    [] op = "DIV"    -> Quotient(l, r)
    [] op = "POW"    -> IF r = 0 THEN 1 ELSE (l ^ r) % Modulus
    [] op = "EQUALS" -> l
    [] op = "SIN"    -> (2 * l) % Modulus
    [] op = "COS"    -> (l * l + 1) % Modulus
    [] op = "SQRT"   -> (3 * l + 2) % Modulus
    [] op = "LN"     -> IF l = 0 THEN NaN ELSE (l + 3) % Modulus
    [] op = "EXP"    -> (2 ^ l) % Modulus

(* NaN spreads, except that pow (x, 0) and pow (1, x) are 1 for every x.          *)
Evaluated(op, l, r) ==
  IF op = "POW" /\ (r = 0 \/ l = 1) THEN 1
  ELSE IF l = NaN \/ (op \in BinaryOps /\ r = NaN) THEN NaN
  ELSE OnNumbers(op, l, r)

=============================================================================
