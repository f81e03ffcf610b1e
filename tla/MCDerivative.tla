---------------------------- MODULE MCDerivative ----------------------------
(***************************************************************************)
(* Expressions for TLC, over the integers modulo Modulus; what the report prints *)
(* of them, read with the grammar of the program.                            *)
(***************************************************************************)
EXTENDS Slopes, Expressions, TLC

CONSTANTS
  Modulus,
  Leaves,          (* Operands: variables, and the numbers "0", "1" and "2".    *)
  Operators, Functions,
  Outer,           (* The functions of the third level.                        *)
  LongestText      (* Longer texts are not read back.                           *)

ASSUME ModulusAssumption == Modulus \in Nat \ {0, 1} /\ NaN \notin Nat

Leaf == {<<leaf>> : leaf \in Leaves}
Compound(operands) ==
  {<<op, a, b>> : op \in Operators, a \in operands, b \in operands}
  \cup {<<f, a>> : f \in Functions, a \in operands}

TwoLevels ==
  LET simple == Leaf \cup Compound(Leaf)
  IN  {<<f, t>> : f \in Functions, t \in simple} \cup
      UNION {{<<op, t, u>>, <<op, u, t>>} : op \in Operators, t \in simple, u \in Leaf}

(* What a misparse leaves: an operand with a child, and EQUALS as an operation.     *)
Misparsed ==
  LET odd == {<<leaf, t>> : leaf \in Leaves, t \in Leaf}
             \cup {<<"EQUALS", t, <<variableIndex>>>> : t \in Compound(Leaf)}
  IN  odd \cup {<<f, t>> : f \in Functions, t \in odd}
      \cup {<<op, t, t>> : op \in Operators, t \in odd}

(* A result is registered by its rule, and looked at by the rule above it unless   *)
(* that is the topmost: a third level is needed to look at it again.              *)
AllExpressions ==
  {None} \cup
  {ParsedTree(t) : t \in TwoLevels \cup {<<f, t>> : f \in Outer, t \in TwoLevels}
                         \cup Misparsed}

Residue == ("0" :> 0) @@ ("1" :> 1) @@ ("2" :> 2) @@ ("-1" :> Modulus - 1)

A == INSTANCE Arithmetic
ModularResult(op, l, r) == A!Evaluated(op, l, r)

(* Every value of the variable; another variable has a value of its own.           *)
AllPoints ==
  {[v \in Variables |-> IF v = variableIndex THEN x ELSE 3 % Modulus] : x \in A!Residues}

-----------------------------------------------------------------------------
(* Reading the report.                                                         *)
W == INSTANCE Writer
G == INSTANCE Grammar

(* The tree below a node as a term of kinds, with the named nodes as variables.     *)
RECURSIVE Term(_, _, _)
Term(tree, path, suppressed) ==
  IF path \notin DOMAIN tree.label THEN <<>>
  ELSE IF ~suppressed /\ IsOperation(tree.label[path]) /\ W!Named(tree, path)
  THEN <<"VARIABLE_NODE", <<>>, <<>>>>
  ELSE <<W!Kind(tree.label[path]), Term(tree, Append(path, 1), FALSE),
         Term(tree, Append(path, 2), FALSE)>>

RECURSIVE Read(_, _)
Read(words, parsed) ==
  IF parsed = <<>> THEN <<>>
  ELSE <<words[parsed[1]], Read(words, parsed[2]), Read(words, parsed[3])>>

ReadsBackAt(tree, path) ==
  LET words == W!WriteExpressionInternal(tree)[path, TRUE]
  IN  Len(words) <= LongestText =>
        {Read(words, parsed) : parsed \in G!Sentences(words)} = {Term(tree, path, TRUE)}

(* What the report prints, by the precedence of the program's own grammar, can be   *)
(* read as the tree that was printed and as no other: the expression, and the       *)
(* derivative before it is optimized, with the definition of every R_i in it.       *)
ReadsBack ==
  IsFormula =>
    /\ ReadsBackAt(expression, <<>>)
    /\ derivative # None =>
         \A path \in {<<1>>} \cup {derivative.registered[i] : i \in DOMAIN derivative.registered} :
           ReadsBackAt(derivative, path)

=============================================================================
