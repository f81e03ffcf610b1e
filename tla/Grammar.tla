------------------------------ MODULE Grammar ------------------------------
(***************************************************************************)
(* The language the parser is written for, as a declarative definition: the  *)
(* levels of NextFunction and the priorities of the operation table.          *)
(*                                                                         *)
(*   level 4   level 3 { ("=" | "+" | "-") level 3 }     to the left          *)
(*   level 3   level 2 { ("*" | "/") level 2 }           to the left          *)
(*   level 2   level 1 | function level 1                                     *)
(*   level 1   level 0 { "^" level 0 }                   to the left          *)
(*   level 0   number | variable | "(" level 4 ")"                            *)
(*                                                                         *)
(* A span is <<first word, last word, level>>, and Trees (words) gives each span *)
(* the set of its trees.  A tree is <<index, left tree, right tree>>, <<>>      *)
(* standing for no tree, and words are indexed from 1.                        *)
(***************************************************************************)
EXTENDS Operations, Sequences

HasPriority(word, p) ==
  word \in OperationNames \ Brackets /\ Priority[word] = p

Spans(words) == (1..(Len(words) + 1)) \X (0..Len(words)) \X (0..MAX_PRIORITY)

(* The trees of words i..j at level p, from those of the spans inside it and at     *)
(* lower levels: an operand or what a pair of brackets holds, ...                *)
Primary(words, trees, i, j) ==
  (IF i = j /\ words[i] \in Operands THEN {<<i, <<>>, <<>>>>} ELSE {})
  \cup
  (IF words[i] = "OPEN_BRACKET" /\ words[j] = "CLOSE_BRACKET"
   THEN trees[<<i + 1, j - 1, MAX_PRIORITY>>] ELSE {})

(* ... a function before its argument, ...                                      *)
Application(words, trees, i, j) ==
  IF HasPriority(words[i], 2)
  THEN {<<i, arg, <<>>>> : arg \in trees[<<i + 1, j, 1>>]} ELSE {}

(* ... or an operation at k between its operands, the right one a level down.      *)
Combination(trees, i, j, p, k) ==
  {<<k, l, r>> : l \in trees[<<i, k - 1, p>>], r \in trees[<<k + 1, j, p - 1>>]}

TreesFrom(words, trees, i, j, p) ==
  IF i > j THEN {}
  ELSE IF p = 0 THEN Primary(words, trees, i, j)
  ELSE trees[<<i, j, p - 1>>] \cup
       (IF p = 2 THEN Application(words, trees, i, j)
        ELSE UNION {Combination(trees, i, j, p, k) :
                      k \in {m \in i..j : HasPriority(words[m], p)}})

Trees(words) ==
  LET trees[span \in Spans(words)] == TreesFrom(words, trees, span[1], span[2], span[3])
  IN  trees

Sentences(words) == Trees(words)[<<1, Len(words), MAX_PRIORITY>>]

=============================================================================
