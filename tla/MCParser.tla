------------------------------ MODULE MCParser ------------------------------
(***************************************************************************)
(* Instances of Parser for TLC, and what its SyntaxAsserts say of it.          *)
(***************************************************************************)
EXTENDS Drawing, Recognition, SequencesExt

CONSTANTS
  Words,       (* The kinds of token the longest inputs are made of.         *)
  MoreWords,   (* Those that inputs shorter by one may have as well.          *)
  MaxWords,    (* Longest input.                                             *)
  MaxBroken,   (* Longest input of which the lexer loses something.          *)
  MaxOperators (* Operators of the longest bracket-free chain.               *)

(* number operator number ... number: long enough for several reassignments.   *)
Chains ==
  {[i \in 1..(2 * MaxOperators + 1) |->
      IF i % 2 = 1 THEN "NUMERIC_NODE" ELSE operators[i \div 2]] :
     operators \in [1..MaxOperators -> (Words \cup MoreWords) \cap BinaryOps]}

AllResults ==
  [words : UNION {BoundedSeq(Words, MaxWords),
                  BoundedSeq(Words \cup MoreWords, MaxWords - 1),
                  Chains},
   outcome : {"NO_PARSING_ERRORS"}]
  \cup
  [words : BoundedSeq(Words \cup {NULL}, MaxBroken), outcome : {"WORD_TOO_LONG", "LOST_ERROR"}]
  \cup
  [words : {Append(words, "TERMINATOR") : words \in {w \in BoundedSeq(Words \cup {NULL}, MaxBroken) :
                                                     \E i \in DOMAIN w : w[i] = NULL}},
   outcome : {"LOST_ERROR"}]

(* The SyntaxAsserts of GetBinaryOperation and GetSeparator refuse an operation *)
(* without a right operand and a bracket that is not closed: what is accepted  *)
(* is a sentence.                                                              *)
AcceptsOnlySentences ==
  Accepted => G!Sentences(lexed.words) # {}

=============================================================================
