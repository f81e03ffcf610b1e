---------------------------- MODULE ParserProofs ----------------------------
(***************************************************************************)
(* Theorems about Parser, for every set of lexer results.                   *)
(***************************************************************************)
EXTENDS Drawing, Recognition, TLAPS, SequenceTheorems, FiniteSetTheorems

(***************************************************************************)
(* The type invariant is not inductive: a step reads the value and the node  *)
(* of the frame on top, which are NULL at other places of the call.           *)
(***************************************************************************)
FrameOK(frame) ==
  /\ frame.fn = "GetBinaryOperation" => frame.priority \in {1, 3, 4}
  /\ frame.fn = "GetUnaryOperation"  => frame.priority = 2
  /\ frame.fn = "GetSeparator"       => frame.priority = 0
  /\ frame.at \in {"loop", "second"}    => frame.value \in Nodes
  /\ frame.at \in {"second", "operand"} => frame.node \in Nodes

GoodFrames == {frame \in Frames : FrameOK(frame)}

TypeInv == TypeOK /\ stack \in Seq(GoodFrames)

-----------------------------------------------------------------------------
(* Facts about the helpers of the machine.                                    *)

(* The top of a stack and what is below it.                                  *)
LEMMA StackTop ==
  ASSUME NEW S, NEW s \in Seq(S), s # <<>>
  PROVE  /\ Len(s) \in Nat \ {0}
         /\ s[Len(s)] \in S
         /\ SubSeq(s, 1, Len(s) - 1) \in Seq(S)
<1>1. Len(s) \in Nat \ {0}
  BY EmptySeq, LenProperties
<1>2. s[Len(s)] \in S
  BY <1>1, ElementOfSeq
<1>3. \A i \in 1..(Len(s) - 1) : s[i] \in S
  BY <1>1, ElementOfSeq
<1>4. SubSeq(s, 1, Len(s) - 1) \in Seq(S)
  BY <1>1, <1>3, SubSeqProperties
<1>5. QED
  BY <1>1, <1>2, <1>4

(* No word, bracket or terminator is the null pointer.                        *)
LEMMA KindsNotNull == NULL \notin TokenKinds /\ NULL \notin Nat
  BY NullAssumption

(* The nodes are natural numbers, so none of them is NULL.                     *)
LEMMA NodesNat ==
  ASSUME lexed.words \in Seq(TokenKinds \cup {NULL})
  PROVE  Nodes \subseteq Nat /\ NULL \notin Nodes
<1>1. Len(lexed.words) \in Nat
  BY LenProperties
<1>2. Nodes \subseteq Nat
  BY <1>1 DEF Nodes, Indices
<1>3. QED
  BY <1>2, KindsNotNull

(* A call starts with a good frame.                                            *)
LEMMA FreshFrame ==
  ASSUME NEW p \in 0..MAX_PRIORITY
  PROVE  Frame(p) \in GoodFrames
<1>1. NextFunction[p] \in {"GetBinaryOperation", "GetUnaryOperation", "GetSeparator"}
      /\ (NextFunction[p] = "GetBinaryOperation" => p \in {1, 3, 4})
      /\ (NextFunction[p] = "GetUnaryOperation" => p = 2)
      /\ (NextFunction[p] = "GetSeparator" => p = 0)
  BY DEF NextFunction, MAX_PRIORITY
<1>2. QED
  BY <1>1 DEF Frame, GoodFrames, Frames, FrameOK

(* Suspending the frame on top and calling keeps the stack good.               *)
LEMMA CallKeepsStack ==
  ASSUME stack \in Seq(GoodFrames), stack # <<>>,
         NEW frame \in GoodFrames, NEW p \in 0..MAX_PRIORITY, Call(frame, p)
  PROVE  stack' \in Seq(GoodFrames) /\ result' = result
<1>1. Callers \in Seq(GoodFrames)
  BY StackTop DEF Callers
<1>2. Append(Callers, frame) \in Seq(GoodFrames)
  BY <1>1, AppendProperties
<1>3. Append(Append(Callers, frame), Frame(p)) \in Seq(GoodFrames)
  BY <1>2, FreshFrame, AppendProperties
<1>4. QED
  BY <1>3 DEF Call

(* So does replacing the frame on top ...                                    *)
LEMMA GotoKeepsStack ==
  ASSUME stack \in Seq(GoodFrames), stack # <<>>, NEW frame \in GoodFrames, Goto(frame)
  PROVE  stack' \in Seq(GoodFrames) /\ result' = result
<1>1. Callers \in Seq(GoodFrames)
  BY StackTop DEF Callers
<1>2. QED
  BY <1>1, AppendProperties DEF Goto

(* ... and removing it.                                                      *)
LEMMA ReturnKeepsStack ==
  ASSUME stack \in Seq(GoodFrames), stack # <<>>, NEW value, Return(value)
  PROVE  stack' \in Seq(GoodFrames) /\ result' = value
  BY StackTop DEF Return, Callers

(* The lexer's result is never written.                                        *)
LEMMA LexedConstant ==
  ASSUME [Next]_vars
  PROVE  lexed' = lexed /\ Indices' = Indices /\ GoodFrames' = GoodFrames
<1>1. lexed' = lexed
  BY DEF Next, vars, GetGrammar, RefuseLexerError, BeginGrammar, EndGrammar, AtTerminator,
         FinishParseFile, GetBinaryOperation, BinaryEntry, BinaryFirst, BinaryLoopEnd,
         BinaryLoopBracket, BinaryLoopTake, BinarySecond, BinarySecondFails,
         GetUnaryOperation, UnaryEntry, UnaryValue, UnaryTake, UnaryRefuse,
         UnaryOperand, GetSeparator, GetNumber, SeparatorOpen, SeparatorRefuse,
         SeparatorInnerFails, SeparatorClose, SeparatorUnclosed, ReadOutside
<1>2. Indices' = Indices
  BY <1>1 DEF Indices, Terminated
<1>3. QED
  BY <1>1, <1>2 DEF GoodFrames, Frames, FrameOK, Nodes

(* The frame on top of a suspended or starting call.                          *)
LEMMA ActiveTop ==
  ASSUME TypeInv, NEW fn, NEW at, Active(fn, at)
  PROVE  /\ status = "parsing" /\ stack # <<>> /\ stack \in Seq(GoodFrames)
         /\ Top \in Frames /\ FrameOK(Top) /\ Top.fn = fn /\ Top.at = at
  BY StackTop DEF TypeInv, Active, Top, GoodFrames

(* The frames the actions leave behind.                                       *)
LEMMA UpdatedFrames ==
  ASSUME NEW frame \in Frames, FrameOK(frame)
  PROVE  /\ \A at \in {"first", "value", "inner"} : [frame EXCEPT !.at = at] \in GoodFrames
         /\ \A v \in Nodes : [frame EXCEPT !.at = "loop", !.value = v] \in GoodFrames
         /\ \A n \in Nodes : [frame EXCEPT !.at = "operand", !.node = n] \in GoodFrames
         /\ frame.value \in Nodes =>
              \A n \in Nodes : [frame EXCEPT !.at = "second", !.node = n] \in GoodFrames
<1> USE DEF Frames, FrameOK, GoodFrames
<1>1. ASSUME NEW at \in {"first", "value", "inner"}
      PROVE  [frame EXCEPT !.at = at] \in GoodFrames
  OBVIOUS
<1>2. ASSUME NEW v \in Nodes
      PROVE  [frame EXCEPT !.at = "loop", !.value = v] \in GoodFrames
  OBVIOUS
<1>3. ASSUME NEW n \in Nodes
      PROVE  [frame EXCEPT !.at = "operand", !.node = n] \in GoodFrames
  OBVIOUS
<1>4. ASSUME frame.value \in Nodes, NEW n \in Nodes
      PROVE  [frame EXCEPT !.at = "second", !.node = n] \in GoodFrames
  BY <1>4
<1>5. QED
  BY <1>1, <1>2, <1>3, <1>4

-----------------------------------------------------------------------------
(* Type correctness.                                                          *)

(* The lexer's results have the types.                                       *)
LEMMA TypeInit == Init => TypeInv
<1> SUFFICES ASSUME Init PROVE TypeInv
  OBVIOUS
<1>1. lexed.words \in Seq(TokenKinds \cup {NULL}) /\ lexed.outcome \in LexerOutcomes
  BY LexerAssumption DEF Init
<1>2. Len(lexed.words) \in Nat
      /\ \A i \in 1..Len(lexed.words) : lexed.words[i] \in TokenKinds \cup {NULL}
  BY <1>1, LenProperties, ElementOfSeq
<1>3. tokens \in [Indices -> TokenKinds \cup {NULL}]
  BY <1>2 DEF Init, Indices, TokenKinds
<1>4. stack = <<>> /\ stack \in Seq(Frames) /\ stack \in Seq(GoodFrames)
  BY EmptySeq DEF Init
<1>5. QED
  BY <1>1, <1>3, <1>4 DEF Init, TypeInv, TypeOK

(* FinishParseFile only ever stores the tree, or NULL into every token.        *)
LEMMA FinishKeepsTypes ==
  ASSUME TypeInv, NEW tree \in Nodes \cup {NULL},
         NEW left_over \in [Indices -> TokenKinds \cup {NULL}],
         FinishParseFile(tree, left_over)
  PROVE  TypeInv'
<1>1. lexed' = lexed /\ Indices' = Indices /\ GoodFrames' = GoodFrames /\ Frames' = Frames
      /\ Nodes' = Nodes
  BY DEF FinishParseFile, Indices, Terminated, GoodFrames, Frames, FrameOK, Nodes
<1>2. tokens' \in [Indices -> TokenKinds \cup {NULL}]
  BY DEF FinishParseFile
<1>3. status' \in {"NO_DIFFERENTIATOR_ERRORS", "INPUT_FILE_ERROR"} /\ root' = tree
  BY DEF FinishParseFile
<1>4. UNCHANGED <<currentNode, stack, result, left, right, parent>>
  BY DEF FinishParseFile
<1>5. refused' \subseteq Nodes
  BY DEF FinishParseFile, Nodes
<1>6. QED
  BY <1>1, <1>2, <1>3, <1>4, <1>5 DEF TypeInv, TypeOK

(* No step breaks the type invariant.                                          *)
LEMMA TypeStep ==
  ASSUME TypeInv, [Next]_vars
  PROVE  TypeInv'
<1> USE DEF vars, links
<1>1. lexed' = lexed /\ Indices' = Indices /\ Nodes' = Nodes
      /\ Frames' = Frames /\ GoodFrames' = GoodFrames
  BY LexedConstant DEF Nodes, Frames
<1>2. ASSUME stack' \in Seq(GoodFrames)
      PROVE  stack' \in Seq(Frames)
  BY <1>2, SeqMonotonic DEF GoodFrames
<1>3. Nodes \subseteq Nat /\ NULL \notin Nodes
  BY NodesNat DEF TypeInv, TypeOK
<1>4. ASSUME tokens' \in [Indices -> TokenKinds \cup {NULL}],
             currentNode' \in Nat,
             stack' \in Seq(GoodFrames),
             result' \in Nodes \cup {NULL},
             left'   \in [Indices -> Nodes \cup {NULL}],
             right'  \in [Indices -> Nodes \cup {NULL}],
             parent' \in [Indices -> Nodes \cup {NULL}],
             depth'  \in [Indices -> Nat \ {0}],
             root' \in Nodes \cup {NULL},
             refused' = refused,
             status' \in {"parsing", "undefined"}
      PROVE  TypeInv'
  BY <1>1, <1>2, <1>4 DEF TypeInv, TypeOK
<1>5. CASE UNCHANGED vars
  BY <1>1, <1>5 DEF TypeInv, TypeOK
<1>6. CASE GetGrammar
  <2>1. CASE RefuseLexerError
    BY <2>1, FinishKeepsTypes DEF RefuseLexerError, TypeInv, TypeOK
  <2>2. CASE BeginGrammar
    <3>1. stack' \in Seq(GoodFrames)
      BY <2>2, FreshFrame, EmptySeq, AppendProperties DEF BeginGrammar, MAX_PRIORITY
    <3>2. QED
      BY <1>4, <2>2, <3>1 DEF BeginGrammar, TypeInv, TypeOK
  <2>3. CASE EndGrammar
    <3>1. [tokens EXCEPT ![currentNode] = NULL] \in [Indices -> TokenKinds \cup {NULL}]
      BY DEF TypeInv, TypeOK
    <3>2. QED
      BY <2>3, <3>1, FinishKeepsTypes DEF EndGrammar, AtTerminator, TypeInv, TypeOK
  <2>4. QED
    BY <1>6, <2>1, <2>2, <2>3 DEF GetGrammar
<1>7. CASE GetBinaryOperation
  <2>1. CASE BinaryEntry
    <3>1. /\ stack \in Seq(GoodFrames) /\ stack # <<>> /\ status = "parsing"
          /\ Top \in Frames /\ FrameOK(Top) /\ Top.priority - 1 \in 0..MAX_PRIORITY
      BY <2>1, ActiveTop DEF BinaryEntry, FrameOK, MAX_PRIORITY
    <3>2. [Top EXCEPT !.at = "first"] \in GoodFrames
      BY <3>1, UpdatedFrames
    <3>3. stack' \in Seq(GoodFrames) /\ result' = result
      BY <2>1, <3>1, <3>2, CallKeepsStack DEF BinaryEntry
    <3>4. QED
      BY <1>4, <2>1, <3>1, <3>3 DEF BinaryEntry, TypeInv, TypeOK
  <2>2. CASE BinaryFirst
    <3>1. /\ stack \in Seq(GoodFrames) /\ stack # <<>> /\ status = "parsing"
          /\ result # NULL => [Top EXCEPT !.at = "loop", !.value = result] \in GoodFrames
      BY <2>2, ActiveTop, UpdatedFrames DEF BinaryFirst, TypeInv, TypeOK
    <3>2. stack' \in Seq(GoodFrames) /\ result' \in {NULL, result}
      BY <2>2, <3>1, ReturnKeepsStack, GotoKeepsStack DEF BinaryFirst
    <3>3. QED
      BY <1>4, <2>2, <3>1, <3>2 DEF BinaryFirst, TypeInv, TypeOK
  <2>3. CASE BinaryLoopEnd
    <3>1. stack \in Seq(GoodFrames) /\ stack # <<>> /\ status = "parsing" /\ Top.value \in Nodes
      BY <2>3, ActiveTop DEF BinaryLoopEnd, FrameOK
    <3>2. stack' \in Seq(GoodFrames) /\ result' = Top.value
      BY <2>3, <3>1, ReturnKeepsStack DEF BinaryLoopEnd
    <3>3. QED
      BY <1>4, <2>3, <3>1, <3>2 DEF BinaryLoopEnd, TypeInv, TypeOK
  <2>4. CASE BinaryLoopBracket
    <3>1. stack \in Seq(GoodFrames) /\ stack # <<>> /\ status = "parsing"
      BY <2>4, ActiveTop DEF BinaryLoopBracket
    <3>2. stack' \in Seq(GoodFrames) /\ result' = NULL
      BY <2>4, <3>1, ReturnKeepsStack DEF BinaryLoopBracket
    <3>3. QED
      BY <1>4, <2>4, <3>1, <3>2 DEF BinaryLoopBracket, TypeInv, TypeOK
  <2>5. CASE BinaryLoopTake
    <3>1. /\ stack \in Seq(GoodFrames) /\ stack # <<>> /\ status = "parsing"
          /\ Top \in Frames /\ FrameOK(Top) /\ Top.value \in Nodes
          /\ Top.priority - 1 \in 0..MAX_PRIORITY
      BY <2>5, ActiveTop DEF BinaryLoopTake, FrameOK, MAX_PRIORITY
    <3>2. currentNode \in Nodes
      BY <2>5 DEF BinaryLoopTake, Readable, Nodes
    <3>3. [Top EXCEPT !.at = "second", !.node = currentNode] \in GoodFrames
      BY <3>1, <3>2, UpdatedFrames
    <3>4. stack' \in Seq(GoodFrames) /\ result' = result
      BY <2>5, <3>1, <3>3, CallKeepsStack DEF BinaryLoopTake, TakeOperation
    <3>5. QED
      BY <1>4, <2>5, <3>1, <3>2, <3>4
         DEF BinaryLoopTake, TakeOperation, Consume, Adopt, TypeInv, TypeOK, Nodes
  <2>6. CASE BinarySecond
    <3>1. /\ stack \in Seq(GoodFrames) /\ stack # <<>> /\ status = "parsing"
          /\ Top \in Frames /\ FrameOK(Top) /\ Top.value \in Nodes /\ Top.node \in Nodes
          /\ result \in Nodes
      BY <2>6, ActiveTop DEF BinarySecond, FrameOK, TypeInv, TypeOK
    <3>2. [Top EXCEPT !.at = "loop", !.value = Top.node] \in GoodFrames
      BY <3>1, UpdatedFrames
    <3>3. stack' \in Seq(GoodFrames) /\ result' = result
      BY <2>6, <3>1, <3>2, GotoKeepsStack DEF BinarySecond
    <3>4. depth[result] + depth[Top.value] \in Nat \ {0}
      BY <3>1 DEF TypeInv, TypeOK, Nodes
    <3>5. depth' \in [Indices -> Nat \ {0}]
      BY <2>6, <3>1, <3>4 DEF BinarySecond, TypeInv, TypeOK, Nodes
    <3>6. QED
      BY <1>4, <2>6, <3>1, <3>3, <3>5 DEF BinarySecond, Adopt, TypeInv, TypeOK, Nodes
  <2>7. CASE BinarySecondFails
    <3>1. stack \in Seq(GoodFrames) /\ stack # <<>> /\ status = "parsing"
      BY <2>7, ActiveTop DEF BinarySecondFails
    <3>2. stack' \in Seq(GoodFrames) /\ result' = NULL
      BY <2>7, <3>1, ReturnKeepsStack DEF BinarySecondFails
    <3>3. QED
      BY <1>4, <2>7, <3>1, <3>2 DEF BinarySecondFails, TypeInv, TypeOK
  <2>8. QED
    BY <1>7, <2>1, <2>2, <2>3, <2>4, <2>5, <2>6, <2>7 DEF GetBinaryOperation
<1>8. CASE GetUnaryOperation
  <2>1. CASE UnaryEntry
    <3>1. /\ stack \in Seq(GoodFrames) /\ stack # <<>> /\ status = "parsing"
          /\ Top \in Frames /\ FrameOK(Top) /\ Top.priority - 1 \in 0..MAX_PRIORITY
      BY <2>1, ActiveTop DEF UnaryEntry, FrameOK, MAX_PRIORITY
    <3>2. [Top EXCEPT !.at = "value"] \in GoodFrames
      BY <3>1, UpdatedFrames
    <3>3. stack' \in Seq(GoodFrames) /\ result' = result
      BY <2>1, <3>1, <3>2, CallKeepsStack DEF UnaryEntry
    <3>4. QED
      BY <1>4, <2>1, <3>1, <3>3 DEF UnaryEntry, TypeInv, TypeOK
  <2>2. CASE UnaryValue
    <3>1. stack \in Seq(GoodFrames) /\ stack # <<>> /\ status = "parsing"
      BY <2>2, ActiveTop DEF UnaryValue
    <3>2. stack' \in Seq(GoodFrames) /\ result' = result
      BY <2>2, <3>1, ReturnKeepsStack DEF UnaryValue
    <3>3. QED
      BY <1>4, <2>2, <3>1, <3>2 DEF UnaryValue, TypeInv, TypeOK
  <2>3. CASE UnaryTake
    <3>1. /\ stack \in Seq(GoodFrames) /\ stack # <<>> /\ status = "parsing"
          /\ Top \in Frames /\ FrameOK(Top) /\ Top.priority - 1 \in 0..MAX_PRIORITY
      BY <2>3, ActiveTop DEF UnaryTake, FrameOK, MAX_PRIORITY
    <3>2. currentNode \in Nodes
      BY <2>3 DEF UnaryTake, Readable, Nodes
    <3>3. [Top EXCEPT !.at = "operand", !.node = currentNode] \in GoodFrames
      BY <3>1, <3>2, UpdatedFrames
    <3>4. stack' \in Seq(GoodFrames) /\ result' = result
      BY <2>3, <3>1, <3>3, CallKeepsStack DEF UnaryTake, TakeOperation
    <3>5. QED
      BY <1>4, <2>3, <3>1, <3>4 DEF UnaryTake, TakeOperation, Consume, TypeInv, TypeOK
  <2>4. CASE UnaryRefuse
    <3>1. stack \in Seq(GoodFrames) /\ stack # <<>> /\ status = "parsing"
      BY <2>4, ActiveTop DEF UnaryRefuse
    <3>2. stack' \in Seq(GoodFrames) /\ result' = NULL
      BY <2>4, <3>1, ReturnKeepsStack DEF UnaryRefuse
    <3>3. QED
      BY <1>4, <2>4, <3>1, <3>2 DEF UnaryRefuse, TypeInv, TypeOK
  <2>5. CASE UnaryOperand
    <3>1. /\ stack \in Seq(GoodFrames) /\ stack # <<>> /\ status = "parsing"
          /\ Top.node \in Nodes
      BY <2>5, ActiveTop DEF UnaryOperand, FrameOK
    <3>2. stack' \in Seq(GoodFrames) /\ result' \in {NULL, Top.node}
      BY <2>5, <3>1, ReturnKeepsStack DEF UnaryOperand
    <3>3. /\ left' \in [Indices -> Nodes \cup {NULL}]
          /\ parent' \in [Indices -> Nodes \cup {NULL}]
          /\ depth' \in [Indices -> Nat \ {0}]
      BY <2>5, <3>1 DEF UnaryOperand, Adopt, TypeInv, TypeOK, Nodes
    <3>4. QED
      BY <1>4, <2>5, <3>1, <3>2, <3>3 DEF UnaryOperand, TypeInv, TypeOK
  <2>6. QED
    BY <1>8, <2>1, <2>2, <2>3, <2>4, <2>5 DEF GetUnaryOperation
<1>9. CASE GetSeparator
  <2>1. CASE GetNumber
    <3>1. stack \in Seq(GoodFrames) /\ stack # <<>> /\ status = "parsing"
      BY <2>1, ActiveTop DEF GetNumber
    <3>2. stack' \in Seq(GoodFrames) /\ result' = currentNode /\ currentNode \in Nodes
      BY <2>1, <3>1, ReturnKeepsStack DEF GetNumber, Readable, Nodes
    <3>3. QED
      BY <1>4, <2>1, <3>1, <3>2 DEF GetNumber, Consume, TypeInv, TypeOK
  <2>2. CASE SeparatorOpen
    <3>1. /\ stack \in Seq(GoodFrames) /\ stack # <<>> /\ status = "parsing"
          /\ Top \in Frames /\ FrameOK(Top) /\ MAX_PRIORITY \in 0..MAX_PRIORITY
      BY <2>2, ActiveTop DEF SeparatorOpen, MAX_PRIORITY
    <3>2. [Top EXCEPT !.at = "inner"] \in GoodFrames
      BY <3>1, UpdatedFrames
    <3>3. stack' \in Seq(GoodFrames) /\ result' = result
      BY <2>2, <3>1, <3>2, CallKeepsStack DEF SeparatorOpen
    <3>4. tokens' \in [Indices -> TokenKinds \cup {NULL}] /\ currentNode' \in Nat
      <4>1. tokens' = [tokens EXCEPT ![currentNode] = NULL] /\ currentNode' = currentNode + 1
        BY <2>2 DEF SeparatorOpen, Consume, DestroyToken
      <4>2. tokens \in [Indices -> TokenKinds \cup {NULL}] /\ currentNode \in Nat
        BY DEF TypeInv, TypeOK
      <4>3. [tokens EXCEPT ![currentNode] = NULL] \in [Indices -> TokenKinds \cup {NULL}]
        BY <4>2
      <4>4. currentNode + 1 \in Nat
        BY <4>2
      <4>5. QED
        BY <4>1, <4>3, <4>4
    <3>5. QED
      BY <1>4, <2>2, <3>1, <3>3, <3>4 DEF SeparatorOpen, TypeInv, TypeOK
  <2>3. CASE SeparatorRefuse
    <3>1. stack \in Seq(GoodFrames) /\ stack # <<>> /\ status = "parsing"
      BY <2>3, ActiveTop DEF SeparatorRefuse
    <3>2. stack' \in Seq(GoodFrames) /\ result' = NULL
      BY <2>3, <3>1, ReturnKeepsStack DEF SeparatorRefuse
    <3>3. QED
      BY <1>4, <2>3, <3>1, <3>2 DEF SeparatorRefuse, TypeInv, TypeOK
  <2>4. CASE SeparatorInnerFails
    <3>1. stack \in Seq(GoodFrames) /\ stack # <<>> /\ status = "parsing"
      BY <2>4, ActiveTop DEF SeparatorInnerFails
    <3>2. stack' \in Seq(GoodFrames) /\ result' = NULL
      BY <2>4, <3>1, ReturnKeepsStack DEF SeparatorInnerFails
    <3>3. QED
      BY <1>4, <2>4, <3>1, <3>2 DEF SeparatorInnerFails, TypeInv, TypeOK
  <2>5. CASE SeparatorClose
    <3>1. stack \in Seq(GoodFrames) /\ stack # <<>> /\ status = "parsing"
      BY <2>5, ActiveTop DEF SeparatorClose
    <3>2. stack' \in Seq(GoodFrames) /\ result' = result
      BY <2>5, <3>1, ReturnKeepsStack DEF SeparatorClose
    <3>3. tokens' \in [Indices -> TokenKinds \cup {NULL}] /\ currentNode' \in Nat
      <4>1. tokens' = [tokens EXCEPT ![currentNode] = NULL] /\ currentNode' = currentNode + 1
        BY <2>5 DEF SeparatorClose, Consume, DestroyToken
      <4>2. tokens \in [Indices -> TokenKinds \cup {NULL}] /\ currentNode \in Nat
        BY DEF TypeInv, TypeOK
      <4>3. [tokens EXCEPT ![currentNode] = NULL] \in [Indices -> TokenKinds \cup {NULL}]
        BY <4>2
      <4>4. currentNode + 1 \in Nat
        BY <4>2
      <4>5. QED
        BY <4>1, <4>3, <4>4
    <3>4. QED
      BY <1>4, <2>5, <3>1, <3>2, <3>3 DEF SeparatorClose, TypeInv, TypeOK
  <2>6. CASE SeparatorUnclosed
    <3>1. stack \in Seq(GoodFrames) /\ stack # <<>> /\ status = "parsing"
      BY <2>6, ActiveTop DEF SeparatorUnclosed
    <3>2. stack' \in Seq(GoodFrames) /\ result' = NULL
      BY <2>6, <3>1, ReturnKeepsStack DEF SeparatorUnclosed
    <3>3. QED
      BY <1>4, <2>6, <3>1, <3>2 DEF SeparatorUnclosed, TypeInv, TypeOK
  <2>7. QED
    BY <1>9, <2>1, <2>2, <2>3, <2>4, <2>5, <2>6 DEF GetSeparator
<1>10. CASE ReadOutside
  <2>1. status = "parsing"
    BY <1>10 DEF ReadOutside, Reading, Active
  <2>2. QED
    BY <1>4, <1>10, <2>1 DEF ReadOutside, TypeInv, TypeOK
<1>11. QED
  BY <1>5, <1>6, <1>7, <1>8, <1>9, <1>10 DEF Next

(* On every input, with any lexer failure, the fields of the tokens, the        *)
(* cursor, the stack of calls and the returned values have their types.        *)
THEOREM TypeCorrect == Spec => []TypeOK
<1>1. Init => TypeInv
  BY TypeInit
<1>2. TypeInv /\ [Next]_vars => TypeInv'
  BY TypeStep
<1>3. TypeInv => TypeOK
  BY DEF TypeInv
<1>4. QED
  BY <1>1, <1>2, <1>3, PTL DEF Spec

-----------------------------------------------------------------------------
(* The cursor.                                                                *)

Original(i) == IF i = Len(lexed.words) THEN "TERMINATOR" ELSE lexed.words[i + 1]

(* What the lexer returns normally with are words.                              *)
WordsInv == Terminated => lexed.words \in Seq(WordKinds)

(* Nothing at or after the cursor has been destroyed, and the cursor has not   *)
(* passed the terminator.                                                     *)
CursorInv ==
  /\ WordsInv
  /\ status = "lexed" => currentNode = 0
  /\ Terminated =>
       /\ status # "undefined"
       /\ status \in {"lexed", "parsing"} =>
            /\ currentNode \in 0..Len(lexed.words)
            /\ \A i \in Indices : i >= currentNode => tokens[i] = Original(i)

(* At the start no token was destroyed.                                      *)
LEMMA CursorInit == Init => CursorInv
<1> SUFFICES ASSUME Init PROVE CursorInv
  OBVIOUS
<1>1. Len(lexed.words) \in Nat
  BY TypeInit, LenProperties DEF TypeInv, TypeOK
<1>2. WordsInv
  BY LexerAssumption DEF Init, WordsInv, Terminated
<1>3. QED
  BY <1>1, <1>2 DEF Init, CursorInv, Original

(* The token under the cursor is the lexer's, and is not the last one unless   *)
(* it is the terminator.                                                      *)
LEMMA TokenUnderCursor ==
  ASSUME TypeInv, CursorInv, Terminated, status = "parsing"
  PROVE  Readable /\ (Token # "TERMINATOR" => currentNode + 1 \in 0..Len(lexed.words))
<1>1. /\ Len(lexed.words) \in Nat
      /\ \A i \in 1..Len(lexed.words) : lexed.words[i] \in WordKinds
  BY LenProperties, ElementOfSeq DEF TypeInv, TypeOK, CursorInv, WordsInv
<1>2. currentNode \in 0..Len(lexed.words) /\ currentNode \in Indices
      /\ Token = Original(currentNode)
  BY <1>1 DEF CursorInv, Indices, Token
<1>3. Original(currentNode) \in TokenKinds
  BY <1>1, <1>2 DEF Original, TokenKinds
<1>4. QED
  BY <1>1, <1>2, <1>3, KindsNotNull DEF Readable, Token, Original

(* What a step of the parser does to the cursor and to the tokens.             *)
LEMMA CursorSteps ==
  ASSUME TypeInv, status = "parsing", Next
  PROVE  \/ status' = status /\ UNCHANGED <<tokens, currentNode>>
         \/ /\ status' = status
            /\ Readable /\ Token # "TERMINATOR"
            /\ currentNode' = currentNode + 1
            /\ tokens' \in {tokens, [tokens EXCEPT ![currentNode] = NULL]}
         \/ EndGrammar /\ currentNode' = currentNode
         \/ ReadOutside /\ currentNode' = currentNode
<1>1. CASE GetGrammar
  BY <1>1 DEF GetGrammar, RefuseLexerError, BeginGrammar, EndGrammar, AtTerminator, FinishParseFile
<1>2. CASE GetBinaryOperation
  BY <1>2 DEF GetBinaryOperation, BinaryEntry, BinaryFirst, BinaryLoopEnd, BinaryLoopBracket,
              BinaryLoopTake, BinarySecond, BinarySecondFails, TakeOperation, Consume,
              OperationNames, Brackets, BinaryOps, FunctionOps
<1>3. CASE GetUnaryOperation
  BY <1>3 DEF GetUnaryOperation, UnaryEntry, UnaryValue, UnaryTake, UnaryRefuse, UnaryOperand,
              RefusedAsUnary, TakeOperation, Consume
<1>4. CASE GetSeparator
  BY <1>4 DEF GetSeparator, GetNumber, SeparatorOpen, SeparatorRefuse, SeparatorInnerFails,
              SeparatorClose, SeparatorUnclosed, Consume, DestroyToken, Operands
<1>5. CASE ReadOutside
  BY <1>5 DEF ReadOutside
<1>6. QED
  BY <1>1, <1>2, <1>3, <1>4, <1>5 DEF Next

(* A step that is not one of the parsing steps starts the parsing or refuses.   *)
LEMMA IdleSteps ==
  ASSUME TypeInv, status # "parsing", Next
  PROVE  status = "lexed" /\ (RefuseLexerError \/ BeginGrammar)
  BY DEF Next, GetGrammar, RefuseLexerError, BeginGrammar, EndGrammar, AtTerminator, GetBinaryOperation,
         BinaryEntry, BinaryFirst, BinaryLoopEnd, BinaryLoopBracket, BinaryLoopTake,
         BinarySecond, BinarySecondFails, GetUnaryOperation, UnaryEntry, UnaryValue,
         UnaryTake, UnaryRefuse, UnaryOperand, GetSeparator, GetNumber, SeparatorOpen,
         SeparatorRefuse, SeparatorInnerFails, SeparatorClose, SeparatorUnclosed,
         ReadOutside, Reading, Active

(* Every step keeps the cursor's invariant.                                  *)
LEMMA CursorStep ==
  ASSUME TypeInv, CursorInv, [Next]_vars
  PROVE  CursorInv'
<1> USE DEF vars, links
<1>1. /\ Indices' = Indices /\ Terminated' = Terminated /\ lexed' = lexed
      /\ \A i \in Indices : Original(i)' = Original(i)
      /\ (WordsInv' <=> WordsInv)
  BY LexedConstant DEF Terminated, Original, WordsInv
<1>2. CASE UNCHANGED vars
  BY <1>1, <1>2 DEF CursorInv
<1>3. CASE Next /\ status # "parsing"
  <2>1. status = "lexed" /\ (RefuseLexerError \/ BeginGrammar)
    BY <1>3, IdleSteps
  <2>2. CASE RefuseLexerError
    BY <1>1, <2>2 DEF RefuseLexerError, FinishParseFile, CursorInv
  <2>3. CASE BeginGrammar
    BY <1>1, <2>1, <2>3 DEF BeginGrammar, CursorInv
  <2>4. QED
    BY <2>1, <2>2, <2>3
<1>4. CASE Next /\ status = "parsing"
  <2>1. CASE status' = status /\ UNCHANGED <<tokens, currentNode>>
    BY <1>1, <1>4, <2>1 DEF CursorInv
  <2>2. CASE /\ status' = status
             /\ Readable /\ Token # "TERMINATOR"
             /\ currentNode' = currentNode + 1
             /\ tokens' \in {tokens, [tokens EXCEPT ![currentNode] = NULL]}
    <3>1. SUFFICES ASSUME Terminated
                   PROVE  /\ currentNode' \in 0..Len(lexed.words)
                          /\ \A i \in Indices : i >= currentNode' => tokens'[i] = Original(i)
      BY <1>1, <1>4, <2>2 DEF CursorInv
    <3>2. currentNode' \in 0..Len(lexed.words)
      BY <1>4, <2>2, <3>1, TokenUnderCursor
    <3>3. \A i \in Indices : i >= currentNode + 1 => tokens'[i] = tokens[i]
      BY <2>2 DEF TypeInv, TypeOK, Indices
    <3>4. \A i \in Indices : i >= currentNode + 1 => i >= currentNode
      BY NodesNat DEF TypeInv, TypeOK, Nodes
    <3>5. QED
      BY <1>4, <2>2, <3>1, <3>2, <3>3, <3>4 DEF CursorInv
  <2>3. CASE EndGrammar
    BY <1>1, <2>3 DEF EndGrammar, AtTerminator, FinishParseFile, CursorInv
  <2>4. CASE ReadOutside
    BY <1>1, <1>4, <2>4, TokenUnderCursor DEF ReadOutside, CursorInv
  <2>5. QED
    BY <1>4, <2>1, <2>2, <2>3, <2>4, CursorSteps
<1>5. QED
  BY <1>2, <1>3, <1>4

(* However long the input, the parser never reads past the terminator nor      *)
(* through a destroyed bracket, provided the lexer appended the terminator.    *)
THEOREM CursorSafety == Spec => []CursorSafe
<1>1. Init => TypeInv /\ CursorInv
  BY TypeInit, CursorInit
<1>2. TypeInv /\ CursorInv /\ [Next]_vars => (TypeInv /\ CursorInv)'
  BY TypeStep, CursorStep
<1>3. TypeInv /\ CursorInv => CursorSafe
  BY DEF CursorInv, CursorSafe
<1>4. QED
  BY <1>1, <1>2, <1>3, PTL DEF Spec

-----------------------------------------------------------------------------
(* The links.                                                                 *)

(* The nodes a suspended call has in its local variables.                      *)
Holds(frame, n) ==
  \/ n = frame.value /\ frame.at \in {"loop", "second"}
  \/ n = frame.node  /\ frame.at \in {"second", "operand"}

(* The calls that hold the root of a tree that nothing owns yet.               *)
HoldsRoot(frame, n) ==
  \/ n = frame.value /\ frame.at = "loop"
  \/ n = frame.node  /\ frame.at \in {"second", "operand"}

(* The call on top has just got its callee's result.                           *)
Receiving ==
  stack = <<>> \/ Top.at \in {"first", "second", "value", "operand", "inner"}

(* The tokens the cursor has not passed are bare.                              *)
FreshBare ==
  \A n \in Nodes : n >= currentNode =>
    left[n] = NULL /\ right[n] = NULL /\ parent[n] = NULL

(* What the calls hold is behind the cursor, and what an inner call holds was   *)
(* read after what the outer ones hold; the roots they hold have no owner, and *)
(* nothing hangs yet where the operand being parsed will go.                   *)
HeldRoots ==
  \A i \in 1..Len(stack) : \A n \in Nodes :
    /\ Holds(stack[i], n) => n < currentNode
    /\ HoldsRoot(stack[i], n) => parent[n] = NULL
    /\ n = stack[i].node /\ stack[i].at = "operand" => left[n] = NULL /\ right[n] = NULL
HeldInOrder ==
  \A i, j \in 1..Len(stack) : \A m, n \in Nodes :
    i < j /\ Holds(stack[i], m) /\ Holds(stack[j], n) => m < n

(* A result on its way to the caller is a root read after all the calls hold.  *)
ResultFree ==
  Receiving /\ result # NULL =>
    /\ result < currentNode
    /\ parent[result] = NULL
    /\ \A i \in 1..Len(stack) : \A n \in Nodes : Holds(stack[i], n) => n < result

LinkInv ==
  /\ LinksAgree
  /\ status = "lexed" => stack = <<>> /\ result = NULL /\ currentNode = 0
  /\ status \in {"lexed", "parsing"} => FreshBare
  /\ status = "parsing" => HeldRoots /\ HeldInOrder /\ ResultFree

(* What a step must do for the frame it leaves on top, and what it must leave   *)
(* alone for the callers.                                                     *)
Fits(frame) ==
  \A n \in Nodes :
    /\ Holds(frame, n) =>
         /\ n < currentNode'
         /\ \A i \in 1..(Len(stack) - 1) : \A m \in Nodes : Holds(stack[i], m) => m < n
    /\ HoldsRoot(frame, n) => parent'[n] = NULL
    /\ n = frame.node /\ frame.at = "operand" => left'[n] = NULL /\ right'[n] = NULL
CallersSpared ==
  \A i \in 1..(Len(stack) - 1) : \A n \in Nodes :
    Holds(stack[i], n) => /\ parent'[n] = parent[n]
                          /\ left'[n] = left[n]
                          /\ right'[n] = right[n]
Parsed ==
  /\ TypeInv /\ LinkInv /\ status = "parsing" /\ stack # <<>>
  /\ status' = "parsing" /\ lexed' = lexed /\ Indices' = Indices
  /\ currentNode' \in {currentNode, currentNode + 1}
  /\ LinksAgree' /\ FreshBare' /\ CallersSpared

(* The callers are the frames below the top.                                    *)
LEMMA CallersShape ==
  ASSUME stack \in Seq(GoodFrames), stack # <<>>
  PROVE  /\ Len(stack) \in Nat \ {0} /\ Callers \in Seq(GoodFrames)
         /\ Len(Callers) = Len(stack) - 1
         /\ \A i \in 1..(Len(stack) - 1) : Callers[i] = stack[i]
<1>1. Len(stack) \in Nat \ {0}
  BY StackTop
<1>2. \A i \in 1..(Len(stack) - 1) : stack[i] \in GoodFrames
  BY <1>1, ElementOfSeq
<1>3. /\ Len(SubSeq(stack, 1, Len(stack) - 1)) =
           IF 1 <= Len(stack) - 1 THEN Len(stack) - 1 - 1 + 1 ELSE 0
      /\ \A i \in 1..(Len(stack) - 1 - 1 + 1) :
           SubSeq(stack, 1, Len(stack) - 1)[i] = stack[1 + i - 1]
      /\ SubSeq(stack, 1, Len(stack) - 1) \in Seq(GoodFrames)
  BY <1>1, <1>2, SubSeqProperties
<1>4. ASSUME NEW i \in 1..(Len(stack) - 1)
      PROVE  SubSeq(stack, 1, Len(stack) - 1)[i] = stack[i]
  <2>1. i \in 1..(Len(stack) - 1 - 1 + 1) /\ 1 + i - 1 = i
    BY <1>1
  <2>2. QED
    BY <1>3, <2>1
<1>5. Len(SubSeq(stack, 1, Len(stack) - 1)) = Len(stack) - 1
  <2>1. \A k \in Nat \ {0} : (IF 1 <= k - 1 THEN k - 1 - 1 + 1 ELSE 0) = k - 1
    OBVIOUS
  <2>2. QED
    BY <1>1, <1>3, <2>1
<1>6. QED
  BY <1>1, <1>3, <1>4, <1>5 DEF Callers

(* The stack a call, a suspension and a return leave behind.                    *)
LEMMA CallShape ==
  ASSUME stack \in Seq(GoodFrames), stack # <<>>,
         NEW frame \in GoodFrames, NEW p \in 0..MAX_PRIORITY, Call(frame, p)
  PROVE  /\ Len(stack) \in Nat \ {0} /\ Len(stack') = Len(stack) + 1
         /\ stack'[Len(stack)] = frame /\ stack'[Len(stack) + 1] = Frame(p)
         /\ \A i \in 1..(Len(stack) - 1) : stack'[i] = stack[i]
<1>1. /\ Len(stack) \in Nat \ {0} /\ Callers \in Seq(GoodFrames)
      /\ Len(Callers) = Len(stack) - 1
      /\ \A i \in 1..(Len(stack) - 1) : Callers[i] = stack[i]
  BY CallersShape
<1>2. /\ Append(Callers, frame) \in Seq(GoodFrames) /\ Len(Append(Callers, frame)) = Len(stack)
      /\ Append(Callers, frame)[Len(stack)] = frame
      /\ \A i \in 1..(Len(stack) - 1) : Append(Callers, frame)[i] = stack[i]
  BY <1>1, AppendProperties
<1>3. Frame(p) \in GoodFrames
  BY FreshFrame
<1>4. QED
  BY <1>1, <1>2, <1>3, AppendProperties DEF Call

(* The frames after the one on top is replaced.                              *)
LEMMA GotoShape ==
  ASSUME stack \in Seq(GoodFrames), stack # <<>>, NEW frame \in GoodFrames, Goto(frame)
  PROVE  /\ Len(stack) \in Nat \ {0} /\ Len(stack') = Len(stack)
         /\ stack'[Len(stack)] = frame
         /\ \A i \in 1..(Len(stack) - 1) : stack'[i] = stack[i]
<1>1. /\ Len(stack) \in Nat \ {0} /\ Callers \in Seq(GoodFrames)
      /\ Len(Callers) = Len(stack) - 1
      /\ \A i \in 1..(Len(stack) - 1) : Callers[i] = stack[i]
  BY CallersShape
<1>2. QED
  BY <1>1, AppendProperties DEF Goto

(* The frames after a return.                                                *)
LEMMA ReturnShape ==
  ASSUME stack \in Seq(GoodFrames), stack # <<>>, NEW value, Return(value)
  PROVE  /\ Len(stack) \in Nat \ {0} /\ Len(stack') = Len(stack) - 1
         /\ \A i \in 1..(Len(stack) - 1) : stack'[i] = stack[i]
  BY CallersShape DEF Return

(* A call keeps the invariant if the caller's frame fits: the callee holds      *)
(* nothing yet.                                                               *)
LEMMA CallKeepsLinks ==
  ASSUME Parsed, NEW frame \in GoodFrames, NEW p \in 0..MAX_PRIORITY, Call(frame, p),
         Fits(frame)
  PROVE  LinkInv'
<1>1. /\ Len(stack) \in Nat \ {0} /\ Len(stack') = Len(stack) + 1
      /\ stack'[Len(stack)] = frame /\ stack'[Len(stack) + 1] = Frame(p)
      /\ \A i \in 1..(Len(stack) - 1) : stack'[i] = stack[i]
  BY CallShape DEF Parsed, TypeInv
<1>2. Nodes' = Nodes /\ Nodes \subseteq Nat /\ currentNode \in Nat
  BY NodesNat DEF Parsed, TypeInv, TypeOK, Nodes
<1>3. Frame(p).at = "entry"
  BY DEF Frame
<1>4. \A n : ~Holds(Frame(p), n) /\ ~HoldsRoot(Frame(p), n)
  BY <1>3 DEF Holds, HoldsRoot
<1>5. HeldRoots /\ HeldInOrder
  BY DEF Parsed, LinkInv
<1>6. HeldRoots'
  <2> SUFFICES ASSUME NEW i \in 1..(Len(stack) + 1), NEW n \in Nodes
               PROVE  /\ Holds(stack'[i], n) => n < currentNode'
                      /\ HoldsRoot(stack'[i], n) => parent'[n] = NULL
                      /\ n = stack'[i].node /\ stack'[i].at = "operand" =>
                           left'[n] = NULL /\ right'[n] = NULL
    BY <1>1, <1>2 DEF HeldRoots, Holds, HoldsRoot
  <2>1. CASE i = Len(stack) + 1
    BY <1>1, <1>3, <1>4, <2>1
  <2>2. CASE i = Len(stack)
    BY <1>1, <2>2 DEF Fits
  <2>3. CASE i \in 1..(Len(stack) - 1)
    <3>1. stack'[i] = stack[i] /\ i \in 1..Len(stack)
      BY <1>1, <2>3
    <3>2. Holds(stack[i], n) => n < currentNode
      BY <1>5, <3>1 DEF HeldRoots
    <3>3. HoldsRoot(stack[i], n) => parent'[n] = NULL
      BY <1>5, <2>3, <3>1 DEF HeldRoots, Parsed, CallersSpared, HoldsRoot, Holds
    <3>4. n = stack[i].node /\ stack[i].at = "operand" => left'[n] = NULL /\ right'[n] = NULL
      BY <1>5, <2>3, <3>1 DEF HeldRoots, Parsed, CallersSpared, Holds
    <3>5. currentNode <= currentNode'
      BY <1>2 DEF Parsed
    <3>6. QED
      BY <1>2, <3>1, <3>2, <3>3, <3>4, <3>5 DEF Parsed
  <2>4. QED
    BY <1>1, <2>1, <2>2, <2>3
<1>7. HeldInOrder'
  <2> SUFFICES ASSUME NEW i \in 1..(Len(stack) + 1), NEW j \in 1..(Len(stack) + 1),
                      NEW m \in Nodes, NEW n \in Nodes, i < j,
                      Holds(stack'[i], m), Holds(stack'[j], n)
               PROVE  m < n
    BY <1>1, <1>2 DEF HeldInOrder, Holds
  <2>1. j # Len(stack) + 1
    BY <1>1, <1>4
  <2>2. i \in 1..(Len(stack) - 1) /\ stack'[i] = stack[i]
    BY <1>1, <2>1
  <2>3. CASE j = Len(stack)
    BY <1>1, <2>2, <2>3 DEF Fits
  <2>4. CASE j # Len(stack)
    <3>1. j \in 1..(Len(stack) - 1) /\ stack'[j] = stack[j]
      BY <1>1, <2>1, <2>4
    <3>2. i \in 1..Len(stack) /\ j \in 1..Len(stack)
      BY <1>1, <2>2, <3>1
    <3>3. QED
      BY <1>5, <2>2, <3>1, <3>2 DEF HeldInOrder
  <2>5. QED
    BY <2>3, <2>4
<1>8. ~Receiving'
  BY <1>1, <1>3 DEF Receiving, Top
<1>9. QED
  BY <1>6, <1>7, <1>8 DEF LinkInv, ResultFree, Parsed

(* Keeping a value in a local variable.                                        *)
LEMMA GotoKeepsLinks ==
  ASSUME Parsed, NEW frame \in GoodFrames, Goto(frame), Fits(frame), frame.at = "loop"
  PROVE  LinkInv'
<1>1. /\ Len(stack) \in Nat \ {0} /\ Len(stack') = Len(stack)
      /\ stack'[Len(stack)] = frame
      /\ \A i \in 1..(Len(stack) - 1) : stack'[i] = stack[i]
  BY GotoShape DEF Parsed, TypeInv
<1>2. Nodes' = Nodes /\ Nodes \subseteq Nat /\ currentNode \in Nat
  BY NodesNat DEF Parsed, TypeInv, TypeOK, Nodes
<1>3. HeldRoots /\ HeldInOrder
  BY DEF Parsed, LinkInv
<1>4. HeldRoots'
  <2> SUFFICES ASSUME NEW i \in 1..Len(stack), NEW n \in Nodes
               PROVE  /\ Holds(stack'[i], n) => n < currentNode'
                      /\ HoldsRoot(stack'[i], n) => parent'[n] = NULL
                      /\ n = stack'[i].node /\ stack'[i].at = "operand" =>
                           left'[n] = NULL /\ right'[n] = NULL
    BY <1>1, <1>2 DEF HeldRoots, Holds, HoldsRoot
  <2>1. CASE i = Len(stack)
    BY <1>1, <2>1 DEF Fits
  <2>2. CASE i \in 1..(Len(stack) - 1)
    <3>1. stack'[i] = stack[i]
      BY <1>1, <2>2
    <3>2. Holds(stack[i], n) => n < currentNode
      BY <1>3 DEF HeldRoots
    <3>3. HoldsRoot(stack[i], n) => parent'[n] = NULL
      BY <1>3, <2>2 DEF HeldRoots, Parsed, CallersSpared, HoldsRoot, Holds
    <3>4. n = stack[i].node /\ stack[i].at = "operand" => left'[n] = NULL /\ right'[n] = NULL
      BY <1>3, <2>2 DEF HeldRoots, Parsed, CallersSpared, Holds
    <3>5. currentNode <= currentNode'
      BY <1>2 DEF Parsed
    <3>6. QED
      BY <1>2, <3>1, <3>2, <3>3, <3>4, <3>5 DEF Parsed
  <2>3. QED
    BY <1>1, <2>1, <2>2
<1>5. HeldInOrder'
  <2> SUFFICES ASSUME NEW i \in 1..Len(stack), NEW j \in 1..Len(stack),
                      NEW m \in Nodes, NEW n \in Nodes, i < j,
                      Holds(stack'[i], m), Holds(stack'[j], n)
               PROVE  m < n
    BY <1>1, <1>2 DEF HeldInOrder, Holds
  <2>1. i \in 1..(Len(stack) - 1) /\ stack'[i] = stack[i]
    BY <1>1
  <2>2. CASE j = Len(stack)
    BY <1>1, <2>1, <2>2 DEF Fits
  <2>3. CASE j # Len(stack)
    <3>1. stack'[j] = stack[j]
      BY <1>1, <2>3
    <3>2. QED
      BY <1>3, <2>1, <3>1 DEF HeldInOrder
  <2>4. QED
    BY <2>2, <2>3
<1>6. ~Receiving'
  <2>1. stack' # <<>>
    BY <1>1
  <2>2. QED
    BY <1>1, <2>1 DEF Receiving, Top
<1>7. QED
  BY <1>4, <1>5, <1>6 DEF LinkInv, ResultFree, Parsed

(* Returning a root read after everything the callers hold, or NULL.            *)
LEMMA ReturnKeepsLinks ==
  ASSUME Parsed, NEW value \in Nodes \cup {NULL}, Return(value),
         value # NULL =>
           /\ value < currentNode'
           /\ parent'[value] = NULL
           /\ \A i \in 1..(Len(stack) - 1) : \A n \in Nodes : Holds(stack[i], n) => n < value
  PROVE  LinkInv'
<1>1. /\ Len(stack) \in Nat \ {0} /\ Len(stack') = Len(stack) - 1
      /\ \A i \in 1..(Len(stack) - 1) : stack'[i] = stack[i]
  BY ReturnShape DEF Parsed, TypeInv
<1>2. Nodes' = Nodes /\ Nodes \subseteq Nat /\ currentNode \in Nat
  BY NodesNat DEF Parsed, TypeInv, TypeOK, Nodes
<1>3. HeldRoots /\ HeldInOrder
  BY DEF Parsed, LinkInv
<1>4. HeldRoots'
  <2> SUFFICES ASSUME NEW i \in 1..(Len(stack) - 1), NEW n \in Nodes
               PROVE  /\ Holds(stack[i], n) => n < currentNode'
                      /\ HoldsRoot(stack[i], n) => parent'[n] = NULL
                      /\ n = stack[i].node /\ stack[i].at = "operand" =>
                           left'[n] = NULL /\ right'[n] = NULL
    BY <1>1, <1>2 DEF HeldRoots, Holds, HoldsRoot
  <2>1. i \in 1..Len(stack)
    BY <1>1
  <2>2. Holds(stack[i], n) => n < currentNode
    BY <1>3, <2>1 DEF HeldRoots
  <2>3. HoldsRoot(stack[i], n) => parent'[n] = NULL
    BY <1>3, <2>1 DEF HeldRoots, Parsed, CallersSpared, HoldsRoot, Holds
  <2>4. n = stack[i].node /\ stack[i].at = "operand" => left'[n] = NULL /\ right'[n] = NULL
    BY <1>3, <2>1 DEF HeldRoots, Parsed, CallersSpared, Holds
  <2>5. currentNode <= currentNode'
    BY <1>2 DEF Parsed
  <2>6. QED
    BY <1>2, <2>2, <2>3, <2>4, <2>5 DEF Parsed
<1>5. HeldInOrder'
  <2> SUFFICES ASSUME NEW i \in 1..(Len(stack) - 1), NEW j \in 1..(Len(stack) - 1),
                      NEW m \in Nodes, NEW n \in Nodes, i < j,
                      Holds(stack'[i], m), Holds(stack'[j], n)
               PROVE  m < n
    BY <1>1, <1>2 DEF HeldInOrder, Holds
  <2>1. /\ i \in 1..Len(stack) /\ stack'[i] = stack[i]
        /\ j \in 1..Len(stack) /\ stack'[j] = stack[j]
    BY <1>1
  <2>2. QED
    BY <1>3, <2>1 DEF HeldInOrder
<1>6. ResultFree'
  BY <1>1, <1>2 DEF ResultFree, Return, Holds
<1>7. QED
  BY <1>4, <1>5, <1>6 DEF LinkInv, Parsed

(* At the start nothing is linked.                                           *)
LEMMA LinkInit == Init => LinkInv
<1> SUFFICES ASSUME Init PROVE LinkInv
  OBVIOUS
<1>1. \A n \in Nodes : left[n] = NULL /\ right[n] = NULL /\ parent[n] = NULL
  BY DEF Init, Nodes
<1>2. QED
  BY <1>1 DEF Init, LinkInv, LinksAgree, FreshBare

(* Each parsing step keeps the invariant.                                      *)
LEMMA LinkParsing ==
  ASSUME TypeInv, LinkInv, status = "parsing",
         GetBinaryOperation \/ GetUnaryOperation \/ GetSeparator
  PROVE  LinkInv'
<1> USE DEF links
<1>1. /\ lexed' = lexed /\ Indices' = Indices /\ Nodes' = Nodes
      /\ Nodes \subseteq Nat /\ NULL \notin Nodes
      /\ currentNode \in Nat /\ currentNode + 1 > currentNode
      /\ result \in Nodes \cup {NULL}
      /\ left \in [Nodes -> Nodes \cup {NULL}] /\ right \in [Nodes -> Nodes \cup {NULL}]
      /\ parent \in [Nodes -> Nodes \cup {NULL}]
  BY LexedConstant, NodesNat DEF TypeInv, TypeOK, Nodes, Next
<1>2. LinksAgree /\ FreshBare /\ HeldRoots /\ HeldInOrder /\ ResultFree
  BY DEF LinkInv
(* A step that leaves the links alone only has to account for the stack.        *)
<1>3. ASSUME stack # <<>>, status' = "parsing", UNCHANGED <<left, right, parent>>,
             currentNode' \in {currentNode, currentNode + 1}
      PROVE  Parsed
  <2>1. LinksAgree'
    BY <1>1, <1>2, <1>3 DEF LinksAgree
  <2>2. FreshBare'
    <3> SUFFICES ASSUME NEW n \in Nodes, n >= currentNode'
                 PROVE  left[n] = NULL /\ right[n] = NULL /\ parent[n] = NULL
      BY <1>1, <1>3 DEF FreshBare
    <3>1. n >= currentNode
      BY <1>1, <1>3
    <3>2. QED
      BY <1>2, <3>1 DEF FreshBare
  <2>3. CallersSpared
    BY <1>3 DEF CallersSpared
  <2>4. QED
    BY <1>1, <1>3, <2>1, <2>2, <2>3 DEF Parsed
(* What a receiving call got is a root above everything that is held.           *)
<1>4. ASSUME stack # <<>>, Receiving, result # NULL
      PROVE  /\ result \in Nodes /\ result < currentNode /\ parent[result] = NULL
             /\ \A i \in 1..Len(stack) : \A n \in Nodes : Holds(stack[i], n) => n < result
  BY <1>1, <1>2, <1>4 DEF ResultFree
<1>5. ASSUME stack # <<>>
      PROVE  /\ Len(stack) \in 1..Len(stack)
             /\ \A i \in 1..(Len(stack) - 1) : i \in 1..Len(stack) /\ i < Len(stack)
  <2>1. Len(stack) \in Nat \ {0}
    BY <1>5, StackTop DEF TypeInv
  <2>2. QED
    BY <2>1
<1>6. CASE GetBinaryOperation
  <2>1. CASE BinaryEntry
    <3>1. /\ stack \in Seq(GoodFrames) /\ stack # <<>> /\ Top \in Frames /\ FrameOK(Top)
          /\ Top.priority - 1 \in 0..MAX_PRIORITY
      BY <2>1, ActiveTop DEF BinaryEntry, FrameOK, MAX_PRIORITY
    <3>2. /\ [Top EXCEPT !.at = "first"] \in GoodFrames
          /\ [Top EXCEPT !.at = "first"].at = "first"
      BY <3>1, UpdatedFrames DEF Frames
    <3>3. Fits([Top EXCEPT !.at = "first"])
      BY <3>2 DEF Fits, Holds, HoldsRoot
    <3>4. Parsed
      BY <1>3, <2>1, <3>1 DEF BinaryEntry
    <3>5. QED
      BY <2>1, <3>1, <3>2, <3>3, <3>4, CallKeepsLinks DEF BinaryEntry
  <2>2. CASE BinaryFirst
    <3>1. /\ stack # <<>> /\ Top \in Frames /\ FrameOK(Top) /\ Receiving
      BY <2>2, ActiveTop DEF BinaryFirst, Receiving
    <3>2. Parsed
      BY <1>3, <2>2, <3>1 DEF BinaryFirst
    <3>3. CASE result = NULL
      BY <2>2, <3>2, <3>3, ReturnKeepsLinks DEF BinaryFirst
    <3>4. CASE result # NULL
      <4> DEFINE frame == [Top EXCEPT !.at = "loop", !.value = result]
      <4>1. frame \in GoodFrames /\ frame.at = "loop" /\ frame.value = result
        BY <1>1, <3>1, <3>4, UpdatedFrames DEF Frames
      <4>2. \A n : Holds(frame, n) \/ HoldsRoot(frame, n) => n = result
        BY <4>1 DEF Holds, HoldsRoot
      <4>3. Fits(frame)
        BY <1>1, <1>4, <1>5, <2>2, <3>1, <3>4, <4>1, <4>2 DEF Fits, BinaryFirst
      <4>4. QED
        BY <2>2, <3>2, <3>4, <4>1, <4>3, GotoKeepsLinks DEF BinaryFirst
    <3>5. QED
      BY <3>3, <3>4
  <2>3. CASE BinaryLoopEnd
    <3>1. /\ stack # <<>> /\ Return(Top.value) /\ Top.value \in Nodes
          /\ Holds(Top, Top.value) /\ HoldsRoot(Top, Top.value)
      BY <2>3, ActiveTop DEF BinaryLoopEnd, FrameOK, Holds, HoldsRoot
    <3>2. Parsed
      BY <1>3, <2>3, <3>1 DEF BinaryLoopEnd
    <3>3. /\ Top.value < currentNode' /\ parent'[Top.value] = NULL
          /\ \A i \in 1..(Len(stack) - 1) : \A n \in Nodes : Holds(stack[i], n) => n < Top.value
      BY <1>2, <1>5, <2>3, <3>1 DEF BinaryLoopEnd, HeldRoots, HeldInOrder, Top
    <3>4. QED
      BY <3>1, <3>2, <3>3, ReturnKeepsLinks
  <2>4. CASE BinaryLoopBracket
    <3>1. stack # <<>> /\ Return(NULL)
      BY <2>4, ActiveTop DEF BinaryLoopBracket
    <3>2. Parsed
      BY <1>3, <2>4, <3>1 DEF BinaryLoopBracket
    <3>3. QED
      BY <3>1, <3>2, ReturnKeepsLinks
  <2>5. CASE BinaryLoopTake
    <3> DEFINE frame == [Top EXCEPT !.at = "second", !.node = currentNode]
    <3>1. /\ stack # <<>> /\ Top \in Frames /\ FrameOK(Top)
          /\ Top.value \in Nodes /\ Top.priority - 1 \in 0..MAX_PRIORITY
          /\ Holds(Top, Top.value) /\ HoldsRoot(Top, Top.value)
      BY <2>5, ActiveTop DEF BinaryLoopTake, FrameOK, Holds, HoldsRoot, MAX_PRIORITY
    <3>2. /\ Top.value < currentNode /\ parent[Top.value] = NULL
          /\ \A i \in 1..(Len(stack) - 1) : \A n \in Nodes :
               Holds(stack[i], n) => n < Top.value /\ n < currentNode
      BY <1>2, <1>5, <3>1 DEF HeldRoots, HeldInOrder, Top
    <3>3. /\ currentNode \in Nodes /\ currentNode' = currentNode + 1
          /\ left[currentNode] = NULL /\ right[currentNode] = NULL /\ parent[currentNode] = NULL
      BY <1>1, <1>2, <2>5 DEF BinaryLoopTake, TakeOperation, Consume, Readable, Nodes, FreshBare
    <3>4. /\ left' = [left EXCEPT ![currentNode] = Top.value]
          /\ parent' = [parent EXCEPT ![Top.value] = currentNode]
          /\ right' = right /\ status' = status /\ Call(frame, Top.priority - 1)
      BY <2>5 DEF BinaryLoopTake, TakeOperation, Adopt
    <3>5. LinksAgree'
      <4> SUFFICES ASSUME NEW n \in Nodes, NEW child \in {left'[n], right'[n]}, child # NULL
                   PROVE  parent'[child] = n /\ left'[n] # right'[n]
        BY <1>1 DEF LinksAgree
      <4>1. CASE n = currentNode
        BY <1>1, <3>1, <3>3, <3>4, <4>1
      <4>2. CASE n # currentNode
        <5>1. /\ child \in {left[n], right[n]} /\ child \in Nodes
              /\ left'[n] = left[n] /\ right'[n] = right[n]
          BY <1>1, <3>4, <4>2
        <5>2. parent[child] = n /\ left[n] # right[n]
          BY <1>2, <5>1 DEF LinksAgree
        <5>3. child # Top.value
          BY <1>1, <3>2, <5>2
        <5>4. QED
          BY <1>1, <3>1, <3>4, <5>1, <5>2, <5>3
      <4>3. QED
        BY <4>1, <4>2
    <3>6. FreshBare'
      <4> SUFFICES ASSUME NEW n \in Nodes, n >= currentNode + 1
                   PROVE  left'[n] = NULL /\ right'[n] = NULL /\ parent'[n] = NULL
        BY <1>1, <3>3 DEF FreshBare
      <4>1. n >= currentNode /\ n # currentNode /\ n # Top.value
        BY <1>1, <3>1, <3>2
      <4>2. QED
        BY <1>1, <1>2, <3>4, <4>1 DEF FreshBare
    <3>7. CallersSpared
      <4> SUFFICES ASSUME NEW i \in 1..(Len(stack) - 1), NEW n \in Nodes, Holds(stack[i], n)
                   PROVE  parent'[n] = parent[n] /\ left'[n] = left[n] /\ right'[n] = right[n]
        BY DEF CallersSpared
      <4>1. n # Top.value /\ n # currentNode
        BY <1>1, <3>1, <3>2
      <4>2. QED
        BY <1>1, <3>4, <4>1
    <3>8. Parsed
      BY <1>1, <3>1, <3>3, <3>4, <3>5, <3>6, <3>7 DEF Parsed
    <3>9. /\ frame \in GoodFrames /\ frame.at = "second"
          /\ frame.value = Top.value /\ frame.node = currentNode
      BY <3>1, <3>3, UpdatedFrames DEF Frames
    <3>10. Fits(frame)
      <4> SUFFICES ASSUME NEW n \in Nodes, Holds(frame, n) \/ HoldsRoot(frame, n)
                   PROVE  /\ n < currentNode'
                          /\ \A i \in 1..(Len(stack) - 1) : \A m \in Nodes :
                               Holds(stack[i], m) => m < n
                          /\ HoldsRoot(frame, n) => parent'[n] = NULL
        BY <3>9 DEF Fits
      <4>1. n = Top.value \/ n = currentNode
        BY <3>9 DEF Holds, HoldsRoot
      <4>2. n < currentNode'
        BY <1>1, <3>1, <3>2, <3>3, <4>1
      <4>3. HoldsRoot(frame, n) => parent'[n] = NULL
        <5>1. HoldsRoot(frame, n) => n = currentNode
          BY <3>9 DEF HoldsRoot
        <5>2. currentNode # Top.value
          BY <1>1, <3>1, <3>2
        <5>3. QED
          BY <1>1, <3>3, <3>4, <5>1, <5>2
      <4>4. QED
        BY <3>2, <4>1, <4>2, <4>3
    <3>11. QED
      BY <3>1, <3>4, <3>8, <3>9, <3>10, CallKeepsLinks
  <2>6. CASE BinarySecond
    <3> DEFINE frame == [Top EXCEPT !.at = "loop", !.value = Top.node]
    <3>1. /\ stack # <<>> /\ Top \in Frames /\ FrameOK(Top) /\ Receiving /\ result # NULL
          /\ Top.node \in Nodes /\ Holds(Top, Top.node) /\ HoldsRoot(Top, Top.node)
      BY <2>6, ActiveTop DEF BinarySecond, FrameOK, Holds, HoldsRoot, Receiving
    <3>2. /\ result \in Nodes /\ parent[result] = NULL
          /\ Top.node < result /\ Top.node < currentNode /\ parent[Top.node] = NULL
          /\ \A i \in 1..(Len(stack) - 1) : \A n \in Nodes :
               Holds(stack[i], n) => n < Top.node /\ n < result
      BY <1>2, <1>4, <1>5, <3>1 DEF HeldRoots, HeldInOrder, Top
    <3>3. /\ right' = [right EXCEPT ![Top.node] = result]
          /\ parent' = [parent EXCEPT ![result] = Top.node]
          /\ left' = left /\ status' = status /\ Goto(frame) /\ currentNode' = currentNode
      BY <2>6 DEF BinarySecond, Adopt
    <3>4. LinksAgree'
      <4> SUFFICES ASSUME NEW n \in Nodes, NEW child \in {left'[n], right'[n]}, child # NULL
                   PROVE  parent'[child] = n /\ left'[n] # right'[n]
        BY <1>1 DEF LinksAgree
      <4>1. \A m \in Nodes : result \notin {left[m], right[m]}
        BY <1>1, <1>2, <3>1, <3>2 DEF LinksAgree
      <4>2. CASE child = result
        BY <1>1, <3>1, <3>2, <3>3, <4>1, <4>2
      <4>3. CASE child # result
        BY <1>1, <1>2, <3>1, <3>2, <3>3, <4>1, <4>3 DEF LinksAgree
      <4>4. QED
        BY <4>2, <4>3
    <3>5. FreshBare'
      <4> SUFFICES ASSUME NEW n \in Nodes, n >= currentNode
                   PROVE  left'[n] = NULL /\ right'[n] = NULL /\ parent'[n] = NULL
        BY <1>1, <3>3 DEF FreshBare
      <4>1. n # Top.node /\ n # result
        BY <1>1, <1>4, <3>1, <3>2
      <4>2. QED
        BY <1>1, <1>2, <3>3, <4>1 DEF FreshBare
    <3>6. CallersSpared
      <4> SUFFICES ASSUME NEW i \in 1..(Len(stack) - 1), NEW n \in Nodes, Holds(stack[i], n)
                   PROVE  parent'[n] = parent[n] /\ left'[n] = left[n] /\ right'[n] = right[n]
        BY DEF CallersSpared
      <4>1. n # Top.node /\ n # result
        BY <1>1, <3>1, <3>2
      <4>2. QED
        BY <1>1, <3>3, <4>1
    <3>7. Parsed
      BY <1>1, <3>1, <3>3, <3>4, <3>5, <3>6 DEF Parsed
    <3>8. frame \in GoodFrames /\ frame.at = "loop" /\ frame.value = Top.node
      BY <3>1, UpdatedFrames DEF Frames
    <3>9. \A n : Holds(frame, n) \/ HoldsRoot(frame, n) => n = Top.node
      BY <3>8 DEF Holds, HoldsRoot
    <3>10. parent'[Top.node] = NULL
      BY <1>1, <3>1, <3>2, <3>3
    <3>11. Fits(frame)
      BY <3>2, <3>3, <3>8, <3>9, <3>10 DEF Fits
    <3>12. QED
      BY <3>3, <3>7, <3>8, <3>11, GotoKeepsLinks
  <2>7. CASE BinarySecondFails
    <3>1. stack # <<>> /\ Return(NULL)
      BY <2>7, ActiveTop DEF BinarySecondFails
    <3>2. Parsed
      BY <1>3, <2>7, <3>1 DEF BinarySecondFails
    <3>3. QED
      BY <3>1, <3>2, ReturnKeepsLinks
  <2>8. QED
    BY <1>6, <2>1, <2>2, <2>3, <2>4, <2>5, <2>6, <2>7 DEF GetBinaryOperation
<1>7. CASE GetUnaryOperation
  <2>1. CASE UnaryEntry
    <3>1. /\ stack \in Seq(GoodFrames) /\ stack # <<>> /\ Top \in Frames /\ FrameOK(Top)
          /\ Top.priority - 1 \in 0..MAX_PRIORITY
      BY <2>1, ActiveTop DEF UnaryEntry, FrameOK, MAX_PRIORITY
    <3>2. /\ [Top EXCEPT !.at = "value"] \in GoodFrames
          /\ [Top EXCEPT !.at = "value"].at = "value"
      BY <3>1, UpdatedFrames DEF Frames
    <3>3. Fits([Top EXCEPT !.at = "value"])
      BY <3>2 DEF Fits, Holds, HoldsRoot
    <3>4. Parsed
      BY <1>3, <2>1, <3>1 DEF UnaryEntry
    <3>5. QED
      BY <2>1, <3>1, <3>2, <3>3, <3>4, CallKeepsLinks DEF UnaryEntry
  <2>2. CASE UnaryValue
    <3>1. stack # <<>> /\ Return(result) /\ Receiving /\ result # NULL
      BY <2>2, ActiveTop DEF UnaryValue, Receiving
    <3>2. Parsed
      BY <1>3, <2>2, <3>1 DEF UnaryValue
    <3>3. /\ result \in Nodes /\ result < currentNode' /\ parent'[result] = NULL
          /\ \A i \in 1..(Len(stack) - 1) : \A n \in Nodes : Holds(stack[i], n) => n < result
      BY <1>1, <1>4, <1>5, <2>2, <3>1 DEF UnaryValue
    <3>4. QED
      BY <3>1, <3>2, <3>3, ReturnKeepsLinks
  <2>3. CASE UnaryTake
    <3> DEFINE frame == [Top EXCEPT !.at = "operand", !.node = currentNode]
    <3>1. /\ stack # <<>> /\ Top \in Frames /\ FrameOK(Top) /\ Top.priority - 1 \in 0..MAX_PRIORITY
      BY <2>3, ActiveTop DEF UnaryTake, FrameOK, MAX_PRIORITY
    <3>2. /\ currentNode \in Nodes /\ currentNode' = currentNode + 1
          /\ left[currentNode] = NULL /\ right[currentNode] = NULL /\ parent[currentNode] = NULL
          /\ UNCHANGED <<left, right, parent>> /\ Call(frame, Top.priority - 1)
      BY <1>1, <1>2, <2>3 DEF UnaryTake, TakeOperation, Consume, Readable, Nodes, FreshBare
    <3>3. Parsed
      BY <1>3, <2>3, <3>1, <3>2 DEF UnaryTake
    <3>4. frame \in GoodFrames /\ frame.at = "operand" /\ frame.node = currentNode
      BY <3>1, <3>2, UpdatedFrames DEF Frames
    <3>5. \A n : Holds(frame, n) \/ HoldsRoot(frame, n) => n = currentNode
      BY <3>4 DEF Holds, HoldsRoot
    <3>6. \A i \in 1..(Len(stack) - 1) : \A n \in Nodes : Holds(stack[i], n) => n < currentNode
      BY <1>2, <1>5, <3>1 DEF HeldRoots
    <3>7. Fits(frame)
      BY <1>1, <3>2, <3>4, <3>5, <3>6 DEF Fits
    <3>8. QED
      BY <3>1, <3>2, <3>3, <3>4, <3>7, CallKeepsLinks
  <2>4. CASE UnaryRefuse
    <3>1. stack # <<>> /\ Return(NULL)
      BY <2>4, ActiveTop DEF UnaryRefuse
    <3>2. Parsed
      BY <1>3, <2>4, <3>1 DEF UnaryRefuse
    <3>3. QED
      BY <3>1, <3>2, ReturnKeepsLinks
  <2>5. CASE UnaryOperand
    <3>1. /\ stack # <<>> /\ Top \in Frames /\ FrameOK(Top) /\ Receiving
          /\ Top.at = "operand"
          /\ Top.node \in Nodes /\ Holds(Top, Top.node) /\ HoldsRoot(Top, Top.node)
      BY <2>5, ActiveTop DEF UnaryOperand, FrameOK, Holds, HoldsRoot, Receiving
    <3>2. /\ Top.node < currentNode /\ parent[Top.node] = NULL
          /\ left[Top.node] = NULL /\ right[Top.node] = NULL
          /\ \A i \in 1..(Len(stack) - 1) : \A n \in Nodes : Holds(stack[i], n) => n < Top.node
      BY <1>2, <1>5, <3>1 DEF HeldRoots, HeldInOrder, Top
    <3>3. CASE result = NULL
      <4>1. UNCHANGED <<left, right, parent, currentNode, status>> /\ Return(NULL)
        BY <1>1, <2>5, <3>1, <3>2, <3>3 DEF UnaryOperand
      <4>2. Parsed
        BY <1>3, <3>1, <4>1
      <4>3. QED
        BY <4>1, <4>2, ReturnKeepsLinks
    <3>4. CASE result # NULL
      <4>1. /\ left' = [left EXCEPT ![Top.node] = result]
            /\ parent' = [parent EXCEPT ![result] = Top.node]
            /\ right' = right /\ status' = status /\ currentNode' = currentNode
            /\ Return(Top.node)
        BY <2>5, <3>4 DEF UnaryOperand, Adopt
      <4>2. /\ result \in Nodes /\ result < currentNode /\ parent[result] = NULL
            /\ Top.node < result
            /\ \A i \in 1..(Len(stack) - 1) : \A n \in Nodes : Holds(stack[i], n) => n < result
        BY <1>4, <1>5, <3>1, <3>4 DEF Top
      <4>3. LinksAgree'
        <5> SUFFICES ASSUME NEW n \in Nodes, NEW child \in {left'[n], right'[n]}, child # NULL
                     PROVE  parent'[child] = n /\ left'[n] # right'[n]
          BY <1>1 DEF LinksAgree
        <5>1. \A m \in Nodes : result \notin {left[m], right[m]}
          BY <1>1, <1>2, <3>4, <4>2 DEF LinksAgree
        <5>2. CASE n = Top.node
          BY <1>1, <3>1, <3>2, <3>4, <4>1, <4>2, <5>2
        <5>3. CASE n # Top.node
          BY <1>1, <1>2, <3>1, <4>1, <4>2, <5>1, <5>3 DEF LinksAgree
        <5>4. QED
          BY <5>2, <5>3
      <4>4. FreshBare'
        <5> SUFFICES ASSUME NEW n \in Nodes, n >= currentNode
                     PROVE  left'[n] = NULL /\ right'[n] = NULL /\ parent'[n] = NULL
          BY <1>1, <4>1 DEF FreshBare
        <5>1. n # Top.node /\ n # result
          BY <1>1, <3>1, <3>2, <4>2
        <5>2. QED
          BY <1>1, <1>2, <4>1, <5>1 DEF FreshBare
      <4>5. CallersSpared
        <5> SUFFICES ASSUME NEW i \in 1..(Len(stack) - 1), NEW n \in Nodes, Holds(stack[i], n)
                     PROVE  parent'[n] = parent[n] /\ left'[n] = left[n] /\ right'[n] = right[n]
          BY DEF CallersSpared
        <5>1. n # Top.node /\ n # result
          BY <1>1, <3>1, <3>2, <4>2
        <5>2. QED
          BY <1>1, <4>1, <5>1
      <4>6. Parsed
        BY <1>1, <3>1, <4>1, <4>3, <4>4, <4>5 DEF Parsed
      <4>7. parent'[Top.node] = NULL
        BY <1>1, <3>1, <3>2, <4>1, <4>2
      <4>8. QED
        BY <3>1, <3>2, <4>1, <4>6, <4>7, ReturnKeepsLinks
    <3>5. QED
      BY <3>3, <3>4
  <2>6. QED
    BY <1>7, <2>1, <2>2, <2>3, <2>4, <2>5 DEF GetUnaryOperation
<1>8. CASE GetSeparator
  <2>1. CASE GetNumber
    <3>1. stack # <<>> /\ Return(currentNode) /\ currentNode' = currentNode + 1
          /\ UNCHANGED <<left, right, parent>>
      BY <2>1, ActiveTop DEF GetNumber, Consume
    <3>2. Parsed
      BY <1>3, <2>1, <3>1 DEF GetNumber
    <3>3. currentNode \in Nodes /\ currentNode < currentNode' /\ parent'[currentNode] = NULL
      BY <1>1, <1>2, <2>1, <3>1 DEF GetNumber, Readable, Nodes, FreshBare
    <3>4. \A i \in 1..(Len(stack) - 1) : \A n \in Nodes : Holds(stack[i], n) => n < currentNode
      BY <1>2, <1>5, <3>1 DEF HeldRoots
    <3>5. QED
      BY <3>1, <3>2, <3>3, <3>4, ReturnKeepsLinks
  <2>2. CASE SeparatorOpen
    <3>1. /\ stack \in Seq(GoodFrames) /\ stack # <<>> /\ Top \in Frames /\ FrameOK(Top)
          /\ MAX_PRIORITY \in 0..MAX_PRIORITY
      BY <2>2, ActiveTop DEF SeparatorOpen, MAX_PRIORITY
    <3>2. /\ [Top EXCEPT !.at = "inner"] \in GoodFrames
          /\ [Top EXCEPT !.at = "inner"].at = "inner"
      BY <3>1, UpdatedFrames DEF Frames
    <3>3. Fits([Top EXCEPT !.at = "inner"])
      BY <3>2 DEF Fits, Holds, HoldsRoot
    <3>4. Parsed
      BY <1>3, <2>2, <3>1 DEF SeparatorOpen, Consume
    <3>5. QED
      BY <2>2, <3>1, <3>2, <3>3, <3>4, CallKeepsLinks DEF SeparatorOpen
  <2>3. CASE SeparatorRefuse
    <3>1. stack # <<>> /\ Return(NULL)
      BY <2>3, ActiveTop DEF SeparatorRefuse
    <3>2. Parsed
      BY <1>3, <2>3, <3>1 DEF SeparatorRefuse
    <3>3. QED
      BY <3>1, <3>2, ReturnKeepsLinks
  <2>4. CASE SeparatorInnerFails
    <3>1. stack # <<>> /\ Return(NULL)
      BY <2>4, ActiveTop DEF SeparatorInnerFails
    <3>2. Parsed
      BY <1>3, <2>4, <3>1 DEF SeparatorInnerFails
    <3>3. QED
      BY <3>1, <3>2, ReturnKeepsLinks
  <2>5. CASE SeparatorClose
    <3>1. stack # <<>> /\ Return(result) /\ Receiving /\ result # NULL
      BY <2>5, ActiveTop DEF SeparatorClose, Receiving
    <3>2. Parsed
      BY <1>3, <2>5, <3>1 DEF SeparatorClose, Consume
    <3>3. /\ result \in Nodes /\ result < currentNode' /\ parent'[result] = NULL
          /\ \A i \in 1..(Len(stack) - 1) : \A n \in Nodes : Holds(stack[i], n) => n < result
      BY <1>1, <1>4, <1>5, <2>5, <3>1 DEF SeparatorClose, Consume
    <3>4. QED
      BY <3>1, <3>2, <3>3, ReturnKeepsLinks
  <2>6. CASE SeparatorUnclosed
    <3>1. stack # <<>> /\ Return(NULL)
      BY <2>6, ActiveTop DEF SeparatorUnclosed
    <3>2. Parsed
      BY <1>3, <2>6, <3>1 DEF SeparatorUnclosed
    <3>3. QED
      BY <3>1, <3>2, ReturnKeepsLinks
  <2>7. QED
    BY <1>8, <2>1, <2>2, <2>3, <2>4, <2>5, <2>6 DEF GetSeparator
<1>9. QED
  BY <1>6, <1>7, <1>8

(* Every step keeps the links coherent.                                      *)
LEMMA LinkStep ==
  ASSUME TypeInv, LinkInv, [Next]_vars
  PROVE  LinkInv'
<1> USE DEF vars, links
<1>1. lexed' = lexed /\ Indices' = Indices /\ Nodes' = Nodes
  BY LexedConstant DEF Nodes
<1>2. ASSUME UNCHANGED <<left, right, parent>>
      PROVE  LinksAgree'
  BY <1>1, <1>2 DEF LinkInv, LinksAgree
<1>3. CASE UNCHANGED vars
  BY <1>1, <1>2, <1>3
     DEF LinkInv, FreshBare, HeldRoots, HeldInOrder, ResultFree, Receiving, Top
<1>4. CASE Next /\ status # "parsing"
  <2>1. status = "lexed" /\ (RefuseLexerError \/ BeginGrammar)
    BY <1>4, IdleSteps
  <2>2. CASE RefuseLexerError
    BY <1>2, <2>2 DEF RefuseLexerError, FinishParseFile, LinkInv
  <2>3. CASE BeginGrammar
    <3>1. /\ stack' = <<Frame(MAX_PRIORITY)>> /\ result' = NULL /\ status' = "parsing"
          /\ currentNode' = 0 /\ UNCHANGED <<left, right, parent>>
      BY <2>1, <2>3 DEF BeginGrammar, LinkInv
    <3>2. /\ Len(stack') = 1 /\ stack'[1].at = "entry"
      BY <3>1 DEF Frame
    <3>3. \A n : ~Holds(stack'[1], n) /\ ~HoldsRoot(stack'[1], n)
      BY <3>2 DEF Holds, HoldsRoot
    <3>4. HeldRoots' /\ HeldInOrder' /\ ResultFree'
      BY <3>1, <3>2, <3>3 DEF HeldRoots, HeldInOrder, ResultFree, Holds, HoldsRoot
    <3>5. FreshBare'
      BY <1>1, <2>1, <3>1, NodesNat DEF FreshBare, LinkInv, TypeInv, TypeOK
    <3>6. QED
      BY <1>2, <3>1, <3>4, <3>5 DEF LinkInv
  <2>4. QED
    BY <2>1, <2>2, <2>3
<1>5. CASE Next /\ status = "parsing"
  <2>1. CASE GetBinaryOperation \/ GetUnaryOperation \/ GetSeparator
    BY <1>5, <2>1, LinkParsing
  <2>2. CASE EndGrammar
    BY <1>2, <2>2 DEF EndGrammar, AtTerminator, FinishParseFile, LinkInv
  <2>3. CASE ReadOutside
    BY <1>2, <2>3 DEF ReadOutside, LinkInv
  <2>4. CASE RefuseLexerError \/ BeginGrammar
    BY <1>5, <2>4 DEF RefuseLexerError, BeginGrammar
  <2>5. QED
    BY <1>5, <2>1, <2>2, <2>3, <2>4 DEF Next, GetGrammar
<1>6. QED
  BY <1>3, <1>4, <1>5

(* For every input, also those the parser backs out of half-way: every child     *)
(* points back at the one node that owns it.                                  *)
THEOREM LinksCoherent == Spec => []LinksAgree
<1>1. Init => TypeInv /\ LinkInv
  BY TypeInit, LinkInit
<1>2. TypeInv /\ LinkInv /\ [Next]_vars => (TypeInv /\ LinkInv)'
  BY TypeStep, LinkStep
<1>3. TypeInv /\ LinkInv => LinksAgree
  BY DEF LinkInv
<1>4. QED
  BY <1>1, <1>2, <1>3, PTL DEF Spec

-----------------------------------------------------------------------------
(* What is destroyed.  The three parts of the invariant: nothing that is       *)
(* linked, nothing a call holds and no result on its way up is destroyed.       *)
LinksAlive ==
  \A n \in Nodes : \A m \in {left[n], right[n], parent[n]} \ {NULL} :
    tokens[n] # NULL /\ tokens[m] # NULL
HeldAlive ==
  \A i \in 1..Len(stack) : \A n \in Nodes : Holds(stack[i], n) => tokens[n] # NULL
ResultAlive == Receiving /\ result # NULL => tokens[result] # NULL

(* An owner was taken before what it owns was linked to it.                    *)
OwnersBehind == \A n \in Nodes : parent[n] # NULL => parent[n] < currentNode

AliveInv ==
  /\ status \in {"lexed", "parsing"} => LinksAlive /\ OwnersBehind
  /\ status = "parsing" => HeldAlive /\ ResultAlive

(* A parsing step may destroy the token under the cursor, which nothing behind  *)
(* the cursor is, and must link only what is not destroyed.                    *)
Sparing ==
  /\ TypeInv /\ LinkInv /\ AliveInv /\ status = "parsing" /\ stack # <<>>
  /\ status' = "parsing" /\ Nodes' = Nodes
  /\ \A n \in Nodes : n < currentNode /\ tokens[n] # NULL => tokens'[n] # NULL
  /\ LinksAlive' /\ OwnersBehind'

(* What the callers hold is behind the cursor, so they keep it.                *)
LEMMA CallersAlive ==
  ASSUME Sparing
  PROVE  \A i \in 1..(Len(stack) - 1) : \A n \in Nodes :
           Holds(stack[i], n) => tokens'[n] # NULL
<1> SUFFICES ASSUME NEW i \in 1..(Len(stack) - 1), NEW n \in Nodes, Holds(stack[i], n)
             PROVE  tokens'[n] # NULL
  OBVIOUS
<1>1. i \in 1..Len(stack)
  BY StackTop DEF Sparing, TypeInv
<1>2. n < currentNode /\ tokens[n] # NULL
  BY <1>1 DEF Sparing, LinkInv, AliveInv, HeldRoots, HeldAlive
<1>3. QED
  BY <1>2 DEF Sparing

(* A call: the caller's frame holds nothing that is destroyed, the callee's     *)
(* holds nothing.                                                             *)
LEMMA CallKeepsAlive ==
  ASSUME Sparing, NEW frame \in GoodFrames, NEW p \in 0..MAX_PRIORITY, Call(frame, p),
         \A n \in Nodes : Holds(frame, n) => tokens'[n] # NULL
  PROVE  AliveInv'
<1>1. /\ Len(stack) \in Nat \ {0} /\ Len(stack') = Len(stack) + 1
      /\ stack'[Len(stack)] = frame /\ stack'[Len(stack) + 1] = Frame(p)
      /\ \A i \in 1..(Len(stack) - 1) : stack'[i] = stack[i]
  BY CallShape DEF Sparing, TypeInv
<1>2. Frame(p).at = "entry"
  BY DEF Frame
<1>3. \A n : ~Holds(Frame(p), n)
  BY <1>2 DEF Holds
<1>4. HeldAlive'
  <2> SUFFICES ASSUME NEW i \in 1..(Len(stack) + 1), NEW n \in Nodes, Holds(stack'[i], n)
               PROVE  tokens'[n] # NULL
    BY <1>1 DEF HeldAlive, Sparing, Holds
  <2>1. i # Len(stack) + 1
    BY <1>1, <1>3
  <2>2. CASE i = Len(stack)
    BY <1>1, <2>2
  <2>3. CASE i \in 1..(Len(stack) - 1)
    BY <1>1, <2>3, CallersAlive
  <2>4. QED
    BY <1>1, <2>1, <2>2, <2>3
<1>5. ~Receiving'
  BY <1>1, <1>2 DEF Receiving, Top
<1>6. QED
  BY <1>4, <1>5 DEF AliveInv, ResultAlive, Sparing

(* Keeping a value that is not destroyed in a local variable.                  *)
LEMMA GotoKeepsAlive ==
  ASSUME Sparing, NEW frame \in GoodFrames, Goto(frame), frame.at = "loop",
         \A n \in Nodes : Holds(frame, n) => tokens'[n] # NULL
  PROVE  AliveInv'
<1>1. /\ Len(stack) \in Nat \ {0} /\ Len(stack') = Len(stack)
      /\ stack'[Len(stack)] = frame
      /\ \A i \in 1..(Len(stack) - 1) : stack'[i] = stack[i]
  BY GotoShape DEF Sparing, TypeInv
<1>2. HeldAlive'
  <2> SUFFICES ASSUME NEW i \in 1..Len(stack), NEW n \in Nodes, Holds(stack'[i], n)
               PROVE  tokens'[n] # NULL
    BY <1>1 DEF HeldAlive, Sparing, Holds
  <2>1. CASE i = Len(stack)
    BY <1>1, <2>1
  <2>2. CASE i \in 1..(Len(stack) - 1)
    BY <1>1, <2>2, CallersAlive
  <2>3. QED
    BY <1>1, <2>1, <2>2
<1>3. ~Receiving'
  <2>1. stack' # <<>>
    BY <1>1
  <2>2. QED
    BY <1>1, <2>1 DEF Receiving, Top
<1>4. QED
  BY <1>2, <1>3 DEF AliveInv, ResultAlive, Sparing

(* Returning NULL or a node that is not destroyed.                             *)
LEMMA ReturnKeepsAlive ==
  ASSUME Sparing, NEW value, Return(value), value # NULL => tokens'[value] # NULL
  PROVE  AliveInv'
<1>1. /\ Len(stack) \in Nat \ {0} /\ Len(stack') = Len(stack) - 1
      /\ \A i \in 1..(Len(stack) - 1) : stack'[i] = stack[i]
  BY ReturnShape DEF Sparing, TypeInv
<1>2. HeldAlive'
  <2> SUFFICES ASSUME NEW i \in 1..(Len(stack) - 1), NEW n \in Nodes, Holds(stack[i], n)
               PROVE  tokens'[n] # NULL
    BY <1>1 DEF HeldAlive, Sparing, Holds
  <2>1. QED
    BY CallersAlive
<1>3. QED
  BY <1>2 DEF AliveInv, ResultAlive, Sparing, Return

(* Each parsing step keeps the invariant.                                      *)
LEMMA AliveParsing ==
  ASSUME TypeInv, LinkInv, AliveInv, status = "parsing",
         GetBinaryOperation \/ GetUnaryOperation \/ GetSeparator
  PROVE  AliveInv'
<1> USE DEF links
<1>1. /\ Nodes' = Nodes /\ Nodes \subseteq Nat /\ NULL \notin Nodes
      /\ currentNode \in Nat /\ result \in Nodes \cup {NULL}
      /\ left \in [Nodes -> Nodes \cup {NULL}] /\ right \in [Nodes -> Nodes \cup {NULL}]
      /\ parent \in [Nodes -> Nodes \cup {NULL}]
      /\ tokens \in [Nodes -> TokenKinds \cup {NULL}]
  BY LexedConstant, NodesNat DEF TypeInv, TypeOK, Nodes, Next
<1>2. LinksAlive /\ OwnersBehind /\ HeldAlive /\ ResultAlive
  BY DEF AliveInv
<1>3. ASSUME stack # <<>>, NEW n \in Nodes, Holds(Top, n)
      PROVE  tokens[n] # NULL /\ n < currentNode
  <2>1. Len(stack) \in 1..Len(stack)
    BY <1>3, StackTop DEF TypeInv
  <2>2. QED
    BY <1>2, <1>3, <2>1 DEF HeldAlive, LinkInv, HeldRoots, Top
(* What is linked is behind the cursor.                                        *)
<1>4. ASSUME NEW n \in Nodes, NEW m \in {left[n], right[n], parent[n]} \ {NULL}
      PROVE  n < currentNode /\ m \in Nodes /\ m < currentNode
  <2>1. n < currentNode /\ m \in Nodes
    BY <1>1, <1>4 DEF LinkInv, FreshBare
  <2>2. CASE m \in {left[n], right[n]}
    <3>1. parent[m] = n /\ n # NULL
      BY <1>1, <1>4, <2>1, <2>2 DEF LinkInv, LinksAgree
    <3>2. QED
      BY <1>1, <2>1, <3>1 DEF LinkInv, FreshBare
  <2>3. CASE m = parent[n]
    BY <1>1, <1>2, <1>4, <2>1, <2>3 DEF OwnersBehind
  <2>4. QED
    BY <1>4, <2>1, <2>2, <2>3
(* A step that leaves the links alone.                                         *)
<1>5. ASSUME stack # <<>>, status' = "parsing", UNCHANGED <<left, right, parent>>,
             \/ UNCHANGED <<tokens, currentNode>>
             \/ /\ currentNode' = currentNode + 1
                /\ tokens' \in {tokens, [tokens EXCEPT ![currentNode] = NULL]}
      PROVE  Sparing
  <2>1. \A n \in Nodes : n < currentNode => tokens'[n] = tokens[n]
    BY <1>1, <1>5
  <2>2. LinksAlive'
    <3> SUFFICES ASSUME NEW n \in Nodes, NEW m \in {left[n], right[n], parent[n]} \ {NULL}
                 PROVE  tokens'[n] # NULL /\ tokens'[m] # NULL
      BY <1>1, <1>5 DEF LinksAlive
    <3>1. n < currentNode /\ m \in Nodes /\ m < currentNode
      BY <1>4
    <3>2. QED
      BY <1>2, <2>1, <3>1 DEF LinksAlive
  <2>3. OwnersBehind'
    <3> SUFFICES ASSUME NEW n \in Nodes, parent[n] # NULL
                 PROVE  parent[n] < currentNode'
      BY <1>1, <1>5 DEF OwnersBehind
    <3>1. parent[n] < currentNode /\ parent[n] \in Nat
      BY <1>1, <1>2 DEF OwnersBehind
    <3>2. QED
      BY <1>1, <1>5, <3>1
  <2>4. QED
    BY <1>1, <1>5, <2>1, <2>2, <2>3 DEF Sparing
(* A step that destroys nothing, and links nodes behind the new cursor that     *)
(* were not destroyed.                                                        *)
<1>6. ASSUME stack # <<>>, status' = "parsing", tokens' = tokens,
             currentNode' \in {currentNode, currentNode + 1},
             NEW owner \in Nodes, NEW child \in Nodes,
             tokens[owner] # NULL, tokens[child] # NULL, owner < currentNode',
             \/ left' = [left EXCEPT ![owner] = child] /\ right' = right
             \/ right' = [right EXCEPT ![owner] = child] /\ left' = left,
             parent' = [parent EXCEPT ![child] = owner]
      PROVE  Sparing
  <2>1. LinksAlive'
    <3> SUFFICES ASSUME NEW n \in Nodes, NEW m \in {left'[n], right'[n], parent'[n]} \ {NULL}
                 PROVE  tokens[n] # NULL /\ tokens[m] # NULL
      BY <1>1, <1>6 DEF LinksAlive
    <3>1. CASE m \in {left[n], right[n], parent[n]}
      BY <1>2, <3>1 DEF LinksAlive
    <3>2. CASE m \notin {left[n], right[n], parent[n]}
      <4>1. (n = owner /\ m = child) \/ (n = child /\ m = owner)
        BY <1>1, <1>6, <3>2
      <4>2. QED
        BY <1>6, <4>1
    <3>3. QED
      BY <3>1, <3>2
  <2>2. OwnersBehind'
    <3> SUFFICES ASSUME NEW n \in Nodes, parent'[n] # NULL
                 PROVE  parent'[n] < currentNode'
      BY <1>1 DEF OwnersBehind
    <3>1. CASE n = child
      BY <1>1, <1>6, <3>1
    <3>2. CASE n # child
      <4>1. parent'[n] = parent[n] /\ parent[n] \in Nat /\ parent[n] < currentNode
        BY <1>1, <1>2, <1>6, <3>2 DEF OwnersBehind
      <4>2. QED
        BY <1>1, <1>6, <4>1
    <3>3. QED
      BY <3>1, <3>2
  <2>3. QED
    BY <1>1, <1>6, <2>1, <2>2 DEF Sparing
<1>7. ASSUME stack # <<>>, Receiving, result # NULL
      PROVE  /\ result \in Nodes /\ result < currentNode /\ tokens[result] # NULL
  BY <1>1, <1>2, <1>7 DEF ResultAlive, LinkInv, ResultFree
<1>8. CASE GetBinaryOperation
  <2>1. CASE BinaryEntry
    <3>1. /\ stack \in Seq(GoodFrames) /\ stack # <<>> /\ Top \in Frames /\ FrameOK(Top)
          /\ Top.priority - 1 \in 0..MAX_PRIORITY
      BY <2>1, ActiveTop DEF BinaryEntry, FrameOK, MAX_PRIORITY
    <3>2. /\ [Top EXCEPT !.at = "first"] \in GoodFrames
          /\ [Top EXCEPT !.at = "first"].at = "first"
      BY <3>1, UpdatedFrames DEF Frames
    <3>3. Sparing
      BY <1>5, <2>1, <3>1 DEF BinaryEntry
    <3>4. QED
      BY <2>1, <3>1, <3>2, <3>3, CallKeepsAlive DEF BinaryEntry, Holds
  <2>2. CASE BinaryFirst
    <3>1. /\ stack # <<>> /\ Top \in Frames /\ FrameOK(Top) /\ Receiving
      BY <2>2, ActiveTop DEF BinaryFirst, Receiving
    <3>2. Sparing /\ tokens' = tokens
      BY <1>5, <2>2, <3>1 DEF BinaryFirst
    <3>3. CASE result = NULL
      BY <2>2, <3>2, <3>3, ReturnKeepsAlive DEF BinaryFirst
    <3>4. CASE result # NULL
      <4> DEFINE frame == [Top EXCEPT !.at = "loop", !.value = result]
      <4>1. frame \in GoodFrames /\ frame.at = "loop" /\ frame.value = result
        BY <1>1, <3>1, <3>4, UpdatedFrames DEF Frames
      <4>2. \A n : Holds(frame, n) => n = result
        BY <4>1 DEF Holds
      <4>3. QED
        BY <1>7, <2>2, <3>1, <3>2, <3>4, <4>1, <4>2, GotoKeepsAlive DEF BinaryFirst
    <3>5. QED
      BY <3>3, <3>4
  <2>3. CASE BinaryLoopEnd
    <3>1. /\ stack # <<>> /\ Return(Top.value) /\ Top.value \in Nodes /\ Holds(Top, Top.value)
      BY <2>3, ActiveTop DEF BinaryLoopEnd, FrameOK, Holds
    <3>2. Sparing /\ tokens' = tokens
      BY <1>5, <2>3, <3>1 DEF BinaryLoopEnd
    <3>3. QED
      BY <1>3, <3>1, <3>2, ReturnKeepsAlive
  <2>4. CASE BinaryLoopBracket
    <3>1. stack # <<>> /\ Return(NULL)
      BY <2>4, ActiveTop DEF BinaryLoopBracket
    <3>2. Sparing
      BY <1>5, <2>4, <3>1 DEF BinaryLoopBracket
    <3>3. QED
      BY <3>1, <3>2, ReturnKeepsAlive
  <2>5. CASE BinaryLoopTake
    <3> DEFINE frame == [Top EXCEPT !.at = "second", !.node = currentNode]
    <3>1. /\ stack # <<>> /\ Top \in Frames /\ FrameOK(Top)
          /\ Top.value \in Nodes /\ Top.priority - 1 \in 0..MAX_PRIORITY
          /\ Holds(Top, Top.value)
      BY <2>5, ActiveTop DEF BinaryLoopTake, FrameOK, Holds, MAX_PRIORITY
    <3>2. /\ currentNode \in Nodes /\ currentNode' = currentNode + 1
          /\ tokens[currentNode] # NULL /\ tokens' = tokens /\ status' = "parsing"
          /\ left' = [left EXCEPT ![currentNode] = Top.value] /\ right' = right
          /\ parent' = [parent EXCEPT ![Top.value] = currentNode]
          /\ Call(frame, Top.priority - 1)
      BY <1>1, <2>5
         DEF BinaryLoopTake, TakeOperation, Consume, Adopt, Readable, Nodes
    <3>3. currentNode < currentNode'
      BY <1>1, <3>2
    <3>4. Sparing
      BY <1>3, <1>6, <3>1, <3>2, <3>3
    <3>5. /\ frame \in GoodFrames /\ frame.at = "second"
          /\ frame.value = Top.value /\ frame.node = currentNode
      BY <3>1, <3>2, UpdatedFrames DEF Frames
    <3>6. \A n : Holds(frame, n) => n \in {Top.value, currentNode}
      BY <3>5 DEF Holds
    <3>7. QED
      BY <1>3, <3>1, <3>2, <3>4, <3>5, <3>6, CallKeepsAlive
  <2>6. CASE BinarySecond
    <3> DEFINE frame == [Top EXCEPT !.at = "loop", !.value = Top.node]
    <3>1. /\ stack # <<>> /\ Top \in Frames /\ FrameOK(Top) /\ Receiving /\ result # NULL
          /\ Top.node \in Nodes /\ Holds(Top, Top.node)
      BY <2>6, ActiveTop DEF BinarySecond, FrameOK, Holds, Receiving
    <3>2. /\ right' = [right EXCEPT ![Top.node] = result]
          /\ parent' = [parent EXCEPT ![result] = Top.node]
          /\ left' = left /\ status' = "parsing" /\ Goto(frame)
          /\ currentNode' = currentNode /\ tokens' = tokens
      BY <2>6 DEF BinarySecond, Adopt, Active
    <3>3. Sparing
      BY <1>3, <1>6, <1>7, <3>1, <3>2
    <3>4. frame \in GoodFrames /\ frame.at = "loop" /\ frame.value = Top.node
      BY <3>1, UpdatedFrames DEF Frames
    <3>5. \A n : Holds(frame, n) => n = Top.node
      BY <3>4 DEF Holds
    <3>6. QED
      BY <1>3, <3>1, <3>2, <3>3, <3>4, <3>5, GotoKeepsAlive
  <2>7. CASE BinarySecondFails
    <3>1. stack # <<>> /\ Return(NULL)
      BY <2>7, ActiveTop DEF BinarySecondFails
    <3>2. Sparing
      BY <1>5, <2>7, <3>1 DEF BinarySecondFails
    <3>3. QED
      BY <3>1, <3>2, ReturnKeepsAlive
  <2>8. QED
    BY <1>8, <2>1, <2>2, <2>3, <2>4, <2>5, <2>6, <2>7 DEF GetBinaryOperation
<1>9. CASE GetUnaryOperation
  <2>1. CASE UnaryEntry
    <3>1. /\ stack \in Seq(GoodFrames) /\ stack # <<>> /\ Top \in Frames /\ FrameOK(Top)
          /\ Top.priority - 1 \in 0..MAX_PRIORITY
      BY <2>1, ActiveTop DEF UnaryEntry, FrameOK, MAX_PRIORITY
    <3>2. /\ [Top EXCEPT !.at = "value"] \in GoodFrames
          /\ [Top EXCEPT !.at = "value"].at = "value"
      BY <3>1, UpdatedFrames DEF Frames
    <3>3. Sparing
      BY <1>5, <2>1, <3>1 DEF UnaryEntry
    <3>4. QED
      BY <2>1, <3>1, <3>2, <3>3, CallKeepsAlive DEF UnaryEntry, Holds
  <2>2. CASE UnaryValue
    <3>1. stack # <<>> /\ Return(result) /\ Receiving /\ result # NULL
      BY <2>2, ActiveTop DEF UnaryValue, Receiving
    <3>2. Sparing /\ tokens' = tokens
      BY <1>5, <2>2, <3>1 DEF UnaryValue
    <3>3. QED
      BY <1>7, <3>1, <3>2, ReturnKeepsAlive
  <2>3. CASE UnaryTake
    <3> DEFINE frame == [Top EXCEPT !.at = "operand", !.node = currentNode]
    <3>1. /\ stack # <<>> /\ Top \in Frames /\ FrameOK(Top) /\ Top.priority - 1 \in 0..MAX_PRIORITY
      BY <2>3, ActiveTop DEF UnaryTake, FrameOK, MAX_PRIORITY
    <3>2. /\ currentNode \in Nodes /\ currentNode' = currentNode + 1 /\ status' = "parsing"
          /\ tokens[currentNode] # NULL /\ tokens' = tokens
          /\ UNCHANGED <<left, right, parent>> /\ Call(frame, Top.priority - 1)
      BY <1>1, <2>3 DEF UnaryTake, TakeOperation, Consume, Readable, Nodes, Active
    <3>3. Sparing
      BY <1>5, <3>1, <3>2
    <3>4. frame \in GoodFrames /\ frame.at = "operand" /\ frame.node = currentNode
      BY <3>1, <3>2, UpdatedFrames DEF Frames
    <3>5. \A n : Holds(frame, n) => n = currentNode
      BY <3>4 DEF Holds
    <3>6. QED
      BY <3>1, <3>2, <3>3, <3>4, <3>5, CallKeepsAlive
  <2>4. CASE UnaryRefuse
    <3>1. stack # <<>> /\ Return(NULL)
      BY <2>4, ActiveTop DEF UnaryRefuse
    <3>2. Sparing
      BY <1>5, <2>4, <3>1 DEF UnaryRefuse
    <3>3. QED
      BY <3>1, <3>2, ReturnKeepsAlive
  <2>5. CASE UnaryOperand
    <3>1. /\ stack # <<>> /\ Top \in Frames /\ FrameOK(Top) /\ Receiving
          /\ Top.at = "operand" /\ Top.node \in Nodes /\ Holds(Top, Top.node)
      BY <2>5, ActiveTop DEF UnaryOperand, FrameOK, Holds, Receiving
    <3>2. CASE result = NULL
      <4>1. left[Top.node] = NULL
        <5>1. Len(stack) \in 1..Len(stack)
          BY <3>1, StackTop DEF TypeInv
        <5>2. QED
          BY <3>1, <5>1 DEF LinkInv, HeldRoots, Top
      <4>2. /\ UNCHANGED <<left, right, parent, currentNode, tokens>>
            /\ status' = "parsing" /\ Return(NULL)
        BY <1>1, <2>5, <3>1, <3>2, <4>1 DEF UnaryOperand, Active
      <4>3. Sparing
        BY <1>5, <3>1, <4>2
      <4>4. QED
        BY <4>2, <4>3, ReturnKeepsAlive
    <3>3. CASE result # NULL
      <4>1. /\ left' = [left EXCEPT ![Top.node] = result]
            /\ parent' = [parent EXCEPT ![result] = Top.node]
            /\ right' = right /\ status' = "parsing" /\ currentNode' = currentNode
            /\ tokens' = tokens /\ Return(Top.node)
        BY <2>5, <3>3 DEF UnaryOperand, Adopt, Active
      <4>2. Sparing
        BY <1>3, <1>6, <1>7, <3>1, <3>3, <4>1
      <4>3. QED
        BY <1>3, <3>1, <4>1, <4>2, ReturnKeepsAlive
    <3>4. QED
      BY <3>2, <3>3
  <2>6. QED
    BY <1>9, <2>1, <2>2, <2>3, <2>4, <2>5 DEF GetUnaryOperation
<1>10. CASE GetSeparator
  <2>1. CASE GetNumber
    <3>1. /\ stack # <<>> /\ Return(currentNode) /\ currentNode' = currentNode + 1
          /\ UNCHANGED <<left, right, parent, tokens>> /\ tokens[currentNode] # NULL
      BY <2>1, ActiveTop DEF GetNumber, Consume, Readable
    <3>2. Sparing
      BY <1>5, <2>1, <3>1 DEF GetNumber, Active
    <3>3. QED
      BY <3>1, <3>2, ReturnKeepsAlive
  <2>2. CASE SeparatorOpen
    <3>1. /\ stack \in Seq(GoodFrames) /\ stack # <<>> /\ Top \in Frames /\ FrameOK(Top)
          /\ MAX_PRIORITY \in 0..MAX_PRIORITY
      BY <2>2, ActiveTop DEF SeparatorOpen, MAX_PRIORITY
    <3>2. /\ [Top EXCEPT !.at = "inner"] \in GoodFrames
          /\ [Top EXCEPT !.at = "inner"].at = "inner"
      BY <3>1, UpdatedFrames DEF Frames
    <3>3. Sparing
      BY <1>5, <2>2, <3>1 DEF SeparatorOpen, Consume, DestroyToken, Active
    <3>4. QED
      BY <2>2, <3>1, <3>2, <3>3, CallKeepsAlive DEF SeparatorOpen, Holds
  <2>3. CASE SeparatorRefuse
    <3>1. stack # <<>> /\ Return(NULL)
      BY <2>3, ActiveTop DEF SeparatorRefuse
    <3>2. Sparing
      BY <1>5, <2>3, <3>1 DEF SeparatorRefuse
    <3>3. QED
      BY <3>1, <3>2, ReturnKeepsAlive
  <2>4. CASE SeparatorInnerFails
    <3>1. stack # <<>> /\ Return(NULL)
      BY <2>4, ActiveTop DEF SeparatorInnerFails
    <3>2. Sparing
      BY <1>5, <2>4, <3>1 DEF SeparatorInnerFails
    <3>3. QED
      BY <3>1, <3>2, ReturnKeepsAlive
  <2>5. CASE SeparatorClose
    <3>1. stack # <<>> /\ Return(result) /\ Receiving /\ result # NULL
      BY <2>5, ActiveTop DEF SeparatorClose, Receiving
    <3>2. Sparing
      BY <1>5, <2>5, <3>1 DEF SeparatorClose, Consume, DestroyToken, Active
    <3>3. tokens'[result] # NULL
      BY <1>7, <3>1, <3>2 DEF Sparing
    <3>4. QED
      BY <3>1, <3>2, <3>3, ReturnKeepsAlive
  <2>6. CASE SeparatorUnclosed
    <3>1. stack # <<>> /\ Return(NULL)
      BY <2>6, ActiveTop DEF SeparatorUnclosed
    <3>2. Sparing
      BY <1>5, <2>6, <3>1 DEF SeparatorUnclosed
    <3>3. QED
      BY <3>1, <3>2, ReturnKeepsAlive
  <2>7. QED
    BY <1>10, <2>1, <2>2, <2>3, <2>4, <2>5, <2>6 DEF GetSeparator
<1>11. QED
  BY <1>8, <1>9, <1>10

(* Before the first token is taken nothing is linked.                          *)
LEMMA NothingLinked ==
  ASSUME TypeInv, LinkInv, status = "lexed"
  PROVE  \A n \in Nodes : left[n] = NULL /\ right[n] = NULL /\ parent[n] = NULL
<1>1. \A n \in Nodes : n >= currentNode
  BY NodesNat DEF LinkInv, TypeInv, TypeOK
<1>2. QED
  BY <1>1 DEF LinkInv, FreshBare

(* No step destroys what is linked, held or on its way up.                   *)
LEMMA AliveStep ==
  ASSUME TypeInv, LinkInv, AliveInv, [Next]_vars
  PROVE  AliveInv'
<1> USE DEF vars, links
<1>1. Nodes' = Nodes
  BY LexedConstant DEF Nodes
<1>2. CASE UNCHANGED vars
  BY <1>1, <1>2
     DEF AliveInv, LinksAlive, OwnersBehind, HeldAlive, ResultAlive, Receiving, Top
<1>3. CASE Next /\ status # "parsing"
  <2>1. status = "lexed" /\ (RefuseLexerError \/ BeginGrammar)
    BY <1>3, IdleSteps
  <2>2. CASE RefuseLexerError
    BY <2>2 DEF RefuseLexerError, FinishParseFile, AliveInv
  <2>3. CASE BeginGrammar
    <3>1. /\ stack' = <<Frame(MAX_PRIORITY)>> /\ result' = NULL
          /\ UNCHANGED <<left, right, parent>>
      BY <2>1, <2>3 DEF BeginGrammar, LinkInv
    <3>2. Len(stack') = 1 /\ stack'[1].at = "entry"
      BY <3>1 DEF Frame
    <3>3. \A n \in Nodes : left'[n] = NULL /\ right'[n] = NULL /\ parent'[n] = NULL
      BY <2>1, <3>1, NothingLinked
    <3>4. QED
      BY <1>1, <3>1, <3>2, <3>3
         DEF AliveInv, LinksAlive, OwnersBehind, HeldAlive, ResultAlive, Holds
  <2>4. QED
    BY <2>1, <2>2, <2>3
<1>4. CASE Next /\ status = "parsing"
  <2>1. CASE GetBinaryOperation \/ GetUnaryOperation \/ GetSeparator
    BY <1>4, <2>1, AliveParsing
  <2>2. CASE EndGrammar
    BY <2>2 DEF EndGrammar, AtTerminator, FinishParseFile, AliveInv
  <2>3. CASE ReadOutside
    BY <2>3 DEF ReadOutside, AliveInv
  <2>4. CASE RefuseLexerError \/ BeginGrammar
    BY <1>4, <2>4 DEF RefuseLexerError, BeginGrammar
  <2>5. QED
    BY <1>4, <2>1, <2>2, <2>3, <2>4 DEF Next, GetGrammar
<1>5. QED
  BY <1>2, <1>3, <1>4

(* On every input, while the parser runs: a node that is linked to another was   *)
(* not destroyed with a bracket, and neither was the other.                    *)
THEOREM NothingDangles == Spec => []LinkedAlive
<1>1. Init => TypeInv /\ LinkInv /\ AliveInv
  <2>1. Init => TypeInv /\ LinkInv
    BY TypeInit, LinkInit
  <2>2. ASSUME Init PROVE AliveInv
    <3>1. status = "lexed" /\ \A n \in Nodes : left[n] = NULL /\ right[n] = NULL /\ parent[n] = NULL
      BY <2>1, <2>2, NothingLinked DEF Init
    <3>2. QED
      BY <3>1 DEF AliveInv, LinksAlive, OwnersBehind
  <2>3. QED
    BY <2>1, <2>2
<1>2. TypeInv /\ LinkInv /\ AliveInv /\ [Next]_vars => (TypeInv /\ LinkInv /\ AliveInv)'
  BY TypeStep, LinkStep, AliveStep
<1>3. TypeInv /\ LinkInv /\ AliveInv => LinkedAlive
  BY DEF AliveInv, LinkedAlive, LinksAlive, Done, TypeInv, TypeOK
<1>4. QED
  BY <1>1, <1>2, <1>3, PTL DEF Spec

-----------------------------------------------------------------------------
(***************************************************************************)
(* What the parser hands to GetReassignments is what that traversal needs: no   *)
(* cycle, one owner for every node, and depths that add up below the accepted    *)
(* root, whatever was linked and given up on the way.  From it follows the      *)
(* order and the choice of the reassignments for every input.                   *)
(***************************************************************************)

R == INSTANCE ReassignmentsProofs

-----------------------------------------------------------------------------
(* No cycles.  A node gets its children after they were complete, but its index  *)
(* lies between those of its operands: the order that shows it is one that grows *)
(* with every link.                                                          *)
Acyclic ==
  \E top \in Nat : \E rank \in [Nodes -> 0..top] :
    \A n \in Nodes : \A child \in {left[n], right[n]} \ {NULL} : rank[child] < rank[n]

(* Hanging a child below a node that nobody owns closes no cycle.               *)
LEMMA LinkKeepsAcyclic ==
  ASSUME TypeInv, Acyclic, Nodes' = Nodes,
         NEW owner \in Nodes, NEW child \in Nodes, child # owner,
         \A n \in Nodes : owner \notin {left[n], right[n]},
         \A n \in Nodes : n # owner => left'[n] = left[n] /\ right'[n] = right[n],
         left'[owner] \in {left[owner], child}, right'[owner] \in {right[owner], child}
  PROVE  Acyclic'
<1>1. /\ NULL \notin Nodes
      /\ \A n \in Nodes : left[n] \in Nodes \cup {NULL} /\ right[n] \in Nodes \cup {NULL}
  BY NodesNat DEF TypeInv, TypeOK, Nodes
<1>2. PICK top \in Nat : \E rank \in [Nodes -> 0..top] :
        \A n \in Nodes : \A c \in {left[n], right[n]} \ {NULL} : rank[c] < rank[n]
  BY DEF Acyclic
<1>3. PICK rank \in [Nodes -> 0..top] :
        \A n \in Nodes : \A c \in {left[n], right[n]} \ {NULL} : rank[c] < rank[n]
  BY <1>2
<1> DEFINE top2 == top + top + 1
           rank2 == [rank EXCEPT ![owner] = rank[owner] + rank[child] + 1]
<1>4. \A n \in Nodes : rank[n] \in Nat /\ rank[n] <= top
  BY <1>3
<1>5. top2 \in Nat /\ rank2 \in [Nodes -> 0..top2]
  <2>1. rank[owner] + rank[child] + 1 \in 0..top2
    BY <1>4
  <2>2. \A n \in Nodes : rank[n] \in 0..top2
    BY <1>4
  <2>3. QED
    BY <1>3, <2>1, <2>2
<1>6. rank2[owner] = rank[owner] + rank[child] + 1
      /\ \A n \in Nodes : n # owner => rank2[n] = rank[n]
  BY <1>3
<1> HIDE DEF rank2, top2
<1>7. ASSUME NEW n \in Nodes, NEW c \in {left'[n], right'[n]}, c # NULL
      PROVE  rank2[c] < rank2[n]
  <2>1. CASE n # owner
    <3>1. c \in {left[n], right[n]} /\ c \in Nodes /\ c # owner
      BY <1>1, <1>7, <2>1
    <3>2. rank[c] < rank[n]
      BY <1>3, <1>7, <3>1
    <3>3. QED
      BY <1>6, <2>1, <3>1, <3>2
  <2>2. CASE n = owner
    <3>1. c \in Nodes /\ c # owner /\ (c = child \/ rank[c] < rank[owner])
      BY <1>1, <1>3, <1>7, <2>2
    <3>2. rank[c] < rank[owner] + rank[child] + 1
      BY <1>4, <3>1
    <3>3. QED
      BY <1>6, <2>2, <3>1, <3>2
  <2>3. QED
    BY <2>1, <2>2
<1>8. QED
  BY <1>5, <1>7 DEF Acyclic

(* A node without owner is nobody's child.                                      *)
LEMMA RootUnlinked ==
  ASSUME TypeInv, LinkInv, NEW owner \in Nodes, parent[owner] = NULL
  PROVE  \A n \in Nodes : owner \notin {left[n], right[n]}
<1>1. NULL \notin Nodes
  BY NodesNat DEF TypeInv, TypeOK
<1>2. QED
  BY <1>1 DEF LinkInv, LinksAgree

(* The three steps that link nodes: what they link, and that the owner is a root   *)
(* read before or after everything else that is held.                          *)
LEMMA Linking ==
  ASSUME TypeInv, LinkInv, status = "parsing",
         \/ BinaryLoopTake
         \/ BinarySecond
         \/ UnaryOperand /\ result # NULL
  PROVE  \E owner, child \in Nodes :
           /\ owner # child /\ parent[owner] = NULL
           /\ \/ left' = [left EXCEPT ![owner] = child] /\ right' = right
              \/ right' = [right EXCEPT ![owner] = child] /\ left' = left
<1>1. /\ NULL \notin Nodes /\ Nodes \subseteq Nat /\ result \in Nodes \cup {NULL}
      /\ currentNode \in Nat
  BY NodesNat DEF TypeInv, TypeOK, Nodes
<1>2. FreshBare /\ HeldRoots /\ ResultFree
  BY DEF LinkInv
<1>3. stack # <<>> => Len(stack) \in 1..Len(stack)
  BY StackTop DEF TypeInv
<1>4. CASE BinaryLoopTake
  <2>1. /\ stack # <<>> /\ Top.value \in Nodes /\ Holds(Top, Top.value)
        /\ currentNode \in Nodes /\ left' = [left EXCEPT ![currentNode] = Top.value]
        /\ right' = right
    BY <1>4, ActiveTop DEF BinaryLoopTake, Readable, FrameOK, Holds, Nodes
  <2>2. Top.value < currentNode /\ parent[currentNode] = NULL
    BY <1>1, <1>2, <1>3, <2>1 DEF HeldRoots, FreshBare, Top
  <2>3. currentNode # Top.value
    BY <1>1, <2>1, <2>2
  <2>4. QED
    BY <2>1, <2>2, <2>3
<1>5. ASSUME \/ BinarySecond
             \/ UnaryOperand /\ result # NULL
      PROVE  Top.node \in Nodes /\ result \in Nodes /\ Top.node < result /\ parent[Top.node] = NULL
  <2>1. /\ stack # <<>> /\ Top.node \in Nodes /\ Holds(Top, Top.node) /\ HoldsRoot(Top, Top.node)
        /\ Receiving /\ result # NULL
    BY <1>5, ActiveTop
       DEF BinarySecond, UnaryOperand, FrameOK, Holds, HoldsRoot, Receiving
  <2>2. QED
    BY <1>1, <1>2, <1>3, <2>1 DEF HeldRoots, ResultFree, Top
<1>6. CASE BinarySecond
  <2>1. right' = [right EXCEPT ![Top.node] = result] /\ left' = left
    BY <1>6 DEF BinarySecond
  <2>2. Top.node # result
    BY <1>1, <1>5, <1>6
  <2>3. QED
    BY <1>5, <1>6, <2>1, <2>2
<1>7. CASE UnaryOperand /\ result # NULL
  <2>1. left' = [left EXCEPT ![Top.node] = result] /\ right' = right
    BY <1>7 DEF UnaryOperand
  <2>2. Top.node # result
    BY <1>1, <1>5, <1>7
  <2>3. QED
    BY <1>5, <1>7, <2>1, <2>2
<1>8. QED
  BY <1>4, <1>6, <1>7

(* All other steps leave the links alone.                                       *)
LEMMA NotLinking ==
  ASSUME TypeInv, LinkInv, [Next]_vars,
         ~BinaryLoopTake, ~BinarySecond, ~(UnaryOperand /\ result # NULL)
  PROVE  left' = left /\ right' = right
<1> USE DEF vars, links
<1>1. CASE UNCHANGED vars
  BY <1>1
<1>2. CASE UnaryOperand /\ result = NULL
  <2>1. /\ stack # <<>> /\ Top.at = "operand" /\ Top.node \in Nodes /\ status = "parsing"
        /\ left' = [left EXCEPT ![Top.node] = NULL] /\ right' = right
    BY <1>2, ActiveTop DEF UnaryOperand, FrameOK
  <2>2. Len(stack) \in 1..Len(stack)
    BY <2>1, StackTop DEF TypeInv
  <2>3. left[Top.node] = NULL
    BY <2>1, <2>2 DEF LinkInv, HeldRoots, Top
  <2>4. QED
    BY <2>1, <2>3 DEF TypeInv, TypeOK, Nodes
<1>3. CASE GetGrammar \/ ReadOutside
  BY <1>3 DEF GetGrammar, RefuseLexerError, BeginGrammar, EndGrammar, AtTerminator, FinishParseFile, ReadOutside
<1>4. CASE GetBinaryOperation
  BY <1>4 DEF GetBinaryOperation, BinaryEntry, BinaryFirst, BinaryLoopEnd, BinaryLoopBracket,
              BinarySecondFails
<1>5. CASE GetUnaryOperation /\ ~UnaryOperand
  BY <1>5 DEF GetUnaryOperation, UnaryEntry, UnaryValue, UnaryTake, UnaryRefuse
<1>6. CASE GetSeparator
  BY <1>6 DEF GetSeparator, GetNumber, SeparatorOpen, SeparatorRefuse, SeparatorInnerFails,
              SeparatorClose, SeparatorUnclosed
<1>7. QED
  BY <1>1, <1>2, <1>3, <1>4, <1>5, <1>6 DEF Next, GetUnaryOperation

(* At the start nothing is linked.                                           *)
LEMMA AcyclicInit == Init => Acyclic
<1> SUFFICES ASSUME Init PROVE Acyclic
  OBVIOUS
<1>1. \A n \in Nodes : left[n] = NULL /\ right[n] = NULL
  BY DEF Init, Nodes
<1>2. [n \in Nodes |-> 0] \in [Nodes -> 0..0] /\ 0 \in Nat
  OBVIOUS
<1>3. QED
  BY <1>1, <1>2 DEF Acyclic

(* No step closes a cycle.                                                   *)
LEMMA AcyclicStep ==
  ASSUME TypeInv, LinkInv, Acyclic, [Next]_vars
  PROVE  Acyclic'
<1>1. Nodes' = Nodes
  BY LexedConstant DEF Nodes
<1>2. CASE BinaryLoopTake \/ BinarySecond \/ (UnaryOperand /\ result # NULL)
  <2>1. status = "parsing"
    BY <1>2 DEF BinaryLoopTake, BinarySecond, UnaryOperand, Active
  <2>2. PICK owner, child \in Nodes :
           /\ owner # child /\ parent[owner] = NULL
           /\ \/ left' = [left EXCEPT ![owner] = child] /\ right' = right
              \/ right' = [right EXCEPT ![owner] = child] /\ left' = left
    BY <1>2, <2>1, Linking
  <2>3. \A n \in Nodes : owner \notin {left[n], right[n]}
    BY <2>2, RootUnlinked
  <2>4. left \in [Nodes -> Nodes \cup {NULL}] /\ right \in [Nodes -> Nodes \cup {NULL}]
    BY DEF TypeInv, TypeOK, Nodes
  <2>5. /\ \A n \in Nodes : n # owner => left'[n] = left[n] /\ right'[n] = right[n]
        /\ left'[owner] \in {left[owner], child} /\ right'[owner] \in {right[owner], child}
    BY <2>2, <2>4
  <2>6. QED
    BY <1>1, <2>2, <2>3, <2>5, LinkKeepsAcyclic
<1>3. CASE ~(BinaryLoopTake \/ BinarySecond \/ (UnaryOperand /\ result # NULL))
  <2>1. left' = left /\ right' = right
    BY <1>3, NotLinking
  <2>2. QED
    BY <1>1, <2>1 DEF Acyclic
<1>4. QED
  BY <1>2, <1>3

-----------------------------------------------------------------------------
(* The operands and the depths.  A node is complete when it has the operands its    *)
(* token asks for and its depth is theirs.  What is linked below another, kept in    *)
(* the loop of GetBinaryOperation or returned is complete; an operation that waits   *)
(* for its right operand is a binary one and has its left one, and what waits for    *)
(* its only operand is a function, or the operand a failed attempt left behind.      *)
Complete(n) ==
  /\ HasOperands(n)
  /\ left[n] = NULL => right[n] = NULL /\ depth[n] = 1
  /\ left[n] # NULL /\ right[n] = NULL => depth[n] = depth[left[n]]
  /\ left[n] # NULL /\ right[n] # NULL => depth[n] = depth[left[n]] + depth[right[n]]

LinkedSummed == \A n \in Nodes : parent[n] # NULL => Complete(n)
FreshDepth   == \A n \in Nodes : n >= currentNode => depth[n] = 1

FrameSummed(frame) ==
  /\ frame.at = "loop" => Complete(frame.value)
  /\ frame.at = "second" =>
       /\ left[frame.node] = frame.value /\ right[frame.node] = NULL
       /\ tokens[frame.node] \in BinaryOps \cup {"EQUALS"}
  /\ frame.at = "operand" => tokens[frame.node] \in Operands \cup FunctionOps
HeldSummed   == \A i \in 1..Len(stack) : FrameSummed(stack[i])
ResultSummed == Receiving /\ result # NULL => Complete(result)

SumInv ==
  /\ status \in {"lexed", "parsing"} => LinkedSummed /\ FreshDepth
  /\ status = "parsing" => HeldSummed /\ ResultSummed

(* A step destroys no token but brackets.                                      *)
OnlyBracketsGo == \A n \in Nodes : tokens'[n] = tokens[n] \/ tokens[n] \in Brackets

(* The kinds of tokens are disjoint.                                           *)
LEMMA KindsDisjoint ==
  /\ (Operands \cup FunctionOps \cup BinaryOps \cup {"EQUALS"}) \cap Brackets = {}
  /\ (Operands \cup FunctionOps) \cap (BinaryOps \cup {"EQUALS"}) = {}
  /\ Operands \cap FunctionOps = {}
  /\ OperationNames \ Brackets = FunctionOps \cup BinaryOps \cup {"EQUALS"}
  /\ "TERMINATOR" \notin Operands \cup OperationNames
  BY DEF Operands, FunctionOps, BinaryOps, Brackets, OperationNames

(* A parsing step changes the links and the depth of at most one node, a root that   *)
(* no caller holds.                                                           *)
Settling(owner) ==
  /\ TypeInv /\ LinkInv /\ SumInv /\ status = "parsing" /\ stack # <<>>
  /\ status' = "parsing" /\ Nodes' = Nodes
  /\ \A n \in Nodes : n # owner =>
       left'[n] = left[n] /\ right'[n] = right[n] /\ depth'[n] = depth[n]
  /\ OnlyBracketsGo
  /\ \A n \in Nodes : owner \notin {left[n], right[n]}
  /\ \A i \in 1..(Len(stack) - 1) : \A n \in Nodes : Holds(stack[i], n) => n # owner
  /\ LinkedSummed' /\ FreshDepth'

(* The other nodes stay complete.                                              *)
LEMMA StaysComplete ==
  ASSUME Nodes' = Nodes, NEW owner, NULL \notin Nodes,
         \A n \in Nodes : left[n] \in Nodes \cup {NULL} /\ right[n] \in Nodes \cup {NULL},
         \A n \in Nodes : n # owner =>
           left'[n] = left[n] /\ right'[n] = right[n] /\ depth'[n] = depth[n],
         OnlyBracketsGo,
         \A n \in Nodes : owner \notin {left[n], right[n]},
         NEW m \in Nodes, m # owner, Complete(m)
  PROVE  Complete(m)'
<1>1. /\ left'[m] = left[m] /\ right'[m] = right[m] /\ depth'[m] = depth[m]
  OBVIOUS
<1>2. left[m] # NULL => depth'[left[m]] = depth[left[m]]
  OBVIOUS
<1>3. right[m] # NULL => depth'[right[m]] = depth[right[m]]
  OBVIOUS
<1>4. tokens'[m] = tokens[m]
  BY KindsDisjoint DEF Complete, HasOperands, OnlyBracketsGo
<1>5. QED
  BY <1>1, <1>2, <1>3, <1>4 DEF Complete, HasOperands

(* A frame keeps what it has if the root that changes is none of its nodes.        *)
LEMMA FrameStays ==
  ASSUME NEW owner, Settling(owner), NEW frame \in GoodFrames, FrameSummed(frame),
         \A n \in Nodes : Holds(frame, n) => n # owner
  PROVE  FrameSummed(frame)'
<1>1. /\ NULL \notin Nodes
      /\ \A n \in Nodes : left[n] \in Nodes \cup {NULL} /\ right[n] \in Nodes \cup {NULL}
  BY NodesNat DEF Settling, TypeInv, TypeOK, Nodes
<1>2. CASE frame.at = "loop"
  <2>1. frame.value \in Nodes /\ frame.value # owner /\ Complete(frame.value)
    BY <1>2 DEF GoodFrames, FrameOK, FrameSummed, Holds
  <2>2. PICK m \in Nodes : m = frame.value
    BY <2>1
  <2>3. Complete(m)'
    BY <1>1, <2>1, <2>2, StaysComplete DEF Settling
  <2>4. QED
    BY <1>2, <2>2, <2>3 DEF FrameSummed
<1>3. CASE frame.at = "second"
  <2>1. frame.node \in Nodes /\ frame.node # owner
    BY <1>3 DEF GoodFrames, FrameOK, Holds
  <2>2. left'[frame.node] = left[frame.node] /\ right'[frame.node] = right[frame.node]
    BY <2>1 DEF Settling
  <2>3. tokens'[frame.node] = tokens[frame.node] /\ tokens[frame.node] \in BinaryOps \cup {"EQUALS"}
    BY <1>3, <2>1, KindsDisjoint DEF FrameSummed, Settling, OnlyBracketsGo
  <2>4. QED
    BY <1>3, <2>2, <2>3 DEF FrameSummed
<1>4. CASE frame.at = "operand"
  <2>1. frame.node \in Nodes /\ tokens[frame.node] \in Operands \cup FunctionOps
    BY <1>4 DEF GoodFrames, FrameOK, FrameSummed
  <2>2. tokens'[frame.node] = tokens[frame.node]
    BY <2>1, KindsDisjoint DEF Settling, OnlyBracketsGo
  <2>3. QED
    BY <1>4, <2>1, <2>2 DEF FrameSummed
<1>5. QED
  BY <1>2, <1>3, <1>4 DEF FrameSummed

(* The callers keep what they have.                                            *)
LEMMA CallersSummed ==
  ASSUME NEW owner, Settling(owner), NEW i \in 1..(Len(stack) - 1), stack'[i] = stack[i]
  PROVE  FrameSummed(stack[i])'
<1>1. Len(stack) \in Nat /\ i \in 1..Len(stack)
  BY StackTop DEF Settling, TypeInv
<1>2. stack[i] \in GoodFrames /\ FrameSummed(stack[i])
  BY <1>1, ElementOfSeq DEF Settling, TypeInv, SumInv, HeldSummed
<1>3. PICK frame \in GoodFrames : frame = stack[i]
  BY <1>2
<1>4. \A n \in Nodes : Holds(frame, n) => n # owner
  BY <1>3 DEF Settling
<1>5. FrameSummed(frame)'
  BY <1>2, <1>3, <1>4, FrameStays
<1>6. QED
  BY <1>3, <1>5

(* A call, a suspension and a return keep the invariant, if what stays in the frame  *)
(* or is returned is complete.                                                *)
LEMMA CallKeepsSums ==
  ASSUME NEW owner, Settling(owner), NEW frame \in GoodFrames, NEW p \in 0..MAX_PRIORITY,
         Call(frame, p), FrameSummed(frame)'
  PROVE  SumInv'
<1>1. /\ Len(stack) \in Nat \ {0} /\ Len(stack') = Len(stack) + 1
      /\ stack'[Len(stack)] = frame /\ stack'[Len(stack) + 1] = Frame(p)
      /\ \A i \in 1..(Len(stack) - 1) : stack'[i] = stack[i]
  BY CallShape DEF Settling, TypeInv
<1>2. Frame(p).at = "entry"
  BY DEF Frame
<1>3. HeldSummed'
  <2> SUFFICES ASSUME NEW i \in 1..(Len(stack) + 1)
               PROVE  FrameSummed(stack[i])'
    BY <1>1 DEF HeldSummed
  <2>1. CASE i = Len(stack) + 1
    BY <1>1, <1>2, <2>1 DEF FrameSummed
  <2>2. CASE i = Len(stack)
    BY <1>1, <2>2 DEF FrameSummed
  <2>3. CASE i \in 1..(Len(stack) - 1)
    BY <1>1, <2>3, CallersSummed
  <2>4. QED
    BY <1>1, <2>1, <2>2, <2>3
<1>4. ~Receiving'
  BY <1>1, <1>2 DEF Receiving, Top
<1>5. QED
  BY <1>3, <1>4 DEF SumInv, ResultSummed, Settling

(* Keeping a complete value in a local variable.                             *)
LEMMA GotoKeepsSums ==
  ASSUME NEW owner, Settling(owner), NEW frame \in GoodFrames, Goto(frame),
         frame.at = "loop", FrameSummed(frame)'
  PROVE  SumInv'
<1>1. /\ Len(stack) \in Nat \ {0} /\ Len(stack') = Len(stack)
      /\ stack'[Len(stack)] = frame
      /\ \A i \in 1..(Len(stack) - 1) : stack'[i] = stack[i]
  BY GotoShape DEF Settling, TypeInv
<1>2. HeldSummed'
  <2> SUFFICES ASSUME NEW i \in 1..Len(stack)
               PROVE  FrameSummed(stack[i])'
    BY <1>1 DEF HeldSummed
  <2>1. CASE i = Len(stack)
    BY <1>1, <2>1 DEF FrameSummed
  <2>2. CASE i \in 1..(Len(stack) - 1)
    BY <1>1, <2>2, CallersSummed
  <2>3. QED
    BY <1>1, <2>1, <2>2
<1>3. ~Receiving'
  <2>1. stack' # <<>>
    BY <1>1
  <2>2. QED
    BY <1>1, <2>1 DEF Receiving, Top
<1>4. QED
  BY <1>2, <1>3 DEF SumInv, ResultSummed, Settling

(* Returning NULL or a complete node.                                        *)
LEMMA ReturnKeepsSums ==
  ASSUME NEW owner, Settling(owner), NEW value, Return(value),
         value # NULL => Complete(value)'
  PROVE  SumInv'
<1>1. /\ Len(stack) \in Nat \ {0} /\ Len(stack') = Len(stack) - 1
      /\ \A i \in 1..(Len(stack) - 1) : stack'[i] = stack[i]
  BY ReturnShape DEF Settling, TypeInv
<1>2. HeldSummed'
  <2> SUFFICES ASSUME NEW i \in 1..(Len(stack) - 1)
               PROVE  FrameSummed(stack[i])'
    BY <1>1 DEF HeldSummed
  <2>1. QED
    BY <1>1, CallersSummed
<1>3. ResultSummed'
  BY DEF ResultSummed, Return, Complete
<1>4. QED
  BY <1>2, <1>3 DEF SumInv, Settling


(* A step that leaves the links and depths alone settles no node, which a number    *)
(* that is not a node stands for.                                             *)
Nowhere == Len(lexed.words) + 1

(* It is neither a node nor NULL.                                            *)
LEMMA NowhereIs ==
  ASSUME TypeInv
  PROVE  Nowhere \notin Nodes \cup {NULL}
<1>1. Len(lexed.words) \in Nat
  BY LenProperties DEF TypeInv, TypeOK
<1>2. QED
  BY <1>1, NullAssumption DEF Nowhere, Nodes, Indices

(* Such a step keeps every node complete that is.                            *)
LEMMA SettlesNothing ==
  ASSUME TypeInv, LinkInv, SumInv, Next, status = "parsing", stack # <<>>,
         status' = "parsing", UNCHANGED links,
         currentNode' \in {currentNode, currentNode + 1},
         OnlyBracketsGo
  PROVE  /\ Settling(Nowhere)
         /\ \A m \in Nodes : Complete(m) => Complete(m)'
<1> USE DEF links
<1>1. /\ Nodes' = Nodes /\ Nodes \subseteq Nat /\ NULL \notin Nodes /\ currentNode \in Nat
      /\ \A n \in Nodes : left[n] \in Nodes \cup {NULL} /\ right[n] \in Nodes \cup {NULL}
  BY LexedConstant, NodesNat DEF TypeInv, TypeOK, Nodes
<1>2. Nowhere \notin Nodes \cup {NULL}
  BY NowhereIs
<1>3. ASSUME NEW m \in Nodes, Complete(m)
      PROVE  Complete(m)'
  <2>1. UNCHANGED <<left, right, depth>>
    OBVIOUS
  <2>2. tokens'[m] = tokens[m]
    BY <1>3, KindsDisjoint DEF Complete, HasOperands, OnlyBracketsGo
  <2>3. QED
    BY <1>1, <1>3, <2>1, <2>2 DEF Complete, HasOperands
<1>4. LinkedSummed'
  <2> SUFFICES ASSUME NEW m \in Nodes, parent[m] # NULL
               PROVE  Complete(m)'
    BY <1>1 DEF LinkedSummed
  <2>1. QED
    BY <1>3 DEF SumInv, LinkedSummed
<1>5. FreshDepth'
  BY <1>1 DEF SumInv, FreshDepth
<1>6. QED
  BY <1>1, <1>2, <1>3, <1>4, <1>5 DEF Settling

(* A step that hangs a complete root below another one settles that one.            *)
LEMMA SettlesOwner ==
  ASSUME TypeInv, LinkInv, SumInv, Next, status = "parsing", stack # <<>>,
         status' = "parsing", tokens' = tokens,
         currentNode' \in {currentNode, currentNode + 1},
         NEW owner \in Nodes, NEW child \in Nodes, owner # child,
         owner < currentNode', parent[owner] = NULL, Complete(child),
         parent' = [parent EXCEPT ![child] = owner],
         \A n \in Nodes : n # owner =>
           left'[n] = left[n] /\ right'[n] = right[n] /\ depth'[n] = depth[n],
         \A i \in 1..(Len(stack) - 1) : \A n \in Nodes : Holds(stack[i], n) => n # owner
  PROVE  Settling(owner)
<1>1. /\ Nodes' = Nodes /\ Nodes \subseteq Nat /\ NULL \notin Nodes /\ currentNode \in Nat
      /\ \A n \in Nodes : left[n] \in Nodes \cup {NULL} /\ right[n] \in Nodes \cup {NULL}
      /\ parent \in [Nodes -> Nodes \cup {NULL}]
  BY LexedConstant, NodesNat DEF TypeInv, TypeOK, Nodes
<1>2. \A n \in Nodes : owner \notin {left[n], right[n]}
  BY RootUnlinked
<1>3. ASSUME NEW m \in Nodes, m # owner, Complete(m)
      PROVE  Complete(m)'
  BY <1>1, <1>2, <1>3, StaysComplete DEF OnlyBracketsGo
<1>4. LinkedSummed'
  <2> SUFFICES ASSUME NEW m \in Nodes, parent'[m] # NULL
               PROVE  Complete(m)'
    BY <1>1 DEF LinkedSummed
  <2>1. m # owner
    BY <1>1
  <2>2. CASE m = child
    BY <1>3, <2>1, <2>2
  <2>3. CASE m # child
    <3>1. parent[m] # NULL
      BY <1>1, <2>3
    <3>2. QED
      BY <1>3, <2>1, <3>1 DEF SumInv, LinkedSummed
  <2>4. QED
    BY <2>2, <2>3
<1>5. FreshDepth'
  <2> SUFFICES ASSUME NEW n \in Nodes, n >= currentNode'
               PROVE  depth'[n] = 1
    BY <1>1 DEF FreshDepth
  <2>1. n # owner /\ n >= currentNode
    BY <1>1
  <2>2. QED
    BY <2>1 DEF SumInv, FreshDepth
<1>6. QED
  BY <1>1, <1>2, <1>4, <1>5 DEF Settling, OnlyBracketsGo

(* Each parsing step keeps the invariant.                                        *)
LEMMA SumParsing ==
  ASSUME TypeInv, LinkInv, SumInv, status = "parsing",
         GetBinaryOperation \/ GetUnaryOperation \/ GetSeparator
  PROVE  SumInv'
<1> USE DEF links
<1>1. /\ Next /\ Nodes \subseteq Nat /\ NULL \notin Nodes
      /\ currentNode \in Nat /\ result \in Nodes \cup {NULL}
      /\ left \in [Nodes -> Nodes \cup {NULL}] /\ right \in [Nodes -> Nodes \cup {NULL}]
      /\ parent \in [Nodes -> Nodes \cup {NULL}] /\ depth \in [Nodes -> Nat \ {0}]
      /\ tokens \in [Nodes -> TokenKinds \cup {NULL}]
  BY NodesNat DEF TypeInv, TypeOK, Nodes, Next
<1>2. FreshDepth /\ HeldSummed /\ ResultSummed
  BY DEF SumInv
(* What the frame on top has.                                                  *)
<1>3. ASSUME stack # <<>>
      PROVE  /\ FrameSummed(Top)
             /\ \A n \in Nodes :
                  /\ Holds(Top, n) => n < currentNode
                  /\ HoldsRoot(Top, n) => parent[n] = NULL
                  /\ n = Top.node /\ Top.at = "operand" => left[n] = NULL /\ right[n] = NULL
                  /\ Holds(Top, n) =>
                       \A i \in 1..(Len(stack) - 1) : \A m \in Nodes : Holds(stack[i], m) => m # n
                  /\ Receiving /\ result # NULL /\ Holds(Top, n) => n < result
             /\ \A i \in 1..(Len(stack) - 1) : \A m \in Nodes : Holds(stack[i], m) => m < currentNode
  <2>1. Len(stack) \in 1..Len(stack) /\ Len(stack) \in Nat
    BY <1>3, StackTop DEF TypeInv
  <2>2. FrameSummed(Top)
    BY <1>2, <2>1 DEF HeldSummed, Top
  <2>3. ASSUME NEW n \in Nodes, Holds(Top, n),
               NEW i \in 1..(Len(stack) - 1), NEW m \in Nodes, Holds(stack[i], m)
        PROVE  m # n
    <3>1. i \in 1..Len(stack) /\ i < Len(stack)
      BY <2>1
    <3>2. m < n
      BY <2>1, <2>3, <3>1 DEF LinkInv, HeldInOrder, Top
    <3>3. QED
      BY <1>1, <3>2
  <2>4. ASSUME NEW n \in Nodes
        PROVE  /\ Holds(Top, n) => n < currentNode
               /\ HoldsRoot(Top, n) => parent[n] = NULL
               /\ n = Top.node /\ Top.at = "operand" => left[n] = NULL /\ right[n] = NULL
    BY <2>1 DEF LinkInv, HeldRoots, Top
  <2>5. ASSUME NEW n \in Nodes, Receiving, result # NULL, Holds(Top, n)
        PROVE  n < result
    BY <2>1, <2>5 DEF LinkInv, ResultFree, Top
  <2>6. ASSUME NEW i \in 1..(Len(stack) - 1), NEW m \in Nodes, Holds(stack[i], m)
        PROVE  m < currentNode
    <3>1. i \in 1..Len(stack)
      BY <2>1
    <3>2. QED
      BY <2>6, <3>1 DEF LinkInv, HeldRoots
  <2>7. QED
    BY <2>2, <2>3, <2>4, <2>5, <2>6
(* A call that only moves on.                                                  *)
<1>4. ASSUME stack # <<>>, status' = "parsing", UNCHANGED <<links, tokens>>,
             currentNode' \in {currentNode, currentNode + 1}
      PROVE  Settling(Nowhere) /\ \A m \in Nodes : Complete(m) => Complete(m)'
  BY <1>1, <1>4, SettlesNothing DEF OnlyBracketsGo
(* A destroyed bracket was no operand.                                          *)
<1>5. ASSUME stack # <<>>, status' = "parsing", UNCHANGED links,
             tokens[currentNode] \in Brackets, tokens' = [tokens EXCEPT ![currentNode] = NULL],
             currentNode' \in {currentNode, currentNode + 1}
      PROVE  Settling(Nowhere) /\ \A m \in Nodes : Complete(m) => Complete(m)'
  <2>1. OnlyBracketsGo
    BY <1>1, <1>5 DEF OnlyBracketsGo
  <2>2. QED
    BY <1>1, <1>5, <2>1, SettlesNothing
(* Returning NULL.                                                             *)
<1>6. ASSUME stack # <<>>, status' = "parsing", UNCHANGED <<links, tokens, currentNode>>,
             Return(NULL)
      PROVE  SumInv'
  <2>1. Settling(Nowhere)
    BY <1>4, <1>6
  <2>2. QED
    BY <1>6, <2>1, ReturnKeepsSums
(* Returning a complete node.                                                  *)
<1>7. ASSUME Settling(Nowhere), \A m \in Nodes : Complete(m) => Complete(m)',
             NEW m \in Nodes, Complete(m), Return(m)
      PROVE  SumInv'
  BY <1>7, ReturnKeepsSums
<1>8. ASSUME stack # <<>>, Receiving, result # NULL
      PROVE  result \in Nodes /\ Complete(result) /\ result < currentNode
  BY <1>1, <1>2, <1>8 DEF ResultSummed, LinkInv, ResultFree
<1>9. CASE GetBinaryOperation
  <2>1. CASE BinaryEntry
    <3>1. /\ stack \in Seq(GoodFrames) /\ stack # <<>> /\ Top \in Frames /\ FrameOK(Top)
          /\ Top.priority - 1 \in 0..MAX_PRIORITY
      BY <2>1, ActiveTop DEF BinaryEntry, FrameOK, MAX_PRIORITY
    <3>2. PICK frame \in GoodFrames : frame = [Top EXCEPT !.at = "first"]
      BY <3>1, UpdatedFrames
    <3>3. frame.at = "first" /\ Call(frame, Top.priority - 1)
      BY <2>1, <3>1, <3>2 DEF BinaryEntry, Frames
    <3>4. Settling(Nowhere)
      BY <1>4, <2>1, <3>1 DEF BinaryEntry
    <3>5. FrameSummed(frame)'
      BY <3>3 DEF FrameSummed
    <3>6. QED
      BY <3>1, <3>3, <3>4, <3>5, CallKeepsSums
  <2>2. CASE BinaryFirst
    <3>1. /\ stack # <<>> /\ Top \in Frames /\ FrameOK(Top) /\ Receiving
          /\ status' = "parsing" /\ UNCHANGED <<links, tokens, currentNode>>
      BY <2>2, ActiveTop DEF BinaryFirst, Receiving, Active
    <3>2. CASE result = NULL
      <4>1. Return(NULL)
        BY <2>2, <3>2 DEF BinaryFirst
      <4>2. QED
        BY <1>6, <3>1, <4>1
    <3>3. CASE result # NULL
      <4>1. PICK frame \in GoodFrames : frame = [Top EXCEPT !.at = "loop", !.value = result]
        BY <1>1, <3>1, <3>3, UpdatedFrames
      <4>2. frame.at = "loop" /\ frame.value = result /\ Goto(frame)
        BY <2>2, <3>1, <3>3, <4>1 DEF BinaryFirst, Frames
      <4>3. Settling(Nowhere) /\ \A m \in Nodes : Complete(m) => Complete(m)'
        BY <1>4, <3>1
      <4>4. PICK m \in Nodes : m = result
        BY <1>1, <3>3
      <4>5. Complete(m)'
        BY <1>8, <3>1, <3>3, <4>3, <4>4
      <4>6. FrameSummed(frame)'
        BY <4>2, <4>4, <4>5 DEF FrameSummed
      <4>7. QED
        BY <4>2, <4>3, <4>6, GotoKeepsSums
    <3>4. QED
      BY <3>2, <3>3
  <2>3. CASE BinaryLoopEnd
    <3>1. /\ stack # <<>> /\ Return(Top.value) /\ Top.value \in Nodes /\ Top.at = "loop"
          /\ status' = "parsing" /\ UNCHANGED <<links, tokens, currentNode>>
      BY <2>3, ActiveTop DEF BinaryLoopEnd, FrameOK, Active
    <3>2. Complete(Top.value)
      BY <1>3, <3>1 DEF FrameSummed
    <3>3. QED
      BY <1>4, <1>7, <3>1, <3>2
  <2>4. CASE BinaryLoopBracket
    <3>1. /\ stack # <<>> /\ status' = "parsing" /\ Return(NULL)
          /\ UNCHANGED <<links, tokens, currentNode>>
      BY <2>4, ActiveTop DEF BinaryLoopBracket, Active
    <3>2. QED
      BY <1>6, <3>1
  <2>5. CASE BinaryLoopTake
    <3>1. /\ stack # <<>> /\ Top \in Frames /\ FrameOK(Top) /\ Top.at = "loop"
          /\ Top.value \in Nodes /\ Top.priority - 1 \in 0..MAX_PRIORITY
          /\ Holds(Top, Top.value)
      BY <2>5, ActiveTop DEF BinaryLoopTake, FrameOK, Holds, MAX_PRIORITY
    <3>2. /\ currentNode \in Nodes /\ currentNode' = currentNode + 1
          /\ tokens' = tokens /\ status' = "parsing"
          /\ left' = [left EXCEPT ![currentNode] = Top.value] /\ right' = right /\ depth' = depth
          /\ parent' = [parent EXCEPT ![Top.value] = currentNode]
          /\ Call([Top EXCEPT !.at = "second", !.node = currentNode], Top.priority - 1)
      BY <1>1, <2>5
         DEF BinaryLoopTake, TakeOperation, Consume, Adopt, Readable, Nodes, Active
    <3>3. PICK frame \in GoodFrames : frame = [Top EXCEPT !.at = "second", !.node = currentNode]
      BY <3>1, <3>2, UpdatedFrames
    <3>4. /\ frame.at = "second" /\ frame.value = Top.value /\ frame.node = currentNode
          /\ Call(frame, Top.priority - 1)
      BY <3>1, <3>2, <3>3 DEF Frames
    <3>5. PICK owner \in Nodes : owner = currentNode
      BY <3>2
    <3>6. PICK child \in Nodes : child = Top.value
      BY <3>1
    <3>7. /\ left[owner] = NULL /\ right[owner] = NULL /\ parent[owner] = NULL
      BY <1>1, <3>5 DEF LinkInv, FreshBare
    <3>8. child < owner /\ child # owner /\ owner < currentNode'
      BY <1>1, <1>3, <3>1, <3>2, <3>5, <3>6
    <3>9. Complete(child)
      BY <1>3, <3>1, <3>6 DEF FrameSummed
    <3>10. \A i \in 1..(Len(stack) - 1) : \A n \in Nodes : Holds(stack[i], n) => n # owner
      BY <1>1, <1>3, <3>1, <3>5
    <3>11. \A n \in Nodes : n # owner =>
             left'[n] = left[n] /\ right'[n] = right[n] /\ depth'[n] = depth[n]
      BY <1>1, <3>2, <3>5
    <3>12. Settling(owner)
      BY <1>1, <3>1, <3>2, <3>5, <3>6, <3>7, <3>8, <3>9, <3>10, <3>11, SettlesOwner
    <3>13. left'[owner] = frame.value /\ right'[owner] = NULL
      BY <1>1, <3>2, <3>4, <3>5, <3>7
    <3>14. tokens'[owner] \in BinaryOps \cup {"EQUALS"}
      <4>1. Token \in OperationNames \ Brackets /\ Priority[Token] \in {1, 3, 4}
        BY <2>5, ActiveTop DEF BinaryLoopTake, FrameOK
      <4>2. Token \in BinaryOps \cup {"EQUALS"}
        BY <4>1 DEF Priority, OperationNames, Brackets, BinaryOps, FunctionOps
      <4>3. QED
        BY <3>2, <3>5, <4>2 DEF Token
    <3>15. FrameSummed(frame)'
      BY <3>4, <3>5, <3>13, <3>14 DEF FrameSummed
    <3>16. QED
      BY <3>1, <3>4, <3>12, <3>15, CallKeepsSums
  <2>6. CASE BinarySecond
    <3>1. /\ stack # <<>> /\ Top \in Frames /\ FrameOK(Top) /\ Receiving /\ result # NULL
          /\ Top.at = "second" /\ Top.node \in Nodes /\ Top.value \in Nodes
          /\ Holds(Top, Top.node) /\ HoldsRoot(Top, Top.node) /\ Holds(Top, Top.value)
      BY <2>6, ActiveTop DEF BinarySecond, FrameOK, Holds, HoldsRoot, Receiving
    <3>2. /\ right' = [right EXCEPT ![Top.node] = result]
          /\ parent' = [parent EXCEPT ![result] = Top.node]
          /\ depth' = [depth EXCEPT ![Top.node] = depth[result] + depth[Top.value]]
          /\ left' = left /\ status' = "parsing" /\ currentNode' = currentNode
          /\ tokens' = tokens /\ Goto([Top EXCEPT !.at = "loop", !.value = Top.node])
      BY <2>6 DEF BinarySecond, Adopt, Active
    <3>3. PICK frame \in GoodFrames : frame = [Top EXCEPT !.at = "loop", !.value = Top.node]
      BY <3>1, UpdatedFrames
    <3>4. frame.at = "loop" /\ frame.value = Top.node /\ Goto(frame)
      BY <3>1, <3>2, <3>3 DEF Frames
    <3>5. PICK owner \in Nodes : owner = Top.node
      BY <3>1
    <3>6. PICK child \in Nodes : child = result
      BY <1>8, <3>1
    <3>7. PICK first \in Nodes : first = Top.value
      BY <3>1
    <3>8. /\ left[owner] = first /\ parent[owner] = NULL
          /\ owner < currentNode' /\ owner < child
      BY <1>3, <3>1, <3>2, <3>5, <3>6, <3>7 DEF FrameSummed
    <3>9. owner # child /\ Complete(child)
      BY <1>1, <1>8, <3>1, <3>6, <3>8
    <3>10. first # owner
      BY <1>1, <3>8, RootUnlinked
    <3>11. \A i \in 1..(Len(stack) - 1) : \A n \in Nodes : Holds(stack[i], n) => n # owner
      BY <1>3, <3>1, <3>5
    <3>12. \A n \in Nodes : n # owner =>
             left'[n] = left[n] /\ right'[n] = right[n] /\ depth'[n] = depth[n]
      BY <1>1, <3>2, <3>5
    <3>13. Settling(owner)
      BY <1>1, <3>1, <3>2, <3>5, <3>6, <3>8, <3>9, <3>11, <3>12, SettlesOwner
    <3>14. /\ left'[owner] = first /\ right'[owner] = child
           /\ depth'[owner] = depth'[first] + depth'[child]
      <4>1. depth'[owner] = depth[child] + depth[first]
        BY <1>1, <3>2, <3>5, <3>6, <3>7
      <4>2. depth'[first] = depth[first] /\ depth'[child] = depth[child]
        BY <3>9, <3>10, <3>12
      <4>3. depth[first] \in Nat /\ depth[child] \in Nat
        BY <1>1
      <4>4. QED
        BY <1>1, <3>2, <3>5, <3>6, <3>8, <4>1, <4>2, <4>3
    <3>15. Complete(owner)'
      <4>1. tokens'[owner] \in BinaryOps \cup {"EQUALS"}
        BY <1>3, <3>1, <3>2, <3>5 DEF FrameSummed
      <4>2. QED
        BY <1>1, <3>14, <4>1, KindsDisjoint DEF Complete, HasOperands
    <3>16. FrameSummed(frame)'
      BY <3>4, <3>5, <3>15 DEF FrameSummed
    <3>17. QED
      BY <3>4, <3>13, <3>16, GotoKeepsSums
  <2>7. CASE BinarySecondFails
    <3>1. /\ stack # <<>> /\ status' = "parsing" /\ Return(NULL)
          /\ UNCHANGED <<links, tokens, currentNode>>
      BY <2>7, ActiveTop DEF BinarySecondFails, Active
    <3>2. QED
      BY <1>6, <3>1
  <2>8. QED
    BY <1>9, <2>1, <2>2, <2>3, <2>4, <2>5, <2>6, <2>7 DEF GetBinaryOperation
<1>10. CASE GetUnaryOperation
  <2>1. CASE UnaryEntry
    <3>1. /\ stack \in Seq(GoodFrames) /\ stack # <<>> /\ Top \in Frames /\ FrameOK(Top)
          /\ Top.priority - 1 \in 0..MAX_PRIORITY
      BY <2>1, ActiveTop DEF UnaryEntry, FrameOK, MAX_PRIORITY
    <3>2. PICK frame \in GoodFrames : frame = [Top EXCEPT !.at = "value"]
      BY <3>1, UpdatedFrames
    <3>3. frame.at = "value" /\ Call(frame, Top.priority - 1)
      BY <2>1, <3>1, <3>2 DEF UnaryEntry, Frames
    <3>4. Settling(Nowhere)
      BY <1>4, <2>1, <3>1 DEF UnaryEntry
    <3>5. FrameSummed(frame)'
      BY <3>3 DEF FrameSummed
    <3>6. QED
      BY <3>1, <3>3, <3>4, <3>5, CallKeepsSums
  <2>2. CASE UnaryValue
    <3>1. /\ stack # <<>> /\ Return(result) /\ Receiving /\ result # NULL
          /\ status' = "parsing" /\ UNCHANGED <<links, tokens, currentNode>>
      BY <2>2, ActiveTop DEF UnaryValue, Receiving, Active
    <3>2. QED
      BY <1>4, <1>7, <1>8, <3>1
  <2>3. CASE UnaryTake
    <3>1. /\ stack # <<>> /\ Top \in Frames /\ FrameOK(Top) /\ Top.priority - 1 \in 0..MAX_PRIORITY
      BY <2>3, ActiveTop DEF UnaryTake, FrameOK, MAX_PRIORITY
    <3>2. /\ currentNode \in Nodes /\ currentNode' = currentNode + 1 /\ status' = "parsing"
          /\ UNCHANGED <<links, tokens>>
          /\ Call([Top EXCEPT !.at = "operand", !.node = currentNode], Top.priority - 1)
      BY <2>3 DEF UnaryTake, TakeOperation, Consume, Readable, Nodes, Active
    <3>3. PICK frame \in GoodFrames : frame = [Top EXCEPT !.at = "operand", !.node = currentNode]
      BY <3>1, <3>2, UpdatedFrames
    <3>4. frame.at = "operand" /\ Call(frame, Top.priority - 1)
      BY <3>1, <3>2, <3>3 DEF Frames
    <3>5. Settling(Nowhere)
      BY <1>4, <3>1, <3>2
    <3>6. tokens'[frame.node] \in Operands \cup FunctionOps
      <4>1. ~RefusedAsUnary(Token, 2) /\ Token \in TokenKinds
        BY <1>1, <2>3, ActiveTop DEF UnaryTake, FrameOK, Readable, Token, Nodes
      <4>2. Token \in Operands \cup FunctionOps
        BY <4>1
           DEF RefusedAsUnary, TokenKinds, WordKinds, Priority, OperationNames, Brackets,
               BinaryOps, FunctionOps
      <4>3. frame.node = currentNode
        BY <3>1, <3>3 DEF Frames
      <4>4. QED
        BY <3>2, <4>2, <4>3 DEF Token
    <3>7. FrameSummed(frame)'
      BY <3>4, <3>6 DEF FrameSummed
    <3>8. QED
      BY <3>1, <3>4, <3>5, <3>7, CallKeepsSums
  <2>4. CASE UnaryRefuse
    <3>1. /\ stack # <<>> /\ status' = "parsing" /\ Return(NULL)
          /\ UNCHANGED <<links, tokens, currentNode>>
      BY <2>4, ActiveTop DEF UnaryRefuse, Active
    <3>2. QED
      BY <1>6, <3>1
  <2>5. CASE UnaryOperand
    <3>1. /\ stack # <<>> /\ Top \in Frames /\ FrameOK(Top) /\ Receiving
          /\ Top.at = "operand" /\ Top.node \in Nodes
          /\ Holds(Top, Top.node) /\ HoldsRoot(Top, Top.node)
      BY <2>5, ActiveTop DEF UnaryOperand, FrameOK, Holds, HoldsRoot, Receiving
    <3>2. left[Top.node] = NULL /\ right[Top.node] = NULL /\ parent[Top.node] = NULL
      BY <1>3, <3>1
    <3>3. CASE result = NULL
      <4>1. /\ UNCHANGED <<links, currentNode, tokens>>
            /\ status' = "parsing" /\ Return(NULL)
        BY <1>1, <2>5, <3>1, <3>2, <3>3 DEF UnaryOperand, Active
      <4>2. QED
        BY <1>6, <3>1, <4>1
    <3>4. CASE result # NULL
      <4>1. /\ left' = [left EXCEPT ![Top.node] = result]
            /\ parent' = [parent EXCEPT ![result] = Top.node]
            /\ depth' = [depth EXCEPT ![Top.node] = depth[result]]
            /\ right' = right /\ status' = "parsing" /\ currentNode' = currentNode
            /\ tokens' = tokens /\ Return(Top.node)
        BY <2>5, <3>4 DEF UnaryOperand, Adopt, Active
      <4>2. PICK owner \in Nodes : owner = Top.node
        BY <3>1
      <4>3. PICK child \in Nodes : child = result
        BY <1>8, <3>1, <3>4
      <4>4. owner < child /\ owner < currentNode'
        BY <1>3, <3>1, <3>4, <4>1, <4>2, <4>3
      <4>5. owner # child /\ Complete(child)
        BY <1>1, <1>8, <3>1, <3>4, <4>3, <4>4
      <4>6. \A i \in 1..(Len(stack) - 1) : \A n \in Nodes : Holds(stack[i], n) => n # owner
        BY <1>3, <3>1, <4>2
      <4>7. \A n \in Nodes : n # owner =>
              left'[n] = left[n] /\ right'[n] = right[n] /\ depth'[n] = depth[n]
        BY <1>1, <4>1, <4>2
      <4>8. Settling(owner)
        BY <1>1, <3>1, <3>2, <4>1, <4>2, <4>3, <4>4, <4>5, <4>6, <4>7, SettlesOwner
      <4>9. left'[owner] = child /\ right'[owner] = NULL /\ depth'[owner] = depth'[child]
        BY <1>1, <3>2, <4>1, <4>2, <4>3, <4>5, <4>7
      <4>10. Complete(owner)'
        <5>1. tokens'[owner] \in Operands \cup FunctionOps
          BY <1>3, <3>1, <4>1, <4>2 DEF FrameSummed
        <5>2. QED
          BY <1>1, <4>9, <5>1, KindsDisjoint DEF Complete, HasOperands
      <4>11. QED
        BY <4>1, <4>2, <4>8, <4>10, ReturnKeepsSums
    <3>5. QED
      BY <3>3, <3>4
  <2>6. QED
    BY <1>10, <2>1, <2>2, <2>3, <2>4, <2>5 DEF GetUnaryOperation
<1>11. CASE GetSeparator
  <2>1. CASE GetNumber
    <3>1. /\ stack # <<>> /\ Return(currentNode) /\ currentNode' = currentNode + 1
          /\ UNCHANGED <<links, tokens>> /\ currentNode \in Nodes
          /\ tokens[currentNode] \in Operands /\ status' = "parsing"
      BY <2>1, ActiveTop DEF GetNumber, Consume, Readable, Token, Nodes, Active
    <3>2. Complete(currentNode)
      <4>1. left[currentNode] = NULL /\ right[currentNode] = NULL /\ depth[currentNode] = 1
        BY <1>1, <1>2, <3>1 DEF LinkInv, FreshBare, FreshDepth
      <4>2. QED
        BY <3>1, <4>1, KindsDisjoint DEF Complete, HasOperands
    <3>3. QED
      BY <1>4, <1>7, <3>1, <3>2
  <2>2. CASE SeparatorOpen
    <3>1. /\ stack # <<>> /\ Top \in Frames /\ FrameOK(Top) /\ MAX_PRIORITY \in 0..MAX_PRIORITY
      BY <2>2, ActiveTop DEF SeparatorOpen, MAX_PRIORITY
    <3>2. PICK frame \in GoodFrames : frame = [Top EXCEPT !.at = "inner"]
      BY <3>1, UpdatedFrames
    <3>3. frame.at = "inner" /\ Call(frame, MAX_PRIORITY)
      BY <2>2, <3>1, <3>2 DEF SeparatorOpen, Frames
    <3>4. Settling(Nowhere)
      BY <1>5, <2>2, <3>1 DEF SeparatorOpen, Consume, DestroyToken, Active, Token, Brackets
    <3>5. FrameSummed(frame)'
      BY <3>3 DEF FrameSummed
    <3>6. QED
      BY <3>1, <3>3, <3>4, <3>5, CallKeepsSums
  <2>3. CASE SeparatorRefuse
    <3>1. /\ stack # <<>> /\ status' = "parsing" /\ Return(NULL)
          /\ UNCHANGED <<links, tokens, currentNode>>
      BY <2>3, ActiveTop DEF SeparatorRefuse, Active
    <3>2. QED
      BY <1>6, <3>1
  <2>4. CASE SeparatorInnerFails
    <3>1. /\ stack # <<>> /\ status' = "parsing" /\ Return(NULL)
          /\ UNCHANGED <<links, tokens, currentNode>>
      BY <2>4, ActiveTop DEF SeparatorInnerFails, Active
    <3>2. QED
      BY <1>6, <3>1
  <2>5. CASE SeparatorClose
    <3>1. stack # <<>> /\ Return(result) /\ Receiving /\ result # NULL
      BY <2>5, ActiveTop DEF SeparatorClose, Receiving
    <3>2. Settling(Nowhere) /\ \A m \in Nodes : Complete(m) => Complete(m)'
      BY <1>5, <2>5, <3>1 DEF SeparatorClose, Consume, DestroyToken, Active, Token, Brackets
    <3>3. QED
      BY <1>7, <1>8, <3>1, <3>2
  <2>6. CASE SeparatorUnclosed
    <3>1. /\ stack # <<>> /\ status' = "parsing" /\ Return(NULL)
          /\ UNCHANGED <<links, tokens, currentNode>>
      BY <2>6, ActiveTop DEF SeparatorUnclosed, Active
    <3>2. QED
      BY <1>6, <3>1
  <2>7. QED
    BY <1>11, <2>1, <2>2, <2>3, <2>4, <2>5, <2>6 DEF GetSeparator
<1>12. QED
  BY <1>9, <1>10, <1>11

(* At the start all depths are 1.                                            *)
LEMMA SumInit == Init => SumInv
<1> SUFFICES ASSUME Init PROVE SumInv
  OBVIOUS
<1>1. status = "lexed" /\ \A n \in Nodes : parent[n] = NULL /\ depth[n] = 1
  BY DEF Init, Nodes
<1>2. QED
  BY <1>1 DEF SumInv, LinkedSummed, FreshDepth

(* Every step keeps the depths.                                              *)
LEMMA SumStep ==
  ASSUME TypeInv, LinkInv, SumInv, [Next]_vars
  PROVE  SumInv'
<1> USE DEF vars, links
<1>1. Nodes' = Nodes
  BY LexedConstant DEF Nodes
<1>2. CASE UNCHANGED vars
  BY <1>1, <1>2
     DEF SumInv, LinkedSummed, FreshDepth, HeldSummed, FrameSummed, ResultSummed, Receiving,
         Top, Complete, HasOperands
<1>3. CASE Next /\ status # "parsing"
  <2>1. status = "lexed" /\ (RefuseLexerError \/ BeginGrammar)
    BY <1>3, IdleSteps
  <2>2. CASE RefuseLexerError
    BY <2>2 DEF RefuseLexerError, FinishParseFile, SumInv
  <2>3. CASE BeginGrammar
    <3>1. /\ stack' = <<Frame(MAX_PRIORITY)>> /\ result' = NULL
          /\ UNCHANGED <<links, tokens>> /\ currentNode' = currentNode
      BY <2>1, <2>3 DEF BeginGrammar, LinkInv
    <3>2. Len(stack') = 1 /\ stack'[1].at = "entry"
      BY <3>1 DEF Frame
    <3>3. HeldSummed'
      BY <3>2 DEF HeldSummed, FrameSummed
    <3>4. LinkedSummed' /\ FreshDepth'
      BY <1>1, <2>1, <3>1 DEF SumInv, LinkedSummed, FreshDepth, Complete, HasOperands
    <3>5. QED
      BY <3>1, <3>3, <3>4 DEF SumInv, ResultSummed
  <2>4. QED
    BY <2>1, <2>2, <2>3
<1>4. CASE Next /\ status = "parsing"
  <2>1. CASE GetBinaryOperation \/ GetUnaryOperation \/ GetSeparator
    BY <1>4, <2>1, SumParsing
  <2>2. CASE EndGrammar
    BY <2>2 DEF EndGrammar, AtTerminator, FinishParseFile, SumInv
  <2>3. CASE ReadOutside
    BY <2>3 DEF ReadOutside, SumInv
  <2>4. CASE RefuseLexerError \/ BeginGrammar
    BY <1>4, <2>4 DEF RefuseLexerError, BeginGrammar
  <2>5. QED
    BY <1>4, <2>1, <2>2, <2>3, <2>4 DEF Next, GetGrammar
<1>5. QED
  BY <1>2, <1>3, <1>4

-----------------------------------------------------------------------------
(* The heap that ParseFile hands to GetReassignments.                             *)
Heap ==
  [left |-> left, right |-> right, depth |-> depth,
   operand |-> [i \in Indices |-> tokens[i] \in Operands]]

(* It is what the lemmas about the traversal ask for.                             *)
LEMMA HeapIs ==
  ASSUME TypeInv, LinkInv, Acyclic
  PROVE  /\ Heap.left = left /\ Heap.right = right /\ Heap.depth = depth
         /\ \A n \in Nodes : Heap.operand[n] <=> tokens[n] \in Operands
         /\ DOMAIN Heap.left = Nodes
         /\ R!OneOwner(Heap)
         /\ \E top \in Nat : \E rank \in [Nodes -> 0..top] : R!Ranked(Heap, rank, top)
<1>1. /\ Nodes \subseteq Nat /\ NULL \notin Nodes
      /\ left \in [Nodes -> Nodes \cup {NULL}] /\ right \in [Nodes -> Nodes \cup {NULL}]
  BY NodesNat DEF TypeInv, TypeOK, Nodes
<1>2. /\ Heap.left = left /\ Heap.right = right /\ Heap.depth = depth
      /\ \A n \in Nodes : Heap.operand[n] <=> tokens[n] \in Operands
      /\ DOMAIN Heap.left = Nodes
  BY <1>1 DEF Heap, Nodes
<1>3. R!OneOwner(Heap)
  <2>1. ASSUME NEW m \in Nodes, NEW n \in Nodes,
               NEW child \in R!Children(Heap, m) \cap R!Children(Heap, n)
        PROVE  m = n
    <3>1. parent[child] = m /\ parent[child] = n
      BY <1>2, <2>1 DEF R!Children, LinkInv, LinksAgree
    <3>2. QED
      BY <3>1
  <2>2. ASSUME NEW n \in Nodes, left[n] # NULL
        PROVE  left[n] # right[n]
    BY <2>2 DEF LinkInv, LinksAgree
  <2>3. QED
    BY <1>2, <2>1, <2>2 DEF R!OneOwner
<1>4. PICK top \in Nat : \E rank \in [Nodes -> 0..top] :
        \A n \in Nodes : \A child \in {left[n], right[n]} \ {NULL} : rank[child] < rank[n]
  BY DEF Acyclic
<1>5. PICK rank \in [Nodes -> 0..top] :
        \A n \in Nodes : \A child \in {left[n], right[n]} \ {NULL} : rank[child] < rank[n]
  BY <1>4
<1>6. R!Ranked(Heap, rank, top)
  BY <1>1, <1>2, <1>5 DEF R!Ranked, R!Children
<1>7. QED
  BY <1>2, <1>3, <1>6

(* Below, as a function of the links alone.                                       *)
BelowIn(l, r, nodes) ==
  CHOOSE below : below = [n \in nodes |->
    {n} \cup (IF l[n] = NULL THEN {} ELSE below[l[n]])
        \cup (IF r[n] = NULL THEN {} ELSE below[r[n]])]

(* Below is that function of the links as they are.                          *)
LEMMA BelowOfLinks == Below = BelowIn(left, right, Nodes)
  BY DEF Below, BelowIn

(* While the links stay, so does what is below a node.                       *)
LEMMA BelowStays ==
  ASSUME left' = left, right' = right, Nodes' = Nodes
  PROVE  Below' = Below
<1>1. Below' = BelowIn(left', right', Nodes')
  BY DEF Below, BelowIn
<1>2. QED
  BY <1>1, BelowOfLinks

(* The recursive definition has a solution: Below is the set of nodes below a node.  *)
LEMMA BelowIsBelow ==
  ASSUME TypeInv, LinkInv, Acyclic
  PROVE  R!IsBelow(Heap, Below)
<1> DEFINE F(f) == f = [n \in Nodes |->
             {n} \cup (IF left[n]  = NULL THEN {} ELSE f[left[n]])
                 \cup (IF right[n] = NULL THEN {} ELSE f[right[n]])]
           below == CHOOSE f : F(f)
<1>1. PICK top \in Nat : \E rank \in [Nodes -> 0..top] : R!Ranked(Heap, rank, top)
  BY HeapIs
<1>2. PICK rank \in [Nodes -> 0..top] : R!Ranked(Heap, rank, top)
  BY <1>1
<1>3. Heap.left = left /\ Heap.right = right /\ DOMAIN Heap.left = Nodes
  BY HeapIs
<1>4. \E f : F(f)
  BY SMTT(20), <1>2, <1>3, R!BelowExists
<1>5. Below = below
  BY DEF Below
<1>6. F(below)
  BY <1>4
<1> HIDE DEF below
<1>7. Nodes \subseteq {n \in Nodes : below[n] \subseteq Nodes}
  <2> DEFINE S == {n \in Nodes : below[n] \subseteq Nodes}
  <2>1. ASSUME NEW n \in Nodes, R!Children(Heap, n) \subseteq S
        PROVE  n \in S
    <3> DEFINE l == IF left[n]  = NULL THEN {} ELSE below[left[n]]
               r == IF right[n] = NULL THEN {} ELSE below[right[n]]
    <3>1. l \subseteq Nodes /\ r \subseteq Nodes
      BY <1>3, <2>1 DEF R!Children
    <3>2. below[n] = {n} \cup l \cup r
      BY <1>6
    <3> HIDE DEF l, r
    <3>3. QED
      BY <3>1, <3>2
  <2> HIDE DEF S
  <2>2. Nodes \subseteq S
    BY <1>2, <1>3, <2>1, R!TreeInduction
  <2>3. QED
    BY <2>2 DEF S
<1>8. below \in [Nodes -> SUBSET Nodes]
  BY <1>6, <1>7
<1>9. QED
  BY <1>3, <1>5, <1>6, <1>8 DEF R!IsBelow, R!Of

(* A sequence whose elements are pairwise different is as long as its elements are     *)
(* many.                                                                       *)
LEMMA DistinctLength ==
  ASSUME NEW S, NEW s \in Seq(S), \A i, j \in DOMAIN s : i < j => s[j] # s[i]
  PROVE  Len(s) = Cardinality({s[i] : i \in DOMAIN s})
<1> DEFINE T == {s[i] : i \in 1..Len(s)}
<1>1. Len(s) \in Nat /\ DOMAIN s = 1..Len(s) /\ s \in [1..Len(s) -> S]
  BY LenProperties
<1>2. \A i, j \in 1..Len(s) : s[i] = s[j] => i = j
  <2> SUFFICES ASSUME NEW i \in 1..Len(s), NEW j \in 1..Len(s), s[i] = s[j], i # j
               PROVE  FALSE
    OBVIOUS
  <2>1. i < j \/ j < i
    BY <1>1
  <2>2. QED
    BY <1>1, <2>1
<1>3. s \in Bijection(1..Len(s), T)
  BY <1>1, <1>2 DEF Bijection, Injection, Surjection, IsInjective
<1>4. IsFiniteSet(1..Len(s)) /\ Cardinality(1..Len(s)) = Len(s)
  BY <1>1, FS_Interval
<1>5. Cardinality(T) = Cardinality(1..Len(s))
  BY <1>3, <1>4, FS_Bijection DEF ExistsBijection
<1>6. QED
  BY <1>1, <1>4, <1>5

(* What is below the accepted root is complete: a result is, and everything else     *)
(* below it is linked.                                                         *)
LEMMA BelowComplete ==
  ASSUME TypeInv, LinkInv, SumInv, Acyclic, status = "parsing", stack = <<>>, result # NULL
  PROVE  /\ result \in Nodes
         /\ \A n \in Below[result] : n \in Nodes /\ HasOperands(n) /\ R!Summed(Heap, n)
<1>1. /\ Heap.left = left /\ Heap.right = right /\ Heap.depth = depth
      /\ \A n \in Nodes : Heap.operand[n] <=> tokens[n] \in Operands
      /\ DOMAIN Heap.left = Nodes
  BY HeapIs
<1>2. PICK top \in Nat : \E rank \in [Nodes -> 0..top] : R!Ranked(Heap, rank, top)
  BY HeapIs
<1>3. PICK rank \in [Nodes -> 0..top] : R!Ranked(Heap, rank, top)
  BY <1>2
<1>4. R!IsBelow(Heap, Below)
  BY BelowIsBelow
<1>5. result \in Nodes /\ NULL \notin Nodes
  BY NodesNat DEF TypeInv, TypeOK, Nodes
<1>6. Complete(result)
  BY DEF SumInv, ResultSummed, Receiving
<1>7. ASSUME NEW n \in Below[result]
      PROVE  n \in Nodes /\ Complete(n)
  <2>1. n \in Nodes
    BY <1>1, <1>3, <1>4, <1>5, R!BelowIs
  <2>2. CASE n = result
    BY <1>6, <2>1, <2>2
  <2>3. CASE n # result
    <3>1. PICK owner \in Below[result] : n \in R!Children(Heap, owner)
      BY <1>1, <1>3, <1>4, <1>5, <2>3, R!OwnerBelow
    <3>2. owner \in Nodes
      BY <1>1, <1>3, <1>4, <1>5, <3>1, R!BelowIs
    <3>3. parent[n] = owner
      BY <1>1, <3>1, <3>2 DEF R!Children, LinkInv, LinksAgree
    <3>4. QED
      BY <1>5, <2>1, <3>2, <3>3 DEF SumInv, LinkedSummed
  <2>4. QED
    BY <2>2, <2>3
<1>8. QED
  <2> SUFFICES ASSUME NEW n \in Below[result]
               PROVE  n \in Nodes /\ HasOperands(n) /\ R!Summed(Heap, n)
    BY <1>5
  <2>1. n \in Nodes /\ Complete(n)
    BY <1>7
  <2>2. tokens[n] \notin Operands => left[n] # NULL
    BY <2>1, KindsDisjoint DEF Complete, HasOperands
  <2>3. QED
    BY <1>1, <2>1, <2>2 DEF R!Summed, Complete

(* The traversal of Parser is that of the lemmas.                                 *)
LEMMA SameTraversal ==
  /\ \A heap, n : Heaps!AppendedBy(heap, n) = R!AppendedBy(heap, n)
  /\ \A heap, n : Heaps!DepthAfter(heap, n) = R!DepthAfter(heap, n)
  /\ \A nodes, some : Heaps!Written(nodes, some) = R!Written(nodes, some)
<1>1. \A heap : Heaps!Weight(heap) = R!Weight(heap)
  BY DEF Heaps!Weight, R!Weight, Heaps!Gather, R!Gather, Heaps!Shallow, R!Shallow,
         Heaps!MAX_DEPTH, R!MAX_DEPTH
<1>2. \A heap : Heaps!Registered(heap) = R!Registered(heap)
  BY <1>1 DEF Heaps!Registered, R!Registered, Heaps!Gather, R!Gather, Heaps!Shallow, R!Shallow,
         Heaps!MAX_DEPTH, R!MAX_DEPTH, Heaps!Weight, R!Weight
<1>3. \A heap : Heaps!Visited(heap) = R!Visited(heap)
  BY DEF Heaps!Visited, R!Visited, Heaps!Shallow, R!Shallow
<1>4. QED
  BY <1>1, <1>2, <1>3 DEF Heaps!AppendedBy, R!AppendedBy, Heaps!DepthAfter, R!DepthAfter,
                          Heaps!Written, R!Written

(* The traversal of the accepted tree.                                            *)
LEMMA AcceptRegisters ==
  ASSUME TypeInv, LinkInv, SumInv, Acyclic, EndGrammar, Token = "TERMINATOR", result # NULL
  PROVE  RegisteredBottomUp'
<1> DEFINE deep == R!AppendedBy(Heap, result)
           s == R!Written(deep, refused')
<1>1. /\ status = "parsing" /\ stack = <<>> /\ currentNode \in Nodes
      /\ FinishParseFile(result, [tokens EXCEPT ![currentNode] = NULL])
      /\ tokens[currentNode] = "TERMINATOR"
  BY DEF EndGrammar, AtTerminator, Readable, Token, Nodes
<1>2. /\ left' = left /\ right' = right /\ lexed' = lexed /\ root' = result
      /\ tokens' = [tokens EXCEPT ![currentNode] = NULL]
      /\ depth' = Heaps!DepthAfter(Heap, result)
      /\ reassignments' = Heaps!Written(Heaps!AppendedBy(Heap, result), refused')
      /\ refused' \subseteq {n \in Nodes : \E i \in DOMAIN Heaps!AppendedBy(Heap, result) :
                                             Heaps!AppendedBy(Heap, result)[i] = n}
  BY <1>1 DEF FinishParseFile, Heap, Nodes
<1>3. Nodes' = Nodes /\ Below' = Below
  <2>1. Nodes' = Nodes
    BY <1>2 DEF Nodes, Indices, Terminated
  <2>2. QED
    BY <1>2, <2>1, BelowStays
<1>4. /\ reassignments' = s /\ depth' = R!DepthAfter(Heap, result)
      /\ refused' \subseteq R!Elements(deep)
  BY <1>2, SameTraversal DEF R!Elements
<1>5. \A n \in Nodes : tokens'[n] \in Operands <=> tokens[n] \in Operands
  <2>1. "TERMINATOR" \notin Operands /\ NULL \notin Operands
    BY KindsNotNull DEF Operands, TokenKinds, WordKinds
  <2>2. tokens \in [Nodes -> TokenKinds \cup {NULL}]
    BY DEF TypeInv, TypeOK, Nodes
  <2>3. QED
    BY <1>1, <1>2, <2>1, <2>2
<1>6. result \in Nodes /\ \A n \in Below[result] : n \in Nodes /\ R!Summed(Heap, n)
  BY <1>1, BelowComplete
<1>7. /\ Heap.left = left /\ Heap.right = right /\ Heap.depth = depth
      /\ \A n \in Nodes : Heap.operand[n] <=> tokens[n] \in Operands
      /\ DOMAIN Heap.left = Nodes /\ R!OneOwner(Heap)
  BY HeapIs
<1>8. PICK top \in Nat : \E rank \in [Nodes -> 0..top] : R!Ranked(Heap, rank, top)
  BY HeapIs
<1>9. PICK rank \in [Nodes -> 0..top] : R!Ranked(Heap, rank, top)
  BY <1>8
<1>10. R!IsBelow(Heap, Below)
  BY BelowIsBelow
<1>11. Heap.depth \in [DOMAIN Heap.left -> Nat \ {0}]
  BY <1>1, <1>7 DEF TypeInv, TypeOK, Nodes
<1>12. deep = R!Registered(Heap)[result] /\ deep \in Seq(Nodes)
  <2>1. result # NULL /\ R!Registered(Heap) \in [Nodes -> Seq(Nodes)]
    BY <1>7, <1>9, R!RegisteredIs
  <2>2. QED
    BY <1>6, <2>1 DEF R!AppendedBy
<1>13. R!InOrder(Below, deep)
  BY <1>6, <1>7, <1>9, <1>10, <1>12, R!RegisteredInOrder
<1>14. \A n \in Below[result] :
         n \in R!Elements(deep) <=>
           /\ ~Heap.operand[n]
           /\ R!DepthAfter(Heap, result)[n] = 1
           /\ \E m \in Below[n] : Heap.right[m] # NULL
  BY <1>6, <1>7, <1>9, <1>10, <1>11, R!RegisteredExactly
<1> HIDE DEF deep
<1>15. s \in Seq(Nodes) /\ R!InOrder(Below, s)
  BY <1>12, <1>13, R!WrittenIs, R!WrittenInOrder
<1>16. \A n : n \in refused' \/ n \in R!Elements(s) <=> n \in R!Elements(deep)
  BY <1>4, <1>12, R!WrittenElements
<1> HIDE DEF s
<1>17. \A i, j \in DOMAIN s : i < j => s[j] \notin Below[s[i]]
  BY <1>15 DEF R!InOrder
<1>18. Len(s) = Cardinality({s[i] : i \in DOMAIN s})
  <2>1. \A i \in DOMAIN s : s[i] \in Nodes
    BY <1>15, ElementOfSeq, LenProperties
  <2>2. \A n \in Nodes : n \in Below[n]
    BY <1>7, <1>9, <1>10, R!BelowIs
  <2>3. \A i, j \in DOMAIN s : i < j => s[j] # s[i]
    BY <1>17, <2>1, <2>2
  <2>4. QED
    BY <1>15, <2>3, DistinctLength
<1>19. \A n \in Below[result] :
         n \in refused' \/ (\E i \in DOMAIN s : s[i] = n)
           <=> tokens'[n] \notin Operands /\ depth'[n] = 1 /\ \E m \in Below[n] : right[m] # NULL
  <2> SUFFICES ASSUME NEW n \in Below[result]
               PROVE  n \in refused' \/ (\E i \in DOMAIN s : s[i] = n)
                        <=> tokens'[n] \notin Operands /\ depth'[n] = 1
                            /\ \E m \in Below[n] : right[m] # NULL
    OBVIOUS
  <2>1. n \in R!Elements(s) <=> \E i \in DOMAIN s : s[i] = n
    BY DEF R!Elements
  <2>2. Heap.operand[n] <=> tokens'[n] \in Operands
    BY <1>5, <1>6, <1>7
  <2>3. depth'[n] = R!DepthAfter(Heap, result)[n]
    BY <1>4
  <2>4. QED
    BY <1>7, <1>14, <1>16, <2>1, <2>2, <2>3
<1>20. QED
  BY <1>2, <1>3, <1>4, <1>17, <1>18, <1>19 DEF RegisteredBottomUp

(* Before a tree is accepted nothing is registered.                                *)
RegInv ==
  /\ RegisteredBottomUp
  /\ status \in {"lexed", "parsing"} => reassignments = <<>>

(* An empty buffer is in order, unless a tree was accepted.                  *)
LEMMA NothingRegistered ==
  ASSUME reassignments = <<>>, status # "NO_DIFFERENTIATOR_ERRORS"
  PROVE  RegInv
<1>1. DOMAIN reassignments = {} /\ Len(reassignments) = 0
  OBVIOUS
<1>2. {reassignments[i] : i \in DOMAIN reassignments} = {}
  BY <1>1
<1>3. QED
  BY <1>1, <1>2, FS_EmptySet DEF RegInv, RegisteredBottomUp, Accepted

(* Every step keeps the buffer in order: only an accepted tree fills it.     *)
LEMMA RegStep ==
  ASSUME TypeInv, LinkInv, SumInv, Acyclic, RegInv, [Next]_vars
  PROVE  RegInv'
<1> USE DEF vars, links
<1>1. CASE UNCHANGED vars
  <2>1. Nodes' = Nodes /\ Below' = Below
    BY <1>1, LexedConstant, BelowStays DEF Nodes
  <2>2. QED
    BY <1>1, <2>1 DEF RegInv, RegisteredBottomUp, Accepted
<1>2. ASSUME reassignments' = <<>>, status' # "NO_DIFFERENTIATOR_ERRORS"
      PROVE  RegInv'
  <2>1. DOMAIN reassignments' = {} /\ Len(reassignments') = 0
    BY <1>2
  <2>2. {reassignments'[i] : i \in DOMAIN reassignments'} = {}
    BY <2>1
  <2>3. QED
    BY <1>2, <2>1, <2>2, FS_EmptySet DEF RegInv, RegisteredBottomUp, Accepted
<1>3. ASSUME NEW tokens_left, FinishParseFile(NULL, tokens_left)
      PROVE  RegInv'
  <2>1. /\ status' = "INPUT_FILE_ERROR"
        /\ reassignments' = R!Written(<<>>, refused')
    BY <1>3, SameTraversal DEF FinishParseFile, Heaps!AppendedBy
  <2>2. QED
    BY <1>2, <2>1, R!WrittenNothing
<1>4. CASE Next /\ status # "parsing"
  <2>1. status = "lexed" /\ (RefuseLexerError \/ BeginGrammar)
    BY <1>4, IdleSteps
  <2>2. QED
    BY <1>2, <1>3, <2>1 DEF RefuseLexerError, BeginGrammar, RegInv
<1>5. CASE Next /\ status = "parsing"
  <2>1. CASE EndGrammar
    <3>1. CASE Token = "TERMINATOR" /\ result # NULL
      <4>1. status' = "NO_DIFFERENTIATOR_ERRORS"
        BY <2>1, <3>1 DEF EndGrammar, AtTerminator, FinishParseFile
      <4>2. QED
        BY <2>1, <3>1, <4>1, AcceptRegisters DEF RegInv
    <3>2. CASE ~(Token = "TERMINATOR" /\ result # NULL)
      BY <1>3, <2>1, <3>2 DEF EndGrammar, AtTerminator
    <3>3. QED
      BY <3>1, <3>2
  <2>2. CASE ~EndGrammar
    <3>1. reassignments' = reassignments /\ status' \in {"parsing", "undefined"}
      BY <1>5, <2>2
         DEF Next, GetGrammar, RefuseLexerError, BeginGrammar, GetBinaryOperation, BinaryEntry,
             BinaryFirst, BinaryLoopEnd, BinaryLoopBracket, BinaryLoopTake, BinarySecond,
             BinarySecondFails, GetUnaryOperation, UnaryEntry, UnaryValue, UnaryTake,
             UnaryRefuse, UnaryOperand, GetSeparator, GetNumber, SeparatorOpen,
             SeparatorRefuse, SeparatorInnerFails, SeparatorClose, SeparatorUnclosed,
             ReadOutside
    <3>2. QED
      BY <1>2, <1>5, <3>1 DEF RegInv
  <2>3. QED
    BY <2>1, <2>2
<1>6. QED
  BY <1>1, <1>4, <1>5

(* On every input: what GetReassignments registers of the accepted tree are, each     *)
(* once and after what is below it, exactly the operations it cut the depth of.       *)
THEOREM ReassignmentsBottomUp == Spec => []RegisteredBottomUp
<1>1. Init => TypeInv /\ LinkInv /\ Acyclic /\ SumInv /\ RegInv
  <2>1. Init => reassignments = <<>> /\ status = "lexed"
    BY DEF Init
  <2>2. QED
    BY <2>1, TypeInit, LinkInit, AcyclicInit, SumInit, NothingRegistered
<1>2. /\ TypeInv /\ LinkInv /\ Acyclic /\ SumInv /\ RegInv
      /\ [Next]_vars
      => (TypeInv /\ LinkInv /\ Acyclic /\ SumInv /\ RegInv)'
  BY TypeStep, LinkStep, AcyclicStep, SumStep, RegStep
<1>3. RegInv => RegisteredBottomUp
  BY DEF RegInv
<1>4. QED
  BY <1>1, <1>2, <1>3, PTL DEF Spec

-----------------------------------------------------------------------------
(* The operands of an accepted tree are those of the result GetGrammar got: the     *)
(* token it destroys, the terminator, is not in that tree.                      *)
LEMMA AcceptFits ==
  ASSUME TypeInv, LinkInv, SumInv, Acyclic, EndGrammar, Token = "TERMINATOR", result # NULL
  PROVE  FitsDifferentiate'
<1>1. /\ status = "parsing" /\ stack = <<>> /\ tokens[currentNode] = "TERMINATOR"
      /\ FinishParseFile(result, [tokens EXCEPT ![currentNode] = NULL])
  BY DEF EndGrammar, AtTerminator, Token
<1>2. /\ left' = left /\ right' = right /\ lexed' = lexed /\ root' = result
      /\ tokens' = [tokens EXCEPT ![currentNode] = NULL]
  BY <1>1 DEF FinishParseFile
<1>3. Nodes' = Nodes /\ Below' = Below
  <2>1. Nodes' = Nodes
    BY <1>2 DEF Nodes, Indices, Terminated
  <2>2. QED
    BY <1>2, <2>1, BelowStays
<1>4. \A n \in Below[result] : n \in Nodes /\ HasOperands(n)
  BY <1>1, BelowComplete
<1>5. tokens \in [Nodes -> TokenKinds \cup {NULL}]
  BY DEF TypeInv, TypeOK, Nodes
<1>6. ASSUME NEW n \in Below[result]
      PROVE  HasOperands(n)'
  <2>1. tokens[n] # "TERMINATOR"
    BY <1>4, <1>6, KindsDisjoint DEF HasOperands
  <2>2. tokens'[n] = tokens[n]
    BY <1>1, <1>2, <1>4, <1>5, <1>6, <2>1
  <2>3. QED
    BY <1>2, <1>4, <1>6, <2>2 DEF HasOperands
<1>7. QED
  BY <1>2, <1>3, <1>6 DEF FitsDifferentiate

(* Every step keeps them: only GetGrammar accepts, and nothing follows.           *)
LEMMA FitsStep ==
  ASSUME TypeInv, LinkInv, SumInv, Acyclic, FitsDifferentiate, [Next]_vars
  PROVE  FitsDifferentiate'
<1> USE DEF vars, links
<1>1. CASE UNCHANGED vars
  <2>1. Nodes' = Nodes /\ Below' = Below
    BY <1>1, LexedConstant, BelowStays DEF Nodes
  <2>2. QED
    BY <1>1, <2>1 DEF FitsDifferentiate, Accepted, HasOperands
<1>2. ASSUME NEW tokens_left, FinishParseFile(NULL, tokens_left)
      PROVE  FitsDifferentiate'
  BY <1>2 DEF FinishParseFile, FitsDifferentiate, Accepted
<1>3. CASE Next /\ EndGrammar
  <2>1. CASE Token = "TERMINATOR" /\ result # NULL
    BY <1>3, <2>1, AcceptFits
  <2>2. CASE ~(Token = "TERMINATOR" /\ result # NULL)
    BY <1>2, <1>3, <2>2 DEF EndGrammar, AtTerminator
  <2>3. QED
    BY <2>1, <2>2
<1>4. CASE Next /\ RefuseLexerError
  BY <1>2, <1>4 DEF RefuseLexerError
<1>5. CASE Next /\ ~EndGrammar /\ ~RefuseLexerError
  <2>1. status' \in {"parsing", "undefined"}
    BY <1>5
       DEF Next, GetGrammar, BeginGrammar, Active, GetBinaryOperation, BinaryEntry,
           BinaryFirst, BinaryLoopEnd, BinaryLoopBracket, BinaryLoopTake, BinarySecond,
           BinarySecondFails, GetUnaryOperation, UnaryEntry, UnaryValue, UnaryTake,
           UnaryRefuse, UnaryOperand, GetSeparator, GetNumber, SeparatorOpen,
           SeparatorRefuse, SeparatorInnerFails, SeparatorClose, SeparatorUnclosed,
           ReadOutside
  <2>2. QED
    BY <2>1 DEF FitsDifferentiate, Accepted
<1>6. QED
  BY <1>1, <1>3, <1>4, <1>5

(* On every input the parser accepts, misparsed or not, each node is a number, a      *)
(* variable or an operation with the operands that Differentiate, which follows the   *)
(* pointers unchecked, takes.                                                    *)
THEOREM OperandsInPlace == Spec => []FitsDifferentiate
<1>1. Init => TypeInv /\ LinkInv /\ Acyclic /\ SumInv /\ FitsDifferentiate
  <2>1. Init => FitsDifferentiate
    BY DEF Init, FitsDifferentiate, Accepted
  <2>2. QED
    BY <2>1, TypeInit, LinkInit, AcyclicInit, SumInit
<1>2. /\ TypeInv /\ LinkInv /\ Acyclic /\ SumInv /\ FitsDifferentiate
      /\ [Next]_vars
      => (TypeInv /\ LinkInv /\ Acyclic /\ SumInv /\ FitsDifferentiate)'
  BY TypeStep, LinkStep, AcyclicStep, SumStep, FitsStep
<1>3. QED
  BY <1>1, <1>2, PTL DEF Spec

-----------------------------------------------------------------------------
(* The drawing of a tree.  The recursive definition of EmitNode has a solution, and   *)
(* by induction over the tree it draws every node and every link once.            *)

Statement(heap, n, size) ==
  [node  |-> n,
   color |-> Dumps!GetNodeColor(heap.kind[n]),
   label |-> Dumps!EmitNodeData(heap, n, size)]

Statements(heap, size) == {Statement(heap, n, size) : n \in DOMAIN heap.left}

Pairs(heap) == (DOMAIN heap.left) \X (DOMAIN heap.left)

Drawings(heap, size) == [nodes : Seq(Statements(heap, size)), links : Seq(Pairs(heap))]

Nothing == [nodes |-> <<>>, links |-> <<>>]

(* A node above what its children emit.                                          *)
DrawnAbove(heap, n, size, l, r) ==
  [nodes |-> << Statement(heap, n, size) >> \o l.nodes \o r.nodes,
   links |-> Dumps!EmitNodeConnections(heap, n) \o l.links \o r.links]

(* Drawing nothing draws nothing.                                             *)
LEMMA NothingDrawn ==
  ASSUME NEW heap, NEW size
  PROVE  Nothing \in Drawings(heap, size)
<1>1. <<>> \in Seq(Statements(heap, size)) /\ <<>> \in Seq(Pairs(heap))
  BY R!ShortSequences
<1>2. QED
  BY <1>1 DEF Nothing, Drawings

(* The links of a node lead to its children.                                      *)
LEMMA ConnectionsAre ==
  ASSUME NEW heap, NEW rank, NEW top, R!Ranked(heap, rank, top), NEW n \in DOMAIN heap.left
  PROVE  LET s == Dumps!EmitNodeConnections(heap, n)
         IN  /\ s \in Seq(Pairs(heap))
             /\ R!Elements(s) = {<< n, m >> : m \in R!Children(heap, n)}
             /\ Len(s) = (IF heap.left[n] = NULL THEN 0 ELSE 1) + (IF heap.right[n] = NULL THEN 0 ELSE 1)
<1> DEFINE nodes == DOMAIN heap.left
           a == IF heap.left[n]  = NULL THEN <<>> ELSE << << n, heap.left[n] >> >>
           b == IF heap.right[n] = NULL THEN <<>> ELSE << << n, heap.right[n] >> >>
<1>1. /\ heap.left[n] \in nodes \cup {NULL} /\ heap.right[n] \in nodes \cup {NULL}
  BY DEF R!Ranked
<1>2. a \in Seq(Pairs(heap)) /\ Len(a) = IF heap.left[n] = NULL THEN 0 ELSE 1
  <2>1. CASE heap.left[n] = NULL
    BY <2>1, R!ShortSequences
  <2>2. CASE heap.left[n] # NULL
    <3>1. << n, heap.left[n] >> \in Pairs(heap)
      BY <1>1, <2>2 DEF Pairs
    <3>2. QED
      BY <2>2, <3>1, R!ShortSequences
  <2>3. QED
    BY <2>1, <2>2
<1>3. b \in Seq(Pairs(heap)) /\ Len(b) = IF heap.right[n] = NULL THEN 0 ELSE 1
  <2>1. CASE heap.right[n] = NULL
    BY <2>1, R!ShortSequences
  <2>2. CASE heap.right[n] # NULL
    <3>1. << n, heap.right[n] >> \in Pairs(heap)
      BY <1>1, <2>2 DEF Pairs
    <3>2. QED
      BY <2>2, <3>1, R!ShortSequences
  <2>3. QED
    BY <2>1, <2>2
<1>4. R!Elements(a) = {<< n, m >> : m \in {heap.left[n]} \ {NULL}}
  <2>1. CASE heap.left[n] = NULL
    BY <2>1 DEF R!Elements
  <2>2. CASE heap.left[n] # NULL
    BY <2>2 DEF R!Elements
  <2>3. QED
    BY <2>1, <2>2
<1>5. R!Elements(b) = {<< n, m >> : m \in {heap.right[n]} \ {NULL}}
  <2>1. CASE heap.right[n] = NULL
    BY <2>1 DEF R!Elements
  <2>2. CASE heap.right[n] # NULL
    BY <2>2 DEF R!Elements
  <2>3. QED
    BY <2>1, <2>2
<1>6. Dumps!EmitNodeConnections(heap, n) = a \o b
  BY DEF Dumps!EmitNodeConnections
<1> HIDE DEF a, b
<1>7. /\ a \o b \in Seq(Pairs(heap)) /\ Len(a \o b) = Len(a) + Len(b)
      /\ R!Elements(a \o b) = R!Elements(a) \cup R!Elements(b)
  BY SMTT(20), <1>2, <1>3, ConcatProperties, R!ConcatElements
<1>8. R!Elements(a) \cup R!Elements(b) = {<< n, m >> : m \in R!Children(heap, n)}
  BY <1>4, <1>5 DEF R!Children
<1>9. QED
  BY <1>2, <1>3, <1>6, <1>7, <1>8

(* What DrawnAbove is made of: the node, its links, and what is drawn below it. *)
LEMMA DrawnAboveIs ==
  ASSUME NEW heap, NEW rank, NEW top, R!Ranked(heap, rank, top), NEW size,
         NEW n \in DOMAIN heap.left,
         NEW l \in Drawings(heap, size), NEW r \in Drawings(heap, size)
  PROVE  DrawnAbove(heap, n, size, l, r) \in Drawings(heap, size)
<1>1. /\ l.nodes \in Seq(Statements(heap, size)) /\ r.nodes \in Seq(Statements(heap, size))
      /\ l.links \in Seq(Pairs(heap)) /\ r.links \in Seq(Pairs(heap))
  BY DEF Drawings
<1>2. << Statement(heap, n, size) >> \in Seq(Statements(heap, size))
  <2>1. Statement(heap, n, size) \in Statements(heap, size)
    BY DEF Statements
  <2>2. QED
    BY <2>1, R!ShortSequences
<1>3. << Statement(heap, n, size) >> \o l.nodes \o r.nodes \in Seq(Statements(heap, size))
  <2>1. << Statement(heap, n, size) >> \o l.nodes \in Seq(Statements(heap, size))
    BY <1>1, <1>2, ConcatProperties
  <2>2. QED
    BY <1>1, <2>1, ConcatProperties
<1>4. Dumps!EmitNodeConnections(heap, n) \o l.links \o r.links \in Seq(Pairs(heap))
  <2>1. Dumps!EmitNodeConnections(heap, n) \in Seq(Pairs(heap))
    BY ConnectionsAre
  <2>2. Dumps!EmitNodeConnections(heap, n) \o l.links \in Seq(Pairs(heap))
    BY <1>1, <2>1, ConcatProperties
  <2>3. QED
    BY <1>1, <2>2, ConcatProperties
<1>5. QED
  BY <1>3, <1>4 DEF DrawnAbove, Drawings

(* What EmitNode yields for a node is drawn above what it yields for its children.      *)
LEMMA EmitNodeIs ==
  ASSUME NEW heap, NEW rank, NEW top, R!Ranked(heap, rank, top), NEW size
  PROVE  LET emitted == Dumps!EmitNode(heap, size)
         IN  \A n \in DOMAIN heap.left :
               /\ emitted[n] \in Drawings(heap, size)
               /\ emitted[n] = DrawnAbove(heap, n, size,
                                          R!Of(emitted, Nothing, heap.left[n]),
                                          R!Of(emitted, Nothing, heap.right[n]))
<1> DEFINE nodes == DOMAIN heap.left
           values == Drawings(heap, size)
           step == [t \in nodes \X values \X values |-> DrawnAbove(heap, t[1], size, t[2], t[3])]
           F(f) == f = [n \in nodes |->
                     LET l == IF heap.left[n]  = NULL THEN [nodes |-> <<>>, links |-> <<>>] ELSE f[heap.left[n]]
                         r == IF heap.right[n] = NULL THEN [nodes |-> <<>>, links |-> <<>>] ELSE f[heap.right[n]]
                     IN  [nodes |-> << [node  |-> n,
                                        color |-> Dumps!GetNodeColor(heap.kind[n]),
                                        label |-> Dumps!EmitNodeData(heap, n, size)] >> \o l.nodes \o r.nodes,
                          links |-> Dumps!EmitNodeConnections(heap, n) \o l.links \o r.links]]
           emitted == CHOOSE f : F(f)
<1>1. step \in [nodes \X values \X values -> values]
  <2> HIDE DEF values
  <2>1. ASSUME NEW t \in nodes \X values \X values
        PROVE  DrawnAbove(heap, t[1], size, t[2], t[3]) \in values
    <3>1. t[1] \in nodes /\ t[2] \in values /\ t[3] \in values
      OBVIOUS
    <3>2. QED
      BY <3>1, DrawnAboveIs DEF values
  <2>2. QED
    BY <2>1
<1>2. Nothing \in values
  BY NothingDrawn
<1>3. \A n \in nodes, l, r \in values : step[<< n, l, r >>] = DrawnAbove(heap, n, size, l, r)
  <2> HIDE DEF values
  <2>1. QED
    OBVIOUS
<1>4. PICK f : R!Computes(heap, values, step, Nothing, f)
  <2> HIDE DEF step, values
  <2>1. QED
    BY <1>1, <1>2, R!TreeRecursion
<1>5. /\ f \in [nodes -> values]
      /\ \A n \in nodes :
           f[n] = step[<< n, R!Of(f, Nothing, heap.left[n]), R!Of(f, Nothing, heap.right[n]) >>]
  BY <1>4 DEF R!Computes
<1>6. \A n \in nodes : /\ heap.left[n] \in nodes \cup {NULL}
                       /\ heap.right[n] \in nodes \cup {NULL}
  BY DEF R!Ranked
<1>7. ASSUME NEW n \in nodes
      PROVE  f[n] = DrawnAbove(heap, n, size, R!Of(f, Nothing, heap.left[n]), R!Of(f, Nothing, heap.right[n]))
  <2> DEFINE l == R!Of(f, Nothing, heap.left[n])
             r == R!Of(f, Nothing, heap.right[n])
  <2> HIDE DEF values, step
  <2>1. l \in values /\ r \in values
    BY <1>2, <1>5, <1>6 DEF R!Of
  <2>2. f[n] = step[<< n, l, r >>]
    BY <1>5
  <2> HIDE DEF l, r
  <2>3. QED
    BY <1>3, <2>1, <2>2 DEF l, r
<1>8. \A g, n : DrawnAbove(heap, n, size, R!Of(g, Nothing, heap.left[n]), R!Of(g, Nothing, heap.right[n])) =
        LET l == IF heap.left[n]  = NULL THEN [nodes |-> <<>>, links |-> <<>>] ELSE g[heap.left[n]]
            r == IF heap.right[n] = NULL THEN [nodes |-> <<>>, links |-> <<>>] ELSE g[heap.right[n]]
        IN  [nodes |-> << [node  |-> n,
                           color |-> Dumps!GetNodeColor(heap.kind[n]),
                           label |-> Dumps!EmitNodeData(heap, n, size)] >> \o l.nodes \o r.nodes,
             links |-> Dumps!EmitNodeConnections(heap, n) \o l.links \o r.links]
  BY Zenon DEF DrawnAbove, Statement, Nothing, R!Of
<1>9. F(f)
  <2> HIDE DEF values, step
  <2>1. f = [n \in nodes |-> f[n]]
    BY <1>5
  <2>2. QED
    BY <1>7, <1>8, <2>1
<1>10. Dumps!EmitNode(heap, size) = emitted
  BY DEF Dumps!EmitNode
<1>11. F(emitted)
  BY <1>9
<1> HIDE DEF emitted
<1>12. \A n \in nodes :
         emitted[n] = DrawnAbove(heap, n, size, R!Of(emitted, Nothing, heap.left[n]),
                                 R!Of(emitted, Nothing, heap.right[n]))
  <2> SUFFICES ASSUME NEW n \in nodes
               PROVE  emitted[n] = DrawnAbove(heap, n, size, R!Of(emitted, Nothing, heap.left[n]),
                                              R!Of(emitted, Nothing, heap.right[n]))
    OBVIOUS
  <2>1. emitted[n] =
          LET l == IF heap.left[n]  = NULL THEN [nodes |-> <<>>, links |-> <<>>] ELSE emitted[heap.left[n]]
              r == IF heap.right[n] = NULL THEN [nodes |-> <<>>, links |-> <<>>] ELSE emitted[heap.right[n]]
          IN  [nodes |-> << [node  |-> n,
                             color |-> Dumps!GetNodeColor(heap.kind[n]),
                             label |-> Dumps!EmitNodeData(heap, n, size)] >> \o l.nodes \o r.nodes,
               links |-> Dumps!EmitNodeConnections(heap, n) \o l.links \o r.links]
    BY <1>11, Zenon
  <2>2. QED
    BY <1>8, <2>1
<1> DEFINE S == {n \in nodes : emitted[n] \in values}
<1>13. ASSUME NEW n \in nodes, R!Children(heap, n) \subseteq S
       PROVE  n \in S
  <2> HIDE DEF values
  <2>1. R!Of(emitted, Nothing, heap.left[n]) \in values /\ R!Of(emitted, Nothing, heap.right[n]) \in values
    BY <1>2, <1>13 DEF R!Children, R!Of
  <2>2. emitted[n] \in values
    BY <1>12, <2>1, DrawnAboveIs DEF values
  <2>3. QED
    BY <2>2
<1>14. nodes \subseteq S
  <2> HIDE DEF S
  <2>1. QED
    BY <1>13, R!TreeInduction
<1>15. QED
  BY <1>10, <1>12, <1>14

(* The elements of a sequence have different keys.                                  *)
Distinct(s, key) == \A i, j \in DOMAIN s : key[s[i]] = key[s[j]] => i = j

(* Two sequences without repetition and without a common key, joined.         *)
LEMMA ConcatDistinct ==
  ASSUME NEW S, NEW s \in Seq(S), NEW t \in Seq(S), NEW key, Distinct(s, key), Distinct(t, key),
         \A x \in R!Elements(s), y \in R!Elements(t) : key[x] # key[y]
  PROVE  Distinct(s \o t, key)
<1>1. /\ DOMAIN s = 1..Len(s) /\ DOMAIN t = 1..Len(t)
      /\ Len(s) \in Nat /\ Len(t) \in Nat
  BY LenProperties
<1>2. /\ s \o t \in Seq(S) /\ Len(s \o t) = Len(s) + Len(t)
      /\ \A i \in 1..(Len(s) + Len(t)) :
           (s \o t)[i] = IF i <= Len(s) THEN s[i] ELSE t[i - Len(s)]
  BY ConcatProperties
<1>3. DOMAIN (s \o t) = 1..(Len(s) + Len(t))
  BY <1>2, LenProperties
<1> SUFFICES ASSUME NEW i \in 1..(Len(s) + Len(t)), NEW j \in 1..(Len(s) + Len(t)),
                    key[(s \o t)[i]] = key[(s \o t)[j]]
             PROVE  i = j
  BY <1>3 DEF Distinct
<1>4. \A k \in 1..(Len(s) + Len(t)) :
        \/ k <= Len(s) /\ k \in DOMAIN s /\ (s \o t)[k] = s[k] /\ s[k] \in R!Elements(s)
        \/ /\ ~(k <= Len(s)) /\ k - Len(s) \in DOMAIN t
           /\ (s \o t)[k] = t[k - Len(s)] /\ t[k - Len(s)] \in R!Elements(t)
  BY <1>1, <1>2 DEF R!Elements
<1>5. CASE i <= Len(s) /\ j <= Len(s)
  BY <1>4, <1>5 DEF Distinct
<1>6. CASE ~(i <= Len(s)) /\ ~(j <= Len(s))
  <2>1. i - Len(s) = j - Len(s)
    BY <1>4, <1>6 DEF Distinct
  <2>2. QED
    BY <1>1, <2>1
<1>7. CASE i <= Len(s) /\ ~(j <= Len(s))
  BY <1>4, <1>7
<1>8. CASE ~(i <= Len(s)) /\ j <= Len(s)
  BY <1>4, <1>8
<1>9. QED
  BY <1>5, <1>6, <1>7, <1>8

(* d has a statement for each of the nodes, and one for each link from them.          *)
NodeOf(heap, size) == [statement \in Statements(heap, size) |-> statement.node]
EndOf(heap) == [link \in Pairs(heap) |-> link[2]]

LinksFrom(heap, nodes) == {link \in Pairs(heap) : link[1] \in nodes /\ link[2] \in R!Children(heap, link[1])}

Draws(heap, size, nodes, d) ==
  /\ R!Elements(d.nodes) = {Statement(heap, n, size) : n \in nodes}
  /\ Distinct(d.nodes, NodeOf(heap, size))
  /\ R!Elements(d.links) = LinksFrom(heap, nodes)
  /\ Distinct(d.links, EndOf(heap))

(* The empty drawing draws no node.                                           *)
LEMMA NothingDraws ==
  ASSUME NEW heap, NEW size
  PROVE  Draws(heap, size, {}, Nothing)
BY DEF Draws, Nothing, R!Elements, Distinct, LinksFrom

(* No two links lead to a node, so links from different nodes lead to different ones. *)
LEMMA EndsApart ==
  ASSUME NEW heap, R!OneOwner(heap), NEW x \in Pairs(heap), NEW y \in Pairs(heap),
         x[2] \in R!Children(heap, x[1]), y[2] \in R!Children(heap, y[1]), x[1] # y[1]
  PROVE  EndOf(heap)[x] # EndOf(heap)[y]
<1>1. x[1] \in DOMAIN heap.left /\ y[1] \in DOMAIN heap.left
  BY DEF Pairs
<1>2. x[2] # y[2]
  BY <1>1 DEF R!OneOwner
<1>3. QED
  BY <1>2 DEF EndOf

(* What a node and its children draw is apart.                                     *)
LEMMA DrawnAboveDraws ==
  ASSUME NEW heap, NEW rank, NEW top, R!Ranked(heap, rank, top), R!OneOwner(heap), NEW size,
         NEW n \in DOMAIN heap.left,
         NEW l \in Drawings(heap, size), NEW r \in Drawings(heap, size),
         NEW X \in SUBSET DOMAIN heap.left, NEW Y \in SUBSET DOMAIN heap.left,
         n \notin X, n \notin Y, X \cap Y = {},
         Draws(heap, size, X, l), Draws(heap, size, Y, r)
  PROVE  Draws(heap, size, {n} \cup X \cup Y, DrawnAbove(heap, n, size, l, r))
<1> DEFINE S == Statements(heap, size)
           own == << Statement(heap, n, size) >>
           K == NodeOf(heap, size)
           E == EndOf(heap)
           ends == Dumps!EmitNodeConnections(heap, n)
<1>1. /\ l.nodes \in Seq(S) /\ r.nodes \in Seq(S)
      /\ l.links \in Seq(Pairs(heap)) /\ r.links \in Seq(Pairs(heap))
  BY DEF Drawings
<1>2. own \in Seq(S) /\ R!Elements(own) = {Statement(heap, n, size)} /\ Distinct(own, K)
  <2>1. Statement(heap, n, size) \in S
    BY DEF Statements
  <2>2. own \in Seq(S)
    BY <2>1, R!ShortSequences
  <2>3. QED
    BY <2>2 DEF R!Elements, Distinct
<1>3. \A m \in DOMAIN heap.left : Statement(heap, m, size) \in S /\ K[Statement(heap, m, size)] = m
  BY DEF Statements, NodeOf, Statement
<1>4. /\ ends \in Seq(Pairs(heap))
      /\ R!Elements(ends) = {<< n, m >> : m \in R!Children(heap, n)}
  BY ConnectionsAre
<1>5. Distinct(ends, E)
  <2>1. \A i, j \in DOMAIN ends : ends[i][2] = ends[j][2] => i = j
    <3>1. heap.left[n] # NULL => heap.left[n] # heap.right[n]
      BY DEF R!OneOwner
    <3>2. ends = (IF heap.left[n]  = NULL THEN <<>> ELSE << << n, heap.left[n] >> >>) \o
                  (IF heap.right[n] = NULL THEN <<>> ELSE << << n, heap.right[n] >> >>)
      BY DEF Dumps!EmitNodeConnections
    <3>3. CASE heap.left[n] = NULL /\ heap.right[n] = NULL
      BY <3>2, <3>3
    <3>4. CASE heap.left[n] # NULL /\ heap.right[n] = NULL
      <4>1. ends = << << n, heap.left[n] >> >>
        BY <3>2, <3>4
      <4>2. QED
        BY <4>1
    <3>5. CASE heap.left[n] = NULL /\ heap.right[n] # NULL
      <4>1. ends = << << n, heap.right[n] >> >>
        BY <3>2, <3>5
      <4>2. QED
        BY <4>1
    <3>6. CASE heap.left[n] # NULL /\ heap.right[n] # NULL
      <4>1. ends = << << n, heap.left[n] >> >> \o << << n, heap.right[n] >> >>
        BY <3>2, <3>6
      <4>2. Len(ends) = 2 /\ ends[1] = << n, heap.left[n] >> /\ ends[2] = << n, heap.right[n] >>
        BY <4>1
      <4>3. DOMAIN ends = 1..2
        BY <1>4, <4>2, LenProperties
      <4> HIDE DEF ends
      <4>4. QED
        BY <3>1, <3>6, <4>2, <4>3
    <3>7. QED
      BY <3>3, <3>4, <3>5, <3>6
  <2>2. \A i \in DOMAIN ends : ends[i] \in Pairs(heap)
    BY <1>4, ElementOfSeq, LenProperties
  <2> HIDE DEF ends
  <2>3. QED
    BY <2>1, <2>2 DEF Distinct, EndOf
<1>6. LinksFrom(heap, {n}) = {<< n, m >> : m \in R!Children(heap, n)}
  <2>1. \A m \in R!Children(heap, n) : << n, m >> \in Pairs(heap)
    BY DEF R!Children, R!Ranked, Pairs
  <2>2. QED
    BY <2>1 DEF LinksFrom, Pairs
<1>7. /\ R!Elements(own \o l.nodes) = R!Elements(own) \cup R!Elements(l.nodes)
      /\ own \o l.nodes \in Seq(S) /\ Distinct(own \o l.nodes, K)
  <2> HIDE DEF own, K, S
  <2>1. R!Elements(own \o l.nodes) = R!Elements(own) \cup R!Elements(l.nodes)
    BY <1>1, <1>2, R!ConcatElements
  <2>2. Distinct(l.nodes, K) /\ \A x \in R!Elements(own), y \in R!Elements(l.nodes) : K[x] # K[y]
    BY <1>2, <1>3 DEF Draws, K
  <2>3. QED
    BY <1>1, <1>2, <2>1, <2>2, ConcatDistinct, ConcatProperties
<1>8. /\ R!Elements(own \o l.nodes \o r.nodes) = {Statement(heap, m, size) : m \in {n} \cup X \cup Y}
      /\ Distinct(own \o l.nodes \o r.nodes, K)
  <2> DEFINE s == own \o l.nodes
  <2>1. R!Elements(s) = {Statement(heap, m, size) : m \in {n} \cup X} /\ Distinct(s, K) /\ s \in Seq(S)
    BY <1>2, <1>7 DEF Draws
  <2>2. R!Elements(r.nodes) = {Statement(heap, m, size) : m \in Y} /\ Distinct(r.nodes, K)
    BY DEF Draws
  <2> HIDE DEF own, s, K, S
  <2>3. R!Elements(s \o r.nodes) = R!Elements(s) \cup R!Elements(r.nodes)
    BY <1>1, <2>1, R!ConcatElements
  <2>4. \A x \in R!Elements(s), y \in R!Elements(r.nodes) : K[x] # K[y]
    BY <1>3, <2>1, <2>2
  <2>5. Distinct(s \o r.nodes, K)
    BY <1>1, <2>1, <2>2, <2>4, ConcatDistinct
  <2>6. R!Elements(s) \cup R!Elements(r.nodes) = {Statement(heap, m, size) : m \in {n} \cup X \cup Y}
    BY <2>1, <2>2
  <2>7. QED
    BY <2>3, <2>5, <2>6 DEF s
<1>9. \A A, B \in SUBSET DOMAIN heap.left : A \cap B = {} =>
        /\ LinksFrom(heap, A \cup B) = LinksFrom(heap, A) \cup LinksFrom(heap, B)
        /\ \A x \in LinksFrom(heap, A), y \in LinksFrom(heap, B) : E[x] # E[y]
  <2>1. ASSUME NEW A \in SUBSET DOMAIN heap.left, NEW B \in SUBSET DOMAIN heap.left, A \cap B = {},
               NEW x \in LinksFrom(heap, A), NEW y \in LinksFrom(heap, B)
        PROVE  E[x] # E[y]
    <3>1. /\ x \in Pairs(heap) /\ y \in Pairs(heap) /\ x[1] # y[1]
          /\ x[2] \in R!Children(heap, x[1]) /\ y[2] \in R!Children(heap, y[1])
      BY <2>1 DEF LinksFrom
    <3>2. QED
      BY <3>1, EndsApart
  <2>2. \A A, B \in SUBSET DOMAIN heap.left :
          LinksFrom(heap, A \cup B) = LinksFrom(heap, A) \cup LinksFrom(heap, B)
    BY DEF LinksFrom
  <2>3. QED
    BY <2>1, <2>2
<1>10. /\ R!Elements(ends) = LinksFrom(heap, {n}) /\ R!Elements(l.links) = LinksFrom(heap, X)
       /\ R!Elements(r.links) = LinksFrom(heap, Y)
       /\ Distinct(l.links, E) /\ Distinct(r.links, E)
  BY <1>4, <1>6 DEF Draws
<1> HIDE DEF ends, E
<1>11. /\ ends \o l.links \in Seq(Pairs(heap)) /\ Distinct(ends \o l.links, E)
       /\ R!Elements(ends \o l.links) = LinksFrom(heap, {n} \cup X)
  <2>1. R!Elements(ends \o l.links) = LinksFrom(heap, {n}) \cup LinksFrom(heap, X)
    <3>1. ends \in Seq(Pairs(heap)) /\ l.links \in Seq(Pairs(heap))
      BY <1>1, <1>4
    <3>2. R!Elements(ends \o l.links) = R!Elements(ends) \cup R!Elements(l.links)
      BY <3>1, R!ConcatElements
    <3>3. QED
      BY <1>10, <3>2
  <2>2. /\ LinksFrom(heap, {n} \cup X) = LinksFrom(heap, {n}) \cup LinksFrom(heap, X)
        /\ \A x \in LinksFrom(heap, {n}), y \in LinksFrom(heap, X) : E[x] # E[y]
    BY <1>9
  <2>3. Distinct(ends \o l.links, E)
    BY <1>1, <1>4, <1>5, <1>10, <2>2, ConcatDistinct
  <2>4. QED
    BY <1>1, <1>4, <2>1, <2>2, <2>3, ConcatProperties
<1>12. /\ Distinct(ends \o l.links \o r.links, E)
       /\ R!Elements(ends \o l.links \o r.links) = LinksFrom(heap, {n} \cup X \cup Y)
  <2> DEFINE s == ends \o l.links
  <2>1. /\ s \in Seq(Pairs(heap)) /\ Distinct(s, E) /\ R!Elements(s) = LinksFrom(heap, {n} \cup X)
    BY <1>11
  <2> HIDE DEF s
  <2>2. R!Elements(s \o r.links) = LinksFrom(heap, {n} \cup X) \cup LinksFrom(heap, Y)
    BY <1>1, <1>10, <2>1, R!ConcatElements
  <2>3. ({n} \cup X) \cap Y = {} /\ {n} \cup X \in SUBSET DOMAIN heap.left
    OBVIOUS
  <2>4. /\ LinksFrom(heap, {n} \cup X \cup Y) = LinksFrom(heap, {n} \cup X) \cup LinksFrom(heap, Y)
        /\ \A x \in LinksFrom(heap, {n} \cup X), y \in LinksFrom(heap, Y) : E[x] # E[y]
    BY <1>9, <2>3
  <2>5. Distinct(s \o r.links, E)
    BY <1>1, <1>10, <2>1, <2>4, ConcatDistinct
  <2>6. QED
    BY <2>2, <2>4, <2>5 DEF s
<1>13. /\ DrawnAbove(heap, n, size, l, r).nodes = own \o l.nodes \o r.nodes
       /\ DrawnAbove(heap, n, size, l, r).links = ends \o l.links \o r.links
  BY DEF DrawnAbove, ends
<1>14. QED
  BY <1>8, <1>12, <1>13 DEF Draws, E

(* One statement more than links: every node but the topmost has one link to it.       *)
Counted(none, d) == Len(d.nodes) = Len(d.links) + (IF none THEN 0 ELSE 1)

(* Nodes and links are counted together when two drawings are joined.         *)
LEMMA JoinedLength ==
  ASSUME NEW S, NEW s \in Seq(S), NEW t \in Seq(S), NEW u \in Seq(S)
  PROVE  Len(s \o t \o u) = Len(s) + Len(t) + Len(u)
<1>1. s \o t \in Seq(S) /\ Len(s \o t) = Len(s) + Len(t)
  BY ConcatProperties
<1>2. QED
  BY <1>1, ConcatProperties

(* A tree has one link less than it has nodes.                                *)
LEMMA DrawnAboveCounted ==
  ASSUME NEW heap, NEW rank, NEW top, R!Ranked(heap, rank, top), NEW size,
         NEW n \in DOMAIN heap.left,
         NEW l \in Drawings(heap, size), NEW r \in Drawings(heap, size),
         Counted(heap.left[n] = NULL, l), Counted(heap.right[n] = NULL, r)
  PROVE  Counted(FALSE, DrawnAbove(heap, n, size, l, r))
<1> DEFINE S == Statements(heap, size)
           own == << Statement(heap, n, size) >>
           ends == Dumps!EmitNodeConnections(heap, n)
<1>1. /\ l.nodes \in Seq(S) /\ r.nodes \in Seq(S)
      /\ l.links \in Seq(Pairs(heap)) /\ r.links \in Seq(Pairs(heap))
  BY DEF Drawings
<1>2. own \in Seq(S) /\ Len(own) = 1
  <2>1. Statement(heap, n, size) \in S
    BY DEF Statements
  <2>2. QED
    BY <2>1, R!ShortSequences
<1>3. /\ ends \in Seq(Pairs(heap))
      /\ Len(ends) = (IF heap.left[n] = NULL THEN 0 ELSE 1) + (IF heap.right[n] = NULL THEN 0 ELSE 1)
  BY ConnectionsAre
<1> DEFINE s == l.nodes
           t == r.nodes
           u == l.links
           v == r.links
           i == IF heap.left[n] = NULL THEN 0 ELSE 1
           j == IF heap.right[n] = NULL THEN 0 ELSE 1
<1>4. Len(s) = Len(u) + i /\ Len(t) = Len(v) + j /\ i \in Nat /\ j \in Nat
  BY DEF Counted
<1>5. /\ DrawnAbove(heap, n, size, l, r).nodes = own \o s \o t
      /\ DrawnAbove(heap, n, size, l, r).links = ends \o u \o v
  BY DEF DrawnAbove
<1> HIDE DEF S, own, ends, s, t, u, v, i, j
<1>6. s \in Seq(S) /\ t \in Seq(S) /\ u \in Seq(Pairs(heap)) /\ v \in Seq(Pairs(heap))
  BY <1>1 DEF s, t, u, v
<1>7. Len(own \o s \o t) = Len(own) + Len(s) + Len(t)
  <2>1. own \in Seq(S) /\ s \in Seq(S) /\ t \in Seq(S)
    BY <1>2, <1>6
  <2>2. QED
    BY <2>1, JoinedLength
<1>8. Len(ends \o u \o v) = Len(ends) + Len(u) + Len(v)
  <2>1. ends \in Seq(Pairs(heap)) /\ u \in Seq(Pairs(heap)) /\ v \in Seq(Pairs(heap))
    BY <1>3, <1>6
  <2>2. QED
    BY <2>1, JoinedLength
<1>9. Len(u) \in Nat /\ Len(v) \in Nat /\ Len(ends) = i + j
  BY <1>3, <1>6, LenProperties DEF i, j
<1>10. Len(own \o s \o t) = Len(ends \o u \o v) + 1
  BY <1>2, <1>4, <1>7, <1>8, <1>9
<1>11. QED
  BY <1>5, <1>10 DEF Counted

(* What is drawn of a tree: its nodes, each once, and the links between them. *)
LEMMA TreeDrawn ==
  ASSUME NEW heap, NEW rank, NEW top, R!Ranked(heap, rank, top), R!OneOwner(heap),
         NEW below, R!IsBelow(heap, below), NEW size
  PROVE  \A n \in DOMAIN heap.left :
           LET d == Dumps!EmitNode(heap, size)[n]
           IN  d \in Drawings(heap, size) /\ Draws(heap, size, below[n], d) /\ Counted(FALSE, d)
<1> DEFINE nodes == DOMAIN heap.left
           emitted == Dumps!EmitNode(heap, size)
           Right(n) == Draws(heap, size, below[n], emitted[n]) /\ Counted(FALSE, emitted[n])
           S == {n \in nodes : Right(n)}
<1>1. \A n \in nodes :
        /\ emitted[n] \in Drawings(heap, size)
        /\ emitted[n] = DrawnAbove(heap, n, size, R!Of(emitted, Nothing, heap.left[n]),
                                   R!Of(emitted, Nothing, heap.right[n]))
  BY EmitNodeIs
<1> HIDE DEF emitted
<1>2. /\ below \in [nodes -> SUBSET nodes]
      /\ \A n \in nodes :
           below[n] = {n} \cup R!Of(below, {}, heap.left[n]) \cup R!Of(below, {}, heap.right[n])
  BY DEF R!IsBelow
<1>3. Counted(TRUE, Nothing) /\ Draws(heap, size, {}, Nothing) /\ Nothing \in Drawings(heap, size)
  BY NothingDraws, NothingDrawn DEF Counted, Nothing
<1>4. ASSUME NEW n \in nodes, R!Children(heap, n) \subseteq S
      PROVE  n \in S
  <2> DEFINE l == R!Of(emitted, Nothing, heap.left[n])
             r == R!Of(emitted, Nothing, heap.right[n])
             X == R!Of(below, {}, heap.left[n])
             Y == R!Of(below, {}, heap.right[n])
  <2>1. heap.left[n] \in nodes \cup {NULL} /\ heap.right[n] \in nodes \cup {NULL}
    BY DEF R!Ranked
  <2>2. /\ l \in Drawings(heap, size) /\ X \in SUBSET nodes
        /\ Draws(heap, size, X, l) /\ Counted(heap.left[n] = NULL, l)
    <3>1. CASE heap.left[n] = NULL
      BY <1>3, <3>1 DEF R!Of, Counted
    <3>2. CASE heap.left[n] # NULL
      <4>1. heap.left[n] \in S /\ l = emitted[heap.left[n]] /\ X = below[heap.left[n]]
        BY <1>4, <3>2 DEF R!Children, R!Of
      <4>2. QED
        BY <1>1, <1>2, <3>2, <4>1 DEF Counted
    <3>3. QED
      BY <3>1, <3>2
  <2>3. /\ r \in Drawings(heap, size) /\ Y \in SUBSET nodes
        /\ Draws(heap, size, Y, r) /\ Counted(heap.right[n] = NULL, r)
    <3>1. CASE heap.right[n] = NULL
      BY <1>3, <3>1 DEF R!Of, Counted
    <3>2. CASE heap.right[n] # NULL
      <4>1. heap.right[n] \in S /\ r = emitted[heap.right[n]] /\ Y = below[heap.right[n]]
        BY <1>4, <3>2 DEF R!Children, R!Of
      <4>2. QED
        BY <1>1, <1>2, <3>2, <4>1 DEF Counted
    <3>3. QED
      BY <3>1, <3>2
  <2>4. n \notin X /\ n \notin Y
    <3>1. \A child \in R!Children(heap, n) : n \notin below[child]
      <4> SUFFICES ASSUME NEW child \in R!Children(heap, n), n \in below[child]
                   PROVE  FALSE
        OBVIOUS
      <4>1. child \in nodes /\ rank[child] < rank[n] /\ rank[child] \in Nat /\ rank[n] \in Nat
        BY DEF R!Ranked, R!Children
      <4>2. rank[n] <= rank[child]
        BY <4>1, R!BelowLower
      <4>3. QED
        BY <4>1, <4>2
    <3>2. QED
      BY <3>1 DEF R!Of, R!Children
  <2>5. X \cap Y = {}
    <3>1. CASE heap.left[n] = NULL \/ heap.right[n] = NULL
      BY <3>1 DEF R!Of
    <3>2. CASE heap.left[n] # NULL /\ heap.right[n] # NULL
      BY <3>2, R!SubtreesApart DEF R!Of
    <3>3. QED
      BY <3>1, <3>2
  <2>6. below[n] = {n} \cup X \cup Y /\ emitted[n] = DrawnAbove(heap, n, size, l, r)
    BY <1>1, <1>2
  <2> HIDE DEF l, r, X, Y, S, nodes
  <2>7. Draws(heap, size, {n} \cup X \cup Y, DrawnAbove(heap, n, size, l, r))
    BY <1>4, <2>2, <2>3, <2>4, <2>5, DrawnAboveDraws DEF nodes
  <2>8. Counted(FALSE, DrawnAbove(heap, n, size, l, r))
    BY <1>4, <2>2, <2>3, DrawnAboveCounted DEF nodes
  <2>9. QED
    BY <1>4, <2>6, <2>7, <2>8 DEF S
<1>5. nodes \subseteq S
  <2> HIDE DEF S
  <2>1. QED
    BY <1>4, R!TreeInduction
<1>6. QED
  BY <1>1, <1>5 DEF emitted

(* An accepted tree has a root.                                                  *)
RootInv == Accepted => root \in Nodes

(* An accepted tree keeps its root.                                           *)
LEMMA RootStep ==
  ASSUME TypeInv, RootInv, [Next]_vars
  PROVE  RootInv'
<1> USE DEF vars, links
<1>1. Nodes' = Nodes
  BY LexedConstant DEF Nodes
<1>2. CASE UNCHANGED vars
  BY <1>1, <1>2 DEF RootInv, Accepted
<1>3. ASSUME NEW tokens_left, FinishParseFile(NULL, tokens_left)
      PROVE  RootInv'
  BY <1>3 DEF FinishParseFile, RootInv, Accepted
<1>4. CASE Next /\ EndGrammar
  <2>1. CASE Token = "TERMINATOR" /\ result # NULL
    <3>1. root' = result /\ result \in Nodes
      BY <1>4, <2>1 DEF EndGrammar, AtTerminator, FinishParseFile, TypeInv, TypeOK, Nodes
    <3>2. QED
      BY <1>1, <3>1 DEF RootInv
  <2>2. CASE ~(Token = "TERMINATOR" /\ result # NULL)
    BY <1>3, <1>4, <2>2 DEF EndGrammar, AtTerminator
  <2>3. QED
    BY <2>1, <2>2
<1>5. CASE Next /\ RefuseLexerError
  BY <1>3, <1>5 DEF RefuseLexerError
<1>6. CASE Next /\ ~EndGrammar /\ ~RefuseLexerError
  <2>1. status' \in {"parsing", "undefined"}
    BY <1>6
       DEF Next, GetGrammar, BeginGrammar, Active, GetBinaryOperation, BinaryEntry,
           BinaryFirst, BinaryLoopEnd, BinaryLoopBracket, BinaryLoopTake, BinarySecond,
           BinarySecondFails, GetUnaryOperation, UnaryEntry, UnaryValue, UnaryTake,
           UnaryRefuse, UnaryOperand, GetSeparator, GetNumber, SeparatorOpen,
           SeparatorRefuse, SeparatorInnerFails, SeparatorClose, SeparatorUnclosed,
           ReadOutside
  <2>2. QED
    BY <2>1 DEF RootInv, Accepted
<1>7. QED
  BY <1>2, <1>4, <1>5, <1>6

(* What is drawn of the accepted tree.                                             *)
LEMMA AcceptedDrawn ==
  ASSUME TypeInv, LinkInv, Acyclic, FitsDifferentiate, RootInv
  PROVE  DumpDescribesTree
<1> DEFINE heap == [left |-> left, right |-> right, kind |-> tokens, index |-> [n \in Nodes |-> 0]]
           dump == Dumps!EmitNode(heap, 1)[root]
           drawn == [i \in DOMAIN dump.nodes |-> dump.nodes[i].node]
           ends == [i \in DOMAIN dump.links |-> dump.links[i][2]]
<1> SUFFICES ASSUME Accepted
             PROVE  /\ IsInjective(drawn)
                    /\ Range(drawn) = Below[root]
                    /\ \A i \in DOMAIN dump.nodes : dump.nodes[i].label # NULL
                    /\ IsInjective(ends)
                    /\ Range(dump.links) =
                         {link \in Below[root] \X (Below[root] \ {root}) :
                            link[2] \in {left[link[1]], right[link[1]]}}
                    /\ Len(dump.links) = Len(dump.nodes) - 1
  BY DEF DumpDescribesTree, DumpedTree
<1>1. root \in Nodes
  BY DEF RootInv
<1>2. /\ Heap.left = left /\ Heap.right = right /\ DOMAIN Heap.left = Nodes /\ R!OneOwner(Heap)
  BY HeapIs
<1>3. PICK top \in Nat : \E rank \in [Nodes -> 0..top] : R!Ranked(Heap, rank, top)
  BY HeapIs
<1>4. PICK rank \in [Nodes -> 0..top] : R!Ranked(Heap, rank, top)
  BY <1>3
<1>5. R!IsBelow(Heap, Below)
  BY BelowIsBelow
<1>6. heap.left = left /\ heap.right = right /\ DOMAIN heap.left = Nodes
  BY <1>2
<1>7. /\ R!Ranked(heap, rank, top) /\ R!OneOwner(heap) /\ R!IsBelow(heap, Below)
      /\ \A n : R!Children(heap, n) = {left[n], right[n]} \ {NULL}
  BY <1>2, <1>4, <1>5, <1>6 DEF R!Ranked, R!OneOwner, R!IsBelow, R!Children
<1>8. \A n \in Nodes : heap.kind[n] = tokens[n] /\ heap.index[n] = 0
  OBVIOUS
<1> HIDE DEF heap
<1>9. dump \in Drawings(heap, 1) /\ Draws(heap, 1, Below[root], dump) /\ Counted(FALSE, dump)
  BY <1>1, <1>6, <1>7, TreeDrawn
<1> HIDE DEF dump
<1>10. /\ Below[root] \subseteq Nodes /\ root \in Below[root]
       /\ \A n \in Below[root] : \A child \in R!Children(heap, n) :
            child \in Below[root] /\ child # root
  <2>1. Below[root] \subseteq Nodes /\ root \in Below[root]
    BY <1>1, <1>6, <1>7, R!BelowIs
  <2>2. ASSUME NEW n \in Below[root], NEW child \in R!Children(heap, n)
        PROVE  child \in Below[root] /\ child # root
    <3>1. child \in Below[n] /\ rank[child] < rank[n]
      <4>1. child \in DOMAIN heap.left /\ Below[child] \subseteq Below[n] /\ rank[child] < rank[n]
        BY <1>6, <1>7, <2>1, <2>2, R!BelowIs
      <4>2. child \in Below[child]
        BY <1>7, <4>1, R!BelowIs
      <4>3. QED
        BY <4>1, <4>2
    <3>2. Below[n] \subseteq Below[root] /\ rank[n] <= rank[root]
      BY <1>1, <1>6, <1>7, <2>2, R!BelowTransitive, R!BelowLower
    <3>3. rank[child] \in Nat /\ rank[n] \in Nat /\ rank[root] \in Nat
      BY <1>1, <2>1, <2>2, <3>1, <3>2
    <3>4. QED
      BY <3>1, <3>2, <3>3
  <2>3. QED
    BY <2>1, <2>2
<1>11. /\ DOMAIN dump.nodes = 1..Len(dump.nodes) /\ Len(dump.nodes) \in Nat
       /\ DOMAIN dump.links = 1..Len(dump.links) /\ Len(dump.links) \in Nat
       /\ \A i \in DOMAIN dump.nodes : dump.nodes[i] \in Statements(heap, 1)
       /\ \A i \in DOMAIN dump.links : dump.links[i] \in Pairs(heap)
  <2>1. dump.nodes \in Seq(Statements(heap, 1)) /\ dump.links \in Seq(Pairs(heap))
    BY <1>9 DEF Drawings
  <2>2. QED
    BY <2>1, ElementOfSeq, LenProperties
<1>12. R!Elements(dump.nodes) = {Statement(heap, n, 1) : n \in Below[root]}
  BY <1>9 DEF Draws
<1>13. IsInjective(drawn)
  <2>1. \A i \in DOMAIN dump.nodes : NodeOf(heap, 1)[dump.nodes[i]] = dump.nodes[i].node
    BY <1>11 DEF NodeOf
  <2>2. QED
    BY <1>9, <2>1 DEF Draws, Distinct, IsInjective
<1>14. Range(drawn) = Below[root]
  <2>1. \A i \in DOMAIN dump.nodes : dump.nodes[i].node \in Below[root]
    <3> SUFFICES ASSUME NEW i \in DOMAIN dump.nodes
                 PROVE  dump.nodes[i].node \in Below[root]
      OBVIOUS
    <3>1. dump.nodes[i] \in R!Elements(dump.nodes)
      BY DEF R!Elements
    <3>2. PICK n \in Below[root] : dump.nodes[i] = Statement(heap, n, 1)
      BY <1>12, <3>1
    <3>3. QED
      BY <3>2 DEF Statement
  <2>2. \A n \in Below[root] : \E i \in DOMAIN dump.nodes : n = dump.nodes[i].node
    <3> SUFFICES ASSUME NEW n \in Below[root]
                 PROVE  \E i \in DOMAIN dump.nodes : n = dump.nodes[i].node
      OBVIOUS
    <3>1. Statement(heap, n, 1) \in R!Elements(dump.nodes)
      BY <1>12
    <3>2. PICK i \in DOMAIN dump.nodes : dump.nodes[i] = Statement(heap, n, 1)
      BY <3>1 DEF R!Elements
    <3>3. QED
      BY <3>2 DEF Statement
  <2>3. QED
    BY <2>1, <2>2 DEF Range
<1>15. ASSUME NEW i \in DOMAIN dump.nodes
       PROVE  dump.nodes[i].label # NULL
  <2>1. PICK n \in Below[root] : dump.nodes[i] = Statement(heap, n, 1)
    BY <1>12 DEF R!Elements
  <2>2. n \in Nodes /\ tokens[n] \in Operands \cup (OperationNames \ Brackets)
    BY <1>10 DEF FitsDifferentiate, HasOperands
  <2>3. tokens[n] # NULL
    BY <2>2, KindsNotNull DEF TokenKinds, WordKinds, Operands
  <2>4. dump.nodes[i].label = tokens[n]
    BY <1>8, <2>1, <2>2 DEF Statement, Dumps!EmitNodeData
  <2>5. QED
    BY <2>3, <2>4
<1>16. IsInjective(ends)
  <2>1. \A i \in DOMAIN dump.links : EndOf(heap)[dump.links[i]] = dump.links[i][2]
    BY <1>11 DEF EndOf
  <2>2. QED
    BY <1>9, <2>1 DEF Draws, Distinct, IsInjective
<1>17. Range(dump.links) = {link \in Below[root] \X (Below[root] \ {root}) :
                              link[2] \in {left[link[1]], right[link[1]]}}
  <2>1. Range(dump.links) = LinksFrom(heap, Below[root])
    BY <1>9 DEF Draws, R!Elements, Range
  <2>2. \A link \in LinksFrom(heap, Below[root]) :
          /\ link \in Below[root] \X (Below[root] \ {root})
          /\ link[2] \in {left[link[1]], right[link[1]]}
    BY <1>7, <1>10 DEF LinksFrom, Pairs
  <2>3. ASSUME NEW link \in Below[root] \X (Below[root] \ {root}),
               link[2] \in {left[link[1]], right[link[1]]}
        PROVE  link \in LinksFrom(heap, Below[root])
    <3>1. NULL \notin Nodes
      BY <1>6, <1>7 DEF R!Ranked
    <3>2. link \in Pairs(heap) /\ link[1] \in Below[root] /\ link[2] # NULL
      BY <1>6, <1>10, <2>3, <3>1 DEF Pairs
    <3>3. QED
      BY <1>7, <2>3, <3>2 DEF LinksFrom
  <2>4. QED
    BY <2>1, <2>2, <2>3
<1>18. Len(dump.links) = Len(dump.nodes) - 1
  BY <1>9, <1>11 DEF Counted
<1>19. QED
  BY <1>13, <1>14, <1>15, <1>16, <1>17, <1>18

(* On every input the parser accepts, however it got there: the dump draws each node of *)
(* the tree once and with its label, and each link once, so that all nodes but the    *)
(* topmost have one edge to them.                                                *)
THEOREM DrawsTheTree == Spec => []DumpDescribesTree
<1>1. Init => TypeInv /\ LinkInv /\ Acyclic /\ SumInv /\ FitsDifferentiate /\ RootInv
  <2>1. Init => FitsDifferentiate /\ RootInv
    BY DEF Init, FitsDifferentiate, RootInv, Accepted
  <2>2. QED
    BY <2>1, TypeInit, LinkInit, AcyclicInit, SumInit
<1>2. /\ TypeInv /\ LinkInv /\ Acyclic /\ SumInv /\ FitsDifferentiate /\ RootInv
      /\ [Next]_vars
      => (TypeInv /\ LinkInv /\ Acyclic /\ SumInv /\ FitsDifferentiate /\ RootInv)'
  BY TypeStep, LinkStep, AcyclicStep, SumStep, FitsStep, RootStep
<1>3. TypeInv /\ LinkInv /\ Acyclic /\ FitsDifferentiate /\ RootInv => DumpDescribesTree
  BY AcceptedDrawn
<1>4. QED
  BY <1>1, <1>2, <1>3, PTL DEF Spec

-----------------------------------------------------------------------------
(* The grammar.  The recursive definition of its trees has a solution: each span    *)
(* depends on shorter ones and on the same one at lower levels.                     *)
Weight(span) == IF span[1] > span[2] THEN 0 ELSE 5 * (span[2] + 1 - span[1]) + span[3]

(* The trees of a span depend on those of spans that weigh less.                    *)
LEMMA LighterSpans ==
  ASSUME NEW words, Len(words) \in Nat, NEW f, NEW g,
         NEW i \in 1..(Len(words) + 1), NEW j \in 0..Len(words), NEW p \in 0..MAX_PRIORITY,
         \A span \in G!Spans(words) : Weight(span) < Weight(<< i, j, p >>) => f[span] = g[span]
  PROVE  G!TreesFrom(words, f, i, j, p) = G!TreesFrom(words, g, i, j, p)
<1> USE DEF MAX_PRIORITY, G!MAX_PRIORITY
<1>1. ASSUME NEW a \in 1..(Len(words) + 1), NEW b \in 0..Len(words), NEW q \in 0..MAX_PRIORITY,
             i <= j, a > b \/ 5 * (b + 1 - a) + q < 5 * (j + 1 - i) + p
      PROVE  f[<< a, b, q >>] = g[<< a, b, q >>]
  <2>1. << a, b, q >> \in G!Spans(words)
    BY DEF G!Spans
  <2>2. /\ Weight(<< a, b, q >>) = IF a > b THEN 0 ELSE 5 * (b + 1 - a) + q
        /\ Weight(<< i, j, p >>) = 5 * (j + 1 - i) + p
    BY <1>1 DEF Weight
  <2>3. Weight(<< a, b, q >>) < Weight(<< i, j, p >>)
    BY <1>1, <2>2
  <2>4. QED
    BY <2>1, <2>3
<1>2. CASE i > j
  BY <1>2 DEF G!TreesFrom
<1>3. CASE i <= j /\ p = 0
  <2>1. i + 1 > j - 1 \/ 5 * (j - 1 + 1 - (i + 1)) + 4 < 5 * (j + 1 - i) + p
    BY <1>3
  <2>2. i + 1 \in 1..(Len(words) + 1) /\ j - 1 \in 0..Len(words)
    BY <1>3
  <2>3. f[<< i + 1, j - 1, MAX_PRIORITY >>] = g[<< i + 1, j - 1, MAX_PRIORITY >>]
    <3>1. PICK a \in 1..(Len(words) + 1), b \in 0..Len(words), q \in 0..MAX_PRIORITY :
            a = i + 1 /\ b = j - 1 /\ q = 4
      BY <2>2
    <3>2. a > b \/ 5 * (b + 1 - a) + q < 5 * (j + 1 - i) + p
      BY <2>1, <3>1
    <3>3. f[<< a, b, q >>] = g[<< a, b, q >>]
      BY <1>1, <1>3, <3>2
    <3>4. QED
      BY <3>1, <3>3
  <2>4. QED
    BY <1>3, <2>3 DEF G!TreesFrom, G!Primary
<1>4. CASE i <= j /\ p > 0
  <2>1. f[<< i, j, p - 1 >>] = g[<< i, j, p - 1 >>]
    <3>1. 5 * (j + 1 - i) + (p - 1) < 5 * (j + 1 - i) + p /\ p - 1 \in 0..MAX_PRIORITY
      BY <1>4
    <3>2. QED
      BY <1>1, <1>4, <3>1
  <2>2. CASE p = 2
    <3>1. i + 1 > j \/ 5 * (j + 1 - (i + 1)) + 1 < 5 * (j + 1 - i) + p
      BY <1>4, <2>2
    <3>2. i + 1 \in 1..(Len(words) + 1)
      BY <1>4
    <3>3. f[<< i + 1, j, 1 >>] = g[<< i + 1, j, 1 >>]
      <4>1. PICK a \in 1..(Len(words) + 1), q \in 0..MAX_PRIORITY : a = i + 1 /\ q = 1
        BY <3>2
      <4>2. a > j \/ 5 * (j + 1 - a) + q < 5 * (j + 1 - i) + p
        BY <3>1, <4>1
      <4>3. f[<< a, j, q >>] = g[<< a, j, q >>]
        BY <1>1, <1>4, <4>2
      <4>4. QED
        BY <4>1, <4>3
    <3>4. QED
      BY <1>4, <2>1, <2>2, <3>3 DEF G!TreesFrom, G!Application
  <2>3. CASE p # 2
    <3> DEFINE Ks == {m \in i..j : G!HasPriority(words[m], p)}
    <3>1. ASSUME NEW k \in Ks
          PROVE  G!Combination(f, i, j, p, k) = G!Combination(g, i, j, p, k)
      <4>1. k \in i..j
        OBVIOUS
      <4>2. /\ i > k - 1 \/ 5 * (k - 1 + 1 - i) + p < 5 * (j + 1 - i) + p
            /\ k + 1 > j \/ 5 * (j + 1 - (k + 1)) + (p - 1) < 5 * (j + 1 - i) + p
            /\ k - 1 \in 0..Len(words) /\ k + 1 \in 1..(Len(words) + 1)
            /\ p - 1 \in 0..MAX_PRIORITY
        BY <1>4, <4>1
      <4>3. /\ f[<< i, k - 1, p >>] = g[<< i, k - 1, p >>]
            /\ f[<< k + 1, j, p - 1 >>] = g[<< k + 1, j, p - 1 >>]
        BY <1>1, <1>4, <4>2
      <4>4. QED
        BY <4>3 DEF G!Combination
    <3>2. {G!Combination(f, i, j, p, k) : k \in Ks} = {G!Combination(g, i, j, p, k) : k \in Ks}
      <4> HIDE DEF Ks
      <4>1. QED
        BY <3>1
    <3>3. ASSUME NEW h
          PROVE  G!TreesFrom(words, h, i, j, p) =
                   h[<< i, j, p - 1 >>] \cup UNION {G!Combination(h, i, j, p, k) : k \in Ks}
      <4>1. ~(i > j) /\ p # 0 /\ p # 2
        BY <1>4, <2>3
      <4>2. QED
        BY <4>1, Zenon DEF G!TreesFrom
    <3> HIDE DEF Ks
    <3>4. QED
      BY <2>1, <3>2, <3>3
  <2>4. QED
    BY <2>2, <2>3
<1>5. QED
  BY <1>2, <1>3, <1>4

(* The sets of trees are what the definition says.                              *)
LEMMA TreesAre ==
  ASSUME NEW words, Len(words) \in Nat,
         NEW i \in 1..(Len(words) + 1), NEW j \in 0..Len(words), NEW p \in 0..MAX_PRIORITY
  PROVE  G!Trees(words)[<< i, j, p >>] = G!TreesFrom(words, G!Trees(words), i, j, p)
<1> DEFINE spans == G!Spans(words)
           From(f, span) == G!TreesFrom(words, f, span[1], span[2], span[3])
           RightBelow(f, k) == \A span \in spans : Weight(span) < k => f[span] = From(f, span)
           T == {k \in Nat : ~ \E f : RightBelow([span \in spans |-> f[span]], k)}
           bound == 5 * (Len(words) + 1) + MAX_PRIORITY + 1
           F(f) == f = [span \in spans |-> From(f, span)]
<1> USE DEF MAX_PRIORITY, G!MAX_PRIORITY
<1>1. \A span \in spans : /\ span[1] \in 1..(Len(words) + 1) /\ span[2] \in 0..Len(words)
                          /\ span[3] \in 0..MAX_PRIORITY
                          /\ span = << span[1], span[2], span[3] >>
  BY DEF G!Spans
<1>2. \A span \in spans : Weight(span) \in Nat /\ Weight(span) < bound
  <2> HIDE DEF spans
  <2>1. Len(words) \in Nat
    OBVIOUS
  <2>2. SUFFICES ASSUME NEW span \in spans
                 PROVE  Weight(span) \in Nat /\ Weight(span) < bound
    OBVIOUS
  <2> DEFINE from == span[1]   to == span[2]   level == span[3]
  <2>3. from \in Nat /\ 1 <= from /\ to \in Nat /\ to <= Len(words) /\ level \in 0..MAX_PRIORITY
    BY <1>1, <2>1, <2>2
  <2>4. Weight(span) = IF from > to THEN 0 ELSE 5 * (to + 1 - from) + level
    BY DEF Weight
  <2> HIDE DEF from, to, level
  <2>5. CASE from > to
    BY <2>1, <2>3, <2>4, <2>5
  <2>6. CASE ~(from > to)
    BY <2>1, <2>3, <2>4, <2>6
  <2>7. QED
    BY <2>5, <2>6
<1>3. T = {}
  <2> SUFFICES ASSUME T # {} PROVE FALSE
    OBVIOUS
  <2>1. PICK k \in T : \A m \in T : k <= m
    <3>1. T \subseteq Nat
      OBVIOUS
    <3> HIDE DEF T
    <3>2. QED
      BY <3>1, R!SmallestNat
  <2>2. k \in Nat /\ ~ \E f : RightBelow([span \in spans |-> f[span]], k)
    <3> HIDE DEF RightBelow
    <3>1. QED
      BY <2>1
  <2>3. CASE k = 0
    <3>1. \A span \in spans : ~(Weight(span) < 0)
      BY <1>2
    <3>2. \A f : RightBelow([span \in spans |-> f[span]], 0)
      BY <3>1
    <3> HIDE DEF RightBelow
    <3>3. QED
      BY <2>2, <2>3, <3>2
  <2>4. CASE k # 0
    <3>1. k - 1 \in Nat /\ k - 1 \notin T
      <4> HIDE DEF T
      <4>1. QED
        BY <2>1, <2>2, <2>4
    <3>2. PICK e : RightBelow([span \in spans |-> e[span]], k - 1)
      <4> HIDE DEF RightBelow
      <4>1. QED
        BY <3>1
    <3> DEFINE f == [span \in spans |-> e[span]]
               g == [span \in spans |-> IF Weight(span) < k - 1 THEN f[span] ELSE From(f, span)]
    <3>3. RightBelow(f, k - 1)
      BY <3>2
    <3> HIDE DEF f
    <3>4. \A span \in spans : g[span] = From(f, span) \/ (Weight(span) < k - 1 /\ g[span] = f[span])
      <4> HIDE DEF From
      <4>1. QED
        OBVIOUS
    <3>5. \A span \in spans : g[span] = From(f, span)
      BY <3>3, <3>4
    <3>6. \A span \in spans : Weight(span) < k - 1 => g[span] = f[span]
      <4> HIDE DEF From
      <4>1. QED
        OBVIOUS
    <3> HIDE DEF g
    <3>7. ASSUME NEW span \in spans, Weight(span) < k
          PROVE  g[span] = From(g, span)
      <4>1. \A s \in spans : Weight(s) < Weight(span) => f[s] = g[s]
        <5> SUFFICES ASSUME NEW s \in spans, Weight(s) < Weight(span)
                     PROVE  Weight(s) < k - 1
          BY <3>6
        <5>1. Weight(s) \in Nat /\ Weight(span) \in Nat
          BY <1>2
        <5>2. QED
          BY <3>7, <5>1
      <4>2. From(f, span) = From(g, span)
        <5>1. PICK a \in 1..(Len(words) + 1), b \in 0..Len(words), q \in 0..MAX_PRIORITY :
                span = << a, b, q >> /\ span[1] = a /\ span[2] = b /\ span[3] = q
          BY <1>1
        <5>2. \A s \in G!Spans(words) : Weight(s) < Weight(<< a, b, q >>) => f[s] = g[s]
          BY <4>1, <5>1
        <5>3. G!TreesFrom(words, f, a, b, q) = G!TreesFrom(words, g, a, b, q)
          <6> HIDE DEF T, From, RightBelow, MAX_PRIORITY, G!MAX_PRIORITY
          <6>1. QED
            BY <5>2, LighterSpans, ZenonT(60)
        <5>4. QED
          BY <5>1, <5>3
      <4>3. QED
        BY <3>5, <4>2
    <3>8. g = [span \in spans |-> g[span]]
      BY DEF g
    <3>9. RightBelow([span \in spans |-> g[span]], k)
      BY <3>7, <3>8
    <3> HIDE DEF RightBelow
    <3>10. QED
      BY <2>2, <3>9
  <2>5. QED
    BY <2>3, <2>4
<1>4. PICK e : RightBelow([span \in spans |-> e[span]], bound)
  <2>1. bound \in Nat
    OBVIOUS
  <2>2. QED
    BY <1>3, <2>1
<1> DEFINE f == [span \in spans |-> e[span]]
<1>5. RightBelow(f, bound) /\ f = [span \in spans |-> f[span]]
  BY <1>4
<1> HIDE DEF f
<1>6. F(f)
  <2>1. \A span \in spans : f[span] = From(f, span)
    BY <1>2, <1>5
  <2> HIDE DEF From
  <2>2. QED
    BY <1>5, <2>1
<1>7. G!Trees(words) = CHOOSE g : F(g)
  BY DEF G!Trees
<1>8. F(G!Trees(words))
  BY <1>6, <1>7
<1>9. << i, j, p >> \in spans
  BY DEF G!Spans
<1>10. G!Trees(words)[<< i, j, p >>] = From(G!Trees(words), << i, j, p >>)
  <2> DEFINE t == G!Trees(words)
  <2>1. t = [span \in spans |-> From(t, span)]
    BY <1>8
  <2> HIDE DEF t, From
  <2>2. QED
    BY <1>9, <2>1 DEF t
<1>11. QED
  BY <1>10

(* The table is the same for the grammar and the parser.                         *)
LEMMA SameTable ==
  /\ G!MAX_PRIORITY = MAX_PRIORITY /\ G!Operands = Operands
  /\ \A word, p : G!HasPriority(word, p) <=>
                    word \in OperationNames \ Brackets /\ Priority[word] = p
<1> USE DEF G!OperationNames, OperationNames, G!Brackets, Brackets, G!BinaryOps, BinaryOps,
            G!FunctionOps, FunctionOps
<1>1. G!MAX_PRIORITY = MAX_PRIORITY /\ G!Operands = Operands
  BY DEF G!MAX_PRIORITY, MAX_PRIORITY, G!Operands, Operands
<1>2. G!OperationNames = OperationNames /\ G!Brackets = Brackets
  OBVIOUS
<1>3. G!Priority = Priority
  BY Zenon DEF G!Priority, Priority
<1>4. QED
  BY <1>1, <1>2, <1>3, Zenon DEF G!HasPriority

Parses(words, i, j, p) == G!Trees(words)[<< i, j, p >>]
Operates(word, p) == word \in OperationNames \ Brackets /\ Priority[word] = p

(* What the levels of the grammar are.                                           *)
LEMMA ParsesAre ==
  ASSUME NEW words, Len(words) \in Nat,
         NEW i \in 1..(Len(words) + 1), NEW j \in 0..Len(words)
  PROVE  /\ i > j => \A p \in 0..MAX_PRIORITY : Parses(words, i, j, p) = {}
         /\ i <= j =>
              /\ \A t : t \in Parses(words, i, j, 0) <=>
                   \/ i = j /\ words[i] \in Operands /\ t = << i, << >>, << >> >>
                   \/ /\ words[i] = "OPEN_BRACKET" /\ words[j] = "CLOSE_BRACKET"
                      /\ t \in Parses(words, i + 1, j - 1, MAX_PRIORITY)
              /\ \A t : t \in Parses(words, i, j, 2) <=>
                   \/ t \in Parses(words, i, j, 1)
                   \/ /\ Operates(words[i], 2)
                      /\ \E arg \in Parses(words, i + 1, j, 1) : t = << i, arg, << >> >>
              /\ \A p \in {1, 3, 4} : \A t : t \in Parses(words, i, j, p) <=>
                   \/ t \in Parses(words, i, j, p - 1)
                   \/ \E k \in i..j :
                        /\ Operates(words[k], p)
                        /\ \E l \in Parses(words, i, k - 1, p), r \in Parses(words, k + 1, j, p - 1) :
                             t = << k, l, r >>
<1> DEFINE trees == G!Trees(words)
<1>1. \A p \in 0..MAX_PRIORITY : Parses(words, i, j, p) = G!TreesFrom(words, trees, i, j, p)
  BY TreesAre DEF Parses
<1>2. \A word, p : G!HasPriority(word, p) <=> Operates(word, p)
  BY SameTable DEF Operates
<1>3. \A a, b, p : trees[<< a, b, p >>] = Parses(words, a, b, p)
  BY DEF Parses
<1> HIDE DEF trees
<1>4. ASSUME i > j
      PROVE  \A p \in 0..MAX_PRIORITY : Parses(words, i, j, p) = {}
  BY <1>1, <1>4 DEF G!TreesFrom
<1>5. ASSUME i <= j, NEW t
      PROVE  t \in Parses(words, i, j, 0) <=>
               \/ i = j /\ words[i] \in Operands /\ t = << i, << >>, << >> >>
               \/ /\ words[i] = "OPEN_BRACKET" /\ words[j] = "CLOSE_BRACKET"
                  /\ t \in Parses(words, i + 1, j - 1, MAX_PRIORITY)
  <2>1. Parses(words, i, j, 0) = G!Primary(words, trees, i, j)
    BY <1>1, <1>5 DEF G!TreesFrom, MAX_PRIORITY
  <2>2. QED
    BY <1>3, <2>1, SameTable DEF G!Primary
<1>6. ASSUME i <= j, NEW t
      PROVE  t \in Parses(words, i, j, 2) <=>
               \/ t \in Parses(words, i, j, 1)
               \/ /\ Operates(words[i], 2)
                  /\ \E arg \in Parses(words, i + 1, j, 1) : t = << i, arg, << >> >>
  <2>1. Parses(words, i, j, 2) = trees[<< i, j, 1 >>] \cup G!Application(words, trees, i, j)
    BY <1>1, <1>6 DEF G!TreesFrom, MAX_PRIORITY
  <2>2. t \in G!Application(words, trees, i, j) <=>
          Operates(words[i], 2) /\ \E arg \in Parses(words, i + 1, j, 1) : t = << i, arg, << >> >>
    BY <1>2, <1>3 DEF G!Application
  <2>3. QED
    BY <1>3, <2>1, <2>2
<1>7. ASSUME i <= j, NEW p \in {1, 3, 4}, NEW t
      PROVE  t \in Parses(words, i, j, p) <=>
               \/ t \in Parses(words, i, j, p - 1)
               \/ \E k \in i..j :
                    /\ Operates(words[k], p)
                    /\ \E l \in Parses(words, i, k - 1, p), r \in Parses(words, k + 1, j, p - 1) :
                         t = << k, l, r >>
  <2> DEFINE Ks == {m \in i..j : G!HasPriority(words[m], p)}
  <2>1. Parses(words, i, j, p) =
          trees[<< i, j, p - 1 >>] \cup UNION {G!Combination(trees, i, j, p, k) : k \in Ks}
    <3>1. ~(i > j) /\ p # 0 /\ p # 2 /\ p \in 0..MAX_PRIORITY
      BY <1>7 DEF MAX_PRIORITY
    <3>2. G!TreesFrom(words, trees, i, j, p) =
            trees[<< i, j, p - 1 >>] \cup UNION {G!Combination(trees, i, j, p, k) : k \in Ks}
      BY <3>1, Zenon DEF G!TreesFrom
    <3>3. QED
      BY <1>1, <3>1, <3>2
  <2>2. \A k : t \in G!Combination(trees, i, j, p, k) <=>
          \E l \in Parses(words, i, k - 1, p), r \in Parses(words, k + 1, j, p - 1) :
            t = << k, l, r >>
    <3>1. ASSUME NEW k
          PROVE  t \in G!Combination(trees, i, j, p, k) <=>
                   \E l \in trees[<< i, k - 1, p >>], r \in trees[<< k + 1, j, p - 1 >>] :
                     t = << k, l, r >>
      BY DEF G!Combination
    <3>2. ASSUME NEW k
          PROVE  /\ trees[<< i, k - 1, p >>] = Parses(words, i, k - 1, p)
                 /\ trees[<< k + 1, j, p - 1 >>] = Parses(words, k + 1, j, p - 1)
      BY <1>3
    <3>3. ASSUME NEW k
          PROVE  t \in G!Combination(trees, i, j, p, k) <=>
                   \E l \in Parses(words, i, k - 1, p), r \in Parses(words, k + 1, j, p - 1) :
                     t = << k, l, r >>
      BY <3>1, <3>2
    <3>4. QED
      BY <3>3
  <2>3. t \in UNION {G!Combination(trees, i, j, p, k) : k \in Ks} <=>
          \E k \in Ks : t \in G!Combination(trees, i, j, p, k)
    <3> HIDE DEF Ks
    <3>1. QED
      OBVIOUS
  <2>4. \A k : k \in Ks <=> k \in i..j /\ Operates(words[k], p)
    BY <1>2
  <2> HIDE DEF Ks
  <2>5. QED
    BY <1>3, <2>1, <2>2, <2>3, <2>4
<1>8. QED
  BY <1>4, <1>5, <1>6, <1>7

-----------------------------------------------------------------------------
(* Phrases between two positions of the cursor: the words from the node at `from' to   *)
(* the one before `to'.                                                            *)
Phrases(words, from, to, p) == Parses(words, from + 1, to, p)

(* The levels of the grammar, between positions of the cursor.                *)
LEMMA PhrasesAre ==
  ASSUME NEW words, Len(words) \in Nat, NEW from \in 0..Len(words), NEW to \in 0..Len(words)
  PROVE  /\ from >= to => \A p \in 0..MAX_PRIORITY : Phrases(words, from, to, p) = {}
         /\ from < to =>
              /\ \A t : t \in Phrases(words, from, to, 0) <=>
                   \/ to = from + 1 /\ words[from + 1] \in Operands /\ t = << from + 1, << >>, << >> >>
                   \/ /\ words[from + 1] = "OPEN_BRACKET" /\ words[to] = "CLOSE_BRACKET"
                      /\ t \in Phrases(words, from + 1, to - 1, MAX_PRIORITY)
              /\ \A t : t \in Phrases(words, from, to, 2) <=>
                   \/ t \in Phrases(words, from, to, 1)
                   \/ /\ Operates(words[from + 1], 2)
                      /\ \E arg \in Phrases(words, from + 1, to, 1) :
                           t = << from + 1, arg, << >> >>
              /\ \A p \in {1, 3, 4} : \A t : t \in Phrases(words, from, to, p) <=>
                   \/ t \in Phrases(words, from, to, p - 1)
                   \/ \E k \in from..(to - 1) :
                        /\ Operates(words[k + 1], p)
                        /\ \E l \in Phrases(words, from, k, p), r \in Phrases(words, k + 1, to, p - 1) :
                             t = << k + 1, l, r >>
<1>1. PICK i \in 1..(Len(words) + 1) : i = from + 1
  OBVIOUS
<1>2. from >= to <=> i > to
  BY <1>1
<1>3. from < to <=> i <= to
  BY <1>1
<1>4. ASSUME from >= to
      PROVE  \A p \in 0..MAX_PRIORITY : Phrases(words, from, to, p) = {}
  BY <1>1, <1>2, <1>4, ParsesAre DEF Phrases
<1>5. ASSUME from < to, NEW t
      PROVE  t \in Phrases(words, from, to, 0) <=>
               \/ to = from + 1 /\ words[from + 1] \in Operands /\ t = << from + 1, << >>, << >> >>
               \/ /\ words[from + 1] = "OPEN_BRACKET" /\ words[to] = "CLOSE_BRACKET"
                  /\ t \in Phrases(words, from + 1, to - 1, MAX_PRIORITY)
  <2>1. t \in Parses(words, i, to, 0) <=>
          \/ i = to /\ words[i] \in Operands /\ t = << i, << >>, << >> >>
          \/ /\ words[i] = "OPEN_BRACKET" /\ words[to] = "CLOSE_BRACKET"
             /\ t \in Parses(words, i + 1, to - 1, MAX_PRIORITY)
    BY <1>3, <1>5, ParsesAre
  <2>2. QED
    BY <1>1, <2>1 DEF Phrases
<1>6. ASSUME from < to, NEW t
      PROVE  t \in Phrases(words, from, to, 2) <=>
               \/ t \in Phrases(words, from, to, 1)
               \/ /\ Operates(words[from + 1], 2)
                  /\ \E arg \in Phrases(words, from + 1, to, 1) : t = << from + 1, arg, << >> >>
  <2>1. t \in Parses(words, i, to, 2) <=>
          \/ t \in Parses(words, i, to, 1)
          \/ /\ Operates(words[i], 2)
             /\ \E arg \in Parses(words, i + 1, to, 1) : t = << i, arg, << >> >>
    BY <1>3, <1>6, ParsesAre
  <2>2. QED
    BY <1>1, <2>1 DEF Phrases
<1>7. ASSUME from < to, NEW p \in {1, 3, 4}, NEW t
      PROVE  t \in Phrases(words, from, to, p) <=>
               \/ t \in Phrases(words, from, to, p - 1)
               \/ \E k \in from..(to - 1) :
                    /\ Operates(words[k + 1], p)
                    /\ \E l \in Phrases(words, from, k, p), r \in Phrases(words, k + 1, to, p - 1) :
                         t = << k + 1, l, r >>
  <2> DEFINE Split(k) ==
               /\ Operates(words[k], p)
               /\ \E l \in Parses(words, i, k - 1, p), r \in Parses(words, k + 1, to, p - 1) :
                    t = << k, l, r >>
             SplitAt(k) ==
               /\ Operates(words[k + 1], p)
               /\ \E l \in Phrases(words, from, k, p), r \in Phrases(words, k + 1, to, p - 1) :
                    t = << k + 1, l, r >>
  <2>1. t \in Parses(words, i, to, p) <=>
          t \in Parses(words, i, to, p - 1) \/ \E k \in i..to : Split(k)
    BY SMTT(20), <1>3, <1>7, ParsesAre
  <2>2. \A k \in from..(to - 1) : SplitAt(k) <=> Split(k + 1)
    <3> SUFFICES ASSUME NEW k \in from..(to - 1) PROVE SplitAt(k) <=> Split(k + 1)
      OBVIOUS
    <3>1. (k + 1) - 1 = k
      OBVIOUS
    <3>2. QED
      BY <1>1, <3>1 DEF Phrases
  <2> HIDE DEF Split, SplitAt
  <2>3. (\E k \in i..to : Split(k)) <=> \E k \in from..(to - 1) : SplitAt(k)
    <3>1. ASSUME NEW k \in i..to, Split(k)
          PROVE  \E m \in from..(to - 1) : SplitAt(m)
      <4>1. PICK m \in from..(to - 1) : k = m + 1
        <5>1. k - 1 \in from..(to - 1) /\ k = (k - 1) + 1
          BY <1>1
        <5>2. QED
          BY <5>1
      <4>2. QED
        BY <2>2, <3>1, <4>1
    <3>2. ASSUME NEW k \in from..(to - 1), SplitAt(k)
          PROVE  \E m \in i..to : Split(m)
      <4>1. k + 1 \in i..to
        BY <1>1
      <4>2. QED
        BY <2>2, <3>2, <4>1
    <3>3. QED
      BY <3>1, <3>2
  <2>4. Phrases(words, from, to, p) = Parses(words, i, to, p)
        /\ Phrases(words, from, to, p - 1) = Parses(words, i, to, p - 1)
    BY <1>1 DEF Phrases
  <2>5. t \in Phrases(words, from, to, p) <=>
          t \in Phrases(words, from, to, p - 1) \/ \E k \in from..(to - 1) : SplitAt(k)
    BY <2>1, <2>3, <2>4
  <2>6. QED
    BY <2>5 DEF SplitAt
<1>8. QED
  BY <1>4, <1>5, <1>6, <1>7

(* What the loop of GetBinaryOperation has to do from the cursor c, with the tree t in    *)
(* hand, to come to the tree T at `to': a set of its states that leads there.           *)
LoopStep(words, p, s, next) ==
  /\ next[1] > s[1]
  /\ \E r \in Phrases(words, s[1] + 1, next[1], p - 1) : next[2] = << s[1] + 1, s[2], r >>
LeadsBy(words, p, to, T, states) ==
  \A s \in states :
    /\ s[1] \in 0..to /\ s = << s[1], s[2] >>
    /\ \/ s = << to, T >>
       \/ /\ s[1] < to /\ Operates(words[s[1] + 1], p)
          /\ \E next \in states : LoopStep(words, p, s, next)
Leads(words, p, c, t, to, T) ==
  \E states : << c, t >> \in states /\ LeadsBy(words, p, to, T, states)

(* The loop that has reached its end leads there.                             *)
LEMMA LeadsHere ==
  ASSUME NEW words, NEW p, NEW to \in Nat, NEW T
  PROVE  Leads(words, p, to, T, to, T)
<1>1. LeadsBy(words, p, to, T, {<< to, T >>})
  BY DEF LeadsBy
<1>2. QED
  BY <1>1 DEF Leads

(* The loop that has not reached it has an operation to take.                 *)
LEMMA LeadsOn ==
  ASSUME NEW words, NEW p, NEW c, NEW t, NEW to \in Nat, NEW T, Leads(words, p, c, t, to, T)
  PROVE  /\ c \in 0..to
         /\ \/ c = to /\ t = T
            \/ /\ c < to /\ Operates(words[c + 1], p)
               /\ \E m \in (c + 1)..to : \E r \in Phrases(words, c + 1, m, p - 1) :
                    Leads(words, p, m, << c + 1, t, r >>, to, T)
<1>1. PICK states : << c, t >> \in states /\ LeadsBy(words, p, to, T, states)
  BY DEF Leads
<1>2. /\ c \in 0..to
      /\ \/ << c, t >> = << to, T >>
         \/ /\ c < to /\ Operates(words[c + 1], p)
            /\ \E next \in states : LoopStep(words, p, << c, t >>, next)
  BY <1>1 DEF LeadsBy
<1>3. CASE << c, t >> = << to, T >>
  BY <1>2, <1>3
<1>4. ASSUME c < to, Operates(words[c + 1], p), NEW next \in states,
             LoopStep(words, p, << c, t >>, next)
      PROVE  \E m \in (c + 1)..to : \E r \in Phrases(words, c + 1, m, p - 1) :
               Leads(words, p, m, << c + 1, t, r >>, to, T)
  <2>1. PICK m, r : /\ m = next[1] /\ r \in Phrases(words, c + 1, m, p - 1) /\ m > c
                    /\ next[2] = << c + 1, t, r >>
    BY <1>4 DEF LoopStep
  <2>2. m \in 0..to /\ next = << next[1], next[2] >> /\ (next = << to, T >> \/ \E n2 \in states : LoopStep(words, p, next, n2))
    BY <1>1, <2>1 DEF LeadsBy
  <2>3. next = << m, << c + 1, t, r >> >>
    BY <2>1, <2>2
  <2>4. QED
    BY <1>1, <1>2, <2>1, <2>2, <2>3 DEF Leads
<1>5. QED
  BY <1>2, <1>3, <1>4

(* One more operation after what leads to k.                                         *)
LEMMA LeadsFurther ==
  ASSUME NEW words, NEW p, NEW c, NEW t, NEW k \in Nat, NEW l, NEW to \in Nat, k < to,
         Leads(words, p, c, t, k, l), Operates(words[k + 1], p),
         NEW r \in Phrases(words, k + 1, to, p - 1)
  PROVE  Leads(words, p, c, t, to, << k + 1, l, r >>)
<1> DEFINE T == << k + 1, l, r >>
<1>1. PICK states : << c, t >> \in states /\ LeadsBy(words, p, k, l, states)
  BY DEF Leads
<1> DEFINE longer == states \cup {<< to, T >>}
<1>2. ASSUME NEW s \in states
      PROVE  /\ s[1] \in 0..to /\ s = << s[1], s[2] >>
             /\ s[1] < to /\ Operates(words[s[1] + 1], p)
             /\ \E next \in longer : LoopStep(words, p, s, next)
  <2>1. /\ s[1] \in 0..k /\ s = << s[1], s[2] >>
        /\ \/ s = << k, l >>
           \/ /\ s[1] < k /\ Operates(words[s[1] + 1], p)
              /\ \E next \in states : LoopStep(words, p, s, next)
    BY <1>1 DEF LeadsBy
  <2>2. CASE s = << k, l >>
    <3>1. s[1] = k /\ s[2] = l /\ << to, T >>[1] = to /\ << to, T >>[2] = << k + 1, l, r >>
      BY <2>2
    <3>2. LoopStep(words, p, s, << to, T >>)
      BY <3>1 DEF LoopStep
    <3>3. QED
      BY <2>1, <3>1, <3>2
  <2>3. CASE s # << k, l >>
    BY <2>1, <2>3
  <2>4. QED
    BY <2>2, <2>3
<1>3. /\ << to, T >>[1] = to /\ << to, T >> = << << to, T >>[1], << to, T >>[2] >>
  OBVIOUS
<1>4. LeadsBy(words, p, to, T, longer)
  <2> SUFFICES ASSUME NEW s \in longer
               PROVE  /\ s[1] \in 0..to /\ s = << s[1], s[2] >>
                      /\ \/ s = << to, T >>
                         \/ /\ s[1] < to /\ Operates(words[s[1] + 1], p)
                            /\ \E next \in longer : LoopStep(words, p, s, next)
    BY DEF LeadsBy
  <2>1. CASE s \in states
    BY <1>2, <2>1
  <2>2. CASE s = << to, T >>
    BY <1>3, <2>2
  <2>3. QED
    BY <2>1, <2>2
<1>5. << c, t >> \in longer
  BY <1>1
<1> HIDE DEF longer
<1>6. QED
  BY <1>4, <1>5 DEF Leads

(* A phrase of a level with binary operations starts with one of the level below, from     *)
(* which the loop leads to the whole.                                                *)
LEMMA Spine ==
  ASSUME NEW words, Len(words) \in Nat, NEW p \in {1, 3, 4}, NEW from \in 0..Len(words)
  PROVE  \A to \in 0..Len(words) : \A T \in Phrases(words, from, to, p) :
           \E m \in (from + 1)..to : \E t \in Phrases(words, from, m, p - 1) :
             Leads(words, p, m, t, to, T)
<1> DEFINE Led(to) == \A T \in Phrases(words, from, to, p) :
                        \E m \in (from + 1)..to : \E t \in Phrases(words, from, m, p - 1) :
                          Leads(words, p, m, t, to, T)
           bad == {to \in 0..Len(words) : ~Led(to)}
<1> SUFFICES ASSUME bad # {} PROVE FALSE
  OBVIOUS
<1>1. PICK to \in bad : \A k \in bad : to <= k
  <2>1. bad \subseteq Nat
    OBVIOUS
  <2> HIDE DEF bad
  <2>2. QED
    BY <2>1, R!SmallestNat
<1>2. to \in 0..Len(words) /\ \A k \in 0..Len(words) : k < to => Led(k)
  <2> HIDE DEF Led
  <2>1. QED
    BY <1>1
<1>3. PICK T \in Phrases(words, from, to, p) :
        ~ \E m \in (from + 1)..to : \E t \in Phrases(words, from, m, p - 1) :
            Leads(words, p, m, t, to, T)
  BY <1>1
<1>4. p \in 0..MAX_PRIORITY
  BY DEF MAX_PRIORITY
<1>5. from < to
  BY <1>2, <1>3, <1>4, PhrasesAre
<1>6. CASE T \in Phrases(words, from, to, p - 1)
  <2>1. Leads(words, p, to, T, to, T) /\ to \in (from + 1)..to
    BY <1>2, <1>5, LeadsHere
  <2>2. QED
    BY <1>3, <1>6, <2>1
<1>7. ASSUME NEW k \in from..(to - 1), Operates(words[k + 1], p),
             NEW l \in Phrases(words, from, k, p), NEW r \in Phrases(words, k + 1, to, p - 1),
             T = << k + 1, l, r >>
      PROVE  FALSE
  <2>1. k \in 0..Len(words) /\ k < to /\ k \in Nat /\ to \in Nat
    BY <1>2
  <2>2. PICK m, t : /\ m \in (from + 1)..k /\ t \in Phrases(words, from, m, p - 1)
                    /\ Leads(words, p, m, t, k, l)
    <3>1. Led(k)
      BY <1>2, <2>1
    <3>2. QED
      BY <3>1
  <2>3. Leads(words, p, m, t, to, T)
    BY <1>7, <2>1, <2>2, LeadsFurther
  <2>4. QED
    BY <1>2, <1>3, <2>1, <2>2, <2>3
<1>8. QED
  <2> HIDE DEF bad
  <2>1. T \in Phrases(words, from, to, p) <=>
          \/ T \in Phrases(words, from, to, p - 1)
          \/ \E k \in from..(to - 1) :
               /\ Operates(words[k + 1], p)
               /\ \E l \in Phrases(words, from, k, p), r \in Phrases(words, k + 1, to, p - 1) :
                    T = << k + 1, l, r >>
    BY <1>2, <1>5, PhrasesAre
  <2>2. QED
    BY <1>3, <1>6, <1>7, <2>1

-----------------------------------------------------------------------------
(* The trees.  TreeOf is defined by recursion, which needs a solution to exist: it does   *)
(* as long as every link leads to a node that was linked before.                      *)
IsTrees(l, r, nodes, tree) ==
  tree = [n \in nodes |-> << n + 1, IF l[n] = NULL THEN <<>> ELSE tree[l[n]],
                                    IF r[n] = NULL THEN <<>> ELSE tree[r[n]] >>]
HasTrees == \E tree : IsTrees(left, right, Nodes, tree)

(* The trees satisfy their recursive definition.                              *)
LEMMA TreeOfIs ==
  ASSUME TypeInv, HasTrees
  PROVE  /\ IsTrees(left, right, Nodes, TreeOf)
         /\ \A n \in Nodes : TreeAt(n) = << n + 1, TreeAt(left[n]), TreeAt(right[n]) >>
<1>1. TreeOf = CHOOSE tree : IsTrees(left, right, Nodes, tree)
  BY DEF TreeOf, IsTrees
<1>2. IsTrees(left, right, Nodes, TreeOf)
  BY <1>1 DEF HasTrees
<1>3. ASSUME NEW n \in Nodes
      PROVE  TreeAt(n) = << n + 1, TreeAt(left[n]), TreeAt(right[n]) >>
  <2>1. n # NULL
    BY NodesNat DEF TypeInv, TypeOK
  <2>2. TreeOf[n] = << n + 1, IF left[n] = NULL THEN <<>> ELSE TreeOf[left[n]],
                              IF right[n] = NULL THEN <<>> ELSE TreeOf[right[n]] >>
    BY <1>2 DEF IsTrees
  <2>3. QED
    BY <2>1, <2>2 DEF TreeAt
<1>4. QED
  BY <1>2, <1>3

(* Without a cycle there is only one.                                               *)
LEMMA TreesUnique ==
  ASSUME NEW heap, NEW rank, NEW top, R!Ranked(heap, rank, top),
         NEW f, IsTrees(heap.left, heap.right, DOMAIN heap.left, f),
         NEW g, IsTrees(heap.left, heap.right, DOMAIN heap.left, g)
  PROVE  f = g
<1> DEFINE nodes == DOMAIN heap.left
           S == {n \in nodes : f[n] = g[n]}
<1>1. f = [n \in nodes |-> f[n]] /\ g = [n \in nodes |-> g[n]]
  BY DEF IsTrees
<1>2. ASSUME NEW h, IsTrees(heap.left, heap.right, nodes, h), NEW n \in nodes
      PROVE  h[n] = << n + 1, IF heap.left[n] = NULL THEN <<>> ELSE h[heap.left[n]],
                              IF heap.right[n] = NULL THEN <<>> ELSE h[heap.right[n]] >>
  BY <1>2 DEF IsTrees
<1>3. ASSUME NEW n \in nodes, R!Children(heap, n) \subseteq S
      PROVE  n \in S
  <2>1. /\ heap.left[n] # NULL => f[heap.left[n]] = g[heap.left[n]]
        /\ heap.right[n] # NULL => f[heap.right[n]] = g[heap.right[n]]
    BY <1>3 DEF R!Children
  <2>2. f[n] = g[n]
    BY <1>2, <2>1
  <2>3. QED
    BY <2>2
<1> HIDE DEF S
<1>4. nodes \subseteq S
  BY <1>3, R!TreeInduction
<1>5. \A n \in nodes : f[n] = g[n]
  BY <1>4 DEF S
<1>6. QED
  BY <1>1, <1>5

(* The trees of the next state are the solution at hand, if there is no cycle then.        *)
LEMMA NextTrees ==
  ASSUME TypeInv', Acyclic', NEW f, IsTrees(left', right', Nodes', f)
  PROVE  HasTrees' /\ TreeOf' = f
<1> DEFINE heap == [left |-> left', right |-> right']
<1>1. /\ NULL \notin Nodes' /\ left' \in [Nodes' -> Nodes' \cup {NULL}]
      /\ right' \in [Nodes' -> Nodes' \cup {NULL}]
  <2>1. Len(lexed'.words) \in Nat
    BY LenProperties DEF TypeInv, TypeOK
  <2>2. QED
    BY <2>1, KindsNotNull DEF TypeInv, TypeOK, Nodes, Indices
<1>2. PICK top \in Nat : \E rank \in [Nodes' -> 0..top] :
        \A n \in Nodes' : \A child \in {left'[n], right'[n]} \ {NULL} : rank[child] < rank[n]
  BY DEF Acyclic
<1>3. PICK rank \in [Nodes' -> 0..top] :
        \A n \in Nodes' : \A child \in {left'[n], right'[n]} \ {NULL} : rank[child] < rank[n]
  BY <1>2
<1>4. heap.left = left' /\ heap.right = right' /\ DOMAIN heap.left = Nodes'
  BY <1>1
<1> HIDE DEF heap
<1>5. R!Ranked(heap, rank, top)
  BY <1>1, <1>2, <1>3, <1>4 DEF R!Ranked, R!Children
<1>6. TreeOf' = CHOOSE tree : IsTrees(left', right', Nodes', tree)
  BY DEF TreeOf, IsTrees
<1>7. IsTrees(left', right', Nodes', TreeOf')
  BY <1>6
<1>8. HasTrees'
  BY DEF HasTrees, IsTrees
<1>9. QED
  BY <1>4, <1>5, <1>7, <1>8, TreesUnique

(* A step that links nothing leaves the trees.                                       *)
LEMMA TreesStay ==
  ASSUME TypeInv, LinkInv, Acyclic, HasTrees, [Next]_vars, left' = left, right' = right
  PROVE  HasTrees' /\ TreeOf' = TreeOf
<1>1. Nodes' = Nodes
  BY LexedConstant DEF Nodes
<1>2. IsTrees(left', right', Nodes', TreeOf)
  BY <1>1, TreeOfIs
<1>3. TypeInv' /\ Acyclic'
  BY TypeStep, AcyclicStep
<1>4. QED
  BY <1>2, <1>3, NextTrees

(* One that hangs a child below a root changes the tree of that root only.                *)
LEMMA TreesGrow ==
  ASSUME TypeInv, LinkInv, Acyclic, HasTrees, [Next]_vars,
         NEW owner \in Nodes, NEW child \in Nodes, owner # child, parent[owner] = NULL,
         \/ left' = [left EXCEPT ![owner] = child] /\ right' = right
         \/ right' = [right EXCEPT ![owner] = child] /\ left' = left
  PROVE  /\ HasTrees'
         /\ \A n \in Nodes : n # owner => TreeAt(n)' = TreeAt(n)
         /\ TreeAt(owner)' = << owner + 1, TreeAt(left'[owner]), TreeAt(right'[owner]) >>
<1> DEFINE f == [n \in Nodes |->
                   IF n = owner THEN << owner + 1, TreeAt(left'[owner]), TreeAt(right'[owner]) >>
                   ELSE TreeOf[n]]
<1>1. Nodes' = Nodes /\ TypeInv' /\ Acyclic'
  BY LexedConstant, TypeStep, AcyclicStep DEF Nodes
<1>2. /\ NULL \notin Nodes
      /\ left \in [Nodes -> Nodes \cup {NULL}] /\ right \in [Nodes -> Nodes \cup {NULL}]
  BY NodesNat DEF TypeInv, TypeOK, Nodes
<1>3. \A n \in Nodes : owner \notin {left[n], right[n]}
  BY RootUnlinked
<1>4. \A n \in Nodes : n # owner => left'[n] = left[n] /\ right'[n] = right[n]
  BY <1>2
<1>5. \A n \in Nodes : owner \notin {left'[n], right'[n]}
  BY <1>2, <1>3
<1>6. \A n \in Nodes : f[n] = IF n = owner
                              THEN << owner + 1, TreeAt(left'[owner]), TreeAt(right'[owner]) >>
                              ELSE TreeOf[n]
  OBVIOUS
<1>7. f = [n \in Nodes |-> f[n]]
  OBVIOUS
<1> HIDE DEF f
<1>8. \A m \in Nodes \cup {NULL} : m # owner => (IF m = NULL THEN <<>> ELSE f[m]) = TreeAt(m)
  BY <1>6 DEF TreeAt
<1>9. ASSUME NEW n \in Nodes
      PROVE  f[n] = << n + 1, IF left'[n] = NULL THEN <<>> ELSE f[left'[n]],
                              IF right'[n] = NULL THEN <<>> ELSE f[right'[n]] >>
  <2>1. left'[n] \in Nodes \cup {NULL} /\ right'[n] \in Nodes \cup {NULL}
    BY <1>2
  <2>2. << n + 1, IF left'[n] = NULL THEN <<>> ELSE f[left'[n]],
                  IF right'[n] = NULL THEN <<>> ELSE f[right'[n]] >>
          = << n + 1, TreeAt(left'[n]), TreeAt(right'[n]) >>
    BY <1>5, <1>8, <2>1
  <2>3. f[n] = << n + 1, TreeAt(left'[n]), TreeAt(right'[n]) >>
    <3>1. CASE n = owner
      BY <1>6, <3>1
    <3>2. CASE n # owner
      <4>1. TreeAt(n) = << n + 1, TreeAt(left[n]), TreeAt(right[n]) >> /\ TreeAt(n) = TreeOf[n]
        BY <1>2, TreeOfIs DEF TreeAt
      <4>2. QED
        BY <1>4, <1>6, <3>2, <4>1
    <3>3. QED
      BY <3>1, <3>2
  <2>4. QED
    BY <2>2, <2>3
<1>10. IsTrees(left', right', Nodes', f)
  BY <1>1, <1>7, <1>9 DEF IsTrees
<1>11. HasTrees' /\ TreeOf' = f
  BY <1>1, <1>10, NextTrees
<1>12. \A n \in Nodes : TreeAt(n)' = f[n] /\ TreeAt(n) = TreeOf[n]
  BY <1>2, <1>11 DEF TreeAt
<1>13. QED
  BY <1>6, <1>11, <1>12

(* Bare tokens are leaves.                                                    *)
LEMMA TreesInit == Init => HasTrees
<1> SUFFICES ASSUME Init PROVE HasTrees
  OBVIOUS
<1>1. \A n \in Nodes : left[n] = NULL /\ right[n] = NULL
  BY DEF Init, Nodes
<1>2. IsTrees(left, right, Nodes, [n \in Nodes |-> << n + 1, <<>>, <<>> >>])
  BY <1>1 DEF IsTrees
<1>3. QED
  BY <1>2 DEF HasTrees

(* Every step leaves trees.                                                   *)
LEMMA TreesStep ==
  ASSUME TypeInv, LinkInv, Acyclic, HasTrees, [Next]_vars
  PROVE  HasTrees'
<1>1. CASE BinaryLoopTake \/ BinarySecond \/ (UnaryOperand /\ result # NULL)
  <2>1. status = "parsing"
    BY <1>1 DEF BinaryLoopTake, BinarySecond, UnaryOperand, Active
  <2>2. PICK owner, child \in Nodes :
           /\ owner # child /\ parent[owner] = NULL
           /\ \/ left' = [left EXCEPT ![owner] = child] /\ right' = right
              \/ right' = [right EXCEPT ![owner] = child] /\ left' = left
    BY <1>1, <2>1, Linking
  <2>3. QED
    BY <2>2, TreesGrow
<1>2. CASE ~(BinaryLoopTake \/ BinarySecond \/ (UnaryOperand /\ result # NULL))
  BY <1>2, NotLinking, TreesStay
<1>3. QED
  BY <1>1, <1>2

-----------------------------------------------------------------------------
(***************************************************************************)
(* Sentences are accepted.  Each call on the stack has a goal: the phrase it will     *)
(* return, known from the tree of the sentence, or, below GetUnaryOperation at a       *)
(* function, its failure without moving the cursor.                                *)
(***************************************************************************)

(* What may come after a phrase of level p: nothing that the loops of the calls up to   *)
(* level p take.                                                                   *)
Follow(words, c, p) ==
  \/ c = Len(words)
  \/ /\ c < Len(words)
     /\ \/ words[c + 1] = "CLOSE_BRACKET"
        \/ \E q \in 0..MAX_PRIORITY : q > p /\ Operates(words[c + 1], q)

Phrase(from, to, tree, p) ==
  [from |-> from, to |-> to, tree |-> tree, priority |-> p, is |-> "phrase"]
Failure(from, p) ==
  [from |-> from, to |-> from, tree |-> <<>>, priority |-> p, is |-> "failure"]

GoalOK(words, goal) ==
  /\ goal.priority \in 0..MAX_PRIORITY
  /\ goal.from \in 0..Len(words) /\ goal.to \in 0..Len(words)
  /\ goal.is \in {"phrase", "failure"}
  /\ goal.is = "phrase" =>
       /\ goal.tree \in Phrases(words, goal.from, goal.to, goal.priority)
       /\ Follow(words, goal.to, goal.priority)
  /\ goal.is = "failure" =>
       goal.priority <= 1 /\ goal.from < Len(words) /\ Operates(words[goal.from + 1], 2)

(* A call has returned node, with that tree, and left the cursor there.                  *)
Delivered(goal, node, tree, cursor) ==
  /\ goal.is = "phrase"  => node # NULL /\ tree = goal.tree /\ cursor = goal.to
  /\ goal.is = "failure" => node = NULL /\ cursor = goal.from

(* How the goal of a call follows from what its callee will deliver, at each place a     *)
(* call is suspended at; tree is that of frame.value.                                 *)
Suspends(words, frame, tree, goal, callee) ==
  /\ frame.at \notin {"entry", "loop"}
  /\ frame.at = "first" =>
       /\ callee.from = goal.from /\ callee.is = goal.is
       /\ goal.is = "phrase" =>
            Leads(words, goal.priority, callee.to, callee.tree, goal.to, goal.tree)
  /\ frame.at = "second" =>
       /\ goal.is = "phrase" /\ callee.is = "phrase"
       /\ Leads(words, goal.priority, callee.to, << frame.node + 1, tree, callee.tree >>,
                goal.to, goal.tree)
  /\ frame.at = "value" =>
       /\ goal.is = "phrase" /\ callee.from = goal.from
       /\ callee.is = "phrase" => callee.to = goal.to /\ callee.tree = goal.tree
       /\ callee.is = "failure" =>
            /\ Operates(words[goal.from + 1], 2) /\ goal.from < Len(words)
            /\ \E arg \in Phrases(words, goal.from + 1, goal.to, 1) :
                 goal.tree = << goal.from + 1, arg, << >> >>
  /\ frame.at = "operand" =>
       /\ goal.is = "phrase" /\ callee.is = "phrase" /\ callee.to = goal.to
       /\ goal.tree = << frame.node + 1, callee.tree, << >> >>
  /\ frame.at = "inner" =>
       /\ goal.is = "phrase" /\ callee.is = "phrase"
       /\ goal.to = callee.to + 1 /\ callee.tree = goal.tree
       /\ words[goal.to] = "CLOSE_BRACKET"

(* The call on top: it begins where its goal does, or can go on from where its loop is,  *)
(* or has just got what its callee was to deliver.                                    *)
Awaits(goal, callee) ==
  /\ Top.at = "entry" => currentNode = goal.from
  /\ Top.at = "loop" =>
       /\ goal.is = "phrase"
       /\ Leads(lexed.words, goal.priority, currentNode, TreeAt(Top.value), goal.to, goal.tree)
  /\ Top.at \notin {"entry", "loop"} =>
       /\ GoalOK(lexed.words, callee)
       /\ Suspends(lexed.words, Top, TreeAt(Top.value), goal, callee)
       /\ Delivered(callee, result, TreeAt(result), currentNode)

Expects(T, goals) ==
  /\ goals[1] = Phrase(0, Len(lexed.words), T, MAX_PRIORITY)
  /\ \A i \in 1..Len(stack) : GoalOK(lexed.words, goals[i]) /\ stack[i].priority = goals[i].priority
  /\ \A i \in 1..(Len(stack) - 1) :
       Suspends(lexed.words, stack[i], TreeAt(stack[i].value), goals[i], goals[i + 1])
  /\ stack = <<>> => Delivered(goals[1], result, TreeAt(result), currentNode)
  /\ stack # <<>> => Awaits(goals[Len(stack)], goals[Len(stack) + 1])

ExpectInv ==
  Terminated /\ status = "parsing" =>
    \A T \in G!Sentences(lexed.words) : \E goals : Expects(T, goals)

(* A step of the call on top that leaves the trees its callers hold.                    *)
CallersKept ==
  \A i \in 1..(Len(stack) - 1) : \A n \in Nodes :
    n = stack[i].value /\ stack[i].at = "second" => TreeAt(n)' = TreeAt(n)
Going(T, goals) ==
  /\ TypeInv /\ stack # <<>> /\ lexed' = lexed /\ CallersKept /\ Expects(T, goals)

(* What a caller waits for stays, since its trees do.                         *)
LEMMA CallersSuspended ==
  ASSUME NEW T, NEW goals, Going(T, goals), NEW i \in 1..(Len(stack) - 1), stack'[i] = stack[i]
  PROVE  Suspends(lexed'.words, stack'[i], TreeAt(stack[i].value)', goals[i], goals[i + 1])
<1>1. Suspends(lexed.words, stack[i], TreeAt(stack[i].value), goals[i], goals[i + 1])
  BY DEF Going, Expects
<1>2. CASE stack[i].at = "second"
  <2>1. stack[i] \in GoodFrames
    BY StackTop, ElementOfSeq DEF Going, TypeInv
  <2>2. stack[i].value \in Nodes
    BY <1>2, <2>1 DEF GoodFrames, FrameOK
  <2>3. PICK n \in Nodes : n = stack[i].value
    BY <2>2
  <2>4. TreeAt(n)' = TreeAt(n)
    BY <1>2, <2>3 DEF Going, CallersKept
  <2>5. TreeAt(stack[i].value)' = TreeAt(n)' /\ TreeAt(stack[i].value) = TreeAt(n)
    BY <2>3
  <2>6. QED
    BY <1>1, <2>4, <2>5 DEF Going
<1>3. CASE stack[i].at # "second"
  BY <1>1, <1>3 DEF Going, Suspends
<1>4. QED
  BY <1>2, <1>3

(* What the callers wait for is not touched.                                           *)
LEMMA CallersExpect ==
  ASSUME NEW T, NEW goals, Going(T, goals), NEW len \in Nat \ {0}, len = Len(stack),
         \A i \in 1..(len - 1) : stack'[i] = stack[i]
  PROVE  /\ goals[1] = Phrase(0, Len(lexed'.words), T, MAX_PRIORITY)
         /\ \A i \in 1..len : GoalOK(lexed'.words, goals[i])
         /\ stack[len].priority = goals[len].priority
         /\ \A i \in 1..(len - 1) :
              /\ stack'[i].priority = goals[i].priority
              /\ Suspends(lexed'.words, stack'[i], TreeAt(stack[i].value)', goals[i], goals[i + 1])
<1>1. \A i \in 1..(len - 1) :
        Suspends(lexed'.words, stack'[i], TreeAt(stack[i].value)', goals[i], goals[i + 1])
  BY CallersSuspended
<1>2. /\ goals[1] = Phrase(0, Len(lexed'.words), T, MAX_PRIORITY)
      /\ \A i \in 1..len : GoalOK(lexed'.words, goals[i]) /\ stack[i].priority = goals[i].priority
  BY DEF Going, Expects
<1>3. \A i \in 1..(len - 1) : i \in 1..len
  OBVIOUS
<1>4. len \in 1..len
  OBVIOUS
<1>5. QED
  BY <1>1, <1>2, <1>3, <1>4

(* A call: the callee begins where its goal does.                                      *)
LEMMA CallExpects ==
  ASSUME NEW T, NEW goals, Going(T, goals),
         NEW frame \in GoodFrames, NEW p \in 0..MAX_PRIORITY, Call(frame, p),
         frame.priority = Top.priority,
         NEW callee, GoalOK(lexed.words, callee), callee.priority = p,
         callee.from = currentNode',
         Suspends(lexed.words, frame, TreeAt(frame.value)', goals[Len(stack)], callee)
  PROVE  \E next : Expects(T, next)'
<1>1. PICK len \in Nat \ {0} :
        /\ len = Len(stack) /\ Len(stack') = len + 1
        /\ stack'[len] = frame /\ stack'[len + 1] = Frame(p)
        /\ \A i \in 1..(len - 1) : stack'[i] = stack[i]
  BY CallShape DEF Going, TypeInv
<1>2. PICK next : next = [i \in 1..(len + 1) |-> IF i = len + 1 THEN callee ELSE goals[i]]
  OBVIOUS
<1>3. next[len + 1] = callee /\ \A i \in 1..len : next[i] = goals[i]
  BY <1>2
<1>4. Frame(p).at = "entry" /\ Frame(p).priority = p
  BY DEF Frame
<1>5. lexed' = lexed /\ Top = stack[len]
  BY <1>1 DEF Going, Top
<1>6. /\ goals[1] = Phrase(0, Len(lexed'.words), T, MAX_PRIORITY)
      /\ \A i \in 1..len : GoalOK(lexed'.words, goals[i])
      /\ stack[len].priority = goals[len].priority
      /\ \A i \in 1..(len - 1) :
           /\ stack'[i].priority = goals[i].priority
           /\ Suspends(lexed'.words, stack'[i], TreeAt(stack[i].value)', goals[i], goals[i + 1])
  BY <1>1, CallersExpect
<1>7. next[1] = Phrase(0, Len(lexed'.words), T, MAX_PRIORITY)
  BY <1>3, <1>6
<1>8. ASSUME NEW i \in 1..(len + 1)
      PROVE  GoalOK(lexed'.words, next[i]) /\ stack'[i].priority = next[i].priority
  <2>1. CASE i = len + 1
    BY <1>1, <1>3, <1>4, <1>5, <2>1
  <2>2. CASE i = len
    BY <1>1, <1>3, <1>5, <1>6, <2>2
  <2>3. CASE i \in 1..(len - 1)
    <3>1. i \in 1..len
      BY <2>3
    <3>2. next[i] = goals[i] /\ GoalOK(lexed'.words, goals[i]) /\ stack'[i].priority = goals[i].priority
      BY <1>3, <1>6, <2>3, <3>1
    <3>3. QED
      BY <3>2
  <2>4. QED
    BY <2>1, <2>2, <2>3
<1>9. ASSUME NEW i \in 1..len
      PROVE  Suspends(lexed'.words, stack'[i], TreeAt(stack[i].value)', next[i], next[i + 1])
  <2>1. CASE i = len
    <3>1. TreeAt(stack[i].value)' = TreeAt(frame.value)'
      BY <1>1, <2>1
    <3>2. QED
      BY <1>1, <1>3, <1>5, <2>1, <3>1
  <2>2. CASE i \in 1..(len - 1)
    BY <1>3, <1>6, <2>2
  <2>3. QED
    BY <2>1, <2>2
<1>10. stack' # <<>> /\ Awaits(next[len + 1], next[len + 2])'
  BY <1>1, <1>3, <1>4 DEF Awaits, Top
<1>11. QED
  <2>1. (len + 1) - 1 = len /\ len + 1 + 1 = len + 2
    OBVIOUS
  <2>2. QED
    BY <1>1, <1>7, <1>8, <1>9, <1>10, <2>1 DEF Expects

(* Going on in the loop.                                                           *)
LEMMA GotoExpects ==
  ASSUME NEW T, NEW goals, Going(T, goals), NEW frame \in GoodFrames, Goto(frame),
         frame.priority = Top.priority, frame.at = "loop", goals[Len(stack)].is = "phrase",
         Leads(lexed.words, goals[Len(stack)].priority, currentNode', TreeAt(frame.value)',
               goals[Len(stack)].to, goals[Len(stack)].tree)
  PROVE  \E next : Expects(T, next)'
<1>1. PICK len \in Nat \ {0} :
        /\ len = Len(stack) /\ Len(stack') = len /\ stack'[len] = frame
        /\ \A i \in 1..(len - 1) : stack'[i] = stack[i]
  BY GotoShape DEF Going, TypeInv
<1>2. lexed' = lexed /\ Top = stack[len]
  BY <1>1 DEF Going, Top
<1>3. /\ goals[1] = Phrase(0, Len(lexed'.words), T, MAX_PRIORITY)
      /\ \A i \in 1..len : GoalOK(lexed'.words, goals[i])
      /\ stack[len].priority = goals[len].priority
      /\ \A i \in 1..(len - 1) :
           /\ stack'[i].priority = goals[i].priority
           /\ Suspends(lexed'.words, stack'[i], TreeAt(stack[i].value)', goals[i], goals[i + 1])
  BY <1>1, CallersExpect
<1>4. \A i \in 1..len : stack'[i].priority = goals[i].priority
  BY <1>1, <1>2, <1>3
<1>5. stack' # <<>>
  BY <1>1
<1>6. TreeAt(Top.value)' = TreeAt(frame.value)' /\ Top' = frame
  BY <1>1 DEF Top
<1>7. Awaits(goals[len], goals[len + 1])'
  BY <1>1, <1>2, <1>6 DEF Awaits
<1>8. QED
  BY <1>1, <1>3, <1>4, <1>5, <1>7 DEF Expects

(* Returning what the goal says.                                                     *)
LEMMA ReturnExpects ==
  ASSUME NEW T, NEW goals, Going(T, goals), NEW value, Return(value),
         Delivered(goals[Len(stack)], value, TreeAt(value)', currentNode')
  PROVE  \E next : Expects(T, next)'
<1>1. PICK len \in Nat \ {0} :
        /\ len = Len(stack) /\ Len(stack') = len - 1
        /\ \A i \in 1..(len - 1) : stack'[i] = stack[i]
  BY ReturnShape DEF Going, TypeInv
<1>2. lexed' = lexed /\ result' = value
  BY DEF Going, Return
<1>3. /\ goals[1] = Phrase(0, Len(lexed'.words), T, MAX_PRIORITY)
      /\ \A i \in 1..len : GoalOK(lexed'.words, goals[i])
      /\ \A i \in 1..(len - 1) :
           /\ stack'[i].priority = goals[i].priority
           /\ Suspends(lexed'.words, stack'[i], TreeAt(stack[i].value)', goals[i], goals[i + 1])
  BY <1>1, CallersExpect
<1>4. Delivered(goals[len], result', TreeAt(result)', currentNode')
  BY <1>1, <1>2
<1>5. CASE len = 1
  <2>1. stack' = <<>>
    BY <1>1, <1>5, EmptySeq DEF Return, Callers
  <2>2. QED
    BY <1>1, <1>3, <1>4, <1>5, <2>1 DEF Expects
<1>6. CASE len # 1
  <2>1. PICK k \in Nat \ {0} : k = len - 1
    BY <1>6
  <2>2. Top' = stack'[k] /\ stack' # <<>>
    BY <1>1, <2>1 DEF Top
  <2>3. Suspends(lexed'.words, Top', TreeAt(Top.value)', goals[k], goals[k + 1])
    <3>1. k \in 1..(len - 1)
      BY <2>1
    <3>2. Suspends(lexed'.words, stack'[k], TreeAt(stack[k].value)', goals[k], goals[k + 1])
      BY <1>3, <3>1
    <3>3. TreeAt(Top.value)' = TreeAt(stack[k].value)'
      BY <2>2
    <3>4. QED
      BY <2>2, <3>2, <3>3
  <2>4. GoalOK(lexed'.words, goals[k + 1]) /\ Delivered(goals[k + 1], result', TreeAt(result)', currentNode')
    BY <1>3, <1>4, <2>1
  <2>5. Awaits(goals[k], goals[k + 1])'
    <3>1. Top'.at \notin {"entry", "loop"}
      BY <2>3 DEF Suspends
    <3>2. QED
      BY <2>3, <2>4, <3>1 DEF Awaits
  <2>6. QED
    BY SMTT(20), <1>1, <1>3, <2>1, <2>2, <2>5 DEF Expects
<1>7. QED
  BY <1>5, <1>6

(* What the steps do to the trees.  Taking an operation hangs the tree in hand below it. *)
LEMMA TakeTrees ==
  ASSUME TypeInv, LinkInv, Acyclic, HasTrees, BinaryLoopTake
  PROVE  CallersKept /\ \A n \in Nodes : n # currentNode => TreeAt(n)' = TreeAt(n)
<1>1. /\ NULL \notin Nodes /\ Nodes \subseteq Nat /\ currentNode \in Nat
      /\ FreshBare /\ HeldRoots /\ Len(stack) \in Nat \ {0}
      /\ status = "parsing" /\ stack # <<>> /\ Top.value \in Nodes /\ Holds(Top, Top.value)
      /\ currentNode \in Nodes /\ left' = [left EXCEPT ![currentNode] = Top.value]
      /\ right' = right
  BY NodesNat, ActiveTop, StackTop
     DEF BinaryLoopTake, Readable, FrameOK, Holds, Nodes, LinkInv, TypeInv, TypeOK
<1>2. \A i \in 1..Len(stack) : \A n \in Nodes : Holds(stack[i], n) => n < currentNode
  BY <1>1 DEF HeldRoots
<1>3. Top.value # currentNode /\ parent[currentNode] = NULL
  <2>1. Len(stack) \in 1..Len(stack)
    BY <1>1
  <2>2. Top.value < currentNode
    BY <1>1, <1>2, <2>1 DEF Top
  <2>3. QED
    BY <1>1, <2>2 DEF FreshBare
<1>4. Next
  BY DEF Next, GetBinaryOperation
<1>5. PICK owner \in Nodes, child \in Nodes : owner = currentNode /\ child = Top.value
  BY <1>1
<1>6. \A n \in Nodes : n # owner => TreeAt(n)' = TreeAt(n)
  BY <1>1, <1>3, <1>4, <1>5, TreesGrow
<1>7. CallersKept
  <2> SUFFICES ASSUME NEW i \in 1..(Len(stack) - 1), NEW n \in Nodes, n = stack[i].value,
                      stack[i].at = "second"
               PROVE  n # owner
    BY <1>6 DEF CallersKept
  <2>1. i \in 1..Len(stack) /\ Holds(stack[i], n)
    BY <1>1 DEF Holds
  <2>2. n < currentNode
    BY <1>2, <2>1
  <2>3. QED
    BY <1>1, <1>5, <2>2
<1>8. QED
  BY <1>5, <1>6, <1>7

(* A result is hung below an operation whose operand it is: it was read after all that   *)
(* the callers hold.                                                               *)
LEMMA ResultTrees ==
  ASSUME TypeInv, LinkInv, Acyclic, HasTrees, BinarySecond \/ (UnaryOperand /\ result # NULL)
  PROVE  /\ CallersKept
         /\ Top.node \in Nodes /\ result \in Nodes
         /\ \A n \in Nodes : n = Top.node =>
              TreeAt(n)' = << n + 1, TreeAt(left'[n]), TreeAt(right'[n]) >>
<1>1. /\ NULL \notin Nodes /\ Nodes \subseteq Nat
      /\ HeldRoots /\ HeldInOrder /\ ResultFree /\ Len(stack) \in Nat \ {0}
      /\ status = "parsing" /\ stack # <<>> /\ Top.node \in Nodes /\ Holds(Top, Top.node)
      /\ HoldsRoot(Top, Top.node) /\ Receiving /\ result \in Nodes /\ result # NULL
  BY NodesNat, ActiveTop, StackTop
     DEF BinarySecond, UnaryOperand, FrameOK, Holds, HoldsRoot, Receiving, LinkInv, TypeInv, TypeOK
<1>2. Len(stack) \in 1..Len(stack) /\ stack[Len(stack)] = Top
  BY <1>1 DEF Top
<1>3. Top.node < result /\ parent[Top.node] = NULL
  BY <1>1, <1>2 DEF HeldRoots, ResultFree
<1>4. \/ left' = [left EXCEPT ![Top.node] = result] /\ right' = right
      \/ right' = [right EXCEPT ![Top.node] = result] /\ left' = left
  BY <1>1 DEF BinarySecond, UnaryOperand
<1>5. Next
  BY DEF Next, GetBinaryOperation, GetUnaryOperation
<1>6. PICK owner \in Nodes, child \in Nodes : owner = Top.node /\ child = result
  BY <1>1
<1>7. owner # child
  BY <1>1, <1>3, <1>6
<1>8. /\ \A n \in Nodes : n # owner => TreeAt(n)' = TreeAt(n)
      /\ TreeAt(owner)' = << owner + 1, TreeAt(left'[owner]), TreeAt(right'[owner]) >>
  BY <1>3, <1>4, <1>5, <1>6, <1>7, TreesGrow
<1>9. CallersKept
  <2> SUFFICES ASSUME NEW i \in 1..(Len(stack) - 1), NEW n \in Nodes, n = stack[i].value,
                      stack[i].at = "second"
               PROVE  n # owner
    BY <1>8 DEF CallersKept
  <2>1. i \in 1..Len(stack) /\ i < Len(stack) /\ Holds(stack[i], n)
    BY <1>1 DEF Holds
  <2>2. n < Top.node
    BY <1>1, <1>2, <2>1 DEF HeldInOrder
  <2>3. QED
    BY <1>1, <1>6, <2>2
<1>10. QED
  BY <1>1, <1>6, <1>8, <1>9

(* An operation that gets its right operand gets the tree of both.            *)
LEMMA SecondTrees ==
  ASSUME TypeInv, LinkInv, SumInv, Acyclic, HasTrees, BinarySecond
  PROVE  /\ CallersKept /\ Top.node \in Nodes
         /\ \A n \in Nodes : n = Top.node =>
              TreeAt(n)' = << n + 1, TreeAt(Top.value), TreeAt(result) >>
<1>1. /\ CallersKept /\ Top.node \in Nodes
      /\ \A n \in Nodes : n = Top.node =>
           TreeAt(n)' = << n + 1, TreeAt(left'[n]), TreeAt(right'[n]) >>
  BY ResultTrees
<1>2. left'[Top.node] = Top.value /\ right'[Top.node] = result
  <2>1. /\ status = "parsing" /\ stack # <<>> /\ Top.at = "second"
        /\ left' = left /\ right' = [right EXCEPT ![Top.node] = result]
    BY ActiveTop DEF BinarySecond
  <2>2. Len(stack) \in 1..Len(stack) /\ stack[Len(stack)] = Top
    BY <2>1, StackTop DEF Top, TypeInv
  <2>3. left[Top.node] = Top.value
    BY <2>1, <2>2 DEF SumInv, HeldSummed, FrameSummed
  <2>4. QED
    BY <1>1, <2>1, <2>3 DEF TypeInv, TypeOK, Nodes
<1>3. QED
  BY <1>1, <1>2

(* A function that gets its argument gets the tree of it.                     *)
LEMMA OperandTrees ==
  ASSUME TypeInv, LinkInv, Acyclic, HasTrees, UnaryOperand, result # NULL
  PROVE  /\ CallersKept /\ Top.node \in Nodes
         /\ \A n \in Nodes : n = Top.node =>
              TreeAt(n)' = << n + 1, TreeAt(result), << >> >>
<1>1. /\ CallersKept /\ Top.node \in Nodes
      /\ \A n \in Nodes : n = Top.node =>
           TreeAt(n)' = << n + 1, TreeAt(left'[n]), TreeAt(right'[n]) >>
  BY ResultTrees
<1>2. left'[Top.node] = result /\ right'[Top.node] = NULL
  <2>1. /\ status = "parsing" /\ stack # <<>> /\ Top.at = "operand"
        /\ right' = right /\ left' = [left EXCEPT ![Top.node] = result]
    BY ActiveTop DEF UnaryOperand
  <2>2. Len(stack) \in 1..Len(stack) /\ stack[Len(stack)] = Top
    BY <2>1, StackTop DEF Top, TypeInv
  <2>3. right[Top.node] = NULL
    BY <1>1, <2>1, <2>2 DEF LinkInv, HeldRoots
  <2>4. QED
    BY <1>1, <2>1, <2>3 DEF TypeInv, TypeOK, Nodes
<1>3. TreeAt(NULL) = <<>>
  BY DEF TreeAt
<1>4. QED
  BY <1>1, <1>2, <1>3

(* The other steps leave them.                                                       *)
LEMMA OtherTrees ==
  ASSUME TypeInv, LinkInv, Acyclic, HasTrees, Next,
         ~BinaryLoopTake, ~BinarySecond, ~(UnaryOperand /\ result # NULL)
  PROVE  CallersKept /\ \A n : TreeAt(n)' = TreeAt(n)
<1>1. TreeOf' = TreeOf
  BY NotLinking, TreesStay
<1>2. QED
  BY <1>1 DEF TreeAt, CallersKept

(* Two actions never are enabled together where their places differ.                    *)
LEMMA PlacesApart ==
  ASSUME NEW fn, NEW at, Active(fn, at)
  PROVE  /\ at # "loop" => ~BinaryLoopTake
         /\ at # "second" => ~BinarySecond
         /\ at # "operand" => ~UnaryOperand
BY DEF Active, BinaryLoopTake, BinarySecond, UnaryOperand

-----------------------------------------------------------------------------
(* What the next word may be, given the goal.                                         *)
LEMMA OperatesIs ==
  ASSUME NEW word, NEW p, Operates(word, p)
  PROVE  /\ word \notin Operands \cup {"TERMINATOR", "OPEN_BRACKET", "CLOSE_BRACKET"}
         /\ word \in OperationNames \ Brackets /\ Priority[word] = p
BY KindsDisjoint DEF Operates, Operands, OperationNames, Brackets

(* What may follow a phrase may follow a phrase of a lower level.             *)
LEMMA FollowWeaker ==
  ASSUME NEW words, NEW c, NEW p \in Nat, NEW q \in Nat, q <= p, Follow(words, c, p)
  PROVE  Follow(words, c, q)
<1>1. \A r \in 0..MAX_PRIORITY : r > p => r > q
  BY DEF MAX_PRIORITY
<1>2. QED
  BY <1>1 DEF Follow

(* The token under the cursor, and what the call on top is to do.                        *)
LEMMA Situation ==
  ASSUME TypeInv, CursorInv, Terminated, status = "parsing", stack # <<>>,
         NEW T, NEW goals, Expects(T, goals)
  PROVE  \E words, p, goal, callee :
           /\ words = lexed.words /\ Len(words) \in Nat
           /\ p = Top.priority /\ p \in 0..MAX_PRIORITY
           /\ goal = goals[Len(stack)] /\ GoalOK(words, goal) /\ goal.priority = p
           /\ callee = goals[Len(stack) + 1] /\ Awaits(goal, callee)
           /\ currentNode \in 0..Len(words)
           /\ Token = IF currentNode = Len(words) THEN "TERMINATOR" ELSE words[currentNode + 1]
<1>1. Len(lexed.words) \in Nat /\ Len(stack) \in 1..Len(stack)
  BY LenProperties, StackTop DEF TypeInv, TypeOK
<1>2. /\ GoalOK(lexed.words, goals[Len(stack)]) /\ stack[Len(stack)].priority = goals[Len(stack)].priority
      /\ Awaits(goals[Len(stack)], goals[Len(stack) + 1])
  BY <1>1 DEF Expects
<1>3. goals[Len(stack)].priority \in 0..MAX_PRIORITY
  BY <1>2 DEF GoalOK
<1>4. currentNode \in 0..Len(lexed.words) /\ currentNode \in Indices
      /\ \A i \in Indices : i >= currentNode => tokens[i] = Original(i)
  BY <1>1 DEF CursorInv, Indices
<1>5. Token = Original(currentNode)
  BY <1>1, <1>4 DEF Token
<1>6. QED
  BY <1>1, <1>2, <1>3, <1>4, <1>5 DEF Original, Top

(* What stops the loop of a call that has its phrase, and all those inside it.            *)
LEMMA Stopped ==
  ASSUME NEW words, NEW c, NEW p \in 0..MAX_PRIORITY, NEW token, Follow(words, c, p),
         token = IF c = Len(words) THEN "TERMINATOR" ELSE words[c + 1]
  PROVE  token # "OPEN_BRACKET" /\ ~Operates(token, p)
<1>1. ~Operates("TERMINATOR", p) /\ ~Operates("CLOSE_BRACKET", p)
  BY OperatesIs
<1>2. CASE c = Len(words)
  BY <1>1, <1>2
<1>3. CASE c # Len(words) /\ words[c + 1] = "CLOSE_BRACKET"
  BY <1>1, <1>3
<1>4. ASSUME c # Len(words), NEW q \in 0..MAX_PRIORITY, q > p, Operates(words[c + 1], q)
      PROVE  token # "OPEN_BRACKET" /\ ~Operates(token, p)
  <2>1. token # "OPEN_BRACKET" /\ Priority[token] = q /\ q # p
    BY <1>4, OperatesIs DEF MAX_PRIORITY
  <2>2. QED
    BY <2>1 DEF Operates
<1>5. QED
  BY <1>2, <1>3, <1>4 DEF Follow

(* The operands of an operation of the loop are phrases the words after can follow.        *)
LEMMA LoopGoal ==
  ASSUME NEW words, Len(words) \in Nat, NEW p \in {1, 3, 4}, NEW from \in 0..Len(words),
         NEW m \in 0..Len(words), NEW r \in Phrases(words, from, m, p - 1),
         NEW to \in 0..Len(words), NEW t, NEW T, Leads(words, p, m, t, to, T),
         Follow(words, to, p)
  PROVE  GoalOK(words, Phrase(from, m, r, p - 1))
<1>1. p - 1 \in 0..MAX_PRIORITY /\ p - 1 \in Nat /\ p \in Nat /\ p - 1 <= p /\ p > p - 1
      /\ p \in 0..MAX_PRIORITY /\ to \in Nat
  BY DEF MAX_PRIORITY
<1>2. Follow(words, m, p - 1)
  <2>1. m = to \/ (m < to /\ Operates(words[m + 1], p))
    BY <1>1, LeadsOn
  <2>2. CASE m = to
    BY <1>1, <2>2, FollowWeaker
  <2>3. CASE m < to /\ Operates(words[m + 1], p)
    BY <1>1, <2>3 DEF Follow
  <2>4. QED
    BY <2>1, <2>2, <2>3
<1>3. QED
  BY <1>1, <1>2 DEF GoalOK, Phrase

(* The steps of GetBinaryOperation keep the goals.                            *)
LEMMA BinaryExpects ==
  ASSUME TypeInv, LinkInv, SumInv, CursorInv, Acyclic, HasTrees, Terminated, status = "parsing",
         GetBinaryOperation, NEW T, NEW goals, Expects(T, goals)
  PROVE  \E next : Expects(T, next)'
<1>1. stack # <<>> /\ Top.fn = "GetBinaryOperation"
  BY DEF GetBinaryOperation, BinaryEntry, BinaryFirst, BinaryLoopEnd, BinaryLoopBracket,
         BinaryLoopTake, BinarySecond, BinarySecondFails, Active, Top
<1>2. PICK words, p, goal, callee :
           /\ words = lexed.words /\ Len(words) \in Nat
           /\ p = Top.priority /\ p \in 0..MAX_PRIORITY
           /\ goal = goals[Len(stack)] /\ GoalOK(words, goal) /\ goal.priority = p
           /\ callee = goals[Len(stack) + 1] /\ Awaits(goal, callee)
           /\ currentNode \in 0..Len(words)
           /\ Token = IF currentNode = Len(words) THEN "TERMINATOR" ELSE words[currentNode + 1]
  BY <1>1, Situation
<1>3. Next /\ lexed' = lexed
  BY LexedConstant DEF Next
<1>4. ASSUME CallersKept
      PROVE  Going(T, goals)
  BY <1>1, <1>3, <1>4 DEF Going
<1>5. /\ Top \in Frames /\ FrameOK(Top) /\ p \in {1, 3, 4} /\ p - 1 \in 0..MAX_PRIORITY
      /\ p - 1 \in Nat /\ p \in Nat
  <2>1. Top \in Frames /\ FrameOK(Top)
    BY <1>1, StackTop DEF TypeInv, Top, GoodFrames
  <2>2. QED
    BY <1>1, <1>2, <2>1 DEF FrameOK, MAX_PRIORITY
<1>6. /\ goal.from \in 0..Len(words) /\ goal.to \in 0..Len(words) /\ goal.to \in Nat
      /\ goal.is \in {"phrase", "failure"}
  BY <1>2 DEF GoalOK
<1>7. CASE BinaryEntry
  <2>1. /\ Top.at = "entry" /\ currentNode' = currentNode /\ currentNode = goal.from
        /\ Call([Top EXCEPT !.at = "first"], p - 1)
        /\ ~BinaryLoopTake /\ ~BinarySecond /\ ~UnaryOperand
    BY <1>2, <1>7, PlacesApart DEF BinaryEntry, Active, Top, Awaits
  <2>2. Going(T, goals)
    BY <1>3, <1>4, <2>1, OtherTrees
  <2>3. PICK frame \in GoodFrames : frame = [Top EXCEPT !.at = "first"]
    BY <1>5, UpdatedFrames
  <2>4. frame.at = "first" /\ frame.priority = Top.priority
    BY <1>5, <2>3 DEF Frames
  <2>5. ASSUME NEW new, GoalOK(words, new), new.priority = p - 1, new.from = goal.from,
               new.is = goal.is,
               goal.is = "phrase" => Leads(words, p, new.to, new.tree, goal.to, goal.tree)
        PROVE  \E next : Expects(T, next)'
    <3>1. Suspends(words, frame, TreeAt(frame.value)', goal, new)
      BY <1>2, <2>4, <2>5 DEF Suspends
    <3>2. QED
      BY <1>2, <1>5, <2>1, <2>2, <2>3, <2>4, <2>5, <3>1, CallExpects
  <2>6. CASE goal.is = "phrase"
    <3>1. goal.tree \in Phrases(words, goal.from, goal.to, p) /\ Follow(words, goal.to, p)
      BY <1>2, <2>6 DEF GoalOK
    <3>2. PICK m, t : /\ m \in (goal.from + 1)..goal.to
                      /\ t \in Phrases(words, goal.from, m, p - 1)
                      /\ Leads(words, p, m, t, goal.to, goal.tree)
      <4>1. \A to \in 0..Len(words) : \A tree \in Phrases(words, goal.from, to, p) :
              \E m \in (goal.from + 1)..to : \E t \in Phrases(words, goal.from, m, p - 1) :
                Leads(words, p, m, t, to, tree)
        BY ZenonT(40), <1>2, <1>5, <1>6, Spine
      <4>2. QED
        BY <1>6, <3>1, <4>1
    <3>3. m \in 0..Len(words)
      BY <1>2, <1>6, <3>2
    <3>4. GoalOK(words, Phrase(goal.from, m, t, p - 1))
      BY <1>2, <1>5, <1>6, <3>1, <3>2, <3>3, LoopGoal
    <3>5. QED
      BY <2>5, <2>6, <3>2, <3>4 DEF Phrase
  <2>7. CASE goal.is = "failure"
    <3>1. p = 1 /\ goal.from < Len(words) /\ Operates(words[goal.from + 1], 2)
      BY <1>2, <1>5, <2>7 DEF GoalOK
    <3>2. GoalOK(words, Failure(goal.from, p - 1))
      BY <1>6, <3>1 DEF GoalOK, Failure, MAX_PRIORITY
    <3>3. QED
      BY <2>5, <2>7, <3>2 DEF Failure
  <2>8. QED
    BY <1>6, <2>6, <2>7
<1>8. CASE BinaryFirst
  <2>1. /\ Top.at = "first" /\ currentNode' = currentNode
        /\ ~BinaryLoopTake /\ ~BinarySecond /\ ~UnaryOperand
    BY <1>8, PlacesApart DEF BinaryFirst, Active, Top
  <2>2. Going(T, goals) /\ \A n : TreeAt(n)' = TreeAt(n)
    BY <1>3, <1>4, <2>1, OtherTrees
  <2>3. /\ GoalOK(words, callee) /\ Delivered(callee, result, TreeAt(result), currentNode)
        /\ callee.from = goal.from /\ callee.is = goal.is
        /\ goal.is = "phrase" => Leads(words, p, callee.to, callee.tree, goal.to, goal.tree)
    BY <1>2, <2>1 DEF Awaits, Suspends
  <2>4. CASE result = NULL
    <3>1. Return(NULL)
      BY <1>8, <2>4 DEF BinaryFirst
    <3>2. goal.is = "failure" /\ currentNode = goal.from
      BY <1>6, <2>3, <2>4 DEF Delivered
    <3>3. Delivered(goal, NULL, TreeAt(NULL)', currentNode')
      BY <2>1, <3>2 DEF Delivered
    <3>4. QED
      BY <1>2, <2>2, <3>1, <3>3, ReturnExpects
  <2>5. CASE result # NULL
    <3>1. result \in Nodes /\ Goto([Top EXCEPT !.at = "loop", !.value = result])
      BY <1>8, <2>5 DEF BinaryFirst, TypeInv, TypeOK
    <3>2. PICK frame \in GoodFrames : frame = [Top EXCEPT !.at = "loop", !.value = result]
      BY <1>5, <3>1, UpdatedFrames
    <3>3. frame.at = "loop" /\ frame.priority = Top.priority /\ frame.value = result
      BY <1>5, <3>2 DEF Frames
    <3>4. goal.is = "phrase" /\ callee.tree = TreeAt(result) /\ callee.to = currentNode
      BY <1>6, <2>3, <2>5 DEF Delivered
    <3>5. TreeAt(frame.value)' = TreeAt(result)
      BY <2>2, <3>3
    <3>6. Leads(words, p, currentNode', TreeAt(frame.value)', goal.to, goal.tree)
      BY <2>1, <2>3, <3>4, <3>5
    <3>7. QED
      BY <1>2, <2>2, <3>1, <3>2, <3>3, <3>4, <3>6, GotoExpects
  <2>6. QED
    BY <2>4, <2>5
<1>9. ASSUME Top.at = "loop"
      PROVE  /\ goal.is = "phrase" /\ Follow(words, goal.to, p)
             /\ Leads(words, p, currentNode, TreeAt(Top.value), goal.to, goal.tree)
             /\ \/ currentNode = goal.to /\ TreeAt(Top.value) = goal.tree
                   /\ Token # "OPEN_BRACKET" /\ ~Operates(Token, p)
                \/ Operates(Token, p)
  <2>1. /\ goal.is = "phrase"
        /\ Leads(words, p, currentNode, TreeAt(Top.value), goal.to, goal.tree)
    BY <1>2, <1>9 DEF Awaits
  <2>2. Follow(words, goal.to, p)
    BY <1>2, <2>1 DEF GoalOK
  <2>3. \/ currentNode = goal.to /\ TreeAt(Top.value) = goal.tree
        \/ currentNode < goal.to /\ Operates(words[currentNode + 1], p)
    BY <1>6, <2>1, LeadsOn
  <2>4. CASE currentNode = goal.to /\ TreeAt(Top.value) = goal.tree
    <3>1. Token # "OPEN_BRACKET" /\ ~Operates(Token, p)
      BY <1>2, <2>2, <2>4, Stopped
    <3>2. QED
      BY <2>1, <2>2, <2>4, <3>1
  <2>5. CASE currentNode < goal.to /\ Operates(words[currentNode + 1], p)
    <3>1. Token = words[currentNode + 1]
      BY <1>2, <1>6, <2>5
    <3>2. QED
      BY <2>1, <2>2, <2>5, <3>1
  <2>6. QED
    BY <2>3, <2>4, <2>5
<1>10. CASE BinaryLoopEnd
  <2>1. /\ Top.at = "loop" /\ currentNode' = currentNode /\ Return(Top.value)
        /\ ~BinarySecond /\ ~UnaryOperand
        /\ \/ Token \in Operands \cup {"TERMINATOR", "CLOSE_BRACKET"}
           \/ /\ Token \in OperationNames \ Brackets
              /\ Priority[Token] # Top.priority
    BY <1>10, PlacesApart DEF BinaryLoopEnd, Active, Top
  <2>2. ~Operates(Token, p)
    BY <1>2, <2>1, OperatesIs
  <2>3. ~BinaryLoopTake
    BY <1>2, <2>2 DEF BinaryLoopTake, Operates
  <2>4. Going(T, goals) /\ \A n : TreeAt(n)' = TreeAt(n)
    BY <1>3, <1>4, <2>1, <2>3, OtherTrees
  <2>5. PICK value \in Nodes : value = Top.value /\ value # NULL
    BY <1>5, <2>1, NodesNat DEF FrameOK, TypeInv, TypeOK
  <2>6. goal.is = "phrase" /\ currentNode = goal.to /\ TreeAt(value) = goal.tree
    BY <1>9, <2>1, <2>2, <2>5
  <2>7. Delivered(goal, value, TreeAt(value)', currentNode')
    BY <2>1, <2>4, <2>5, <2>6 DEF Delivered
  <2>8. QED
    BY <1>2, <2>1, <2>4, <2>5, <2>7, ReturnExpects
<1>11. CASE BinaryLoopBracket
  <2>1. Top.at = "loop" /\ Token = "OPEN_BRACKET"
    BY <1>11 DEF BinaryLoopBracket, Active, Top
  <2>2. ~Operates(Token, p)
    BY <2>1, OperatesIs
  <2>3. QED
    BY <1>9, <2>1, <2>2
<1>12. CASE BinaryLoopTake
  <2>1. /\ Top.at = "loop" /\ currentNode' = currentNode + 1
        /\ Call([Top EXCEPT !.at = "second", !.node = currentNode], p - 1)
        /\ Token \in OperationNames \ Brackets /\ Priority[Token] = p
    BY <1>2, <1>12 DEF BinaryLoopTake, TakeOperation, Consume, Active, Top
  <2>2. /\ Going(T, goals)
        /\ \A n \in Nodes : n # currentNode => TreeAt(n)' = TreeAt(n)
    BY <1>4, <1>12, TakeTrees
  <2>3. Operates(Token, p)
    BY <2>1 DEF Operates
  <2>4. /\ goal.is = "phrase" /\ Follow(words, goal.to, p)
        /\ Leads(words, p, currentNode, TreeAt(Top.value), goal.to, goal.tree)
        /\ ~(currentNode = goal.to /\ TreeAt(Top.value) = goal.tree)
    <3>1. \/ currentNode = goal.to /\ TreeAt(Top.value) = goal.tree
             /\ Token # "OPEN_BRACKET" /\ ~Operates(Token, p)
          \/ Operates(Token, p)
      BY <1>9, <2>1
    <3>2. ASSUME currentNode = goal.to
          PROVE  FALSE
      <4>1. ~Operates(Token, p)
        BY <1>2, <1>9, <2>1, <3>2, Stopped
      <4>2. QED
        BY <2>3, <4>1
    <3>3. QED
      BY <1>9, <2>1, <3>2
  <2>5. PICK m, r : /\ m \in (currentNode + 1)..goal.to
                    /\ r \in Phrases(words, currentNode + 1, m, p - 1)
                    /\ Leads(words, p, m, << currentNode + 1, TreeAt(Top.value), r >>,
                             goal.to, goal.tree)
    BY <1>6, <2>4, LeadsOn
  <2>6. /\ currentNode \in Nodes /\ Top.value \in Nodes /\ Top.value # currentNode
        /\ Nodes \subseteq Nat
    <3>1. /\ currentNode \in Nodes /\ Nodes \subseteq Nat /\ currentNode \in Nat
      BY <1>12, NodesNat DEF BinaryLoopTake, Readable, Nodes, TypeInv, TypeOK
    <3>2. Top.value \in Nodes /\ Holds(Top, Top.value)
      BY <1>5, <2>1 DEF FrameOK, Holds
    <3>3. Top.value < currentNode
      <4>1. Len(stack) \in 1..Len(stack)
        BY <1>1, StackTop DEF TypeInv
      <4>2. QED
        BY <3>2, <4>1 DEF LinkInv, HeldRoots, Top
    <3>4. QED
      BY <3>1, <3>2, <3>3
  <2>7. PICK frame \in GoodFrames : frame = [Top EXCEPT !.at = "second", !.node = currentNode]
    BY <1>5, <2>6, UpdatedFrames
  <2>8. /\ frame.at = "second" /\ frame.priority = Top.priority
        /\ frame.value = Top.value /\ frame.node = currentNode
    BY <1>5, <2>7 DEF Frames
  <2>9. TreeAt(frame.value)' = TreeAt(Top.value)
    BY <2>2, <2>6, <2>8
  <2>10. PICK from : from = currentNode + 1 /\ from \in 0..Len(words)
    BY SMTT(20), <1>2, <1>6, <2>5
  <2>11. GoalOK(words, Phrase(from, m, r, p - 1))
    <3>1. m \in 0..Len(words)
      BY <1>2, <1>6, <2>5
    <3>2. QED
      BY <1>2, <1>5, <1>6, <2>4, <2>5, <2>10, <3>1, LoopGoal
  <2>12. Suspends(words, frame, TreeAt(frame.value)', goal, Phrase(from, m, r, p - 1))
    BY <1>2, <2>4, <2>5, <2>8, <2>9 DEF Suspends, Phrase
  <2>13. Phrase(from, m, r, p - 1).priority = p - 1
         /\ Phrase(from, m, r, p - 1).from = currentNode'
    BY <2>1, <2>10 DEF Phrase
  <2>14. PICK new : new = Phrase(from, m, r, p - 1)
    OBVIOUS
  <2>15. /\ GoalOK(lexed.words, new) /\ new.priority = p - 1 /\ new.from = currentNode'
         /\ Suspends(lexed.words, frame, TreeAt(frame.value)', goals[Len(stack)], new)
    BY <1>2, <2>11, <2>12, <2>13, <2>14
  <2>16. Going(T, goals) /\ Call(frame, p - 1) /\ frame.priority = Top.priority
    BY <2>1, <2>2, <2>7, <2>8
  <2>17. QED
    BY <1>5, <2>15, <2>16, CallExpects
<1>13. ASSUME Top.at = "second"
       PROVE  /\ goal.is = "phrase" /\ result # NULL /\ TreeAt(result) = callee.tree
              /\ Leads(words, p, currentNode, << Top.node + 1, TreeAt(Top.value), TreeAt(result) >>,
                       goal.to, goal.tree)
  <2>1. /\ Suspends(words, Top, TreeAt(Top.value), goal, callee)
        /\ Delivered(callee, result, TreeAt(result), currentNode)
    BY <1>2, <1>13 DEF Awaits
  <2>2. /\ goal.is = "phrase" /\ callee.is = "phrase"
        /\ Leads(words, p, callee.to, << Top.node + 1, TreeAt(Top.value), callee.tree >>,
                 goal.to, goal.tree)
    BY <1>2, <1>13, <2>1 DEF Suspends
  <2>3. QED
    BY <2>1, <2>2 DEF Delivered
<1>14. CASE BinarySecond
  <2>1. /\ Top.at = "second" /\ currentNode' = currentNode
        /\ Goto([Top EXCEPT !.at = "loop", !.value = Top.node])
    BY <1>14 DEF BinarySecond, Active, Top
  <2>2. /\ CallersKept /\ Top.node \in Nodes
        /\ \A n \in Nodes : n = Top.node =>
             TreeAt(n)' = << n + 1, TreeAt(Top.value), TreeAt(result) >>
    BY <1>14, SecondTrees
  <2>3. Going(T, goals)
    BY <1>4, <2>2
  <2>4. PICK frame \in GoodFrames : frame = [Top EXCEPT !.at = "loop", !.value = Top.node]
    BY <1>5, <2>2, UpdatedFrames
  <2>5. frame.at = "loop" /\ frame.priority = Top.priority /\ frame.value = Top.node
    BY <1>5, <2>4 DEF Frames
  <2>6. TreeAt(frame.value)' = << Top.node + 1, TreeAt(Top.value), TreeAt(result) >>
    <3>1. PICK n \in Nodes : n = Top.node
      BY <2>2
    <3>2. frame.value = n
      BY <2>5, <3>1
    <3>3. QED
      BY <2>2, <3>1, <3>2
  <2>7. Leads(words, p, currentNode', TreeAt(frame.value)', goal.to, goal.tree)
    BY <1>13, <2>1, <2>6
  <2>8. goal.is = "phrase"
    BY <1>13, <2>1
  <2>9. QED
    BY <1>2, <2>1, <2>3, <2>4, <2>5, <2>7, <2>8, GotoExpects
<1>15. CASE BinarySecondFails
  <2>1. Top.at = "second" /\ result = NULL
    BY <1>15 DEF BinarySecondFails, Active, Top
  <2>2. QED
    BY <1>13, <2>1
<1>16. QED
  BY <1>7, <1>8, <1>10, <1>11, <1>12, <1>14, <1>15 DEF GetBinaryOperation

(* The steps of GetUnaryOperation keep the goals, at the failure they recover from too. *)
LEMMA UnaryExpects ==
  ASSUME TypeInv, LinkInv, SumInv, CursorInv, Acyclic, HasTrees, Terminated, status = "parsing",
         GetUnaryOperation, NEW T, NEW goals, Expects(T, goals)
  PROVE  \E next : Expects(T, next)'
<1>1. stack # <<>> /\ Top.fn = "GetUnaryOperation"
  BY DEF GetUnaryOperation, UnaryEntry, UnaryValue, UnaryTake, UnaryRefuse, UnaryOperand, Active, Top
<1>2. PICK words, p, goal, callee :
           /\ words = lexed.words /\ Len(words) \in Nat
           /\ p = Top.priority /\ p \in 0..MAX_PRIORITY
           /\ goal = goals[Len(stack)] /\ GoalOK(words, goal) /\ goal.priority = p
           /\ callee = goals[Len(stack) + 1] /\ Awaits(goal, callee)
           /\ currentNode \in 0..Len(words)
           /\ Token = IF currentNode = Len(words) THEN "TERMINATOR" ELSE words[currentNode + 1]
  BY <1>1, Situation
<1>3. Next /\ lexed' = lexed
  BY LexedConstant DEF Next
<1>4. ASSUME CallersKept
      PROVE  Going(T, goals)
  BY <1>1, <1>3, <1>4 DEF Going
<1>5. /\ Top \in Frames /\ FrameOK(Top) /\ p = 2 /\ 1 \in 0..MAX_PRIORITY
  <2>1. Top \in Frames /\ FrameOK(Top)
    BY <1>1, StackTop DEF TypeInv, Top, GoodFrames
  <2>2. QED
    BY <1>1, <1>2, <2>1 DEF FrameOK, MAX_PRIORITY
<1>6. /\ goal.from \in 0..Len(words) /\ goal.to \in 0..Len(words) /\ goal.is = "phrase"
      /\ goal.tree \in Phrases(words, goal.from, goal.to, 2)
      /\ Follow(words, goal.to, 1)
  <2>1. /\ goal.from \in 0..Len(words) /\ goal.to \in 0..Len(words) /\ goal.is = "phrase"
        /\ goal.tree \in Phrases(words, goal.from, goal.to, 2)
        /\ Follow(words, goal.to, 2)
    BY <1>2, <1>5 DEF GoalOK
  <2>2. QED
    BY <2>1, FollowWeaker
<1>7. goal.from < goal.to /\ goal.from < Len(words)
  <2>1. goal.from < goal.to
    BY <1>2, <1>6, PhrasesAre DEF MAX_PRIORITY
  <2>2. QED
    BY <1>2, <1>6, <2>1
<1>8. CASE UnaryEntry
  <2>1. /\ Top.at = "entry" /\ currentNode' = currentNode /\ currentNode = goal.from
        /\ Call([Top EXCEPT !.at = "value"], 1)
        /\ ~BinaryLoopTake /\ ~BinarySecond /\ ~UnaryOperand
    BY <1>2, <1>5, <1>8, PlacesApart DEF UnaryEntry, Active, Top, Awaits
  <2>2. Going(T, goals)
    BY <1>3, <1>4, <2>1, OtherTrees
  <2>3. PICK frame \in GoodFrames : frame = [Top EXCEPT !.at = "value"]
    BY <1>5, UpdatedFrames
  <2>4. frame.at = "value" /\ frame.priority = Top.priority
    BY <1>5, <2>3 DEF Frames
  <2>5. ASSUME NEW new, GoalOK(words, new), new.priority = 1, new.from = goal.from,
               new.is = "phrase" => new.to = goal.to /\ new.tree = goal.tree,
               new.is = "failure" =>
                 /\ Operates(words[goal.from + 1], 2)
                 /\ \E arg \in Phrases(words, goal.from + 1, goal.to, 1) :
                      goal.tree = << goal.from + 1, arg, << >> >>
        PROVE  \E next : Expects(T, next)'
    <3>1. Suspends(words, frame, TreeAt(frame.value)', goal, new)
      BY <1>2, <1>6, <1>7, <2>4, <2>5 DEF Suspends
    <3>2. QED
      BY <1>2, <1>5, <2>1, <2>2, <2>3, <2>4, <2>5, <3>1, CallExpects
  <2>6. CASE goal.tree \in Phrases(words, goal.from, goal.to, 1)
    <3>1. GoalOK(words, Phrase(goal.from, goal.to, goal.tree, 1))
      BY <1>5, <1>6, <2>6 DEF GoalOK, Phrase
    <3>2. QED
      BY <2>5, <3>1 DEF Phrase
  <2>7. CASE /\ Operates(words[goal.from + 1], 2)
             /\ \E arg \in Phrases(words, goal.from + 1, goal.to, 1) :
                  goal.tree = << goal.from + 1, arg, << >> >>
    <3>1. GoalOK(words, Failure(goal.from, 1))
      BY <1>5, <1>6, <1>7, <2>7 DEF GoalOK, Failure
    <3>2. QED
      BY <2>5, <2>7, <3>1 DEF Failure
  <2>8. \A t : t \in Phrases(words, goal.from, goal.to, 2) <=>
          \/ t \in Phrases(words, goal.from, goal.to, 1)
          \/ /\ Operates(words[goal.from + 1], 2)
             /\ \E arg \in Phrases(words, goal.from + 1, goal.to, 1) :
                  t = << goal.from + 1, arg, << >> >>
    <3>1. PICK from \in 0..Len(words), to \in 0..Len(words) : from = goal.from /\ to = goal.to
      BY <1>6
    <3>2. from < to
      BY <1>7, <3>1
    <3>3. \A t : t \in Phrases(words, from, to, 2) <=>
            \/ t \in Phrases(words, from, to, 1)
            \/ /\ Operates(words[from + 1], 2)
               /\ \E arg \in Phrases(words, from + 1, to, 1) : t = << from + 1, arg, << >> >>
      BY <1>2, <3>2, PhrasesAre
    <3>4. QED
      BY <3>1, <3>3
  <2>9. QED
    BY <1>6, <2>6, <2>7, <2>8
<1>9. ASSUME Top.at = "value"
      PROVE  /\ GoalOK(words, callee)
             /\ result # NULL => TreeAt(result) = goal.tree /\ currentNode = goal.to
             /\ result = NULL =>
                  /\ currentNode = goal.from /\ Operates(words[goal.from + 1], 2)
                  /\ \E arg \in Phrases(words, goal.from + 1, goal.to, 1) :
                       goal.tree = << goal.from + 1, arg, << >> >>
  <2>1. /\ GoalOK(words, callee)
        /\ Suspends(words, Top, TreeAt(Top.value), goal, callee)
        /\ Delivered(callee, result, TreeAt(result), currentNode)
    BY <1>2, <1>9 DEF Awaits
  <2>2. callee.is \in {"phrase", "failure"}
    BY <2>1 DEF GoalOK
  <2>3. QED
    BY <1>9, <2>1, <2>2 DEF Suspends, Delivered
<1>10. CASE UnaryValue
  <2>1. /\ Top.at = "value" /\ currentNode' = currentNode /\ Return(result) /\ result # NULL
        /\ ~BinaryLoopTake /\ ~BinarySecond /\ ~UnaryOperand
    BY <1>10, PlacesApart DEF UnaryValue, Active, Top
  <2>2. Going(T, goals) /\ \A n : TreeAt(n)' = TreeAt(n)
    BY <1>3, <1>4, <2>1, OtherTrees
  <2>3. PICK value : value = result
    OBVIOUS
  <2>4. Delivered(goal, value, TreeAt(value)', currentNode')
    BY <1>6, <1>9, <2>1, <2>2, <2>3 DEF Delivered
  <2>5. QED
    BY <1>2, <2>1, <2>2, <2>3, <2>4, ReturnExpects
<1>11. CASE UnaryTake
  <2>1. /\ Top.at = "value" /\ currentNode' = currentNode + 1 /\ result = NULL
        /\ Call([Top EXCEPT !.at = "operand", !.node = currentNode], 1)
        /\ ~BinaryLoopTake /\ ~BinarySecond /\ ~UnaryOperand /\ currentNode \in Nodes
    BY <1>2, <1>5, <1>11, PlacesApart
       DEF UnaryTake, TakeOperation, Consume, Active, Top, Readable, Nodes
  <2>2. Going(T, goals)
    BY <1>3, <1>4, <2>1, OtherTrees
  <2>3. PICK frame \in GoodFrames : frame = [Top EXCEPT !.at = "operand", !.node = currentNode]
    BY <1>5, <2>1, UpdatedFrames
  <2>4. frame.at = "operand" /\ frame.priority = Top.priority /\ frame.node = currentNode
    BY <1>5, <2>3 DEF Frames
  <2>5. PICK from : from = currentNode + 1 /\ from = goal.from + 1 /\ from \in 0..Len(words)
    BY <1>2, <1>6, <1>7, <1>9, <2>1
  <2>6. PICK arg : arg \in Phrases(words, from, goal.to, 1) /\ goal.tree = << from, arg, << >> >>
    BY <1>9, <2>1, <2>5
  <2>7. PICK new : new = Phrase(from, goal.to, arg, 1)
    OBVIOUS
  <2>8. GoalOK(words, new) /\ new.priority = 1 /\ new.from = currentNode'
    BY <1>5, <1>6, <2>1, <2>5, <2>6, <2>7 DEF GoalOK, Phrase
  <2>9. Suspends(words, frame, TreeAt(frame.value)', goal, new)
    BY <1>6, <2>4, <2>5, <2>6, <2>7 DEF Suspends, Phrase
  <2>10. QED
    BY <1>2, <1>5, <2>1, <2>2, <2>3, <2>4, <2>8, <2>9, CallExpects
<1>12. CASE UnaryRefuse
  <2>1. Top.at = "value" /\ result = NULL /\ RefusedAsUnary(Token, p)
    BY <1>2, <1>12 DEF UnaryRefuse, Active, Top
  <2>2. Operates(Token, 2)
    BY <1>2, <1>6, <1>7, <1>9, <2>1
  <2>3. QED
    BY <1>5, <2>1, <2>2, OperatesIs DEF RefusedAsUnary, Brackets
<1>13. CASE UnaryOperand
  <2>1. Top.at = "operand" /\ currentNode' = currentNode
    BY <1>13 DEF UnaryOperand, Active, Top
  <2>2. /\ Suspends(words, Top, TreeAt(Top.value), goal, callee)
        /\ Delivered(callee, result, TreeAt(result), currentNode)
    BY <1>2, <2>1 DEF Awaits
  <2>3. /\ result # NULL /\ currentNode = goal.to
        /\ goal.tree = << Top.node + 1, TreeAt(result), << >> >>
    BY <2>1, <2>2 DEF Suspends, Delivered
  <2>4. /\ CallersKept /\ Top.node \in Nodes
        /\ \A n \in Nodes : n = Top.node =>
             TreeAt(n)' = << n + 1, TreeAt(result), << >> >>
    BY <1>13, <2>3, OperandTrees
  <2>5. PICK value \in Nodes : value = Top.node /\ value # NULL
    BY <2>4, NodesNat DEF TypeInv, TypeOK
  <2>6. Return(value)
    BY <1>13, <2>3, <2>5 DEF UnaryOperand
  <2>7. Delivered(goal, value, TreeAt(value)', currentNode')
    BY <1>6, <2>1, <2>3, <2>4, <2>5 DEF Delivered
  <2>8. QED
    BY <1>2, <1>4, <2>4, <2>6, <2>7, ReturnExpects
<1>14. QED
  BY <1>8, <1>10, <1>11, <1>12, <1>13 DEF GetUnaryOperation

(* The steps of GetSeparator keep the goals.                                  *)
LEMMA SeparatorExpects ==
  ASSUME TypeInv, LinkInv, SumInv, CursorInv, Acyclic, HasTrees, Terminated, status = "parsing",
         GetSeparator, NEW T, NEW goals, Expects(T, goals)
  PROVE  \E next : Expects(T, next)'
<1>1. /\ stack # <<>> /\ Top.fn = "GetSeparator"
      /\ ~BinaryLoopTake /\ ~BinarySecond /\ ~UnaryOperand
  BY DEF GetSeparator, GetNumber, SeparatorOpen, SeparatorRefuse, SeparatorInnerFails,
         SeparatorClose, SeparatorUnclosed, BinaryLoopTake, BinarySecond, UnaryOperand, Active, Top
<1>2. PICK words, p, goal, callee :
           /\ words = lexed.words /\ Len(words) \in Nat
           /\ p = Top.priority /\ p \in 0..MAX_PRIORITY
           /\ goal = goals[Len(stack)] /\ GoalOK(words, goal) /\ goal.priority = p
           /\ callee = goals[Len(stack) + 1] /\ Awaits(goal, callee)
           /\ currentNode \in 0..Len(words)
           /\ Token = IF currentNode = Len(words) THEN "TERMINATOR" ELSE words[currentNode + 1]
  BY <1>1, Situation
<1>3. Next /\ lexed' = lexed
  BY LexedConstant DEF Next
<1>4. Going(T, goals) /\ \A n : TreeAt(n)' = TreeAt(n)
  BY <1>1, <1>3, OtherTrees DEF Going
<1>5. Top \in Frames /\ FrameOK(Top) /\ p = 0 /\ MAX_PRIORITY \in 0..MAX_PRIORITY
  <2>1. Top \in Frames /\ FrameOK(Top)
    BY <1>1, StackTop DEF TypeInv, Top, GoodFrames
  <2>2. QED
    BY <1>1, <1>2, <2>1 DEF FrameOK, MAX_PRIORITY
<1>6. /\ goal.from \in 0..Len(words) /\ goal.to \in 0..Len(words)
      /\ goal.is \in {"phrase", "failure"} /\ goal.from < Len(words)
      /\ goal.is = "failure" => Operates(words[goal.from + 1], 2)
      /\ goal.is = "phrase" =>
           \/ /\ goal.to = goal.from + 1 /\ words[goal.from + 1] \in Operands
              /\ goal.tree = << goal.from + 1, << >>, << >> >>
           \/ /\ words[goal.from + 1] = "OPEN_BRACKET" /\ words[goal.to] = "CLOSE_BRACKET"
              /\ goal.from < goal.to
              /\ goal.tree \in Phrases(words, goal.from + 1, goal.to - 1, MAX_PRIORITY)
  <2>1. /\ goal.from \in 0..Len(words) /\ goal.to \in 0..Len(words)
        /\ goal.is \in {"phrase", "failure"}
        /\ goal.is = "phrase" => goal.tree \in Phrases(words, goal.from, goal.to, 0)
        /\ goal.is = "failure" => goal.from < Len(words) /\ Operates(words[goal.from + 1], 2)
    BY <1>2, <1>5 DEF GoalOK
  <2>2. ASSUME goal.is = "phrase"
        PROVE  goal.from < goal.to
    BY <1>2, <2>1, <2>2, PhrasesAre DEF MAX_PRIORITY
  <2>3. ASSUME goal.is = "phrase"
        PROVE  goal.from < Len(words)
    BY <1>2, <2>1, <2>2, <2>3
  <2>4. goal.from < goal.to =>
          \A t : t \in Phrases(words, goal.from, goal.to, 0) <=>
            \/ /\ goal.to = goal.from + 1 /\ words[goal.from + 1] \in Operands
               /\ t = << goal.from + 1, << >>, << >> >>
            \/ /\ words[goal.from + 1] = "OPEN_BRACKET" /\ words[goal.to] = "CLOSE_BRACKET"
               /\ t \in Phrases(words, goal.from + 1, goal.to - 1, MAX_PRIORITY)
    <3>1. PICK from \in 0..Len(words), to \in 0..Len(words) : from = goal.from /\ to = goal.to
      BY <2>1
    <3>2. from < to =>
            \A t : t \in Phrases(words, from, to, 0) <=>
              \/ to = from + 1 /\ words[from + 1] \in Operands /\ t = << from + 1, << >>, << >> >>
              \/ /\ words[from + 1] = "OPEN_BRACKET" /\ words[to] = "CLOSE_BRACKET"
                 /\ t \in Phrases(words, from + 1, to - 1, MAX_PRIORITY)
      BY SMTT(20), <1>2, PhrasesAre
    <3>3. QED
      BY <3>1, <3>2
  <2>5. QED
    BY <2>1, <2>2, <2>3, <2>4
<1>7. ASSUME Top.at = "entry"
      PROVE  currentNode = goal.from /\ Token = words[goal.from + 1]
  BY <1>2, <1>6, <1>7 DEF Awaits
<1>8. CASE GetNumber
  <2>1. /\ Top.at = "entry" /\ currentNode' = currentNode + 1 /\ Return(currentNode)
        /\ Token \in Operands /\ currentNode \in Nodes
    BY <1>8 DEF GetNumber, Consume, Active, Top, Readable, Nodes
  <2>2. /\ goal.is = "phrase" /\ goal.to = goal.from + 1
        /\ goal.tree = << goal.from + 1, << >>, << >> >>
    <3>1. words[goal.from + 1] \in Operands /\ words[goal.from + 1] # "OPEN_BRACKET"
      BY <1>7, <2>1 DEF Operands
    <3>2. ~Operates(words[goal.from + 1], 2)
      BY <3>1, OperatesIs
    <3>3. QED
      BY <1>6, <3>1, <3>2
  <2>3. PICK value \in Nodes : value = currentNode /\ value # NULL
    BY <2>1, NodesNat DEF TypeInv, TypeOK
  <2>4. TreeAt(value)' = << value + 1, << >>, << >> >>
    <3>1. left[value] = NULL /\ right[value] = NULL
      BY <2>3, NodesNat DEF LinkInv, FreshBare, TypeInv, TypeOK
    <3>2. QED
      BY <1>4, <3>1, TreeOfIs DEF TreeAt
  <2>5. Delivered(goal, value, TreeAt(value)', currentNode')
    BY <1>7, <2>1, <2>2, <2>3, <2>4 DEF Delivered
  <2>6. QED
    BY <1>2, <1>4, <2>1, <2>3, <2>5, ReturnExpects
<1>9. CASE SeparatorOpen
  <2>1. /\ Top.at = "entry" /\ currentNode' = currentNode + 1 /\ Token = "OPEN_BRACKET"
        /\ Call([Top EXCEPT !.at = "inner"], MAX_PRIORITY)
    BY <1>9 DEF SeparatorOpen, Consume, Active, Top
  <2>2. /\ goal.is = "phrase" /\ words[goal.to] = "CLOSE_BRACKET" /\ goal.from < goal.to
        /\ goal.tree \in Phrases(words, goal.from + 1, goal.to - 1, MAX_PRIORITY)
    <3>1. words[goal.from + 1] \notin Operands
      BY <1>7, <2>1 DEF Operands
    <3>2. ~Operates(words[goal.from + 1], 2)
      BY <1>7, <2>1, OperatesIs
    <3>3. QED
      BY <1>6, <3>1, <3>2
  <2>3. PICK frame \in GoodFrames : frame = [Top EXCEPT !.at = "inner"]
    BY <1>5, UpdatedFrames
  <2>4. frame.at = "inner" /\ frame.priority = Top.priority
    BY <1>5, <2>3 DEF Frames
  <2>5. PICK from, to : /\ from = goal.from + 1 /\ to = goal.to - 1
                        /\ from \in 0..Len(words) /\ to \in 0..Len(words)
                        /\ to + 1 = goal.to /\ to < Len(words)
    <3>1. /\ goal.from + 1 \in 0..Len(words) /\ goal.to - 1 \in 0..Len(words)
          /\ goal.to - 1 + 1 = goal.to /\ goal.to - 1 < Len(words)
      <4>1. PICK a \in 0..Len(words), b \in 0..Len(words) : a = goal.from /\ b = goal.to
        BY <1>6
      <4>2. a < b
        BY <2>2, <4>1
      <4>3. a + 1 \in 0..Len(words) /\ b - 1 \in 0..Len(words) /\ b - 1 + 1 = b /\ b - 1 < Len(words)
        BY <1>2, <4>2
      <4>4. QED
        BY <4>1, <4>3
    <3>2. QED
      BY <3>1
  <2>6. PICK new : new = Phrase(from, to, goal.tree, MAX_PRIORITY)
    OBVIOUS
  <2>7. Follow(words, to, MAX_PRIORITY)
    BY <2>2, <2>5 DEF Follow
  <2>8. GoalOK(words, new) /\ new.priority = MAX_PRIORITY /\ new.from = currentNode'
    BY <1>5, <1>7, <2>1, <2>2, <2>5, <2>6, <2>7 DEF GoalOK, Phrase
  <2>9. Suspends(words, frame, TreeAt(frame.value)', goal, new)
    BY <2>2, <2>4, <2>5, <2>6 DEF Suspends, Phrase
  <2>10. QED
    BY <1>2, <1>4, <1>5, <2>1, <2>3, <2>4, <2>8, <2>9, CallExpects
<1>10. CASE SeparatorRefuse
  <2>1. /\ Top.at = "entry" /\ currentNode' = currentNode /\ Return(NULL)
        /\ Token \notin Operands \cup {"OPEN_BRACKET"}
    BY <1>10 DEF SeparatorRefuse, Active, Top
  <2>2. goal.is = "failure"
    BY <1>6, <1>7, <2>1
  <2>3. Delivered(goal, NULL, TreeAt(NULL)', currentNode')
    BY <1>7, <2>1, <2>2 DEF Delivered
  <2>4. QED
    BY <1>2, <1>4, <2>1, <2>3, ReturnExpects
<1>11. ASSUME Top.at = "inner"
       PROVE  /\ goal.is = "phrase" /\ result # NULL /\ TreeAt(result) = goal.tree
              /\ currentNode + 1 = goal.to /\ words[currentNode + 1] = "CLOSE_BRACKET"
  <2>1. /\ Suspends(words, Top, TreeAt(Top.value), goal, callee)
        /\ Delivered(callee, result, TreeAt(result), currentNode)
    BY <1>2, <1>11 DEF Awaits
  <2>2. QED
    BY <1>11, <2>1 DEF Suspends, Delivered
<1>12. CASE SeparatorInnerFails
  <2>1. Top.at = "inner" /\ result = NULL
    BY <1>12 DEF SeparatorInnerFails, Active, Top
  <2>2. QED
    BY <1>11, <2>1
<1>13. CASE SeparatorClose
  <2>1. Top.at = "inner" /\ currentNode' = currentNode + 1 /\ Return(result)
    BY <1>13 DEF SeparatorClose, Consume, Active, Top
  <2>2. PICK value : value = result
    OBVIOUS
  <2>3. Delivered(goal, value, TreeAt(value)', currentNode')
    BY <1>4, <1>11, <2>1, <2>2 DEF Delivered
  <2>4. QED
    BY <1>2, <1>4, <2>1, <2>2, <2>3, ReturnExpects
<1>14. CASE SeparatorUnclosed
  <2>1. Top.at = "inner" /\ Token # "CLOSE_BRACKET"
    BY <1>14 DEF SeparatorUnclosed, Active, Top
  <2>2. currentNode < Len(words)
    BY <1>2, <1>6, <1>11, <2>1
  <2>3. QED
    BY <1>2, <1>11, <2>1, <2>2
<1>15. QED
  BY <1>8, <1>9, <1>10, <1>12, <1>13, <1>14 DEF GetSeparator

(* A sentence is a phrase of the highest level from the first word to the last. *)
LEMMA SentencesAre ==
  ASSUME NEW words
  PROVE  G!Sentences(words) = Phrases(words, 0, Len(words), MAX_PRIORITY)
<1>1. 0 + 1 = 1
  OBVIOUS
<1>2. QED
  BY <1>1, SameTable DEF G!Sentences, Phrases, Parses

(* What the lexer returns is assumed of every result, so of the one it returned.          *)
LostWords ==
  ~Terminated => \A i \in 1..Len(lexed.words) :
                   lexed.words[i] = "TERMINATOR" =>
                     i = Len(lexed.words) /\ \E j \in 1..Len(lexed.words) : lexed.words[j] = NULL

(* How the lexer returned.  When it lost something, no TERMINATOR is at the cursor or after  *)
(* it, unless a token that is not there is before it: the cursor has only passed words.     *)
LexerInv ==
  /\ LostWords
  /\ status = "lexed" /\ Terminated => error = {}
  /\ ~Terminated /\ status \in {"lexed", "parsing"} =>
       /\ \A i \in Indices : i >= currentNode => tokens[i] = Original(i)
       /\ \A i \in 1..Len(lexed.words) : i <= currentNode => lexed.words[i] \in WordKinds
  /\ LostNotAccepted

(* The lexer's results are like that.                                             *)
LEMMA LostWordsInit == Init => LostWords
  BY LexerAssumption DEF Init, LostWords

(* The lexer starts with what it returned.                                    *)
LEMMA LexerInit == Init => LexerInv
<1> SUFFICES ASSUME Init PROVE LexerInv
  OBVIOUS
<1>1. Len(lexed.words) \in Nat
  BY TypeInit, LenProperties DEF TypeInv, TypeOK
<1>2. Terminated => error = {}
  BY DEF Init, Terminated
<1>3. \A i \in Indices : tokens[i] = Original(i)
  BY DEF Init, Original
<1>4. \A i \in 1..Len(lexed.words) : ~ (i <= currentNode)
  BY <1>1 DEF Init
<1>5. QED
  BY <1>2, <1>3, <1>4, LostWordsInit DEF Init, LexerInv, LostNotAccepted, Accepted

(* At a TERMINATOR nothing was lost: the token that is not there would be behind the cursor. *)
LEMMA TerminatorShows ==
  ASSUME TypeInv, LexerInv, status = "parsing", Readable, Token = "TERMINATOR"
  PROVE  Terminated
<1> SUFFICES ASSUME ~Terminated PROVE FALSE
  OBVIOUS
<1>1. Len(lexed.words) \in Nat /\ Indices = 0..(Len(lexed.words) - 1)
  BY LenProperties DEF TypeInv, TypeOK, Indices
<1>2. currentNode \in Nat /\ currentNode \in Indices /\ currentNode >= currentNode
  BY DEF TypeInv, TypeOK, Readable
<1>3. Original(currentNode) = "TERMINATOR"
  BY <1>2 DEF LexerInv, Token
<1>4. currentNode + 1 \in 1..Len(lexed.words) /\ currentNode # Len(lexed.words)
  BY <1>1, <1>2
<1>5. lexed.words[currentNode + 1] = "TERMINATOR"
  BY <1>3, <1>4 DEF Original
<1>6. PICK j \in 1..Len(lexed.words) : currentNode + 1 = Len(lexed.words) /\ lexed.words[j] = NULL
  BY <1>4, <1>5 DEF LexerInv, LostWords
<1>7. j # currentNode + 1
  BY <1>5, <1>6, KindsNotNull DEF TokenKinds
<1>8. j <= currentNode
  BY <1>1, <1>2, <1>6, <1>7
<1>9. lexed.words[j] \in WordKinds
  BY <1>6, <1>8 DEF LexerInv
<1>10. QED
  BY <1>6, <1>9, KindsNotNull DEF TokenKinds

(* The cursor passes only words.                                                        *)
LEMMA WordPassed ==
  ASSUME TypeInv, LexerInv, ~Terminated, status = "parsing", Readable, Token # "TERMINATOR"
  PROVE  lexed.words[currentNode + 1] \in WordKinds
<1>1. Len(lexed.words) \in Nat /\ Indices = 0..(Len(lexed.words) - 1)
  BY LenProperties DEF TypeInv, TypeOK, Indices
<1>2. currentNode \in Nat /\ currentNode \in Indices /\ currentNode >= currentNode
  BY DEF TypeInv, TypeOK, Readable
<1>3. currentNode # Len(lexed.words)
  BY <1>1, <1>2
<1>4. Token = lexed.words[currentNode + 1]
  BY <1>2, <1>3 DEF LexerInv, Token, Original
<1>5. Token \in TokenKinds
  BY <1>2 DEF Readable, Token, TypeInv, TypeOK
<1>6. QED
  BY <1>4, <1>5 DEF TokenKinds

(* How the lexer returned is not forgotten.                                   *)
LEMMA LexerStep ==
  ASSUME TypeInv, CursorInv, LexerInv, [Next]_vars
  PROVE  LexerInv'
<1> USE DEF vars, links
<1>1. /\ Indices' = Indices /\ Terminated' = Terminated /\ lexed' = lexed
      /\ \A i \in Indices : Original(i)' = Original(i)
  BY LexedConstant DEF Terminated, Original
<1>2. LostWords'
  BY <1>1 DEF LexerInv, LostWords
<1>3. CASE UNCHANGED vars
  BY <1>1, <1>2, <1>3 DEF LexerInv, LostNotAccepted, Accepted
<1>4. ASSUME NEW tree, NEW tokens_left, FinishParseFile(tree, tokens_left),
             tree = NULL \/ Terminated
      PROVE  LexerInv'
  BY <1>1, <1>2, <1>4 DEF FinishParseFile, LexerInv, LostNotAccepted, Accepted
<1>5. CASE Next /\ status # "parsing"
  <2>1. CASE RefuseLexerError
    BY <1>2, <1>4, <2>1 DEF RefuseLexerError
  <2>2. CASE status = "lexed" /\ BeginGrammar
    BY <1>1, <1>2, <2>2 DEF BeginGrammar, LexerInv, LostNotAccepted, Accepted, CursorInv
  <2>3. QED
    BY <1>5, <2>1, <2>2, IdleSteps
<1>6. CASE Next /\ status = "parsing"
  <2>1. CASE status' = status /\ UNCHANGED <<tokens, currentNode>>
    BY <1>1, <1>2, <1>6, <2>1 DEF LexerInv, LostNotAccepted, Accepted
  <2>2. CASE /\ status' = status
             /\ Readable /\ Token # "TERMINATOR"
             /\ currentNode' = currentNode + 1
             /\ tokens' \in {tokens, [tokens EXCEPT ![currentNode] = NULL]}
    <3>1. currentNode \in Nat /\ tokens \in [Indices -> TokenKinds \cup {NULL}] /\ Indices \subseteq Nat
      BY NodesNat DEF TypeInv, TypeOK, Nodes
    <3>2. \A i \in Indices : i >= currentNode' => i >= currentNode /\ tokens'[i] = tokens[i]
      BY <2>2, <3>1
    <3>3. ASSUME ~Terminated, NEW i \in 1..Len(lexed.words), i <= currentNode'
          PROVE  lexed.words[i] \in WordKinds
      <4>1. i <= currentNode \/ i = currentNode + 1
        BY <2>2, <3>1, <3>3
      <4>2. QED
        BY <1>6, <2>2, <3>3, <4>1, WordPassed DEF LexerInv
    <3>4. QED
      BY <1>1, <1>2, <1>6, <2>2, <3>2, <3>3 DEF LexerInv, LostNotAccepted, Accepted
  <2>3. CASE EndGrammar
    <3>1. CASE Token = "TERMINATOR"
      <4>1. Terminated
        BY <1>6, <2>3, <3>1, TerminatorShows DEF EndGrammar
      <4>2. QED
        BY <1>2, <1>4, <2>3, <3>1, <4>1 DEF EndGrammar, AtTerminator
    <3>2. CASE Token # "TERMINATOR"
      BY <1>2, <1>4, <2>3, <3>2 DEF EndGrammar, AtTerminator
    <3>3. QED
      BY <3>1, <3>2
  <2>4. CASE ReadOutside
    BY <1>1, <1>2, <2>4 DEF ReadOutside, LexerInv, LostNotAccepted, Accepted
  <2>5. QED
    BY <1>6, <2>1, <2>2, <2>3, <2>4, CursorSteps
<1>7. QED
  BY <1>3, <1>5, <1>6

(* On every input: when the lexer lost a token, the end of the line or the terminator, the     *)
(* parser does not accept what is left.  A token that is not there it does not get past, and   *)
(* nothing else takes the terminator's place.                                            *)
THEOREM LossesRefused == Spec => []LostNotAccepted
<1>1. Init => TypeInv /\ CursorInv /\ LexerInv
  BY TypeInit, CursorInit, LexerInit
<1>2. /\ TypeInv /\ CursorInv /\ LexerInv /\ [Next]_vars
      => (TypeInv /\ CursorInv /\ LexerInv)'
  BY TypeStep, CursorStep, LexerStep
<1>3. LexerInv => LostNotAccepted
  BY DEF LexerInv
<1>4. QED
  BY <1>1, <1>2, <1>3, PTL DEF Spec

(* The first call is to find the sentence.                                            *)
LEMMA BeginExpects ==
  ASSUME TypeInv, BeginGrammar, NEW T \in G!Sentences(lexed.words)
  PROVE  \E goals : Expects(T, goals)'
<1>1. lexed' = lexed /\ currentNode' = 0 /\ stack' = << Frame(MAX_PRIORITY) >>
  BY DEF BeginGrammar
<1>2. Len(lexed.words) \in Nat /\ MAX_PRIORITY \in 0..MAX_PRIORITY
  BY LenProperties DEF TypeInv, TypeOK, MAX_PRIORITY
<1>3. PICK goal : goal = Phrase(0, Len(lexed.words), T, MAX_PRIORITY)
  OBVIOUS
<1>4. GoalOK(lexed.words, goal)
  BY <1>2, <1>3, SentencesAre DEF GoalOK, Phrase, Follow
<1>5. PICK goals : goals = [i \in 1..2 |-> goal]
  OBVIOUS
<1>6. goals[1] = goal /\ Len(stack') = 1 /\ stack' # <<>> /\ stack'[1] = Frame(MAX_PRIORITY)
  BY <1>1, <1>5
<1>7. Frame(MAX_PRIORITY).at = "entry" /\ Frame(MAX_PRIORITY).priority = MAX_PRIORITY
  BY DEF Frame
<1>8. Top' = Frame(MAX_PRIORITY) /\ goal.from = 0 /\ goal.priority = MAX_PRIORITY
  BY <1>3, <1>6 DEF Top, Phrase
<1>9. \A i \in 1..Len(stack') : i = 1
  BY <1>6
<1>10. \A i \in 1..(Len(stack') - 1) : FALSE
  BY <1>6
<1>11. Awaits(goals[1], goals[2])'
  BY <1>1, <1>6, <1>7, <1>8 DEF Awaits
<1>12. /\ goals[1] = Phrase(0, Len(lexed'.words), T, MAX_PRIORITY)
       /\ \A i \in 1..Len(stack') : GoalOK(lexed'.words, goals[i]) /\ stack'[i].priority = goals[i].priority
  BY <1>1, <1>3, <1>4, <1>6, <1>7, <1>8, <1>9
<1>13. Awaits(goals[Len(stack)], goals[Len(stack) + 1])'
  BY <1>6, <1>11
<1>14. QED
  BY <1>6, <1>10, <1>12, <1>13 DEF Expects

(* Every step keeps the goals of every tree of the sentence.                  *)
LEMMA ExpectStep ==
  ASSUME TypeInv, LinkInv, SumInv, CursorInv, Acyclic, HasTrees, ExpectInv, [Next]_vars
  PROVE  ExpectInv'
<1> USE DEF vars, links
<1>1. lexed' = lexed /\ Terminated' = Terminated
  BY LexedConstant DEF Terminated
<1> SUFFICES ASSUME Terminated, status' = "parsing", NEW T \in G!Sentences(lexed.words)
             PROVE  \E goals : Expects(T, goals)'
  BY <1>1 DEF ExpectInv
<1>2. CASE UNCHANGED vars
  <2>1. \A n : TreeAt(n)' = TreeAt(n)
    BY <1>2, TreesStay DEF TreeAt
  <2>2. PICK goals : Expects(T, goals)
    BY <1>2 DEF ExpectInv
  <2>3. TreeAt(Top.value)' = TreeAt(Top.value) /\ TreeAt(result)' = TreeAt(result)
        /\ Top' = Top /\ \A i : TreeAt(stack[i].value)' = TreeAt(stack[i].value)
    BY <1>2, <2>1 DEF Top
  <2>4. Expects(T, goals)'
    BY <1>2, <2>2, <2>3 DEF Expects, Awaits
  <2>5. QED
    BY <2>4
<1>3. CASE Next /\ status # "parsing"
  BY <1>3, IdleSteps, BeginExpects DEF RefuseLexerError, FinishParseFile
<1>4. CASE Next /\ status = "parsing"
  <2>1. PICK goals : Expects(T, goals)
    BY <1>4 DEF ExpectInv
  <2>2. GetBinaryOperation \/ GetUnaryOperation \/ GetSeparator
    BY <1>4 DEF Next, GetGrammar, RefuseLexerError, BeginGrammar, EndGrammar, AtTerminator, FinishParseFile,
                ReadOutside
  <2>3. QED
    BY <1>4, <2>1, <2>2, BinaryExpects, UnaryExpects, SeparatorExpects
<1>5. QED
  BY <1>2, <1>3, <1>4

(* At the end the first call has delivered its goal, which is the sentence.   *)
LEMMA AcceptStep ==
  ASSUME TypeInv, LinkInv, SumInv, CursorInv, Acyclic, HasTrees, LexerInv, ExpectInv,
         AcceptsSentences, [Next]_vars
  PROVE  AcceptsSentences'
<1> USE DEF vars, links
<1>1. lexed' = lexed /\ Terminated' = Terminated
  BY LexedConstant DEF Terminated
<1> SUFFICES ASSUME Done', Terminated, G!Sentences(lexed.words) # {}
             PROVE  Accepted' /\ G!Sentences(lexed.words) = {TreeAt(root)'}
  BY <1>1 DEF AcceptsSentences
<1>2. CASE UNCHANGED vars
  <2>1. TreeAt(root)' = TreeAt(root)
    BY <1>2, TreesStay DEF TreeAt
  <2>2. QED
    BY <1>2, <2>1 DEF AcceptsSentences, Done, Accepted
<1>3. CASE Next /\ status # "parsing"
  BY <1>3, IdleSteps DEF RefuseLexerError, BeginGrammar, Done, LexerInv
<1>4. CASE Next /\ status = "parsing"
  <2>1. status' # "undefined"
    BY <1>1, CursorStep DEF CursorInv
  <2>2. EndGrammar
    BY <1>4, <2>1, CursorSteps DEF Done, ReadOutside
  <2>3. stack = <<>> /\ ~BinaryLoopTake /\ ~BinarySecond /\ ~UnaryOperand
    BY <2>2 DEF EndGrammar, AtTerminator, BinaryLoopTake, BinarySecond, UnaryOperand, Active
  <2>4. \A n : TreeAt(n)' = TreeAt(n)
    BY <1>4, <2>3, OtherTrees
  <2>5. ASSUME NEW T \in G!Sentences(lexed.words)
        PROVE  result # NULL /\ T = TreeAt(result) /\ currentNode = Len(lexed.words)
    <3>1. PICK goals : Expects(T, goals)
      BY <1>4 DEF ExpectInv
    <3>2. QED
      BY <2>3, <3>1 DEF Expects, Delivered, Phrase
  <2>6. result # NULL /\ currentNode = Len(lexed.words)
    BY <2>5
  <2>7. Token = "TERMINATOR"
    <3>1. currentNode \in Indices /\ tokens[currentNode] = Original(currentNode)
      <4>1. Len(lexed.words) \in Nat
        BY LenProperties DEF TypeInv, TypeOK
      <4>2. currentNode \in Indices
        BY <2>6, <4>1 DEF Indices
      <4>3. currentNode >= currentNode
        BY DEF TypeInv, TypeOK
      <4>4. QED
        BY <1>4, <4>2, <4>3 DEF CursorInv
    <3>2. QED
      BY <2>6, <3>1 DEF Token, Original
  <2>8. status' = "NO_DIFFERENTIATOR_ERRORS" /\ root' = result
    BY <2>2, <2>6, <2>7 DEF EndGrammar, AtTerminator, FinishParseFile
  <2>9. PICK value : value = result
    OBVIOUS
  <2>10. TreeAt(root)' = TreeAt(result)
    BY <2>4, <2>8, <2>9
  <2>11. QED
    BY <2>5, <2>8, <2>10 DEF Accepted
<1>5. QED
  BY <1>2, <1>3, <1>4

(* Every sentence of the grammar is accepted, and its one tree is the tree the parser made: *)
(* the failed attempts in GetUnaryOperation cost a valid input nothing, whatever its length. *)
THEOREM SentencesAccepted == Spec => []AcceptsSentences
<1> DEFINE Inv == /\ TypeInv /\ LinkInv /\ SumInv /\ CursorInv /\ Acyclic /\ HasTrees
                  /\ LexerInv /\ ExpectInv /\ AcceptsSentences
<1>1. Init => Inv
  <2>1. Init => ExpectInv /\ AcceptsSentences
    BY DEF Init, ExpectInv, AcceptsSentences, Done
  <2>2. QED
    BY <2>1, TypeInit, LinkInit, SumInit, CursorInit, AcyclicInit, TreesInit, LexerInit
<1>2. Inv /\ [Next]_vars => Inv'
  BY TypeStep, LinkStep, SumStep, CursorStep, AcyclicStep, TreesStep, LexerStep, ExpectStep, AcceptStep
<1>3. Inv => AcceptsSentences
  OBVIOUS
<1>4. QED
  BY <1>1, <1>2, <1>3, PTL DEF Spec

-----------------------------------------------------------------------------
(***************************************************************************)
(* What is accepted without a loss is a sentence.  As long as no root was given up,       *)
(* every call on the stack has parsed a phrase so far; from the step that gives one up     *)
(* on, that root stays where it is, alive and owned by nobody.                           *)
(***************************************************************************)

(* A root that the calls have given up: it will not be linked any more.                  *)
GivenUp(v) ==
  /\ v < currentNode /\ tokens[v] # NULL /\ parent[v] = NULL
  /\ \A i \in 1..Len(stack) : ~HoldsRoot(stack[i], v)
  /\ Receiving => result # v
Lost == \E v \in Nodes : GivenUp(v)

(* The level of what a suspended call has called.                                       *)
CalleePriority(frame) == IF frame.at = "inner" THEN MAX_PRIORITY ELSE frame.priority - 1

(* A call of level q that began at from has returned node, with that tree, and left the    *)
(* cursor at token.  A failure leaves a token that GetUnaryOperation refuses, or else did   *)
(* not move the cursor.                                                             *)
Got(words, from, q, node, tree, cursor, token) ==
  /\ node # NULL => tree \in Phrases(words, from, cursor, q)
  /\ node = NULL => /\ token \notin Operands
                    /\ RefusedAsUnary(token, 2) \/ (q <= 1 /\ cursor = from)

(* What a suspended call that began at from has parsed before its callee began.           *)
Resumes(words, frame, tree, from, start) ==
  /\ frame.at \notin {"entry", "loop"}
  /\ start \in 0..Len(words)
  /\ frame.at \in {"first", "value"} => start = from
  /\ frame.at = "second" =>
       /\ start = frame.node + 1
       /\ tree \in Phrases(words, from, frame.node, frame.priority)
       /\ Operates(words[frame.node + 1], frame.priority)
  /\ frame.at = "operand" =>
       frame.node = from /\ start = from + 1 /\ Operates(words[from + 1], 2)
  /\ frame.at = "inner" => start = from + 1 /\ words[from + 1] = "OPEN_BRACKET"

Progress(from, start) ==
  /\ Top.at = "entry" => currentNode = from
  /\ Top.at = "loop" => TreeAt(Top.value) \in Phrases(lexed.words, from, currentNode, Top.priority)
  /\ Top.at \notin {"entry", "loop"} =>
       /\ Resumes(lexed.words, Top, TreeAt(Top.value), from, start)
       /\ Got(lexed.words, start, CalleePriority(Top), result, TreeAt(result), currentNode, Token)

Clean(starts) ==
  /\ starts[1] = 0
  /\ stack # <<>> => stack[1].priority = MAX_PRIORITY
  /\ \A i \in 1..Len(stack) : starts[i] \in 0..Len(lexed.words)
  /\ \A i \in 1..(Len(stack) - 1) :
       /\ stack[i + 1].priority = CalleePriority(stack[i])
       /\ Resumes(lexed.words, stack[i], TreeAt(stack[i].value), starts[i], starts[i + 1])
  /\ stack = <<>> =>
       Got(lexed.words, 0, MAX_PRIORITY, result, TreeAt(result), currentNode, Token)
  /\ stack # <<>> => Progress(starts[Len(stack)], starts[Len(stack) + 1])

OperandsBare ==
  \A n \in Nodes : tokens[n] \in Operands => left[n] = NULL /\ right[n] = NULL

CleanInv ==
  Terminated /\ status = "parsing" => Lost \/ (OperandsBare /\ \E starts : Clean(starts))

-----------------------------------------------------------------------------
Moving(starts) ==
  /\ TypeInv /\ stack # <<>> /\ lexed' = lexed /\ CallersKept /\ Clean(starts)

(* A step of the call on top leaves what its callers have parsed.             *)
LEMMA CallersClean ==
  ASSUME NEW starts, Moving(starts), NEW len \in Nat \ {0}, len = Len(stack),
         \A i \in 1..(len - 1) : stack'[i] = stack[i]
  PROVE  /\ starts[1] = 0
         /\ len = 1 => stack[len].priority = MAX_PRIORITY
         /\ len # 1 => stack'[1].priority = MAX_PRIORITY
         /\ \A i \in 1..len : starts[i] \in 0..Len(lexed'.words)
         /\ \A i \in 1..(len - 2) : stack'[i + 1].priority = CalleePriority(stack'[i])
         /\ len # 1 => stack[len].priority = CalleePriority(stack'[len - 1])
         /\ \A i \in 1..(len - 1) :
              Resumes(lexed'.words, stack'[i], TreeAt(stack[i].value)', starts[i], starts[i + 1])
<1>1. ASSUME NEW i \in 1..(len - 1)
      PROVE  Resumes(lexed'.words, stack'[i], TreeAt(stack[i].value)', starts[i], starts[i + 1])
  <2>1. Resumes(lexed.words, stack[i], TreeAt(stack[i].value), starts[i], starts[i + 1])
    BY DEF Moving, Clean
  <2>2. CASE stack[i].at = "second"
    <3>1. stack[i] \in GoodFrames
      BY StackTop, ElementOfSeq DEF Moving, TypeInv
    <3>2. stack[i].value \in Nodes
      BY <2>2, <3>1 DEF GoodFrames, FrameOK
    <3>3. PICK n \in Nodes : n = stack[i].value
      BY <3>2
    <3>4. TreeAt(n)' = TreeAt(n)
      BY <2>2, <3>3 DEF Moving, CallersKept
    <3>5. TreeAt(stack[i].value)' = TreeAt(n)' /\ TreeAt(stack[i].value) = TreeAt(n)
      BY <3>3
    <3>6. QED
      BY <2>1, <3>4, <3>5 DEF Moving
  <2>3. CASE stack[i].at # "second"
    BY <2>1, <2>3 DEF Moving, Resumes
  <2>4. QED
    BY <2>2, <2>3
<1>2. /\ starts[1] = 0
      /\ stack[1].priority = MAX_PRIORITY
      /\ \A i \in 1..len : starts[i] \in 0..Len(lexed'.words)
      /\ \A i \in 1..(len - 1) : stack[i + 1].priority = CalleePriority(stack[i])
  BY DEF Moving, Clean
<1>3. len # 1 => stack'[1].priority = MAX_PRIORITY
  BY <1>2
<1>4. ASSUME NEW i \in 1..(len - 2)
      PROVE  stack'[i + 1].priority = CalleePriority(stack'[i])
  <2>1. i \in 1..(len - 1) /\ i + 1 \in 1..(len - 1)
    OBVIOUS
  <2>2. stack'[i] = stack[i] /\ stack'[i + 1] = stack[i + 1]
    BY <2>1
  <2>3. QED
    BY <1>2, <2>1, <2>2
<1>5. ASSUME len # 1
      PROVE  stack[len].priority = CalleePriority(stack'[len - 1])
  <2>1. PICK k \in 1..(len - 1) : k = len - 1 /\ k + 1 = len
    <3>1. len - 1 \in 1..(len - 1) /\ (len - 1) + 1 = len
      BY <1>5
    <3>2. QED
      BY <3>1
  <2>2. QED
    BY <1>2, <2>1
<1>6. QED
  BY <1>1, <1>2, <1>3, <1>4, <1>5

(* A call: the callee begins where its caller has parsed to.                  *)
LEMMA CallCleans ==
  ASSUME NEW starts, Moving(starts),
         NEW frame \in GoodFrames, NEW p \in 0..MAX_PRIORITY, Call(frame, p),
         frame.priority = Top.priority, p = CalleePriority(frame),
         NEW start, start = currentNode',
         Resumes(lexed.words, frame, TreeAt(frame.value)', starts[Len(stack)], start)
  PROVE  \E next : Clean(next)'
<1>1. PICK len \in Nat \ {0} :
        /\ len = Len(stack) /\ Len(stack') = len + 1
        /\ stack'[len] = frame /\ stack'[len + 1] = Frame(p)
        /\ \A i \in 1..(len - 1) : stack'[i] = stack[i]
  BY CallShape DEF Moving, TypeInv
<1>2. PICK next : next = [i \in 1..(len + 1) |-> IF i = len + 1 THEN start ELSE starts[i]]
  OBVIOUS
<1>3. next[len + 1] = start /\ \A i \in 1..len : next[i] = starts[i]
  BY <1>2
<1>4. Frame(p).at = "entry" /\ Frame(p).priority = p
  BY DEF Frame
<1>5. lexed' = lexed /\ Top = stack[len]
  BY <1>1 DEF Moving, Top
<1>6. /\ starts[1] = 0
      /\ len = 1 => stack[len].priority = MAX_PRIORITY
      /\ len # 1 => stack'[1].priority = MAX_PRIORITY
      /\ \A i \in 1..len : starts[i] \in 0..Len(lexed'.words)
      /\ \A i \in 1..(len - 2) : stack'[i + 1].priority = CalleePriority(stack'[i])
      /\ len # 1 => stack[len].priority = CalleePriority(stack'[len - 1])
      /\ \A i \in 1..(len - 1) :
           Resumes(lexed'.words, stack'[i], TreeAt(stack[i].value)', starts[i], starts[i + 1])
  BY <1>1, CallersClean
<1>7. next[1] = 0 /\ stack'[1].priority = MAX_PRIORITY
  BY <1>1, <1>3, <1>5, <1>6
<1>8. \A i \in 1..(len + 1) : next[i] \in 0..Len(lexed'.words)
  <2>1. start \in 0..Len(lexed'.words)
    BY <1>5 DEF Resumes
  <2>2. \A i \in 1..(len + 1) : i = len + 1 \/ i \in 1..len
    OBVIOUS
  <2>3. QED
    BY <1>3, <1>6, <2>1, <2>2
<1>9. ASSUME NEW i \in 1..len
      PROVE  /\ stack'[i + 1].priority = CalleePriority(stack'[i])
             /\ Resumes(lexed'.words, stack'[i], TreeAt(stack[i].value)', next[i], next[i + 1])
  <2>1. CASE i = len
    <3>1. TreeAt(stack[i].value)' = TreeAt(frame.value)'
      BY <1>1, <2>1
    <3>2. QED
      BY <1>1, <1>3, <1>4, <1>5, <2>1, <3>1
  <2>2. CASE i \in 1..(len - 1)
    <3>1. Resumes(lexed'.words, stack'[i], TreeAt(stack[i].value)', next[i], next[i + 1])
      <4>1. i \in 1..len /\ i + 1 \in 1..len
        BY <2>2
      <4>2. next[i] = starts[i] /\ next[i + 1] = starts[i + 1]
        BY <1>3, <4>1
      <4>3. QED
        BY <1>6, <2>2, <4>2
    <3>2. CASE i \in 1..(len - 2)
      BY <1>6, <3>1, <3>2
    <3>3. CASE i = len - 1
      <4>1. i + 1 = len /\ len # 1 /\ stack'[len] = frame
        BY <1>1, <2>2, <3>3
      <4>2. frame.priority = CalleePriority(stack'[len - 1])
        BY <1>5, <1>6, <4>1
      <4>3. QED
        BY <3>1, <3>3, <4>1, <4>2
    <3>4. QED
      BY <2>2, <3>2, <3>3
  <2>3. QED
    BY <2>1, <2>2
<1>10. stack' # <<>> /\ Progress(next[len + 1], next[len + 2])'
  BY <1>1, <1>3, <1>4 DEF Progress, Top
<1>11. QED
  <2>1. (len + 1) - 1 = len /\ len + 1 + 1 = len + 2
    OBVIOUS
  <2>2. QED
    BY <1>1, <1>7, <1>8, <1>9, <1>10, <2>1 DEF Clean

(* Going on in the loop with a phrase in hand.                                *)
LEMMA GotoCleans ==
  ASSUME NEW starts, Moving(starts), NEW frame \in GoodFrames, Goto(frame),
         frame.priority = Top.priority, frame.at = "loop",
         TreeAt(frame.value)' \in Phrases(lexed.words, starts[Len(stack)], currentNode', frame.priority)
  PROVE  \E next : Clean(next)'
<1>1. PICK len \in Nat \ {0} :
        /\ len = Len(stack) /\ Len(stack') = len /\ stack'[len] = frame
        /\ \A i \in 1..(len - 1) : stack'[i] = stack[i]
  BY GotoShape DEF Moving, TypeInv
<1>2. lexed' = lexed /\ Top = stack[len]
  BY <1>1 DEF Moving, Top
<1>3. /\ starts[1] = 0
      /\ len = 1 => stack[len].priority = MAX_PRIORITY
      /\ len # 1 => stack'[1].priority = MAX_PRIORITY
      /\ \A i \in 1..len : starts[i] \in 0..Len(lexed'.words)
      /\ \A i \in 1..(len - 2) : stack'[i + 1].priority = CalleePriority(stack'[i])
      /\ len # 1 => stack[len].priority = CalleePriority(stack'[len - 1])
      /\ \A i \in 1..(len - 1) :
           Resumes(lexed'.words, stack'[i], TreeAt(stack[i].value)', starts[i], starts[i + 1])
  BY <1>1, CallersClean
<1>4. stack'[1].priority = MAX_PRIORITY
  BY <1>1, <1>2, <1>3
<1>5. ASSUME NEW i \in 1..(len - 1)
      PROVE  stack'[i + 1].priority = CalleePriority(stack'[i])
  <2>1. CASE i \in 1..(len - 2)
    BY <1>3, <2>1
  <2>2. CASE i = len - 1
    <3>1. i + 1 = len /\ len # 1
      BY <2>2
    <3>2. frame.priority = CalleePriority(stack'[len - 1])
      BY <1>2, <1>3, <3>1
    <3>3. QED
      BY <1>1, <2>2, <3>1, <3>2
  <2>3. QED
    BY <2>1, <2>2
<1>6. stack' # <<>>
  BY <1>1
<1>7. TreeAt(Top.value)' = TreeAt(frame.value)' /\ Top' = frame
  BY <1>1 DEF Top
<1>8. Progress(starts[len], starts[len + 1])'
  BY <1>1, <1>2, <1>7 DEF Progress
<1>9. QED
  BY <1>1, <1>3, <1>4, <1>5, <1>6, <1>8 DEF Clean

(* Returning a phrase, or a failure the caller can pass on.                   *)
LEMMA ReturnCleans ==
  ASSUME NEW starts, Moving(starts), NEW value, Return(value),
         Got(lexed.words, starts[Len(stack)], Top.priority, value, TreeAt(value)', currentNode', Token')
  PROVE  \E next : Clean(next)'
<1>1. PICK len \in Nat \ {0} :
        /\ len = Len(stack) /\ Len(stack') = len - 1
        /\ \A i \in 1..(len - 1) : stack'[i] = stack[i]
  BY ReturnShape DEF Moving, TypeInv
<1>2. lexed' = lexed /\ result' = value /\ Top = stack[len]
  BY <1>1 DEF Moving, Return, Top
<1>3. /\ starts[1] = 0
      /\ len = 1 => stack[len].priority = MAX_PRIORITY
      /\ len # 1 => stack'[1].priority = MAX_PRIORITY
      /\ \A i \in 1..len : starts[i] \in 0..Len(lexed'.words)
      /\ \A i \in 1..(len - 2) : stack'[i + 1].priority = CalleePriority(stack'[i])
      /\ len # 1 => stack[len].priority = CalleePriority(stack'[len - 1])
      /\ \A i \in 1..(len - 1) :
           Resumes(lexed'.words, stack'[i], TreeAt(stack[i].value)', starts[i], starts[i + 1])
  BY <1>1, CallersClean
<1>4. Got(lexed'.words, starts[len], stack[len].priority, result', TreeAt(result)', currentNode', Token')
  BY <1>1, <1>2
<1>5. CASE len = 1
  <2>1. stack' = <<>>
    BY <1>1, <1>5, EmptySeq DEF Return, Callers
  <2>2. Got(lexed'.words, 0, MAX_PRIORITY, result', TreeAt(result)', currentNode', Token')
    BY <1>3, <1>4, <1>5
  <2>3. Len(stack') = 0
    BY <1>1, <1>5
  <2>4. QED
    BY <1>3, <2>1, <2>2, <2>3 DEF Clean
<1>6. CASE len # 1
  <2>1. PICK k \in Nat \ {0} : k = len - 1 /\ k + 1 = len /\ k - 1 = len - 2
    <3>1. len - 1 \in Nat \ {0} /\ (len - 1) + 1 = len /\ (len - 1) - 1 = len - 2
      BY <1>6
    <3>2. QED
      BY <3>1
  <2>2. Top' = stack'[k] /\ stack' # <<>>
    BY <1>1, <2>1 DEF Top
  <2>3. Resumes(lexed'.words, Top', TreeAt(Top.value)', starts[k], starts[k + 1])
    <3>1. k \in 1..(len - 1)
      BY <2>1
    <3>2. Resumes(lexed'.words, stack'[k], TreeAt(stack[k].value)', starts[k], starts[k + 1])
      BY <1>3, <3>1
    <3>3. TreeAt(Top.value)' = TreeAt(stack[k].value)'
      BY <2>2
    <3>4. QED
      BY <2>2, <3>2, <3>3
  <2>4. Got(lexed'.words, starts[k + 1], CalleePriority(Top)', result', TreeAt(result)', currentNode', Token')
    <3>1. stack[len].priority = CalleePriority(stack'[k])
      BY <1>3, <1>6, <2>1
    <3>2. CalleePriority(Top)' = CalleePriority(stack'[k])
      BY <2>2 DEF CalleePriority
    <3>3. QED
      BY <1>4, <2>1, <3>1, <3>2
  <2>5. Progress(starts[k], starts[k + 1])'
    <3>1. Top'.at \notin {"entry", "loop"}
      BY <2>3 DEF Resumes
    <3>2. QED
      BY <2>3, <2>4, <3>1 DEF Progress
  <2>6. /\ Len(stack') = k /\ stack'[1].priority = MAX_PRIORITY
        /\ \A i \in 1..k : starts[i] \in 0..Len(lexed'.words)
        /\ \A i \in 1..(k - 1) :
             /\ stack'[i + 1].priority = CalleePriority(stack'[i])
             /\ Resumes(lexed'.words, stack'[i], TreeAt(stack[i].value)', starts[i], starts[i + 1])
    <3>1. \A i \in 1..k : i \in 1..len
      BY <2>1
    <3>2. \A i \in 1..(k - 1) : i \in 1..(len - 2) /\ i \in 1..(len - 1)
      BY <2>1
    <3>3. QED
      BY <1>1, <1>3, <1>6, <2>1, <3>1, <3>2
  <2>7. QED
    BY <1>3, <2>2, <2>5, <2>6 DEF Clean
<1>7. QED
  BY <1>5, <1>6

-----------------------------------------------------------------------------
(* How phrases are made of phrases.                                                    *)
LEMMA PhrasesGrow ==
  ASSUME NEW words, Len(words) \in Nat, NEW from \in 0..Len(words), NEW to \in 0..Len(words)
  PROVE  /\ \A p \in 1..MAX_PRIORITY : \A t \in Phrases(words, from, to, p - 1) :
              t \in Phrases(words, from, to, p)
         /\ \A p \in {1, 3, 4} : \A k \in 0..(Len(words) - 1) :
              \A l \in Phrases(words, from, k, p), r \in Phrases(words, k + 1, to, p - 1) :
                Operates(words[k + 1], p) => << k + 1, l, r >> \in Phrases(words, from, to, p)
         /\ from + 1 \in 0..Len(words) /\ Operates(words[from + 1], 2) =>
              \A arg \in Phrases(words, from + 1, to, 1) :
                << from + 1, arg, << >> >> \in Phrases(words, from, to, 2)
<1> USE DEF MAX_PRIORITY
<1>1. ASSUME NEW p \in 1..4, NEW t \in Phrases(words, from, to, p - 1)
      PROVE  t \in Phrases(words, from, to, p)
  <2>1. p - 1 \in 0..MAX_PRIORITY
    OBVIOUS
  <2>2. from < to
    BY <1>1, <2>1, PhrasesAre
  <2>3. CASE p = 2
    BY <1>1, <2>2, <2>3, PhrasesAre
  <2>4. CASE p \in {1, 3, 4}
    BY <1>1, <2>2, <2>4, PhrasesAre
  <2>5. QED
    BY <2>3, <2>4
<1>2. ASSUME NEW p \in {1, 3, 4}, NEW k \in 0..(Len(words) - 1),
             NEW l \in Phrases(words, from, k, p), NEW r \in Phrases(words, k + 1, to, p - 1),
             Operates(words[k + 1], p)
      PROVE  << k + 1, l, r >> \in Phrases(words, from, to, p)
  <2>1. p \in 0..MAX_PRIORITY /\ p - 1 \in 0..MAX_PRIORITY
    OBVIOUS
  <2>2. PICK a \in 0..Len(words), b \in 0..Len(words) : a = k /\ b = k + 1
    <3>1. k \in 0..Len(words) /\ k + 1 \in 0..Len(words)
      OBVIOUS
    <3>2. QED
      BY <3>1
  <2>3. from < k
    BY <1>2, <2>1, <2>2, PhrasesAre
  <2>4. b < to
    BY <1>2, <2>1, <2>2, PhrasesAre
  <2>5. k \in from..(to - 1) /\ from < to
    BY <2>2, <2>3, <2>4
  <2>6. QED
    BY <1>2, <2>5, PhrasesAre
<1>3. ASSUME from + 1 \in 0..Len(words), Operates(words[from + 1], 2),
             NEW arg \in Phrases(words, from + 1, to, 1)
      PROVE  << from + 1, arg, << >> >> \in Phrases(words, from, to, 2)
  <2>1. PICK b \in 0..Len(words) : b = from + 1
    BY <1>3
  <2>2. 1 \in 0..MAX_PRIORITY
    OBVIOUS
  <2>3. b < to
    BY <1>3, <2>1, <2>2, PhrasesAre
  <2>4. from < to
    BY <2>1, <2>3
  <2>5. QED
    BY <1>3, <2>4, PhrasesAre
<1>4. QED
  BY <1>1, <1>2, <1>3

(* The phrases of the lowest level: an operand, or a phrase in brackets.      *)
LEMMA OperandPhrases ==
  ASSUME NEW words, Len(words) \in Nat, NEW from \in 0..Len(words), from + 1 \in 0..Len(words)
  PROVE  /\ words[from + 1] \in Operands =>
              << from + 1, << >>, << >> >> \in Phrases(words, from, from + 1, 0)
         /\ \A to \in 0..(Len(words) - 1) : \A t \in Phrases(words, from + 1, to, MAX_PRIORITY) :
              words[from + 1] = "OPEN_BRACKET" /\ words[to + 1] = "CLOSE_BRACKET" =>
                t \in Phrases(words, from, to + 1, 0)
<1>1. PICK b \in 0..Len(words) : b = from + 1
  OBVIOUS
<1>2. ASSUME words[from + 1] \in Operands
      PROVE  << from + 1, << >>, << >> >> \in Phrases(words, from, b, 0)
  BY <1>1, <1>2, PhrasesAre
<1>3. ASSUME NEW to \in 0..(Len(words) - 1), NEW t \in Phrases(words, from + 1, to, MAX_PRIORITY),
             words[from + 1] = "OPEN_BRACKET", words[to + 1] = "CLOSE_BRACKET"
      PROVE  t \in Phrases(words, from, to + 1, 0)
  <2>1. PICK a \in 0..Len(words), c \in 0..Len(words) : a = to /\ c = to + 1
    <3>1. to \in 0..Len(words) /\ to + 1 \in 0..Len(words)
      OBVIOUS
    <3>2. QED
      BY <3>1
  <2>2. b < a
    BY <1>1, <1>3, <2>1, PhrasesAre DEF MAX_PRIORITY
  <2>3. from < c /\ c - 1 = to
    BY <1>1, <2>1, <2>2
  <2>4. t \in Phrases(words, from, c, 0) <=>
          \/ c = from + 1 /\ words[from + 1] \in Operands /\ t = << from + 1, << >>, << >> >>
          \/ /\ words[from + 1] = "OPEN_BRACKET" /\ words[c] = "CLOSE_BRACKET"
             /\ t \in Phrases(words, from + 1, c - 1, MAX_PRIORITY)
    BY <2>3, PhrasesAre
  <2>5. QED
    BY <1>3, <2>1, <2>3, <2>4
<1>4. QED
  BY <1>1, <1>2, <1>3

(* A token is the lexer's until it is destroyed.                                       *)
OriginalInv ==
  status \in {"lexed", "parsing"} => \A i \in Indices : tokens[i] \in {NULL, Original(i)}

(* At the start the tokens are the lexer's.                                   *)
LEMMA OriginalInit == Init => OriginalInv
BY DEF Init, OriginalInv, Original

(* No step writes a token but to destroy it.                                  *)
LEMMA OriginalStep ==
  ASSUME TypeInv, OriginalInv, [Next]_vars
  PROVE  OriginalInv'
<1> USE DEF vars, links
<1>1. lexed' = lexed /\ Indices' = Indices /\ \A i : Original(i)' = Original(i)
  BY LexedConstant DEF Original
<1>2. CASE UNCHANGED vars
  BY <1>1, <1>2 DEF OriginalInv
<1>3. CASE Next /\ status # "parsing"
  BY <1>1, <1>3, IdleSteps DEF RefuseLexerError, BeginGrammar, FinishParseFile, OriginalInv
<1>4. CASE Next /\ status = "parsing"
  <2>1. CASE tokens' \in {tokens, [tokens EXCEPT ![currentNode] = NULL]}
    <3>1. \A i \in Indices : tokens'[i] \in {tokens[i], NULL}
      BY <2>1 DEF TypeInv, TypeOK
    <3>2. QED
      BY <1>1, <1>4, <3>1 DEF OriginalInv
  <2>2. CASE EndGrammar \/ ReadOutside
    BY <2>2 DEF EndGrammar, AtTerminator, ReadOutside, FinishParseFile, OriginalInv
  <2>3. QED
    BY <1>4, <2>1, <2>2, CursorSteps
<1>5. QED
  BY <1>2, <1>3, <1>4

-----------------------------------------------------------------------------
(* A root that is given up stays so: a step holds or returns only what was held, what was  *)
(* returned, or the token under the cursor.                                            *)
LEMMA CallKeepsLost ==
  ASSUME TypeInv, stack # <<>>, NEW v \in Nodes, GivenUp(v),
         v < currentNode', tokens'[v] # NULL, parent'[v] = NULL,
         NEW frame \in GoodFrames, NEW p \in 0..MAX_PRIORITY, Call(frame, p), ~HoldsRoot(frame, v)
  PROVE  GivenUp(v)'
<1>1. PICK len \in Nat \ {0} :
        /\ len = Len(stack) /\ Len(stack') = len + 1
        /\ stack'[len] = frame /\ stack'[len + 1] = Frame(p)
        /\ \A i \in 1..(len - 1) : stack'[i] = stack[i]
  BY CallShape DEF TypeInv
<1>2. Frame(p).at = "entry"
  BY DEF Frame
<1>3. \A i \in 1..len : ~HoldsRoot(stack[i], v)
  BY <1>1 DEF GivenUp
<1>4. ASSUME NEW i \in 1..(len + 1)
      PROVE  ~HoldsRoot(stack'[i], v)
  <2>1. CASE i = len + 1
    BY <1>1, <1>2, <2>1 DEF HoldsRoot
  <2>2. CASE i = len
    BY <1>1, <2>2
  <2>3. CASE i \in 1..(len - 1)
    <3>1. stack'[i] = stack[i] /\ i \in 1..len
      BY <1>1, <2>3
    <3>2. QED
      BY <1>3, <3>1
  <2>4. QED
    BY <2>1, <2>2, <2>3
<1>5. ~Receiving'
  <2>1. stack' # <<>> /\ Top'.at = "entry"
    BY <1>1, <1>2 DEF Top
  <2>2. QED
    BY <2>1 DEF Receiving
<1>6. QED
  BY <1>1, <1>4, <1>5 DEF GivenUp

(* Going on in the loop keeps a root given up if the loop does not hold it.   *)
LEMMA GotoKeepsLost ==
  ASSUME TypeInv, stack # <<>>, NEW v \in Nodes, GivenUp(v),
         v < currentNode', tokens'[v] # NULL, parent'[v] = NULL,
         NEW frame \in GoodFrames, Goto(frame), frame.at = "loop", ~HoldsRoot(frame, v)
  PROVE  GivenUp(v)'
<1>1. PICK len \in Nat \ {0} :
        /\ len = Len(stack) /\ Len(stack') = len /\ stack'[len] = frame
        /\ \A i \in 1..(len - 1) : stack'[i] = stack[i]
  BY GotoShape DEF TypeInv
<1>2. \A i \in 1..len : ~HoldsRoot(stack[i], v)
  BY <1>1 DEF GivenUp
<1>3. ASSUME NEW i \in 1..len
      PROVE  ~HoldsRoot(stack'[i], v)
  <2>1. CASE i = len
    BY <1>1, <2>1
  <2>2. CASE i \in 1..(len - 1)
    BY <1>1, <1>2, <2>2
  <2>3. QED
    BY <2>1, <2>2
<1>4. ~Receiving'
  <2>1. stack' # <<>> /\ Top'.at = "loop"
    BY <1>1 DEF Top
  <2>2. QED
    BY <2>1 DEF Receiving
<1>5. QED
  BY <1>1, <1>3, <1>4 DEF GivenUp

(* Returning keeps a root given up if it is not what is returned.             *)
LEMMA ReturnKeepsLost ==
  ASSUME TypeInv, stack # <<>>, NEW v \in Nodes,
         v < currentNode', tokens'[v] # NULL, parent'[v] = NULL,
         \A i \in 1..(Len(stack) - 1) : ~HoldsRoot(stack[i], v),
         NEW value, Return(value), v # value
  PROVE  GivenUp(v)'
<1>1. PICK len \in Nat \ {0} :
        /\ len = Len(stack) /\ Len(stack') = len - 1
        /\ \A i \in 1..(len - 1) : stack'[i] = stack[i]
  BY ReturnShape DEF TypeInv
<1>2. \A i \in 1..(len - 1) : ~HoldsRoot(stack'[i], v)
  BY <1>1
<1>3. result' # v
  BY DEF Return
<1>4. QED
  BY <1>1, <1>2, <1>3 DEF GivenUp

(* No step of the parser takes a root back that was given up.                 *)
LEMMA LostStays ==
  ASSUME TypeInv, status = "parsing", NEW v \in Nodes, GivenUp(v),
         GetBinaryOperation \/ GetUnaryOperation \/ GetSeparator
  PROVE  GivenUp(v)'
<1>1. Next /\ Nodes \subseteq Nat /\ NULL \notin Nodes /\ currentNode \in Nat
      /\ result \in Nodes \cup {NULL}
  BY NodesNat DEF Next, TypeInv, TypeOK, Nodes
<1>2. /\ stack # <<>> /\ Top \in Frames /\ FrameOK(Top) /\ ~HoldsRoot(Top, v)
      /\ Top.priority \in 0..MAX_PRIORITY
      /\ Top.at \notin {"entry", "loop"} => result # v
  <2>1. stack # <<>>
    BY DEF GetBinaryOperation, BinaryEntry, BinaryFirst, BinaryLoopEnd, BinaryLoopBracket,
           BinaryLoopTake, BinarySecond, BinarySecondFails, GetUnaryOperation, UnaryEntry,
           UnaryValue, UnaryTake, UnaryRefuse, UnaryOperand, GetSeparator, GetNumber,
           SeparatorOpen, SeparatorRefuse, SeparatorInnerFails, SeparatorClose,
           SeparatorUnclosed, Active
  <2>2. Top \in Frames /\ FrameOK(Top) /\ Len(stack) \in 1..Len(stack)
    BY <2>1, StackTop DEF TypeInv, Top, GoodFrames
  <2>3. QED
    BY <2>1, <2>2 DEF GivenUp, Top, Receiving, Frames
<1>3. v < currentNode /\ tokens[v] # NULL /\ parent[v] = NULL
      /\ \A i \in 1..(Len(stack) - 1) : ~HoldsRoot(stack[i], v)
  <2>1. Len(stack) \in Nat
    BY LenProperties DEF TypeInv
  <2>2. \A i \in 1..(Len(stack) - 1) : i \in 1..Len(stack)
    BY <2>1
  <2>3. QED
    BY <2>2 DEF GivenUp
<1>4. v < currentNode' /\ tokens'[v] # NULL
  <2>1. status' = status
    BY DEF GetBinaryOperation, BinaryEntry, BinaryFirst, BinaryLoopEnd, BinaryLoopBracket,
           BinaryLoopTake, BinarySecond, BinarySecondFails, GetUnaryOperation, UnaryEntry,
           UnaryValue, UnaryTake, UnaryRefuse, UnaryOperand, GetSeparator, GetNumber,
           SeparatorOpen, SeparatorRefuse, SeparatorInnerFails, SeparatorClose,
           SeparatorUnclosed
  <2>2. \/ UNCHANGED <<tokens, currentNode>>
        \/ /\ currentNode' = currentNode + 1
           /\ tokens' \in {tokens, [tokens EXCEPT ![currentNode] = NULL]}
    BY <1>1, <2>1, CursorSteps DEF EndGrammar, AtTerminator, ReadOutside, FinishParseFile
  <2>3. v # currentNode
    BY <1>1, <1>3
  <2>4. QED
    BY <1>1, <1>3, <2>2, <2>3 DEF TypeInv, TypeOK, Nodes
<1>5. ASSUME NEW frame \in GoodFrames, NEW p \in 0..MAX_PRIORITY, Call(frame, p),
             ~HoldsRoot(frame, v), parent'[v] = NULL
      PROVE  GivenUp(v)'
  BY <1>2, <1>4, <1>5, CallKeepsLost
<1>6. ASSUME NEW value, Return(value), v # value, parent'[v] = NULL
      PROVE  GivenUp(v)'
  BY <1>2, <1>3, <1>4, <1>6, ReturnKeepsLost
<1>7. ASSUME NEW owner, NEW child, Adopt(child, owner), v # child
      PROVE  parent'[v] = NULL
  BY <1>3, <1>7 DEF Adopt, TypeInv, TypeOK, Nodes
<1>8. CASE BinaryEntry \/ UnaryEntry \/ SeparatorOpen
  <2>1. PICK at \in {"first", "value", "inner"}, p \in 0..MAX_PRIORITY :
          Call([Top EXCEPT !.at = at], p) /\ parent' = parent
    <3>1. CASE BinaryEntry \/ UnaryEntry
      <4>1. Top.priority - 1 \in 0..MAX_PRIORITY
        BY <1>2, <3>1 DEF BinaryEntry, UnaryEntry, Active, Top, FrameOK, MAX_PRIORITY
      <4>2. QED
        BY <3>1, <4>1 DEF BinaryEntry, UnaryEntry, links
    <3>2. CASE SeparatorOpen
      BY <3>2 DEF SeparatorOpen, links, MAX_PRIORITY
    <3>3. QED
      BY <1>8, <3>1, <3>2
  <2>2. PICK frame \in GoodFrames : frame = [Top EXCEPT !.at = at]
    BY <1>2, UpdatedFrames
  <2>3. frame.at = at
    BY <1>2, <2>2 DEF Frames
  <2>4. ~HoldsRoot(frame, v)
    BY <2>3 DEF HoldsRoot
  <2>5. QED
    BY <1>3, <1>5, <2>1, <2>2, <2>4
<1>9. CASE BinaryFirst
  <2>1. Top.at = "first" /\ parent' = parent
    BY <1>9 DEF BinaryFirst, Active, Top, links
  <2>2. CASE result = NULL
    BY <1>1, <1>3, <1>6, <1>9, <2>1, <2>2 DEF BinaryFirst
  <2>3. CASE result # NULL
    <3>1. PICK frame \in GoodFrames : frame = [Top EXCEPT !.at = "loop", !.value = result]
      BY <1>1, <1>2, <2>3, UpdatedFrames
    <3>2. frame.at = "loop" /\ frame.value = result
      BY <1>2, <3>1 DEF Frames
    <3>3. ~HoldsRoot(frame, v)
      BY <1>2, <2>1, <3>2 DEF HoldsRoot
    <3>4. Goto(frame)
      BY <1>9, <2>3, <3>1 DEF BinaryFirst
    <3>5. QED
      BY <1>2, <1>3, <1>4, <2>1, <3>2, <3>3, <3>4, GotoKeepsLost
  <2>4. QED
    BY <2>2, <2>3
<1>10. CASE BinaryLoopEnd
  <2>1. Top.at = "loop" /\ parent' = parent /\ Return(Top.value)
    BY <1>10 DEF BinaryLoopEnd, Active, Top, links
  <2>2. v # Top.value
    BY <1>2, <2>1 DEF HoldsRoot
  <2>3. PICK value : value = Top.value
    OBVIOUS
  <2>4. QED
    BY <1>3, <1>6, <2>1, <2>2, <2>3
<1>11. CASE BinaryLoopTake \/ UnaryTake
  <2>1. PICK at \in {"second", "operand"} :
          /\ Call([Top EXCEPT !.at = at, !.node = currentNode], Top.priority - 1)
          /\ currentNode \in Nodes /\ (at = "second" => Top.at = "loop")
          /\ (parent' = parent \/ (Top.at = "loop" /\ Adopt(Top.value, currentNode)))
          /\ Top.priority - 1 \in 0..MAX_PRIORITY
    <3>1. Top.priority - 1 \in 0..MAX_PRIORITY
      BY <1>2, <1>11 DEF BinaryLoopTake, UnaryTake, Active, Top, FrameOK, MAX_PRIORITY
    <3>2. CASE BinaryLoopTake
      BY <3>1, <3>2 DEF BinaryLoopTake, TakeOperation, Active, Top, Readable, Nodes
    <3>3. CASE UnaryTake
      BY <3>1, <3>3 DEF UnaryTake, TakeOperation, Readable, Nodes, links
    <3>4. QED
      BY <1>11, <3>2, <3>3
  <2>2. parent'[v] = NULL
    <3>1. CASE parent' = parent
      BY <1>3, <3>1
    <3>2. CASE Top.at = "loop" /\ Adopt(Top.value, currentNode)
      <4>1. v # Top.value
        BY <1>2, <3>2 DEF HoldsRoot
      <4>2. QED
        BY <1>7, <3>2, <4>1
    <3>3. QED
      BY <2>1, <3>1, <3>2
  <2>3. [Top EXCEPT !.at = at, !.node = currentNode] \in GoodFrames
    <3>1. CASE at = "second"
      BY <1>2, <2>1, <3>1, UpdatedFrames DEF FrameOK
    <3>2. CASE at = "operand"
      BY <1>2, <2>1, <3>2, UpdatedFrames
    <3>3. QED
      BY <3>1, <3>2
  <2>4. PICK frame \in GoodFrames : frame = [Top EXCEPT !.at = at, !.node = currentNode]
    BY <2>3
  <2>5. frame.at = at /\ frame.node = currentNode /\ v # currentNode
    BY <1>1, <1>2, <1>3, <2>4 DEF Frames
  <2>6. ~HoldsRoot(frame, v)
    BY <2>5 DEF HoldsRoot
  <2>7. QED
    BY <1>5, <2>1, <2>2, <2>4, <2>6
<1>12. CASE BinarySecond
  <2>1. /\ Top.at = "second" /\ Adopt(result, Top.node) /\ Top.node \in Nodes
        /\ Goto([Top EXCEPT !.at = "loop", !.value = Top.node])
    BY <1>2, <1>12 DEF BinarySecond, Active, Top, FrameOK
  <2>2. parent'[v] = NULL
    BY <1>2, <1>7, <2>1
  <2>3. PICK frame \in GoodFrames : frame = [Top EXCEPT !.at = "loop", !.value = Top.node]
    BY <1>2, <2>1, UpdatedFrames
  <2>4. frame.at = "loop" /\ frame.value = Top.node
    BY <1>2, <2>3 DEF Frames
  <2>5. ~HoldsRoot(frame, v)
    BY <1>2, <2>1, <2>4 DEF HoldsRoot
  <2>6. QED
    BY <1>2, <1>4, <2>1, <2>2, <2>3, <2>4, <2>5, GotoKeepsLost
<1>13. CASE BinaryLoopBracket \/ BinarySecondFails \/ UnaryRefuse \/ SeparatorRefuse
            \/ SeparatorInnerFails \/ SeparatorUnclosed \/ (UnaryOperand /\ result = NULL)
  <2>1. Return(NULL) /\ parent' = parent
    BY <1>13 DEF BinaryLoopBracket, BinarySecondFails, UnaryRefuse, SeparatorRefuse,
                 SeparatorInnerFails, SeparatorUnclosed, UnaryOperand, links
  <2>2. QED
    BY <1>1, <1>3, <1>6, <2>1
<1>14. CASE UnaryValue \/ SeparatorClose
  <2>1. Top.at \in {"value", "inner"} /\ Return(result) /\ parent' = parent
    BY <1>14 DEF UnaryValue, SeparatorClose, Active, Top, links
  <2>2. PICK value : value = result
    OBVIOUS
  <2>3. QED
    BY <1>2, <1>3, <1>6, <2>1, <2>2
<1>15. CASE UnaryOperand /\ result # NULL
  <2>1. Top.at = "operand" /\ Return(Top.node) /\ Adopt(result, Top.node)
    BY <1>15 DEF UnaryOperand, Active, Top
  <2>2. v # Top.node /\ v # result
    BY <1>2, <2>1 DEF HoldsRoot
  <2>3. parent'[v] = NULL
    BY <1>7, <2>1, <2>2
  <2>4. PICK value : value = Top.node
    OBVIOUS
  <2>5. QED
    BY <1>6, <2>1, <2>2, <2>3, <2>4
<1>16. CASE GetNumber
  <2>1. Return(currentNode) /\ parent' = parent /\ v # currentNode
    BY <1>1, <1>3, <1>16 DEF GetNumber, links
  <2>2. PICK value : value = currentNode
    OBVIOUS
  <2>3. QED
    BY <1>3, <1>6, <2>1, <2>2
<1>17. QED
  BY <1>8, <1>9, <1>10, <1>11, <1>12, <1>13, <1>14, <1>15, <1>16
     DEF GetBinaryOperation, GetUnaryOperation, GetSeparator

(* The four steps that give a root up: the operand in hand before a bracket, the operation  *)
(* whose second operand or argument failed, and what an unclosed bracket held.              *)
LEMMA LostNow ==
  ASSUME TypeInv, LinkInv, AliveInv, status = "parsing",
         \/ BinaryLoopBracket
         \/ BinarySecondFails
         \/ UnaryOperand /\ result = NULL
         \/ SeparatorUnclosed
  PROVE  Lost'
<1>1. Nodes' = Nodes /\ NULL \notin Nodes /\ currentNode \in Nat
  BY LexedConstant, NodesNat
     DEF Next, GetBinaryOperation, GetUnaryOperation, GetSeparator, Nodes, TypeInv, TypeOK
<1>2. HeldRoots /\ HeldInOrder /\ ResultFree /\ HeldAlive /\ ResultAlive
  BY DEF LinkInv, AliveInv
<1>3. /\ stack # <<>> /\ Return(NULL) /\ UNCHANGED << tokens, parent, currentNode >>
      /\ result \in Nodes \cup {NULL}
  BY DEF BinaryLoopBracket, BinarySecondFails, UnaryOperand, SeparatorUnclosed, Active, links,
         TypeInv, TypeOK, Nodes
<1>4. /\ FrameOK(Top) /\ Len(stack) \in 1..Len(stack) /\ Top = stack[Len(stack)]
      /\ \A i \in 1..(Len(stack) - 1) : i \in 1..Len(stack) /\ i < Len(stack)
  BY <1>3, StackTop DEF TypeInv, Top, GoodFrames
<1>5. \A frame, n : HoldsRoot(frame, n) => Holds(frame, n)
  BY DEF HoldsRoot, Holds
<1>6. ASSUME NEW v \in Nodes, HoldsRoot(Top, v)
      PROVE  Lost'
  <2>1. Holds(Top, v)
    BY <1>5, <1>6
  <2>2. v < currentNode /\ parent[v] = NULL /\ tokens[v] # NULL
    BY <1>2, <1>4, <1>6, <2>1 DEF HeldRoots, HeldAlive
  <2>3. ASSUME NEW i \in 1..(Len(stack) - 1), HoldsRoot(stack[i], v)
        PROVE  FALSE
    <3>1. Holds(stack[i], v)
      BY <1>5, <2>3
    <3>2. v < v
      BY <1>2, <1>4, <2>1, <3>1 DEF HeldInOrder
    <3>3. v \in Nat
      BY NodesNat DEF TypeInv, TypeOK
    <3>4. QED
      BY <3>2, <3>3
  <2>4. GivenUp(v)'
    BY <1>1, <1>3, <2>2, <2>3, ReturnKeepsLost
  <2>5. QED
    BY <1>1, <2>4 DEF Lost
<1>7. CASE BinaryLoopBracket
  <2>1. Top.at = "loop"
    BY <1>7 DEF BinaryLoopBracket, Active, Top
  <2>2. Top.value \in Nodes /\ HoldsRoot(Top, Top.value)
    BY <1>4, <2>1 DEF FrameOK, HoldsRoot
  <2>3. QED
    BY <1>6, <2>2
<1>8. CASE BinarySecondFails \/ UnaryOperand
  <2>1. Top.at \in {"second", "operand"}
    BY <1>8 DEF BinarySecondFails, UnaryOperand, Active, Top
  <2>2. Top.node \in Nodes /\ HoldsRoot(Top, Top.node)
    BY <1>4, <2>1 DEF FrameOK, HoldsRoot
  <2>3. QED
    BY <1>6, <2>2
<1>9. CASE SeparatorUnclosed
  <2>1. Receiving /\ result # NULL /\ result \in Nodes
    BY <1>3, <1>9 DEF SeparatorUnclosed, Active, Top, Receiving
  <2>2. PICK v \in Nodes : v = result
    BY <2>1
  <2>3. v < currentNode /\ parent[v] = NULL /\ tokens[v] # NULL
    BY <1>2, <2>1, <2>2 DEF ResultFree, ResultAlive
  <2>4. ASSUME NEW i \in 1..(Len(stack) - 1), HoldsRoot(stack[i], v)
        PROVE  FALSE
    <3>1. Holds(stack[i], v)
      BY <1>5, <2>4
    <3>2. v < v
      BY <1>2, <1>4, <2>1, <2>2, <3>1 DEF ResultFree
    <3>3. v \in Nat
      BY NodesNat DEF TypeInv, TypeOK
    <3>4. QED
      BY <3>2, <3>3
  <2>5. GivenUp(v)'
    BY <1>1, <1>3, <2>3, <2>4, ReturnKeepsLost
  <2>6. QED
    BY <1>1, <2>5 DEF Lost
<1>10. QED
  BY <1>7, <1>8, <1>9

-----------------------------------------------------------------------------
(* Children are hung below operations only.                                             *)
LEMMA BareStep ==
  ASSUME TypeInv, LinkInv, SumInv, OperandsBare, status = "parsing",
         GetBinaryOperation \/ GetUnaryOperation \/ GetSeparator,
         UnaryOperand /\ result # NULL => tokens[Top.node] \notin Operands
  PROVE  OperandsBare'
<1>1. Next /\ Nodes' = Nodes /\ NULL \notin Nodes /\ NULL \notin Operands
  BY LexedConstant, NodesNat, KindsNotNull
     DEF Next, Nodes, TypeInv, TypeOK, TokenKinds, WordKinds
<1>2. \A n \in Nodes : tokens'[n] \in {tokens[n], NULL}
  <2>1. status' = status
    BY DEF GetBinaryOperation, BinaryEntry, BinaryFirst, BinaryLoopEnd, BinaryLoopBracket,
           BinaryLoopTake, BinarySecond, BinarySecondFails, GetUnaryOperation, UnaryEntry,
           UnaryValue, UnaryTake, UnaryRefuse, UnaryOperand, GetSeparator, GetNumber,
           SeparatorOpen, SeparatorRefuse, SeparatorInnerFails, SeparatorClose,
           SeparatorUnclosed
  <2>2. tokens' \in {tokens, [tokens EXCEPT ![currentNode] = NULL]}
    BY <1>1, <2>1, CursorSteps DEF EndGrammar, AtTerminator, ReadOutside, FinishParseFile
  <2>3. QED
    BY <2>2 DEF TypeInv, TypeOK, Nodes
<1>3. ASSUME NEW owner, owner \in Nodes => tokens[owner] \notin Operands,
             \A n \in Nodes : n # owner => left'[n] = left[n] /\ right'[n] = right[n]
      PROVE  OperandsBare'
  <2> SUFFICES ASSUME NEW n \in Nodes, tokens'[n] \in Operands
               PROVE  left'[n] = NULL /\ right'[n] = NULL
    BY <1>1 DEF OperandsBare
  <2>1. tokens[n] \in Operands
    BY <1>1, <1>2
  <2>2. QED
    BY <1>3, <2>1 DEF OperandsBare
<1>4. CASE BinaryLoopTake
  <2>1. tokens[currentNode] \notin Operands
    BY <1>4, KindsDisjoint DEF BinaryLoopTake, Token
  <2>2. left' = [left EXCEPT ![currentNode] = Top.value] /\ right' = right
    BY <1>4 DEF BinaryLoopTake
  <2>3. \A n \in Nodes : n # currentNode => left'[n] = left[n] /\ right'[n] = right[n]
    BY <2>2 DEF TypeInv, TypeOK, Nodes
  <2>4. QED
    BY <1>3, <2>1, <2>3
<1>5. CASE BinarySecond
  <2>1. /\ stack # <<>> /\ Top.at = "second" /\ left' = left
        /\ right' = [right EXCEPT ![Top.node] = result]
    BY <1>5, ActiveTop DEF BinarySecond
  <2>2. Len(stack) \in 1..Len(stack) /\ stack[Len(stack)] = Top
    BY <2>1, StackTop DEF TypeInv, Top
  <2>3. tokens[Top.node] \in BinaryOps \cup {"EQUALS"}
    BY <2>1, <2>2 DEF SumInv, HeldSummed, FrameSummed
  <2>4. tokens[Top.node] \notin Operands
    BY <2>3, KindsDisjoint
  <2>5. \A n \in Nodes : n # Top.node => left'[n] = left[n] /\ right'[n] = right[n]
    BY <2>1 DEF TypeInv, TypeOK, Nodes
  <2>6. PICK owner : owner = Top.node
    OBVIOUS
  <2>7. QED
    BY <1>3, <2>4, <2>5, <2>6
<1>6. CASE UnaryOperand /\ result # NULL
  <2>1. left' = [left EXCEPT ![Top.node] = result] /\ right' = right
    BY <1>6 DEF UnaryOperand
  <2>2. \A n \in Nodes : n # Top.node => left'[n] = left[n] /\ right'[n] = right[n]
    BY <2>1 DEF TypeInv, TypeOK, Nodes
  <2>3. PICK owner : owner = Top.node
    OBVIOUS
  <2>4. QED
    BY <1>3, <1>6, <2>2, <2>3
<1>7. CASE ~BinaryLoopTake /\ ~BinarySecond /\ ~(UnaryOperand /\ result # NULL)
  <2>1. left' = left /\ right' = right
    BY <1>1, <1>7, NotLinking
  <2>2. QED
    BY <1>1, <1>3, <2>1
<1>8. QED
  BY <1>4, <1>5, <1>6, <1>7

(* Where the call on top stands.                                                        *)
LEMMA Standing ==
  ASSUME TypeInv, CursorInv, Terminated, status = "parsing", stack # <<>>,
         NEW starts, Clean(starts)
  PROVE  \E words, p, from, start :
           /\ words = lexed.words /\ Len(words) \in Nat
           /\ p = Top.priority /\ p \in 0..MAX_PRIORITY
           /\ from = starts[Len(stack)] /\ from \in 0..Len(words)
           /\ start = starts[Len(stack) + 1] /\ Progress(from, start)
           /\ currentNode \in 0..Len(words)
           /\ Token = IF currentNode = Len(words) THEN "TERMINATOR" ELSE words[currentNode + 1]
<1>1. Len(lexed.words) \in Nat /\ Len(stack) \in 1..Len(stack)
  BY LenProperties, StackTop DEF TypeInv, TypeOK
<1>2. starts[Len(stack)] \in 0..Len(lexed.words)
      /\ Progress(starts[Len(stack)], starts[Len(stack) + 1])
  BY <1>1 DEF Clean
<1>3. Top.priority \in 0..MAX_PRIORITY
  <2>1. Top \in Frames
    BY StackTop DEF TypeInv, Top, GoodFrames
  <2>2. QED
    BY <2>1 DEF Frames
<1>4. currentNode \in 0..Len(lexed.words) /\ currentNode \in Indices
      /\ \A i \in Indices : i >= currentNode => tokens[i] = Original(i)
  BY <1>1 DEF CursorInv, Indices
<1>5. Token = Original(currentNode)
  BY <1>1, <1>4 DEF Token
<1>6. QED
  BY <1>1, <1>2, <1>3, <1>4, <1>5 DEF Original

(* A token that stands at no word operates on nothing and is no operand.                    *)
LEMMA WordUnderCursor ==
  ASSUME NEW words, Len(words) \in Nat, NEW c \in 0..Len(words),
         NEW token, token # "TERMINATOR",
         token = IF c = Len(words) THEN "TERMINATOR" ELSE words[c + 1]
  PROVE  c \in 0..(Len(words) - 1) /\ c + 1 \in 0..Len(words) /\ token = words[c + 1]
  OBVIOUS

(* The steps of GetBinaryOperation that lose nothing parse phrases.           *)
LEMMA BinaryCleans ==
  ASSUME TypeInv, LinkInv, SumInv, CursorInv, Acyclic, HasTrees, Terminated, status = "parsing",
         GetBinaryOperation, ~BinaryLoopBracket, ~BinarySecondFails, NEW starts, Clean(starts)
  PROVE  \E next : Clean(next)'
<1>1. stack # <<>> /\ Top.fn = "GetBinaryOperation"
  BY DEF GetBinaryOperation, BinaryEntry, BinaryFirst, BinaryLoopEnd, BinaryLoopBracket,
         BinaryLoopTake, BinarySecond, BinarySecondFails, Active, Top
<1>2. PICK words, p, from, start :
           /\ words = lexed.words /\ Len(words) \in Nat
           /\ p = Top.priority /\ p \in 0..MAX_PRIORITY
           /\ from = starts[Len(stack)] /\ from \in 0..Len(words)
           /\ start = starts[Len(stack) + 1] /\ Progress(from, start)
           /\ currentNode \in 0..Len(words)
           /\ Token = IF currentNode = Len(words) THEN "TERMINATOR" ELSE words[currentNode + 1]
  BY <1>1, Standing
<1>3. Next /\ lexed' = lexed
  BY LexedConstant DEF Next
<1>4. ASSUME CallersKept
      PROVE  Moving(starts)
  BY <1>1, <1>3, <1>4 DEF Moving
<1>5. /\ Top \in Frames /\ FrameOK(Top) /\ p \in {1, 3, 4} /\ p - 1 \in 0..MAX_PRIORITY
  <2>1. Top \in Frames /\ FrameOK(Top)
    BY <1>1, StackTop DEF TypeInv, Top, GoodFrames
  <2>2. QED
    BY <1>1, <1>2, <2>1 DEF FrameOK, MAX_PRIORITY
<1>6. CASE BinaryEntry
  <2>1. /\ Top.at = "entry" /\ currentNode' = currentNode /\ currentNode = from
        /\ Call([Top EXCEPT !.at = "first"], p - 1)
        /\ ~BinaryLoopTake /\ ~BinarySecond /\ ~UnaryOperand
    BY <1>2, <1>6, PlacesApart DEF BinaryEntry, Active, Top, Progress
  <2>2. Moving(starts)
    BY <1>3, <1>4, <2>1, OtherTrees
  <2>3. PICK frame \in GoodFrames : frame = [Top EXCEPT !.at = "first"]
    BY <1>5, UpdatedFrames
  <2>4. frame.at = "first" /\ frame.priority = Top.priority
    BY <1>5, <2>3 DEF Frames
  <2>5. CalleePriority(frame) = p - 1
    BY <1>2, <2>4 DEF CalleePriority
  <2>6. Resumes(words, frame, TreeAt(frame.value)', from, from)
    BY <1>2, <2>4 DEF Resumes
  <2>7. QED
    BY <1>2, <1>5, <2>1, <2>2, <2>3, <2>4, <2>5, <2>6, CallCleans
<1>7. CASE BinaryFirst
  <2>1. /\ Top.at = "first" /\ currentNode' = currentNode /\ Token' = Token
        /\ ~BinaryLoopTake /\ ~BinarySecond /\ ~UnaryOperand
    BY <1>7, PlacesApart DEF BinaryFirst, Active, Top, Token
  <2>2. Moving(starts) /\ \A n : TreeAt(n)' = TreeAt(n)
    BY <1>3, <1>4, <2>1, OtherTrees
  <2>3. start = from /\ Got(words, start, p - 1, result, TreeAt(result), currentNode, Token)
    BY <1>2, <2>1 DEF Progress, Resumes, CalleePriority
  <2>4. CASE result = NULL
    <3>1. Return(NULL)
      BY <1>7, <2>4 DEF BinaryFirst
    <3>2. /\ Token \notin Operands
          /\ RefusedAsUnary(Token, 2) \/ (p <= 1 /\ currentNode = from)
      BY <1>5, <2>3, <2>4 DEF Got
    <3>3. Got(words, from, p, NULL, TreeAt(NULL)', currentNode', Token')
      BY <2>1, <3>2 DEF Got
    <3>4. QED
      BY <1>2, <2>2, <3>1, <3>3, ReturnCleans
  <2>5. CASE result # NULL
    <3>1. result \in Nodes /\ Goto([Top EXCEPT !.at = "loop", !.value = result])
      BY <1>7, <2>5 DEF BinaryFirst, TypeInv, TypeOK
    <3>2. PICK frame \in GoodFrames : frame = [Top EXCEPT !.at = "loop", !.value = result]
      BY <1>5, <3>1, UpdatedFrames
    <3>3. frame.at = "loop" /\ frame.priority = Top.priority /\ frame.value = result
      BY <1>5, <3>2 DEF Frames
    <3>4. TreeAt(result) \in Phrases(words, from, currentNode, p)
      <4>1. TreeAt(result) \in Phrases(words, from, currentNode, p - 1) /\ p \in 1..MAX_PRIORITY
        BY <1>5, <2>3, <2>5 DEF Got, MAX_PRIORITY
      <4>2. QED
        BY <1>2, <4>1, PhrasesGrow
    <3>5. TreeAt(frame.value)' = TreeAt(result)
      BY <2>2, <3>3
    <3>6. QED
      BY <1>2, <2>1, <2>2, <3>1, <3>2, <3>3, <3>4, <3>5, GotoCleans
  <2>6. QED
    BY <2>4, <2>5
<1>8. ASSUME Top.at = "loop"
      PROVE  TreeAt(Top.value) \in Phrases(words, from, currentNode, p)
  BY <1>2, <1>8 DEF Progress
<1>9. CASE BinaryLoopEnd
  <2>1. /\ Top.at = "loop" /\ currentNode' = currentNode /\ Return(Top.value)
        /\ ~BinarySecond /\ ~UnaryOperand
        /\ \/ Token \in Operands \cup {"TERMINATOR", "CLOSE_BRACKET"}
           \/ /\ Token \in OperationNames \ Brackets
              /\ Priority[Token] # Top.priority
    BY <1>9, PlacesApart DEF BinaryLoopEnd, Active, Top
  <2>2. ~BinaryLoopTake
    <3>1. Token \in Operands \cup {"TERMINATOR", "CLOSE_BRACKET"} => Token \notin OperationNames \ Brackets
      BY KindsDisjoint DEF Brackets
    <3>2. QED
      BY <2>1, <3>1 DEF BinaryLoopTake
  <2>3. Moving(starts) /\ \A n : TreeAt(n)' = TreeAt(n)
    BY <1>3, <1>4, <2>1, <2>2, OtherTrees
  <2>4. PICK value \in Nodes : value = Top.value /\ value # NULL
    BY <1>5, <2>1, NodesNat DEF FrameOK, TypeInv, TypeOK
  <2>5. TreeAt(value)' \in Phrases(words, from, currentNode', p)
    BY <1>8, <2>1, <2>3, <2>4
  <2>6. Got(words, from, p, value, TreeAt(value)', currentNode', Token')
    BY <2>4, <2>5 DEF Got
  <2>7. QED
    BY <1>2, <2>1, <2>3, <2>4, <2>6, ReturnCleans
<1>10. CASE BinaryLoopTake
  <2>1. /\ Top.at = "loop" /\ currentNode' = currentNode + 1
        /\ Call([Top EXCEPT !.at = "second", !.node = currentNode], p - 1)
        /\ Token \in OperationNames \ Brackets /\ Priority[Token] = p
    BY <1>2, <1>10 DEF BinaryLoopTake, TakeOperation, Consume, Active, Top
  <2>2. Moving(starts) /\ \A n \in Nodes : n # currentNode => TreeAt(n)' = TreeAt(n)
    BY <1>4, <1>10, TakeTrees
  <2>3. Operates(Token, p) /\ Token # "TERMINATOR"
    BY <2>1, KindsDisjoint DEF Operates
  <2>4. currentNode + 1 \in 0..Len(words) /\ Token = words[currentNode + 1]
    BY <1>2, <2>3, WordUnderCursor
  <2>5. currentNode \in Nodes /\ Top.value \in Nodes /\ Top.value # currentNode
    <3>1. currentNode \in Nodes /\ currentNode \in Nat
      BY <1>10 DEF BinaryLoopTake, Readable, Nodes, TypeInv, TypeOK
    <3>2. Top.value \in Nodes /\ Holds(Top, Top.value)
      BY <1>5, <2>1 DEF FrameOK, Holds
    <3>3. Top.value < currentNode
      <4>1. Len(stack) \in 1..Len(stack)
        BY <1>1, StackTop DEF TypeInv
      <4>2. QED
        BY <3>2, <4>1 DEF LinkInv, HeldRoots, Top
    <3>4. QED
      BY <3>1, <3>2, <3>3
  <2>6. PICK frame \in GoodFrames : frame = [Top EXCEPT !.at = "second", !.node = currentNode]
    BY <1>5, <2>5, UpdatedFrames
  <2>7. /\ frame.at = "second" /\ frame.priority = Top.priority
        /\ frame.value = Top.value /\ frame.node = currentNode
    BY <1>5, <2>6 DEF Frames
  <2>8. TreeAt(frame.value)' = TreeAt(Top.value)
    BY <2>2, <2>5, <2>7
  <2>9. PICK new : new = currentNode + 1
    OBVIOUS
  <2>10. Resumes(words, frame, TreeAt(frame.value)', from, new)
    BY <1>2, <1>8, <2>1, <2>3, <2>4, <2>7, <2>8, <2>9 DEF Resumes
  <2>11. CalleePriority(frame) = p - 1
    BY <1>2, <2>7 DEF CalleePriority
  <2>12. Call(frame, p - 1) /\ new = currentNode'
    BY <2>1, <2>6, <2>9
  <2>13. QED
    BY <1>2, <1>5, <2>2, <2>7, <2>10, <2>11, <2>12, CallCleans
<1>11. CASE BinarySecond
  <2>1. /\ Top.at = "second" /\ currentNode' = currentNode /\ result # NULL
        /\ Goto([Top EXCEPT !.at = "loop", !.value = Top.node])
    BY <1>11 DEF BinarySecond, Active, Top
  <2>2. /\ Moving(starts) /\ Top.node \in Nodes
        /\ \A n \in Nodes : n = Top.node =>
             TreeAt(n)' = << n + 1, TreeAt(Top.value), TreeAt(result) >>
    BY <1>4, <1>11, SecondTrees
  <2>3. PICK frame \in GoodFrames : frame = [Top EXCEPT !.at = "loop", !.value = Top.node]
    BY <1>5, <2>2, UpdatedFrames
  <2>4. frame.at = "loop" /\ frame.priority = Top.priority /\ frame.value = Top.node
    BY <1>5, <2>3 DEF Frames
  <2>5. /\ start = Top.node + 1 /\ start \in 0..Len(words)
        /\ TreeAt(Top.value) \in Phrases(words, from, Top.node, p)
        /\ Operates(words[Top.node + 1], p)
        /\ TreeAt(result) \in Phrases(words, start, currentNode, p - 1)
    BY <1>2, <2>1 DEF Progress, Resumes, Got, CalleePriority
  <2>6. PICK k : k = Top.node /\ k \in Nodes /\ k \in 0..(Len(words) - 1)
    <3>1. Top.node \in Nat
      BY <2>2, NodesNat DEF TypeInv, TypeOK
    <3>2. Top.node \in 0..(Len(words) - 1)
      BY <1>2, <2>5, <3>1
    <3>3. QED
      BY <2>2, <3>2
  <2>7. << k + 1, TreeAt(Top.value), TreeAt(result) >> \in Phrases(words, from, currentNode, p)
    BY <1>2, <1>5, <2>5, <2>6, PhrasesGrow
  <2>8. TreeAt(k)' = << k + 1, TreeAt(Top.value), TreeAt(result) >>
    BY <2>2, <2>6
  <2>9. TreeAt(frame.value)' = TreeAt(k)'
    BY <2>4, <2>6
  <2>10. TreeAt(frame.value)' \in Phrases(words, from, currentNode', p)
    BY <2>1, <2>7, <2>8, <2>9
  <2>11. QED
    BY <1>2, <2>1, <2>2, <2>3, <2>4, <2>10, GotoCleans
<1>12. QED
  BY <1>6, <1>7, <1>9, <1>10, <1>11 DEF GetBinaryOperation

(* The steps of GetUnaryOperation that lose nothing parse phrases.            *)
LEMMA UnaryCleans ==
  ASSUME TypeInv, LinkInv, CursorInv, Acyclic, HasTrees, Terminated, status = "parsing",
         GetUnaryOperation, ~(UnaryOperand /\ result = NULL), NEW starts, Clean(starts)
  PROVE  \E next : Clean(next)'
<1>1. stack # <<>> /\ Top.fn = "GetUnaryOperation"
  BY DEF GetUnaryOperation, UnaryEntry, UnaryValue, UnaryTake, UnaryRefuse, UnaryOperand, Active, Top
<1>2. PICK words, p, from, start :
           /\ words = lexed.words /\ Len(words) \in Nat
           /\ p = Top.priority /\ p \in 0..MAX_PRIORITY
           /\ from = starts[Len(stack)] /\ from \in 0..Len(words)
           /\ start = starts[Len(stack) + 1] /\ Progress(from, start)
           /\ currentNode \in 0..Len(words)
           /\ Token = IF currentNode = Len(words) THEN "TERMINATOR" ELSE words[currentNode + 1]
  BY <1>1, Standing
<1>3. Next /\ lexed' = lexed
  BY LexedConstant DEF Next
<1>4. ASSUME CallersKept
      PROVE  Moving(starts)
  BY <1>1, <1>3, <1>4 DEF Moving
<1>5. /\ Top \in Frames /\ FrameOK(Top) /\ p = 2 /\ p - 1 = 1 /\ 1 \in 0..MAX_PRIORITY
      /\ 2 \in 1..MAX_PRIORITY
  <2>1. Top \in Frames /\ FrameOK(Top)
    BY <1>1, StackTop DEF TypeInv, Top, GoodFrames
  <2>2. QED
    BY <1>1, <1>2, <2>1 DEF FrameOK, MAX_PRIORITY
<1>6. ASSUME ~UnaryOperand
      PROVE  Moving(starts) /\ \A n : TreeAt(n)' = TreeAt(n)
  <2>1. ~BinaryLoopTake /\ ~BinarySecond
    BY <1>1 DEF BinaryLoopTake, BinarySecond, Active, Top
  <2>2. QED
    BY <1>3, <1>4, <1>6, <2>1, OtherTrees
<1>7. CASE UnaryEntry
  <2>1. /\ Top.at = "entry" /\ currentNode' = currentNode /\ currentNode = from
        /\ Call([Top EXCEPT !.at = "value"], 1) /\ ~UnaryOperand
    BY <1>2, <1>5, <1>7, PlacesApart DEF UnaryEntry, Active, Top, Progress
  <2>2. PICK frame \in GoodFrames : frame = [Top EXCEPT !.at = "value"]
    BY <1>5, UpdatedFrames
  <2>3. frame.at = "value" /\ frame.priority = Top.priority
    BY <1>5, <2>2 DEF Frames
  <2>4. CalleePriority(frame) = 1
    BY <1>2, <1>5, <2>3 DEF CalleePriority
  <2>5. Resumes(words, frame, TreeAt(frame.value)', from, from)
    BY <1>2, <2>3 DEF Resumes
  <2>6. QED
    BY <1>2, <1>5, <1>6, <2>1, <2>2, <2>3, <2>4, <2>5, CallCleans
<1>8. ASSUME Top.at = "value"
      PROVE  start = from /\ Got(words, from, 1, result, TreeAt(result), currentNode, Token)
  BY <1>2, <1>5, <1>8 DEF Progress, Resumes, CalleePriority
<1>9. CASE UnaryValue
  <2>1. /\ Top.at = "value" /\ currentNode' = currentNode /\ result # NULL /\ Return(result)
        /\ ~UnaryOperand
    BY <1>9, PlacesApart DEF UnaryValue, Active, Top
  <2>2. PICK value : value = result
    OBVIOUS
  <2>3. TreeAt(value) \in Phrases(words, from, currentNode, 1)
    BY <1>8, <2>1, <2>2 DEF Got
  <2>4. TreeAt(value)' \in Phrases(words, from, currentNode', 2)
    <3>1. 2 - 1 = 1
      OBVIOUS
    <3>2. TreeAt(value) \in Phrases(words, from, currentNode, 2)
      BY <1>2, <1>5, <2>3, <3>1, PhrasesGrow
    <3>3. QED
      BY <1>6, <2>1, <3>2
  <2>5. Got(words, from, 2, value, TreeAt(value)', currentNode', Token')
    BY <2>1, <2>2, <2>4 DEF Got
  <2>6. QED
    BY <1>2, <1>5, <1>6, <2>1, <2>2, <2>5, ReturnCleans
<1>10. CASE UnaryTake
  <2>1. /\ Top.at = "value" /\ currentNode' = currentNode + 1 /\ result = NULL
        /\ Call([Top EXCEPT !.at = "operand", !.node = currentNode], 1)
        /\ Readable /\ ~RefusedAsUnary(Token, 2) /\ ~UnaryOperand
    BY <1>2, <1>5, <1>10, PlacesApart DEF UnaryTake, TakeOperation, Consume, Active, Top
  <2>2. currentNode = from /\ Token \notin Operands
    BY <1>8, <2>1 DEF Got
  <2>3. Token \in TokenKinds /\ currentNode \in Nodes
    BY <2>1 DEF Readable, Token, TypeInv, TypeOK, Nodes
  <2>4. Operates(Token, 2) /\ Token # "TERMINATOR"
    BY <2>1, <2>2, <2>3 DEF RefusedAsUnary, TokenKinds, WordKinds, Operates
  <2>5. from + 1 \in 0..Len(words) /\ Token = words[from + 1]
    BY <1>2, <2>2, <2>4, WordUnderCursor
  <2>6. PICK frame \in GoodFrames : frame = [Top EXCEPT !.at = "operand", !.node = currentNode]
    BY <1>5, <2>3, UpdatedFrames
  <2>7. frame.at = "operand" /\ frame.priority = Top.priority /\ frame.node = currentNode
    BY <1>5, <2>6 DEF Frames
  <2>8. PICK new : new = from + 1
    OBVIOUS
  <2>9. Resumes(words, frame, TreeAt(frame.value)', from, new)
    BY <2>2, <2>4, <2>5, <2>7, <2>8 DEF Resumes
  <2>10. CalleePriority(frame) = 1
    BY <1>2, <1>5, <2>7 DEF CalleePriority
  <2>11. Call(frame, 1) /\ new = currentNode'
    BY <2>1, <2>2, <2>6, <2>8
  <2>12. QED
    BY <1>2, <1>5, <1>6, <2>1, <2>7, <2>9, <2>10, <2>11, CallCleans
<1>11. CASE UnaryRefuse
  <2>1. /\ Top.at = "value" /\ currentNode' = currentNode /\ Token' = Token /\ result = NULL
        /\ Return(NULL) /\ RefusedAsUnary(Token, 2) /\ ~UnaryOperand
    BY <1>2, <1>5, <1>11, PlacesApart DEF UnaryRefuse, Active, Top, Token
  <2>2. Token \notin Operands
    BY <1>8, <2>1 DEF Got
  <2>3. Got(words, from, 2, NULL, TreeAt(NULL)', currentNode', Token')
    BY <2>1, <2>2 DEF Got
  <2>4. QED
    BY <1>2, <1>5, <1>6, <2>1, <2>3, ReturnCleans
<1>12. CASE UnaryOperand
  <2>1. /\ Top.at = "operand" /\ currentNode' = currentNode /\ result # NULL
        /\ Return(Top.node)
    BY <1>12 DEF UnaryOperand, Active, Top
  <2>2. /\ Moving(starts) /\ Top.node \in Nodes
        /\ \A n \in Nodes : n = Top.node => TreeAt(n)' = << n + 1, TreeAt(result), << >> >>
    BY <1>4, <1>12, <2>1, OperandTrees
  <2>3. /\ Top.node = from /\ start = from + 1 /\ start \in 0..Len(words)
        /\ Operates(words[from + 1], 2)
        /\ TreeAt(result) \in Phrases(words, start, currentNode, 1)
    BY <1>2, <1>5, <2>1 DEF Progress, Resumes, Got, CalleePriority
  <2>4. << from + 1, TreeAt(result), << >> >> \in Phrases(words, from, currentNode, 2)
    <3>1. PICK arg : arg = TreeAt(result)
      OBVIOUS
    <3>2. arg \in Phrases(words, from + 1, currentNode, 1) /\ from + 1 \in 0..Len(words)
      BY <2>3, <3>1
    <3>3. << from + 1, arg, << >> >> \in Phrases(words, from, currentNode, 2)
      BY <1>2, <2>3, <3>2, PhrasesGrow
    <3>4. QED
      BY <3>1, <3>3
  <2>5. PICK value \in Nodes : value = Top.node /\ value # NULL
    BY <2>2, NodesNat DEF TypeInv, TypeOK
  <2>6. TreeAt(value)' = << value + 1, TreeAt(result), << >> >>
    BY <2>2, <2>5
  <2>7. TreeAt(value)' \in Phrases(words, from, currentNode', 2)
    BY <2>1, <2>3, <2>4, <2>5, <2>6
  <2>8. Got(words, from, 2, value, TreeAt(value)', currentNode', Token')
    BY <2>5, <2>7 DEF Got
  <2>9. QED
    BY <1>2, <1>5, <2>1, <2>2, <2>5, <2>8, ReturnCleans
<1>13. QED
  BY <1>7, <1>9, <1>10, <1>11, <1>12 DEF GetUnaryOperation

(* What is about to get its argument was taken as a function where no loss was met.          *)
LEMMA FunctionTaken ==
  ASSUME TypeInv, CursorInv, OriginalInv, Terminated, status = "parsing",
         UnaryOperand, NEW starts, Clean(starts)
  PROVE  tokens[Top.node] \notin Operands
<1>1. stack # <<>> /\ Top.at = "operand"
  BY DEF UnaryOperand, Active, Top
<1>2. PICK words, p, from, start :
           /\ words = lexed.words /\ Len(words) \in Nat
           /\ p = Top.priority /\ p \in 0..MAX_PRIORITY
           /\ from = starts[Len(stack)] /\ from \in 0..Len(words)
           /\ start = starts[Len(stack) + 1] /\ Progress(from, start)
           /\ currentNode \in 0..Len(words)
           /\ Token = IF currentNode = Len(words) THEN "TERMINATOR" ELSE words[currentNode + 1]
  BY <1>1, Standing
<1>3. /\ Top.node = from /\ start = from + 1 /\ start \in 0..Len(words)
      /\ Operates(words[from + 1], 2)
  BY <1>1, <1>2 DEF Progress, Resumes
<1>4. from # Len(words) /\ from \in Indices
  BY <1>2, <1>3 DEF Indices
<1>5. tokens[from] \in {NULL, words[from + 1]}
  BY <1>2, <1>4 DEF OriginalInv, Original
<1>6. QED
  BY <1>3, <1>5, OperatesIs, KindsNotNull DEF TokenKinds, WordKinds

(* The steps of GetSeparator that lose nothing parse phrases.                 *)
LEMMA SeparatorCleans ==
  ASSUME TypeInv, LinkInv, CursorInv, Acyclic, HasTrees, Terminated, status = "parsing",
         GetSeparator, ~SeparatorUnclosed, NEW starts, Clean(starts)
  PROVE  \E next : Clean(next)'
<1>1. stack # <<>> /\ Top.fn = "GetSeparator"
  BY DEF GetSeparator, GetNumber, SeparatorOpen, SeparatorRefuse, SeparatorInnerFails,
         SeparatorClose, SeparatorUnclosed, Active, Top
<1>2. PICK words, p, from, start :
           /\ words = lexed.words /\ Len(words) \in Nat
           /\ p = Top.priority /\ p \in 0..MAX_PRIORITY
           /\ from = starts[Len(stack)] /\ from \in 0..Len(words)
           /\ start = starts[Len(stack) + 1] /\ Progress(from, start)
           /\ currentNode \in 0..Len(words)
           /\ Token = IF currentNode = Len(words) THEN "TERMINATOR" ELSE words[currentNode + 1]
  BY <1>1, Standing
<1>3. Next /\ lexed' = lexed
  BY LexedConstant DEF Next
<1>4. Moving(starts) /\ \A n : TreeAt(n)' = TreeAt(n)
  <2>1. ~BinaryLoopTake /\ ~BinarySecond /\ ~UnaryOperand
    BY <1>1 DEF BinaryLoopTake, BinarySecond, UnaryOperand, Active, Top
  <2>2. CallersKept /\ \A n : TreeAt(n)' = TreeAt(n)
    BY <1>3, <2>1, OtherTrees
  <2>3. QED
    BY <1>1, <1>3, <2>2 DEF Moving
<1>5. /\ Top \in Frames /\ FrameOK(Top) /\ p = 0 /\ MAX_PRIORITY \in 0..MAX_PRIORITY
  <2>1. Top \in Frames /\ FrameOK(Top)
    BY <1>1, StackTop DEF TypeInv, Top, GoodFrames
  <2>2. QED
    BY <1>1, <1>2, <2>1 DEF FrameOK, MAX_PRIORITY
<1>6. ASSUME Top.at = "entry"
      PROVE  currentNode = from
  BY <1>2, <1>6 DEF Progress
<1>7. CASE GetNumber
  <2>1. /\ Top.at = "entry" /\ currentNode' = currentNode + 1 /\ Return(currentNode)
        /\ Token \in Operands /\ currentNode \in Nodes
    BY <1>7 DEF GetNumber, Consume, Active, Top, Readable, Nodes
  <2>2. Token # "TERMINATOR"
    BY <2>1, KindsDisjoint
  <2>3. from + 1 \in 0..Len(words) /\ words[from + 1] \in Operands
    BY <1>2, <1>6, <2>1, <2>2, WordUnderCursor
  <2>4. PICK value \in Nodes : value = currentNode /\ value # NULL
    BY <2>1, NodesNat DEF TypeInv, TypeOK
  <2>5. TreeAt(value)' = << value + 1, << >>, << >> >>
    <3>1. left[value] = NULL /\ right[value] = NULL
      BY <2>4, NodesNat DEF LinkInv, FreshBare, TypeInv, TypeOK
    <3>2. QED
      BY <1>4, <3>1, TreeOfIs DEF TreeAt
  <2>6. << from + 1, << >>, << >> >> \in Phrases(words, from, from + 1, 0)
    BY <1>2, <2>3, OperandPhrases
  <2>7. TreeAt(value)' \in Phrases(words, from, currentNode', 0)
    BY <1>6, <2>1, <2>4, <2>5, <2>6
  <2>8. Got(words, from, 0, value, TreeAt(value)', currentNode', Token')
    BY <2>4, <2>7 DEF Got
  <2>9. QED
    BY <1>2, <1>4, <1>5, <2>1, <2>4, <2>8, ReturnCleans
<1>8. CASE SeparatorOpen
  <2>1. /\ Top.at = "entry" /\ currentNode' = currentNode + 1 /\ Token = "OPEN_BRACKET"
        /\ Call([Top EXCEPT !.at = "inner"], MAX_PRIORITY)
    BY <1>8 DEF SeparatorOpen, Consume, Active, Top
  <2>2. from + 1 \in 0..Len(words) /\ words[from + 1] = "OPEN_BRACKET"
    BY <1>2, <1>6, <2>1, WordUnderCursor
  <2>3. PICK frame \in GoodFrames : frame = [Top EXCEPT !.at = "inner"]
    BY <1>5, UpdatedFrames
  <2>4. frame.at = "inner" /\ frame.priority = Top.priority
    BY <1>5, <2>3 DEF Frames
  <2>5. PICK new : new = from + 1
    OBVIOUS
  <2>6. Resumes(words, frame, TreeAt(frame.value)', from, new)
    BY <2>2, <2>4, <2>5 DEF Resumes
  <2>7. CalleePriority(frame) = MAX_PRIORITY
    BY <2>4 DEF CalleePriority
  <2>8. Call(frame, MAX_PRIORITY) /\ new = currentNode'
    BY <1>6, <2>1, <2>3, <2>5
  <2>9. QED
    BY <1>2, <1>4, <1>5, <2>4, <2>6, <2>7, <2>8, CallCleans
<1>9. CASE SeparatorRefuse
  <2>1. /\ Top.at = "entry" /\ currentNode' = currentNode /\ Token' = Token /\ Return(NULL)
        /\ Token \notin Operands \cup {"OPEN_BRACKET"}
    BY <1>9 DEF SeparatorRefuse, Active, Top, Token
  <2>2. Got(words, from, 0, NULL, TreeAt(NULL)', currentNode', Token')
    BY <1>6, <2>1 DEF Got
  <2>3. QED
    BY <1>2, <1>4, <1>5, <2>1, <2>2, ReturnCleans
<1>10. ASSUME Top.at = "inner"
       PROVE  /\ start = from + 1 /\ start \in 0..Len(words) /\ words[from + 1] = "OPEN_BRACKET"
              /\ Got(words, start, MAX_PRIORITY, result, TreeAt(result), currentNode, Token)
  BY <1>2, <1>10 DEF Progress, Resumes, CalleePriority
<1>11. CASE SeparatorInnerFails
  <2>1. /\ Top.at = "inner" /\ result = NULL /\ Return(NULL)
        /\ currentNode' = currentNode /\ Token' = Token
    BY <1>11 DEF SeparatorInnerFails, Active, Top, Token
  <2>2. Token \notin Operands /\ RefusedAsUnary(Token, 2)
    BY <1>10, <2>1 DEF Got, MAX_PRIORITY
  <2>3. Got(words, from, 0, NULL, TreeAt(NULL)', currentNode', Token')
    BY <2>1, <2>2 DEF Got
  <2>4. QED
    BY <1>2, <1>4, <1>5, <2>1, <2>3, ReturnCleans
<1>12. CASE SeparatorClose
  <2>1. /\ Top.at = "inner" /\ currentNode' = currentNode + 1 /\ Return(result)
        /\ result # NULL /\ Token = "CLOSE_BRACKET"
    BY <1>12 DEF SeparatorClose, Consume, Active, Top
  <2>2. currentNode \in 0..(Len(words) - 1) /\ words[currentNode + 1] = "CLOSE_BRACKET"
    BY <1>2, <2>1, WordUnderCursor
  <2>3. PICK value : value = result
    OBVIOUS
  <2>4. TreeAt(value) \in Phrases(words, from + 1, currentNode, MAX_PRIORITY)
    BY <1>10, <2>1, <2>3 DEF Got
  <2>5. TreeAt(value) \in Phrases(words, from, currentNode + 1, 0)
    BY <1>2, <1>10, <2>1, <2>2, <2>4, OperandPhrases
  <2>6. TreeAt(value)' \in Phrases(words, from, currentNode', 0)
    BY <1>4, <2>1, <2>5
  <2>7. Got(words, from, 0, value, TreeAt(value)', currentNode', Token')
    BY <2>1, <2>3, <2>6 DEF Got
  <2>8. QED
    BY <1>2, <1>4, <1>5, <2>1, <2>3, <2>7, ReturnCleans
<1>13. QED
  BY <1>7, <1>8, <1>9, <1>11, <1>12 DEF GetSeparator

-----------------------------------------------------------------------------
(* The first call starts cleanly.                                                       *)
LEMMA BeginCleans ==
  ASSUME TypeInv, LinkInv, BeginGrammar
  PROVE  OperandsBare' /\ \E starts : Clean(starts)'
<1>1. /\ lexed' = lexed /\ currentNode' = 0 /\ stack' = << Frame(MAX_PRIORITY) >>
      /\ left' = left /\ right' = right /\ tokens' = tokens /\ status = "lexed"
  BY DEF BeginGrammar, links
<1>2. Len(lexed.words) \in Nat
  BY LenProperties DEF TypeInv, TypeOK
<1>3. OperandsBare'
  BY <1>1, NothingLinked DEF OperandsBare, Nodes, Indices, Terminated
<1>4. PICK starts : starts = [i \in 1..2 |-> 0]
  OBVIOUS
<1>5. starts[1] = 0 /\ Len(stack') = 1 /\ stack' # <<>> /\ stack'[1] = Frame(MAX_PRIORITY)
  BY <1>1, <1>4
<1>6. Frame(MAX_PRIORITY).at = "entry" /\ Frame(MAX_PRIORITY).priority = MAX_PRIORITY
  BY DEF Frame
<1>7. Top' = Frame(MAX_PRIORITY)
  BY <1>5 DEF Top
<1>8. Progress(starts[1], starts[2])'
  BY <1>1, <1>5, <1>6, <1>7 DEF Progress
<1>9. /\ \A i \in 1..Len(stack') : starts[i] \in 0..Len(lexed'.words)
      /\ \A i \in 1..(Len(stack') - 1) : FALSE
  BY <1>1, <1>2, <1>5
<1>10. Clean(starts)'
  BY <1>5, <1>6, <1>8, <1>9 DEF Clean
<1>11. QED
  BY <1>3, <1>10

(* Every step either gives a root up or keeps all calls clean.                *)
LEMMA CleanStep ==
  ASSUME TypeInv, LinkInv, AliveInv, SumInv, CursorInv, Acyclic, HasTrees, OriginalInv, CleanInv,
         [Next]_vars
  PROVE  CleanInv'
<1> USE DEF vars, links
<1>1. lexed' = lexed /\ Terminated' = Terminated /\ Nodes' = Nodes
  BY LexedConstant DEF Terminated, Nodes
<1> SUFFICES ASSUME Terminated, status' = "parsing"
             PROVE  Lost' \/ (OperandsBare' /\ \E starts : Clean(starts)')
  BY <1>1 DEF CleanInv
<1>2. CASE UNCHANGED vars
  <2>1. CASE Lost
    <3>1. PICK v \in Nodes : GivenUp(v)
      BY <2>1 DEF Lost
    <3>2. GivenUp(v)'
      BY <1>2, <3>1 DEF GivenUp, Receiving, Top
    <3>3. QED
      BY <1>1, <3>2 DEF Lost
  <2>2. CASE ~Lost
    <3>1. OperandsBare'
      BY <1>1, <1>2, <2>2 DEF CleanInv, OperandsBare
    <3>2. PICK starts : Clean(starts)
      BY <1>2, <2>2 DEF CleanInv
    <3>3. \A n : TreeAt(n)' = TreeAt(n)
      BY <1>2, TreesStay DEF TreeAt
    <3>4. /\ TreeAt(Top.value)' = TreeAt(Top.value) /\ TreeAt(result)' = TreeAt(result)
          /\ Top' = Top /\ Token' = Token
          /\ \A i : TreeAt(stack[i].value)' = TreeAt(stack[i].value)
      BY <1>2, <3>3 DEF Top, Token
    <3>5. \A i : CalleePriority(stack[i])' = CalleePriority(stack[i])
      BY <1>2 DEF CalleePriority
    <3>6. CalleePriority(Top)' = CalleePriority(Top)
      BY <3>4 DEF CalleePriority
    <3>7. \A from, start : Progress(from, start)' <=> Progress(from, start)
      BY <1>2, <3>4, <3>6 DEF Progress
    <3>8. Clean(starts)'
      BY <1>2, <3>2, <3>4, <3>5, <3>7 DEF Clean
    <3>9. QED
      BY <3>1, <3>8
  <2>3. QED
    BY <2>1, <2>2
<1>3. CASE Next /\ status # "parsing"
  BY <1>3, IdleSteps, BeginCleans DEF RefuseLexerError, FinishParseFile
<1>4. CASE Next /\ status = "parsing"
  <2>1. GetBinaryOperation \/ GetUnaryOperation \/ GetSeparator
    BY <1>4 DEF Next, GetGrammar, RefuseLexerError, BeginGrammar, EndGrammar, AtTerminator, FinishParseFile,
                ReadOutside
  <2>2. CASE Lost
    <3>1. PICK v \in Nodes : GivenUp(v)
      BY <2>2 DEF Lost
    <3>2. GivenUp(v)'
      BY <1>4, <2>1, <3>1, LostStays
    <3>3. QED
      BY <1>1, <3>2 DEF Lost
  <2>3. CASE \/ BinaryLoopBracket
             \/ BinarySecondFails
             \/ UnaryOperand /\ result = NULL
             \/ SeparatorUnclosed
    BY <1>4, <2>3, LostNow
  <2>4. CASE ~Lost /\ ~BinaryLoopBracket /\ ~BinarySecondFails /\ ~SeparatorUnclosed
             /\ ~(UnaryOperand /\ result = NULL)
    <3>1. OperandsBare /\ \E starts : Clean(starts)
      BY <1>4, <2>4 DEF CleanInv
    <3>2. PICK starts : Clean(starts)
      BY <3>1
    <3>3. UnaryOperand => tokens[Top.node] \notin Operands
      BY <1>4, <3>2, FunctionTaken
    <3>4. OperandsBare'
      BY <1>4, <2>1, <3>1, <3>3, BareStep
    <3>5. \E next : Clean(next)'
      BY <1>4, <2>1, <2>4, <3>2, BinaryCleans, UnaryCleans, SeparatorCleans
    <3>6. QED
      BY <3>4, <3>5
  <2>5. QED
    BY <2>2, <2>3, <2>4
<1>5. QED
  BY <1>2, <1>3, <1>4

(* A root that was given up is none of the nodes below the one that is accepted.             *)
LEMMA LossShows ==
  ASSUME TypeInv, LinkInv, AliveInv, Acyclic, EndGrammar, Token = "TERMINATOR", result # NULL, Lost
  PROVE  Dropped' # {}
<1>1. /\ status = "parsing" /\ stack = <<>>
      /\ FinishParseFile(result, [tokens EXCEPT ![currentNode] = NULL])
  BY DEF EndGrammar, AtTerminator
<1>2. /\ left' = left /\ right' = right /\ lexed' = lexed /\ root' = result
      /\ tokens' = [tokens EXCEPT ![currentNode] = NULL]
  BY <1>1 DEF FinishParseFile
<1>3. Nodes' = Nodes /\ Below' = Below
  <2>1. Nodes' = Nodes
    BY <1>2 DEF Nodes, Indices, Terminated
  <2>2. QED
    BY <1>2, <2>1, BelowStays
<1>4. PICK v \in Nodes : GivenUp(v)
  BY DEF Lost
<1>5. v # result /\ v # currentNode /\ tokens[v] # NULL /\ parent[v] = NULL
      /\ result \in Nodes /\ NULL \notin Nodes
  <2>1. v \in Nat /\ currentNode \in Nat /\ NULL \notin Nodes /\ result \in Nodes
    BY NodesNat DEF TypeInv, TypeOK, Nodes
  <2>2. QED
    BY <1>1, <1>4, <2>1 DEF GivenUp, Receiving
<1>6. tokens'[v] # NULL
  BY <1>2, <1>5 DEF TypeInv, TypeOK, Nodes
<1>7. Heap.left = left /\ Heap.right = right /\ DOMAIN Heap.left = Nodes
  BY HeapIs
<1>8. PICK top \in Nat : \E rank \in [Nodes -> 0..top] : R!Ranked(Heap, rank, top)
  BY HeapIs
<1>9. PICK rank \in [Nodes -> 0..top] : R!Ranked(Heap, rank, top)
  BY <1>8
<1>10. R!IsBelow(Heap, Below)
  BY BelowIsBelow
<1>11. ASSUME v \in Below[result]
       PROVE  FALSE
  <2>1. PICK owner \in Below[result] : v \in R!Children(Heap, owner)
    BY <1>5, <1>7, <1>9, <1>10, <1>11, R!OwnerBelow
  <2>2. owner \in Nodes
    BY <1>5, <1>7, <1>9, <1>10, <2>1, R!BelowIs
  <2>3. parent[v] = owner
    BY <1>5, <1>7, <2>1, <2>2 DEF R!Children, LinkInv, LinksAgree
  <2>4. QED
    BY <1>5, <2>2, <2>3
<1>12. v \in Dropped'
  BY <1>2, <1>3, <1>6, <1>11 DEF Dropped
<1>13. QED
  BY <1>12

(* Without one, the tree is a sentence's.                                                  *)
LEMMA CleanShows ==
  ASSUME TypeInv, LinkInv, SumInv, Acyclic, CursorInv, HasTrees, LexerInv, CleanInv, ExpectInv,
         AcceptsSentences, Next, EndGrammar, Token = "TERMINATOR", result # NULL, ~Lost
  PROVE  /\ G!Sentences(lexed'.words) = {TreeAt(root)'}
         /\ \A n \in Below'[root'] : VerifyDifferentiatorInternal(n)'
<1>1. /\ status = "parsing" /\ stack = <<>> /\ currentNode \in Indices
      /\ tokens[currentNode] = "TERMINATOR"
      /\ FinishParseFile(result, [tokens EXCEPT ![currentNode] = NULL])
  BY DEF EndGrammar, AtTerminator, Readable, Token
<1>2. /\ left' = left /\ right' = right /\ lexed' = lexed /\ root' = result
      /\ tokens' = [tokens EXCEPT ![currentNode] = NULL] /\ status' = "NO_DIFFERENTIATOR_ERRORS"
  BY <1>1 DEF FinishParseFile
<1>3. Terminated /\ Terminated'
  BY <1>1, <1>2, TerminatorShows DEF Terminated, EndGrammar, Token
<1>4. OperandsBare /\ \E starts : Clean(starts)
  BY <1>1, <1>3 DEF CleanInv
<1>5. PICK starts : Clean(starts)
  BY <1>4
<1>6. currentNode = Len(lexed.words)
  <2>1. Len(lexed.words) \in Nat /\ lexed.words \in Seq(WordKinds)
    BY <1>3, LenProperties DEF CursorInv, WordsInv
  <2>2. currentNode \in 0..Len(lexed.words) /\ Original(currentNode) = "TERMINATOR"
    BY <1>1, <1>3 DEF CursorInv
  <2>3. ASSUME currentNode # Len(lexed.words)
        PROVE  FALSE
    <3>1. currentNode + 1 \in 1..Len(lexed.words)
      BY <2>1, <2>2, <2>3
    <3>2. lexed.words[currentNode + 1] \in WordKinds
      BY <2>1, <3>1, ElementOfSeq
    <3>3. lexed.words[currentNode + 1] = "TERMINATOR"
      BY <2>2, <2>3 DEF Original
    <3>4. QED
      BY <3>2, <3>3, KindsDisjoint DEF WordKinds
  <2>4. QED
    BY <2>3
<1>7. TreeAt(result) \in G!Sentences(lexed.words)
  BY <1>1, <1>5, <1>6, SentencesAre DEF Clean, Got
<1>8. AcceptsSentences'
  BY AcceptStep
<1>9. G!Sentences(lexed'.words) = {TreeAt(root)'}
  BY <1>2, <1>3, <1>7, <1>8 DEF AcceptsSentences, Done
<1>10. Nodes' = Nodes /\ Below' = Below
  <2>1. Nodes' = Nodes
    BY <1>2 DEF Nodes, Indices, Terminated
  <2>2. QED
    BY <1>2, <2>1, BelowStays
<1>11. ASSUME NEW n \in Below[result]
       PROVE  VerifyDifferentiatorInternal(n)'
  <2>1. n \in Nodes
    BY <1>1, <1>11, BelowComplete
  <2>2. tokens'[n] \in {tokens[n], NULL} /\ NULL \notin Operands
    BY <1>2, <2>1, KindsNotNull DEF TypeInv, TypeOK, Nodes, TokenKinds, WordKinds
  <2>3. QED
    BY <1>2, <1>4, <2>1, <2>2 DEF OperandsBare, VerifyDifferentiatorInternal
<1>12. QED
  BY <1>2, <1>9, <1>10, <1>11

(* What is accepted shows its loss or is the sentence.                        *)
LEMMA MisparseStep ==
  ASSUME TypeInv, LinkInv, AliveInv, SumInv, Acyclic, CursorInv, HasTrees, LexerInv, CleanInv,
         ExpectInv, AcceptsSentences, MisparseDropsTokens, [Next]_vars
  PROVE  MisparseDropsTokens'
<1> USE DEF vars, links
<1>1. lexed' = lexed /\ Nodes' = Nodes
  BY LexedConstant DEF Nodes
<1>2. CASE UNCHANGED vars
  <2>1. TreeAt(root)' = TreeAt(root)
    BY <1>2, TreesStay DEF TreeAt
  <2>2. Below' = Below
    BY <1>1, <1>2, BelowStays
  <2>3. Dropped' = Dropped /\ (Accepted' <=> Accepted)
    BY <1>1, <1>2, <2>2 DEF Dropped, Accepted
  <2>4. \A n : VerifyDifferentiatorInternal(n)' <=> VerifyDifferentiatorInternal(n)
    BY <1>2 DEF VerifyDifferentiatorInternal
  <2>5. QED
    BY <1>2, <2>1, <2>2, <2>3, <2>4 DEF MisparseDropsTokens
<1>3. ASSUME NEW tokens_left, FinishParseFile(NULL, tokens_left)
      PROVE  MisparseDropsTokens'
  BY <1>3 DEF FinishParseFile, MisparseDropsTokens, Accepted
<1>4. CASE Next /\ EndGrammar
  <2>1. CASE Token = "TERMINATOR" /\ result # NULL
    <3>1. CASE Lost
      BY <1>4, <2>1, <3>1, LossShows DEF MisparseDropsTokens
    <3>2. CASE ~Lost
      BY <1>4, <2>1, <3>2, CleanShows DEF MisparseDropsTokens
    <3>3. QED
      BY <3>1, <3>2
  <2>2. CASE ~(Token = "TERMINATOR" /\ result # NULL)
    BY <1>3, <1>4, <2>2 DEF EndGrammar, AtTerminator
  <2>3. QED
    BY <2>1, <2>2
<1>5. CASE Next /\ RefuseLexerError
  BY <1>3, <1>5 DEF RefuseLexerError
<1>6. CASE Next /\ ~EndGrammar /\ ~RefuseLexerError
  <2>1. status' \in {"parsing", "undefined"}
    BY <1>6
       DEF Next, GetGrammar, BeginGrammar, Active, GetBinaryOperation, BinaryEntry,
           BinaryFirst, BinaryLoopEnd, BinaryLoopBracket, BinaryLoopTake, BinarySecond,
           BinarySecondFails, GetUnaryOperation, UnaryEntry, UnaryValue, UnaryTake,
           UnaryRefuse, UnaryOperand, GetSeparator, GetNumber, SeparatorOpen,
           SeparatorRefuse, SeparatorInnerFails, SeparatorClose, SeparatorUnclosed,
           ReadOutside
  <2>2. QED
    BY <2>1 DEF MisparseDropsTokens, Accepted
<1>7. QED
  BY <1>2, <1>4, <1>5, <1>6

(* On every input: what is accepted with all its tokens in the tree is a sentence, the tree  *)
(* is the one of the grammar, and no operand has children.  A misparse has lost tokens.     *)
THEOREM LossesShow == Spec => []MisparseDropsTokens
<1> DEFINE Inv == /\ TypeInv /\ LinkInv /\ AliveInv /\ SumInv /\ CursorInv /\ Acyclic /\ HasTrees
                  /\ LexerInv /\ OriginalInv /\ ExpectInv /\ CleanInv
                  /\ AcceptsSentences /\ MisparseDropsTokens
<1>1. Init => Inv
  <2>1. Init => ExpectInv /\ CleanInv /\ AcceptsSentences /\ MisparseDropsTokens
    BY DEF Init, ExpectInv, CleanInv, AcceptsSentences, MisparseDropsTokens, Done, Accepted
  <2>2. ASSUME Init PROVE AliveInv
    <3>1. status = "lexed" /\ \A n \in Nodes : left[n] = NULL /\ right[n] = NULL /\ parent[n] = NULL
      BY <2>2 DEF Init, Nodes
    <3>2. QED
      BY <3>1 DEF AliveInv, LinksAlive, OwnersBehind
  <2>3. QED
    BY <2>1, <2>2, TypeInit, LinkInit, SumInit, CursorInit, AcyclicInit, TreesInit, LexerInit,
       OriginalInit
<1>2. Inv /\ [Next]_vars => Inv'
  BY TypeStep, LinkStep, AliveStep, SumStep, CursorStep, AcyclicStep, TreesStep, LexerStep,
     OriginalStep, ExpectStep, CleanStep, AcceptStep, MisparseStep
<1>3. Inv => MisparseDropsTokens
  OBVIOUS
<1>4. QED
  BY <1>1, <1>2, <1>3, PTL DEF Spec

=============================================================================
