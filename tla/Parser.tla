------------------------------- MODULE Parser -------------------------------
(***************************************************************************)
(* The recursive descent parser (RecursiveDescentParser.cpp) as a stack     *)
(* machine: one frame per active C++ call, one action per piece of code      *)
(* between two calls.  The parser works in place on the nodes the lexer      *)
(* allocated: a token is a tree node, named here by its index in             *)
(* context->tokens, so linking the tree means writing left, right and parent *)
(* of tokens.  A destroyed bracket or terminator leaves NULL in the array, as  *)
(* does a node the lexer could not allocate.                                 *)
(***************************************************************************)
EXTENDS Operations, Sequences, FiniteSets

CONSTANTS
  NULL,         (* The null pointer.                                         *)
  LexerResults  (* What TreeLexer may hand over: records of the words it      *)
                (* turned into tokens and of how it returned.                 *)

(* How TreeLexer can return: normally, having appended TERMINATOR; after      *)
(* WORD_TOO_LONG, which it also stores in context->error; or having lost       *)
(* something to a failed allocation.  It only returns the error of the array    *)
(* or the name table, and ParseFile drops what it returns; and it does not     *)
(* notice that a node, perhaps TERMINATOR's, is NULL.                          *)
LexerOutcomes == {"NO_PARSING_ERRORS", "WORD_TOO_LONG", "LOST_ERROR"}

ASSUME NullAssumption  == NULL \notin Nat \cup TokenKinds
ASSUME LexerAssumption ==
  \A lexed \in LexerResults :
    /\ lexed.words \in Seq(TokenKinds \cup {NULL})
    /\ lexed.outcome \in LexerOutcomes
    /\ lexed.outcome = "NO_PARSING_ERRORS" => lexed.words \in Seq(WordKinds)
    /\ \A i \in 1..Len(lexed.words) :
         lexed.words[i] = "TERMINATOR" =>
           i = Len(lexed.words) /\ \E j \in 1..Len(lexed.words) : lexed.words[j] = NULL

VARIABLES
  lexed,          (* What the lexer handed over.                              *)
  tokens,         (* context->tokens.data: a token kind, NULL once destroyed or *)
                  (* if it never was allocated.                               *)
  currentNode,    (* context->currentNode, the cursor.                        *)
  error,          (* context->error, a set of ParsingError flags.             *)
  stack,          (* The active calls, the innermost one last.                *)
  result,         (* What the call that returned last returned.               *)
  left, right, parent, depth,  (* The fields of the nodes.                    *)
  root,           (* differentiator->expressionTree.root->left.               *)
  reassignments,  (* The reassignments buffer.                                *)
  refused,        (* History: the nodes that could not be written to it.       *)
  status          (* Progress of ParseFile.                                   *)

links == <<left, right, parent, depth>>
vars  == <<lexed, tokens, currentNode, error, stack, result, links, root,
           reassignments, refused, status>>

Heaps == INSTANCE Reassignments

Terminated == lexed.outcome = "NO_PARSING_ERRORS"
Indices    == IF Terminated THEN 0..Len(lexed.words) ELSE 0..(Len(lexed.words) - 1)

(***************************************************************************)
(* Frames.  `at' is the place a call is suspended at or about to execute.    *)
(***************************************************************************)
NextFunction ==
  [priority \in 0..MAX_PRIORITY |->
     CASE priority = 0         -> "GetSeparator"
       [] priority = 2         -> "GetUnaryOperation"
       [] priority \in {1, 3, 4} -> "GetBinaryOperation"]

Frame(priority) ==
  [fn |-> NextFunction[priority], priority |-> priority, at |-> "entry",
   value |-> NULL, node |-> NULL]

Active(fn, at) ==
  /\ status = "parsing"
  /\ stack # <<>>
  /\ stack[Len(stack)].fn = fn
  /\ stack[Len(stack)].at = at

Top    == stack[Len(stack)]

Callers == SubSeq(stack, 1, Len(stack) - 1)

(* NextFunction [priority] (context, differentiator, priority), leaving the    *)
(* caller suspended as `frame'.                                               *)
Call(frame, priority) ==
  /\ stack' = Append(Append(Callers, frame), Frame(priority))
  /\ UNCHANGED result

Goto(frame) == /\ stack' = Append(Callers, frame)
               /\ UNCHANGED result

Return(value) == /\ stack' = Callers
                 /\ result' = value

(* Dereferencing context->tokens.data [context->currentNode] is defined only  *)
(* inside the array and on a token that has not been destroyed.               *)
Readable == currentNode \in Indices /\ tokens[currentNode] # NULL
Token    == tokens[currentNode]

(* Fault: the cursor advances twice for one token.                            *)
ConsumeTwice == currentNode' = currentNode + 2

Consume == currentNode' = currentNode + 1

(* Fault: the frame keeps the cursor after it moved, not before.               *)
TakeNextOperation(at) ==
  /\ Consume
  /\ Call([Top EXCEPT !.at = at, !.node = currentNode + 1], Top.priority - 1)

(* Fault: the right operand is parsed at the level of its own operation.       *)
TakeRightAssociative(at) ==
  /\ Consume
  /\ Call([Top EXCEPT !.at = at, !.node = currentNode], Top.priority)

(* operationNode = the token under the cursor, then its operand one level down. *)
TakeOperation(at) ==
  /\ Consume
  /\ Call([Top EXCEPT !.at = at, !.node = currentNode], Top.priority - 1)

(* Fault: the child is linked but does not learn of its parent.                *)
AdoptSilently(child, owner) == UNCHANGED parent

Adopt(child, owner) == parent' = [parent EXCEPT ![child] = owner]

(* Fault: the token before the bracket is destroyed.                           *)
DestroyPrevious(n) == tokens' = [tokens EXCEPT ![n - 1] = NULL]

DestroyToken(n) == tokens' = [tokens EXCEPT ![n] = NULL]

-----------------------------------------------------------------------------
(* TreeLexer has run: the tokens are leaves of no tree yet.                   *)
Init ==
  /\ lexed \in LexerResults
  /\ tokens = [i \in Indices |->
                 IF i = Len(lexed.words) THEN "TERMINATOR" ELSE lexed.words[i + 1]]
  /\ currentNode = 0
  /\ error = IF lexed.outcome = "WORD_TOO_LONG" THEN {"WORD_TOO_LONG"} ELSE {}
  /\ stack = <<>>
  /\ result = NULL
  /\ left   = [i \in Indices |-> NULL]
  /\ right  = [i \in Indices |-> NULL]
  /\ parent = [i \in Indices |-> NULL]
  /\ depth  = [i \in Indices |-> 1]
  /\ root = NULL
  /\ reassignments = <<>> /\ refused = {}
  /\ status = "lexed"

(* The end of ParseFile, once GetGrammar has returned tree: GetReassignments  *)
(* on an accepted tree, or the destruction of every token that is left.       *)
FinishParseFile(tree, left_over) ==
  LET heap == [left |-> left, right |-> right, depth |-> depth,
               operand |-> [i \in Indices |-> tokens[i] \in Operands]]
      deep == Heaps!AppendedBy(heap, tree)
  IN  /\ root' = tree
      /\ depth' = Heaps!DepthAfter(heap, tree)
      /\ refused' \in SUBSET {n \in Indices : \E i \in DOMAIN deep : deep[i] = n}
      /\ reassignments' = Heaps!Written(deep, refused')
      /\ tokens' = IF tree = NULL THEN [i \in Indices |-> NULL] ELSE left_over
      /\ status' = IF tree = NULL THEN "INPUT_FILE_ERROR" ELSE "NO_DIFFERENTIATOR_ERRORS"
      /\ UNCHANGED <<lexed, currentNode, stack, result, left, right, parent>>

(* GetGrammar with an error left by the lexer returns NULL at once.           *)
RefuseLexerError ==
  /\ status = "lexed"
  /\ error # {}
  /\ FinishParseFile(NULL, tokens)
  /\ UNCHANGED error

BeginGrammar ==
  /\ status = "lexed"
  /\ error = {}
  /\ status' = "parsing"
  /\ currentNode' = 0
  /\ stack' = <<Frame(MAX_PRIORITY)>>
  /\ UNCHANGED <<lexed, tokens, error, result, links, root, reassignments, refused>>

(* Fault: the number of the tokens is asked instead of the token.               *)
AtLastToken == currentNode + 1 \notin Indices

AtTerminator == Token = "TERMINATOR"

(* GetGrammar accepts whatever tree it got if the cursor is at TERMINATOR.     *)
EndGrammar ==
  /\ status = "parsing"
  /\ stack = <<>>
  /\ Readable
  /\ IF AtTerminator
     THEN /\ error' = {}
          /\ FinishParseFile(result, [tokens EXCEPT ![currentNode] = NULL])
     ELSE /\ UNCHANGED error
          /\ FinishParseFile(NULL, tokens)

-----------------------------------------------------------------------------
(* GetBinaryOperation                                                         *)

(* The left operand is one level down.                                        *)
BinaryEntry ==
  /\ Active("GetBinaryOperation", "entry")
  /\ Call([Top EXCEPT !.at = "first"], Top.priority - 1)
  /\ UNCHANGED <<lexed, tokens, currentNode, error, links, root, reassignments, refused, status>>

BinaryFirst ==
  /\ Active("GetBinaryOperation", "first")
  /\ IF result = NULL
     THEN Return(NULL)
     ELSE Goto([Top EXCEPT !.at = "loop", !.value = result])
  /\ UNCHANGED <<lexed, tokens, currentNode, error, links, root, reassignments, refused, status>>

(* Fault: an operation of another level is passed over, not left to its call.    *)
BinaryLoopSpins ==
  /\ Active("GetBinaryOperation", "loop")
  /\ Readable
  /\ IF Token \in Operands \cup {"TERMINATOR", "CLOSE_BRACKET"}
     THEN Return(Top.value)
     ELSE /\ Token # "OPEN_BRACKET" /\ Priority[Token] # Top.priority
          /\ Goto(Top)
  /\ UNCHANGED <<lexed, tokens, currentNode, error, links, root, reassignments, refused, status>>

(* The loop ends: no operation, or one that another call must take.           *)
BinaryLoopEnd ==
  /\ Active("GetBinaryOperation", "loop")
  /\ Readable
  /\ \/ Token \in Operands \cup {"TERMINATOR", "CLOSE_BRACKET"}
     \/ /\ Token \in OperationNames \ Brackets
        /\ Priority[Token] # Top.priority
  /\ Return(Top.value)
  /\ UNCHANGED <<lexed, tokens, currentNode, error, links, root, reassignments, refused, status>>

BinaryLoopBracket ==
  /\ Active("GetBinaryOperation", "loop")
  /\ Readable
  /\ Token = "OPEN_BRACKET"
  /\ error' = error \cup {"BINARY_OPERATION_EXPECTED"}
  /\ Return(NULL)
  /\ UNCHANGED <<lexed, tokens, currentNode, links, root, reassignments, refused, status>>

(* Take the operation, hang the left operand below it, parse the right one.   *)
BinaryLoopTake ==
  /\ Active("GetBinaryOperation", "loop")
  /\ Readable
  /\ Token \in OperationNames \ Brackets
  /\ Priority[Token] = Top.priority
  /\ TakeOperation("second")
  /\ left' = [left EXCEPT ![currentNode] = Top.value]
  /\ Adopt(Top.value, currentNode)
  /\ UNCHANGED <<lexed, tokens, error, right, depth, root, reassignments, refused, status>>

BinarySecond ==
  /\ Active("GetBinaryOperation", "second")
  /\ result # NULL
  /\ right' = [right EXCEPT ![Top.node] = result]
  /\ Adopt(result, Top.node)
  /\ depth' = [depth EXCEPT ![Top.node] = depth[result] + depth[Top.value]]
  /\ Goto([Top EXCEPT !.at = "loop", !.value = Top.node])
  /\ UNCHANGED <<lexed, tokens, currentNode, error, left, root, reassignments, refused, status>>

(* Fault: an operation is returned without its right operand.                   *)
BinarySecondForgiven ==
  /\ Active("GetBinaryOperation", "second")
  /\ result = NULL
  /\ Return(Top.node)
  /\ UNCHANGED <<lexed, tokens, currentNode, error, links, root, reassignments, refused, status>>

BinarySecondFails ==
  /\ Active("GetBinaryOperation", "second")
  /\ result = NULL
  /\ Return(NULL)
  /\ UNCHANGED <<lexed, tokens, currentNode, error, links, root, reassignments, refused, status>>

-----------------------------------------------------------------------------
(* GetUnaryOperation                                                          *)

UnaryEntry ==
  /\ Active("GetUnaryOperation", "entry")
  /\ Call([Top EXCEPT !.at = "value"], Top.priority - 1)
  /\ UNCHANGED <<lexed, tokens, currentNode, error, links, root, reassignments, refused, status>>

UnaryValue ==
  /\ Active("GetUnaryOperation", "value")
  /\ result # NULL
  /\ Return(result)
  /\ UNCHANGED <<lexed, tokens, currentNode, error, links, root, reassignments, refused, status>>

(* Fault: the terminator is taken for a function.                              *)
RefusedButTerminator(token, priority) ==
  \/ token \in Brackets
  \/ token \in OperationNames \ Brackets /\ Priority[token] # priority

(* The tokens the SyntaxAsserts refuse.  They are only applied to operation   *)
(* nodes: an operand passes.                                                  *)
RefusedAsUnary(token, priority) ==
  \/ token \in Brackets \cup {"TERMINATOR"}
  \/ token \in OperationNames \ Brackets /\ Priority[token] # priority

(* The level below returned NULL.  Its error is forgotten and the token under *)
(* the cursor, wherever the failed attempt left it, is taken as a function.   *)
UnaryTake ==
  /\ Active("GetUnaryOperation", "value")
  /\ result = NULL
  /\ Readable
  /\ ~RefusedAsUnary(Token, Top.priority)
  /\ error' = {}
  /\ TakeOperation("operand")
  /\ UNCHANGED <<lexed, tokens, links, root, reassignments, refused, status>>

UnaryRefuse ==
  /\ Active("GetUnaryOperation", "value")
  /\ result = NULL
  /\ Readable
  /\ RefusedAsUnary(Token, Top.priority)
  /\ error' = {"UNARY_EXPRESSION_EXPECTED"}
  /\ Return(NULL)
  /\ UNCHANGED <<lexed, tokens, currentNode, links, root, reassignments, refused, status>>

UnaryOperand ==
  /\ Active("GetUnaryOperation", "operand")
  /\ left' = [left EXCEPT ![Top.node] = result]
  /\ IF result = NULL
     THEN /\ error' = error \cup {"NUMBER_EXPECTED"}
          /\ Return(NULL)
          /\ UNCHANGED <<parent, depth>>
     ELSE /\ Adopt(result, Top.node)
          /\ depth' = [depth EXCEPT ![Top.node] = depth[result]]
          /\ Return(Top.node)
          /\ UNCHANGED error
  /\ UNCHANGED <<lexed, tokens, currentNode, right, root, reassignments, refused, status>>

-----------------------------------------------------------------------------
(* GetSeparator, and GetNumber which only it calls                            *)

GetNumber ==
  /\ Active("GetSeparator", "entry")
  /\ Readable
  /\ Token \in Operands
  /\ Consume
  /\ Return(currentNode)
  /\ UNCHANGED <<lexed, tokens, error, links, root, reassignments, refused, status>>

(* The opening bracket is destroyed before what it opens is known to close.   *)
SeparatorOpen ==
  /\ Active("GetSeparator", "entry")
  /\ Readable
  /\ Token = "OPEN_BRACKET"
  /\ error' = {}
  /\ DestroyToken(currentNode)
  /\ Consume
  /\ Call([Top EXCEPT !.at = "inner"], MAX_PRIORITY)
  /\ UNCHANGED <<lexed, links, root, reassignments, refused, status>>

SeparatorRefuse ==
  /\ Active("GetSeparator", "entry")
  /\ Readable
  /\ Token \notin Operands \cup {"OPEN_BRACKET"}
  /\ error' = {"NUMBER_EXPECTED"}
  /\ Return(NULL)
  /\ UNCHANGED <<lexed, tokens, currentNode, links, root, reassignments, refused, status>>

SeparatorInnerFails ==
  /\ Active("GetSeparator", "inner")
  /\ result = NULL
  /\ Return(NULL)
  /\ UNCHANGED <<lexed, tokens, currentNode, error, links, root, reassignments, refused, status>>

SeparatorClose ==
  /\ Active("GetSeparator", "inner")
  /\ result # NULL
  /\ Readable
  /\ Token = "CLOSE_BRACKET"
  /\ DestroyToken(currentNode)
  /\ Consume
  /\ Return(result)
  /\ UNCHANGED <<lexed, error, links, root, reassignments, refused, status>>

(* Fault: a missing closing bracket is forgiven.                               *)
UnclosedForgiven ==
  /\ Active("GetSeparator", "inner")
  /\ result # NULL
  /\ Readable
  /\ Token # "CLOSE_BRACKET"
  /\ Return(result)
  /\ UNCHANGED <<lexed, tokens, currentNode, error, links, root, reassignments, refused, status>>

SeparatorUnclosed ==
  /\ Active("GetSeparator", "inner")
  /\ result # NULL
  /\ Readable
  /\ Token # "CLOSE_BRACKET"
  /\ error' = error \cup {"BRACKET_EXPECTED"}
  /\ Return(NULL)
  /\ UNCHANGED <<lexed, tokens, currentNode, links, root, reassignments, refused, status>>

-----------------------------------------------------------------------------
(* The places that read the token under the cursor.                           *)
Reading ==
  \/ status = "parsing" /\ stack = <<>>
  \/ Active("GetBinaryOperation", "loop")
  \/ Active("GetUnaryOperation", "value") /\ result = NULL
  \/ Active("GetSeparator", "entry")
  \/ Active("GetSeparator", "inner") /\ result # NULL

(* Reading past the end of the array or through a destroyed token is          *)
(* undefined: the model stops there.                                          *)
ReadOutside ==
  /\ Reading
  /\ ~Readable
  /\ status' = "undefined"
  /\ UNCHANGED <<lexed, tokens, currentNode, error, stack, result, links, root, reassignments,
                 refused>>

GetBinaryOperation ==
  \/ BinaryEntry \/ BinaryFirst \/ BinaryLoopEnd \/ BinaryLoopBracket
  \/ BinaryLoopTake \/ BinarySecond \/ BinarySecondFails

GetUnaryOperation ==
  UnaryEntry \/ UnaryValue \/ UnaryTake \/ UnaryRefuse \/ UnaryOperand

GetSeparator ==
  \/ GetNumber \/ SeparatorOpen \/ SeparatorRefuse
  \/ SeparatorInnerFails \/ SeparatorClose \/ SeparatorUnclosed

GetGrammar == RefuseLexerError \/ BeginGrammar \/ EndGrammar

Next ==
  \/ GetGrammar
  \/ GetBinaryOperation
  \/ GetUnaryOperation
  \/ GetSeparator
  \/ ReadOutside

Spec     == Init /\ [][Next]_vars
(* One thread runs the parser to its end: no step waits for anything.          *)
FairSpec == Spec /\ WF_vars(Next)

-----------------------------------------------------------------------------
(* Types                                                                      *)

Nodes  == Indices
Frames ==
  [fn : {"GetBinaryOperation", "GetUnaryOperation", "GetSeparator"},
   priority : 0..MAX_PRIORITY,
   at : {"entry", "first", "loop", "second", "value", "operand", "inner"},
   value : Nodes \cup {NULL}, node : Nodes \cup {NULL}]

(* The numbers stay numbers and the pointers stay pointers into the token      *)
(* array.  What GetReassignments computes at the end is checked by             *)
(* RegisteredBottomUp.                                                         *)
TypeOK ==
  /\ lexed.words \in Seq(TokenKinds \cup {NULL}) /\ lexed.outcome \in LexerOutcomes
  /\ tokens \in [Indices -> TokenKinds \cup {NULL}]
  /\ currentNode \in Nat
  /\ stack \in Seq(Frames)
  /\ result \in Nodes \cup {NULL}
  /\ left   \in [Indices -> Nodes \cup {NULL}]
  /\ right  \in [Indices -> Nodes \cup {NULL}]
  /\ parent \in [Indices -> Nodes \cup {NULL}]
  /\ root \in Nodes \cup {NULL}
  /\ refused \subseteq Nodes
  /\ status \in {"lexed", "parsing", "undefined",
                 "NO_DIFFERENTIATOR_ERRORS", "INPUT_FILE_ERROR"}
  /\ status \in {"lexed", "parsing"} => depth \in [Indices -> Nat \ {0}]

-----------------------------------------------------------------------------
(* Properties                                                                 *)

Accepted == status = "NO_DIFFERENTIATOR_ERRORS"
Done     == status \in {"NO_DIFFERENTIATOR_ERRORS", "INPUT_FILE_ERROR", "undefined"}

(* The parser has no length to compare its cursor with: only the TERMINATOR   *)
(* the lexer appends stops it.  As long as the lexer lost nothing, the cursor  *)
(* never runs past it and never meets a bracket that was already destroyed,    *)
(* however often the parser backs out of a failed attempt.                     *)
CursorSafe == Terminated => status # "undefined"

(* A child's parent pointer names the node that owns it, so no node ever has   *)
(* two owners: the printer and the optimizer climb these pointers.  It must    *)
(* survive the attempts that are abandoned after linking some nodes.           *)
LinksAgree ==
  \A n \in Nodes : \A child \in {left[n], right[n]} \ {NULL} :
    /\ parent[child] = n
    /\ left[n] # right[n]

(* While parsing, nothing that is still linked has been destroyed: DestroySingleNode *)
(* is only ever called on brackets and the terminator.                        *)
LinkedAlive ==
  ~Done => \A n \in Nodes : \A m \in {left[n], right[n], parent[n]} \ {NULL} :
             tokens[n] # NULL /\ tokens[m] # NULL

(* The nodes below n in the finished tree, n included.                        *)
Below ==
  LET below[n \in Nodes] ==
        {n} \cup (IF left[n]  = NULL THEN {} ELSE below[left[n]])
            \cup (IF right[n] = NULL THEN {} ELSE below[right[n]])
  IN  below

(* The order the report's last loop depends on: each node is registered once, *)
(* is an operation of the accepted tree, and comes after every registered node *)
(* below it.  A node is registered, or could not be, exactly if it ends with    *)
(* depth 1 although it was not a leaf or a function of a leaf.                 *)
RegisteredBottomUp ==
  /\ Len(reassignments) = Cardinality({reassignments[i] : i \in DOMAIN reassignments})
  /\ \A i, j \in DOMAIN reassignments :
       i < j => reassignments[j] \notin Below[reassignments[i]]
  /\ Accepted => \A n \in Below[root] :
       n \in refused \/ (\E i \in DOMAIN reassignments : reassignments[i] = n)
         <=> tokens[n] \notin Operands /\ depth[n] = 1
             /\ \E m \in Below[n] : right[m] # NULL

(* The node is a number, a variable or an operation, and has the operands its rule of  *)
(* Differentiate, its evaluation and its neutral elements take.                   *)
HasOperands(n) ==
  /\ tokens[n] \in Operands \cup (OperationNames \ Brackets)
  /\ tokens[n] \in BinaryOps \cup {"EQUALS"} => left[n] # NULL /\ right[n] # NULL
  /\ tokens[n] \in FunctionOps => left[n] # NULL
  /\ tokens[n] \notin BinaryOps \cup {"EQUALS"} => right[n] = NULL

(* Nothing checks the operands before the rules dereference them.  Whatever the      *)
(* parser linked, gave up and took as a function on the way, an operation of an     *)
(* accepted tree has its operands, misparses included.                            *)
FitsDifferentiate == Accepted => \A n \in Below[root] : HasOperands(n)

(* ParseFile drops what TreeLexer returns, and a node that was not allocated is not  *)
(* even an error.  Yet half a line is never taken for the whole: an expression is     *)
(* accepted only if the lexer lost neither the end of the line nor a token of it,     *)
(* as the parser does not get past a token that is not there.                     *)
LostNotAccepted == Accepted => Terminated

(* Parsing ends on every input: dropping an error in order to try a function   *)
(* never sends the parser round the same tokens again.                         *)
Termination == <>Done

(* What VerifyDifferentiatorInternal asks of a node: a number or a variable has  *)
(* no children.                                                               *)
VerifyDifferentiatorInternal(n) ==
  tokens[n] \in Operands => left[n] = NULL /\ right[n] = NULL

=============================================================================
