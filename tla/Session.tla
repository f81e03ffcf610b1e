------------------------------- MODULE Session -------------------------------
(***************************************************************************)
(* One execution of main: what is initialised, used and destroyed, in which    *)
(* order, when any of the calls fails.  Nearly every error is returned to a      *)
(* caller that ignores it, so the program goes on with what it has.             *)
(*                                                                         *)
(* The work of the components is here only by its outcomes: the lexer, the      *)
(* parser, the rules and the optimizer have modules of their own, where the     *)
(* nodes they use and free are followed.  A node that cannot be allocated is an    *)
(* outcome here: the rules and the optimizer go on without it.                   *)
(***************************************************************************)
EXTENDS Naturals

CONSTANT NULL

(* The two structures of main; both start as zeros.                            *)
Differentiators == {"expression", "derivative"}

VARIABLES
  pc,         (* The next call of main, ParseFile or the report.               *)
  buffer,     (* reassignmentBuffer                                           *)
  table,      (* nameTable                                                    *)
  root,       (* expressionTree.root of each structure.                        *)
  nameTable,  (* The pointer to the name table of each structure.               *)
  errors,     (* The errors of each structure.                                 *)
  variables,  (* Is there a variable in the tree of the structure?              *)
  registered, (* What the optimizer made of nodes that reassignmentBuffer holds.   *)
  failed,     (* History: the calls that failed.                               *)
  leaked      (* History: what is allocated or open and no pointer leads to.     *)

trees == <<root, nameTable, errors, variables, registered>>
vars  == <<pc, buffer, table, trees, failed, leaked>>

ASSUME NullIsNoString ==
  NULL \notin {"EQUALS", "derived", "destroyed", "table"}

Init ==
  /\ pc = "InitBuffer"
  /\ buffer = "zero" /\ table = "zero"
  /\ root      = [d \in Differentiators |-> NULL]
  /\ nameTable = [d \in Differentiators |-> NULL]
  /\ errors    = [d \in Differentiators |-> {}]
  /\ variables = [d \in Differentiators |-> FALSE]
  /\ registered = {}
  /\ failed = {} /\ leaked = {}

Goto(place) == pc' = place
Fail(call)  == failed' = failed \cup {call}

InitReassignments ==
  /\ pc = "InitBuffer"
  /\ \/ buffer' = "ready" /\ UNCHANGED failed
     \/ Fail("InitBuffer") /\ UNCHANGED buffer
  /\ Goto("InitNameTable")
  /\ UNCHANGED <<table, trees, leaked>>

InitNameTable ==
  /\ pc = "InitNameTable"
  /\ \/ table' = "ready" /\ UNCHANGED failed
     \/ Fail("InitNameTable") /\ UNCHANGED table
  /\ Goto("InitDifferentiator")
  /\ UNCHANGED <<buffer, trees, leaked>>

(* Fault: the error is returned, but the structure is not marked.                *)
ForgetError(d) == {}

(* Fault: the structure is marked with the error of another component.            *)
OtherError(d) == {"DUMP_ERROR"}

TreeError(d) == {"TREE_ERROR"}

(* Fault: the structure never learns where the name table is.                     *)
NoTable == NULL

Table == "table"

TreeFailure(d) == IF d = "expression" THEN "InitTree expression" ELSE "InitTree derivative"

(* A failed InitTree returns before the name table is set.                       *)
InitDifferentiator(d) ==
  \/ /\ root'      = [root EXCEPT ![d] = "EQUALS"]
     /\ nameTable' = [nameTable EXCEPT ![d] = Table]
     /\ errors'    = [errors EXCEPT ![d] = {}]
     /\ UNCHANGED failed
  \/ /\ Fail(TreeFailure(d))
     /\ errors' = [errors EXCEPT ![d] = TreeError(d)]
     /\ UNCHANGED <<root, nameTable>>

InitExpression ==
  /\ pc = "InitDifferentiator"
  /\ InitDifferentiator("expression")
  /\ Goto("getline")
  /\ UNCHANGED <<buffer, table, variables, registered, leaked>>

-----------------------------------------------------------------------------
(* ParseFile                                                                  *)

(* At the end of input the buffer holds whatever memory holds, with or without a   *)
(* '\0' at its end; without a buffer strlen reads through NULL.                  *)
ReadLine ==
  /\ pc = "getline"
  /\ \/ Goto("tokens") /\ UNCHANGED failed
     \/ Goto("tokens") /\ Fail("getline")
     \/ Goto("undefined") /\ Fail("getline")
  /\ UNCHANGED <<buffer, table, trees, leaked>>

InitTokens ==
  /\ pc = "tokens"
  /\ \/ Goto("parse") /\ UNCHANGED failed
     \/ Goto("dump_init") /\ Fail("tokens")
  /\ UNCHANGED <<buffer, table, trees, leaked>>

(* The tree hangs below the EQUALS node; some tokens may be in no tree.           *)
Accept ==
  /\ variables' \in {variables, [variables EXCEPT !["expression"] = TRUE]}
  /\ leaked' \in {leaked, leaked \cup {"tokens"}}
  /\ Goto("dump_init")

Refuse == Goto("dump_init") /\ UNCHANGED <<variables, leaked>>

(* Without a node for a token a NULL takes its place, which the parser does not     *)
(* accept; it may refuse the line before it gets there.  When the lexer loses       *)
(* another error, TERMINATOR is missing and the parser may read beyond the array.   *)
LexerLosesError ==
  \E calls \in SUBSET {"InitNode token", "TreeLexer"} :
    /\ calls # {}
    /\ Goto("dump_init") \/ Goto("undefined")
    /\ failed' = failed \cup calls
    /\ leaked' = IF "TreeLexer" \in calls THEN leaked \cup {"word", "tokens"} ELSE leaked
    /\ UNCHANGED variables

(* TreeLexer and the parser.  A word that is too long is refused with the word      *)
(* buffer lost.  Without a name table no name is entered.                        *)
Parse ==
  /\ pc = "parse"
  /\ IF root["expression"] = NULL
     THEN Goto("undefined") /\ UNCHANGED <<variables, failed, leaked>>
     ELSE \/ /\ Accept \/ Refuse
             /\ variables'["expression"] => table = "ready"
             /\ UNCHANGED failed
          \/ /\ Goto("dump_init")
             /\ failed' \in {failed \cup {"WORD_TOO_LONG"},
                            failed \cup {"WORD_TOO_LONG", "InitNode token"}}
             /\ leaked' = leaked \cup {"word"}
             /\ UNCHANGED variables
          \/ LexerLosesError
  /\ UNCHANGED <<buffer, table, root, nameTable, errors, registered>>

-----------------------------------------------------------------------------
(* EmitNode dereferences the root, and for a variable the name table.             *)
Dumpable(d) ==
  /\ root[d] \notin {NULL, "destroyed"}
  /\ variables[d] => nameTable[d] # NULL /\ table = "ready"

DumpBufferLost == leaked \cup {"dumpBuffer"}

(* Every error after InitBuffer returns without DestroyBuffer.  An error below the  *)
(* root is not even returned: the file is written, with a hole.                   *)
DumpExpressionTree(d, at, next) ==
  /\ pc = at
  /\ IF ~Dumpable(d)
     THEN Goto("undefined") /\ UNCHANGED <<failed, leaked>>
     ELSE /\ Goto(next)
          /\ \/ UNCHANGED <<failed, leaked>>
             \/ Fail("dump") /\ UNCHANGED leaked
             \/ Fail("dump") /\ leaked' = DumpBufferLost
  /\ UNCHANGED <<buffer, table, trees>>

DumpInit == DumpExpressionTree("expression", "dump_init", "fopen")

OpenReport ==
  /\ pc = "fopen"
  /\ \/ Goto("write") /\ leaked' = leaked \cup {"reportFile"} /\ UNCHANGED failed
     \/ Goto("dump") /\ Fail("fopen") /\ UNCHANGED leaked
  /\ UNCHANGED <<buffer, table, trees>>

-----------------------------------------------------------------------------
(* DifferentiateAndGenerateLatexReport                                          *)

(* WriteExpressionToStream prints variables by the name table of the structure.    *)
Printable(d) == root[d] # "destroyed" /\ (variables[d] => nameTable[d] # NULL /\ table = "ready")

WriteExpression ==
  /\ pc = "write"
  /\ Goto(IF Printable("expression") THEN "Differentiate" ELSE "undefined")
  /\ UNCHANGED <<buffer, table, trees, failed, leaked>>

(* VerifyDifferentiator: the result of the recursive part is dropped.             *)
Verified(d) == root[d] # NULL /\ errors[d] = {}

(* The program never gets here with an expression that is refused.                *)
BeginDifferentiate ==
  /\ pc = "Differentiate"
  /\ IF Verified("expression")
     THEN InitDifferentiator("derivative") /\ Goto("Derive")
     ELSE UNCHANGED <<root, nameTable, errors, failed>> /\ Goto("dump_no_opt")
  /\ UNCHANGED <<buffer, table, variables, registered, leaked>>

(* The EQUALS node of the structure is destroyed and the derivative takes its      *)
(* place; each rule prints its result with the name table of the new structure.    *)
(* A rule whose node cannot be allocated is given no result, or goes on through     *)
(* NULL; an operand that cannot be allocated is a hole in the derivative.          *)
Derive ==
  /\ pc = "Derive"
  /\ root' = [root EXCEPT !["derivative"] = "derived"]
  /\ variables' \in {variables, [variables EXCEPT !["derivative"] = variables["expression"]]}
  /\ \/ /\ \/ Goto("dump_no_opt")
           \/ variables'["derivative"] /\ nameTable["derivative"] = NULL /\ Goto("undefined")
        /\ UNCHANGED <<failed, leaked>>
     \/ /\ Goto("dump_no_opt") \/ Goto("undefined")
        /\ Fail("InitNode derivative")
        /\ leaked' \in {leaked, leaked \cup {"nodes"}}
  /\ UNCHANGED <<buffer, table, nameTable, errors, registered>>

DumpNoOpt == DumpExpressionTree("derivative", "dump_no_opt", "OptimizeTree")

(* The passes may remove the last variable, leak the constants they make, and leave  *)
(* registered nodes detached, for the report to free, or freed.  A hole, or a        *)
(* constant that cannot be allocated, is skipped or dereferenced.                 *)
Optimize ==
  /\ variables' \in {variables, [variables EXCEPT !["derivative"] = FALSE]}
  /\ registered' \in SUBSET {"detached", "freed"}
  /\ registered' # {} => buffer = "ready"
  /\ leaked' \in {leaked, leaked \cup {"constants"}}
  /\ \/ Goto("results") /\ UNCHANGED failed
     \/ Goto("undefined") /\ "InitNode derivative" \in failed /\ UNCHANGED failed
     \/ (Goto("results") \/ Goto("undefined")) /\ Fail("InitNode constant")

OptimizeTree ==
  /\ pc = "OptimizeTree"
  /\ IF Verified("derivative")
     THEN Optimize
     ELSE Goto("results") /\ UNCHANGED <<variables, registered, failed, leaked>>
  /\ UNCHANGED <<buffer, table, root, nameTable, errors>>

(* The derivative, then the registered nodes are printed; the detached ones are     *)
(* freed.  Both loops read a node that is freed already, whatever that gives.       *)
WriteResults ==
  /\ pc = "results"
  /\ IF (\A d \in Differentiators : Printable(d)) /\ buffer # "destroyed"
     THEN \/ Goto("dump")
          \/ "freed" \in registered /\ Goto("undefined")
     ELSE Goto("undefined")
  /\ registered' = registered \ {"detached"}
  /\ UNCHANGED <<buffer, table, root, nameTable, errors, variables, failed, leaked>>

-----------------------------------------------------------------------------
(* Fault: the trees are forgotten.                                             *)
TableOnly == "DestroyNameTable"

AfterBuffer == "DestroyExpression"

DumpDerivative == DumpExpressionTree("derivative", "dump", "DestroyBuffer")

(* Only the buffer leads to a detached node.                                   *)
DestroyReassignments ==
  /\ pc = "DestroyBuffer"
  /\ buffer' = "destroyed"
  /\ leaked' = leaked \cup (registered \cap {"detached"})
  /\ Goto(AfterBuffer)
  /\ UNCHANGED <<table, trees, failed>>

(* A tree that cannot be destroyed is an error main ignores.                     *)
DestroyDifferentiator(d) ==
  \/ root' = [root EXCEPT ![d] = "destroyed"] /\ UNCHANGED <<failed, leaked>>
  \/ Fail("DestroyTree") /\ leaked' = leaked \cup {"tree"} /\ UNCHANGED root

DestroyExpression ==
  /\ pc = "DestroyExpression"
  /\ DestroyDifferentiator("expression")
  /\ Goto("DestroyDerivative")
  /\ UNCHANGED <<buffer, table, nameTable, errors, variables, registered>>

DestroyDerivative ==
  /\ pc = "DestroyDerivative"
  /\ DestroyDifferentiator("derivative")
  /\ Goto("DestroyNameTable")
  /\ UNCHANGED <<buffer, table, nameTable, errors, variables, registered>>

DestroyNameTable ==
  /\ pc = "DestroyNameTable"
  /\ table' = "destroyed"
  /\ Goto("exit")
  /\ UNCHANGED <<buffer, trees, failed, leaked>>

Next ==
  \/ InitReassignments \/ InitNameTable \/ InitExpression
  \/ ReadLine \/ InitTokens \/ Parse
  \/ DumpInit \/ OpenReport \/ WriteExpression
  \/ BeginDifferentiate \/ Derive \/ DumpNoOpt
  \/ OptimizeTree \/ WriteResults
  \/ DumpDerivative \/ DestroyReassignments \/ DestroyExpression
  \/ DestroyDerivative \/ DestroyNameTable

Spec == Init /\ [][Next]_vars

-----------------------------------------------------------------------------
Places ==
  {"InitBuffer", "InitNameTable", "InitDifferentiator", "getline", "tokens", "parse",
   "dump_init", "fopen", "write", "Differentiate", "Derive", "dump_no_opt", "OptimizeTree",
   "results", "dump", "DestroyBuffer", "DestroyExpression", "DestroyDerivative",
   "DestroyNameTable", "exit", "undefined"}

Calls ==
  {"InitBuffer", "InitNameTable", "getline", "tokens", "WORD_TOO_LONG", "InitNode token",
   "TreeLexer", "InitNode derivative", "InitNode constant", "dump", "fopen", "DestroyTree"}
  \cup {TreeFailure(d) : d \in Differentiators}

(* The variables keep their types; the only error a structure is ever marked with   *)
(* is TREE_ERROR.                                                             *)
TypeOK ==
  /\ pc \in Places
  /\ buffer \in {"zero", "ready", "destroyed"}
  /\ table \in {"zero", "ready", "destroyed"}
  /\ root \in [Differentiators -> {NULL, "EQUALS", "derived", "destroyed"}]
  /\ nameTable \in [Differentiators -> {NULL, "table"}]
  /\ errors \in [Differentiators -> SUBSET {"TREE_ERROR"}]
  /\ variables \in [Differentiators -> BOOLEAN]
  /\ registered \subseteq {"detached", "freed"}
  /\ failed \subseteq Calls
  /\ leaked \subseteq {"word", "tokens", "nodes", "constants", "detached", "dumpBuffer",
                     "reportFile", "tree"}

(* What leads to undefined behaviour, and where: input that was not read, tokens     *)
(* without a node or without TERMINATOR, a structure without a tree, a node of the    *)
(* derivative or a constant that was not allocated, a derivative that was never made  *)
(* because the report could not be opened, or was made without a name table.  With    *)
(* no failing call at all, only the loops of the report over nodes the optimizer      *)
(* freed, and for those the buffer and the derivative were initialised.  A line that  *)
(* is refused, a dump that fails and buffers that cannot be allocated are harmless.  *)
UndefinedCauses ==
  [][pc' = "undefined" /\ pc # "undefined" =>
       \/ pc = "getline" /\ "getline" \in failed'
       \/ pc = "parse" /\ failed' \cap {"InitNode token", "TreeLexer"} # {}
       \/ pc \in {"parse", "dump_init"} /\ TreeFailure("expression") \in failed
       \/ pc = "Derive" /\ "InitNode derivative" \in failed'
       \/ pc = "OptimizeTree" /\ failed' \cap {"InitNode derivative", "InitNode constant"} # {}
       \/ pc \in {"Derive", "dump_no_opt", "results"} /\ TreeFailure("derivative") \in failed
       \/ /\ pc = "results" /\ "freed" \in registered
          /\ failed \cap {"InitBuffer", TreeFailure("derivative")} = {}
       \/ pc = "dump" /\ "fopen" \in failed]_vars

(* What VerifyDifferentiator lets through was initialised to the end: InitTree may   *)
(* fail after a root was there once, and only the error flag tells.                *)
VerifiedIsInitialised ==
  \A d \in Differentiators : Verified(d) => nameTable[d] = "table"

(* Whichever calls failed on the way, an execution that ends has destroyed both       *)
(* buffers and both trees, and the nodes the optimizer detached.  Without a failure,    *)
(* and unless the report met a freed node, the open report, the tokens a misparse       *)
(* dropped and the constants of the optimizer are all that is lost.               *)
Released ==
  pc = "exit" =>
    /\ buffer = "destroyed" /\ table = "destroyed" /\ "detached" \notin leaked
    /\ "DestroyTree" \notin failed => \A d \in Differentiators : root[d] = "destroyed"
    /\ failed = {} /\ "freed" \notin registered
         => leaked \subseteq {"reportFile", "tokens", "constants"}

=============================================================================
