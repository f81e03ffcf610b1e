---------------------------- MODULE SessionProofs ----------------------------
(***************************************************************************)
(* Theorems about Session.  All of them rest on one invariant, which says what  *)
(* is initialised, and why not if it is not, at each place of the program.      *)
(***************************************************************************)
EXTENDS Session, TLAPS

BeforeExpression == {"InitBuffer", "InitNameTable", "InitDifferentiator"}
BeforeParse      == BeforeExpression \cup {"getline", "tokens", "parse"}
BeforeDerivative == BeforeParse \cup {"dump_init", "fopen", "write", "Differentiate"}
Endings          == {"DestroyBuffer", "DestroyExpression", "DestroyDerivative",
                     "DestroyNameTable", "exit"}

(* A tree comes with its name table; a structure without is marked, or was never   *)
(* initialised because of a failure that is on record.  Past the first dump the    *)
(* expression has its tree.                                                   *)
ExpressionInv ==
  /\ pc \in BeforeExpression => root["expression"] = NULL
  /\ root["expression"] # NULL
       => nameTable["expression"] = "table" /\ errors["expression"] = {}
  /\ root["expression"] = NULL
       => pc \in BeforeParse \cup {"dump_init", "undefined"}
  /\ root["expression"] = NULL
       => pc \in BeforeExpression \/ TreeFailure("expression") \in failed
  /\ root["expression"] = "destroyed"
       => pc \in {"DestroyDerivative", "DestroyNameTable", "exit"}

(* The derivative has no tree before Differentiate, or at all without a report;     *)
(* its structure may have a tree and no name table, and is marked then.           *)
DerivativeInv ==
  /\ pc \in BeforeDerivative => root["derivative"] = NULL
  /\ root["derivative"] = NULL
       => \/ pc \in BeforeDerivative \cup {"undefined"}
          \/ pc = "dump" /\ "fopen" \in failed
          \/ pc = "Derive" /\ TreeFailure("derivative") \in failed
  /\ root["derivative"] = "destroyed" => pc \in {"DestroyNameTable", "exit"}
  /\ pc \in BeforeDerivative \cup {"dump"} /\ root["derivative"] = NULL
       => ~variables["derivative"]
  /\ (root["derivative"] # NULL \/ pc = "Derive") /\ nameTable["derivative"] = NULL
       => /\ errors["derivative"] = {"TREE_ERROR"}
          /\ TreeFailure("derivative") \in failed
  /\ pc = "dump" /\ variables["derivative"] => nameTable["derivative"] = "table"
  /\ pc \in Endings \cup {"OptimizeTree", "results"}
       => root["derivative"] # NULL

(* Names are only entered in a table that is there, until the end.                *)
TableInv ==
  /\ pc \in BeforeParse => \A d \in Differentiators : ~variables[d]
  /\ \A d \in Differentiators : variables[d] => table # "zero"
  /\ table = "destroyed" <=> pc = "exit"

(* What has been destroyed, and what is lost without a failure.                   *)
ReleaseInv ==
  /\ buffer = "destroyed" <=> pc \in Endings \ {"DestroyBuffer"}
  /\ "DestroyTree" \notin failed =>
       /\ pc \in {"DestroyDerivative", "DestroyNameTable", "exit"}
            => root["expression"] = "destroyed"
       /\ pc \in {"DestroyNameTable", "exit"} => root["derivative"] = "destroyed"
  /\ failed = {} /\ "freed" \notin registered
       => leaked \subseteq {"reportFile", "tokens", "constants"}

(* The optimizer only runs on a derivative whose tree was initialised, and only a   *)
(* buffer that was initialised holds nodes; the report frees the detached ones      *)
(* before the buffer is gone.                                                  *)
RegisteredInv ==
  /\ pc = "InitBuffer" => buffer # "ready"
  /\ pc = "InitBuffer" \/ buffer = "ready" => "InitBuffer" \notin failed
  /\ pc \in BeforeDerivative => TreeFailure("derivative") \notin failed
  /\ TreeFailure("derivative") \in failed => errors["derivative"] = {"TREE_ERROR"}
  /\ registered # {} => /\ pc \in Endings \cup {"results", "dump", "undefined"}
                        /\ "InitBuffer" \notin failed
                        /\ TreeFailure("derivative") \notin failed
  /\ "detached" \in registered => pc \in {"results", "undefined"}
  /\ "detached" \notin leaked

IInv ==
  TypeOK /\ ExpressionInv /\ DerivativeInv /\ TableInv /\ ReleaseInv /\ RegisteredInv

-----------------------------------------------------------------------------
(* The names of the failures.                                                 *)
LEMMA CallNames ==
  /\ {"InitBuffer", "InitNameTable", "getline", "tokens", "WORD_TOO_LONG", "InitNode token",
      "TreeLexer", "InitNode derivative", "InitNode constant", "dump", "fopen",
      "DestroyTree"} \subseteq Calls
  /\ \A d \in Differentiators : TreeFailure(d) \in Calls
  BY DEF Calls

(* Nothing is initialised yet, which is what IInv says of the first place.          *)
LEMMA InitIInv == Init => IInv
  BY NullIsNoString, CallNames
  DEF Init, IInv, TypeOK, ExpressionInv, DerivativeInv, TableInv, ReleaseInv, RegisteredInv,
      Differentiators,
      Places, BeforeExpression, BeforeParse, BeforeDerivative, Endings

(* How InitDifferentiator leaves its structure, and that it touches no other.       *)
LEMMA InitTreeOutcome ==
  ASSUME NEW d \in Differentiators, TypeOK, InitDifferentiator(d)
  PROVE  /\ root' \in [Differentiators -> {NULL, "EQUALS", "derived", "destroyed"}]
         /\ nameTable' \in [Differentiators -> {NULL, "table"}]
         /\ errors' \in [Differentiators -> SUBSET {"TREE_ERROR"}]
         /\ \A e \in Differentiators \ {d} :
              root'[e] = root[e] /\ nameTable'[e] = nameTable[e] /\ errors'[e] = errors[e]
         /\ \/ /\ root'[d] = "EQUALS" /\ nameTable'[d] = "table" /\ errors'[d] = {}
               /\ failed' = failed
            \/ /\ root'[d] = root[d] /\ nameTable'[d] = nameTable[d] /\ errors'[d] = {"TREE_ERROR"}
               /\ failed' = failed \cup {TreeFailure(d)}
<1>1. CASE /\ root'      = [root EXCEPT ![d] = "EQUALS"]
           /\ nameTable' = [nameTable EXCEPT ![d] = "table"]
           /\ errors'    = [errors EXCEPT ![d] = {}]
           /\ failed' = failed
  BY <1>1 DEF TypeOK
<1>2. CASE /\ failed' = failed \cup {TreeFailure(d)}
           /\ errors' = [errors EXCEPT ![d] = {"TREE_ERROR"}]
           /\ root' = root /\ nameTable' = nameTable
  BY <1>2 DEF TypeOK
<1>3. QED
  BY <1>1, <1>2 DEF InitDifferentiator, Table, TreeError, Fail

(* Parsing may put a variable into the tree of the expression, if there is a table   *)
(* for its name, and changes nothing else of the structures.                     *)
LEMMA ParseOutcome ==
  ASSUME TypeOK, Parse
  PROVE  /\ variables' \in [Differentiators -> BOOLEAN]
         /\ variables'["derivative"] <=> variables["derivative"]
         /\ variables'["expression"] => variables["expression"] \/ table = "ready"
         /\ pc' \in {"dump_init", "undefined"}
         /\ root["expression"] = NULL => pc' = "undefined"
         /\ failed \subseteq failed'
         /\ failed' \subseteq failed \cup {"WORD_TOO_LONG", "InitNode token", "TreeLexer"}
         /\ failed' = {} => leaked' \subseteq leaked \cup {"tokens"}
         /\ leaked' \subseteq leaked \cup {"tokens", "word"}
<1>1. /\ variables' \in {variables, [variables EXCEPT !["expression"] = TRUE]}
      /\ variables'["expression"] => variables["expression"] \/ table = "ready"
  BY DEF Parse, LexerLosesError, Accept, Refuse
<1>2. /\ variables' \in [Differentiators -> BOOLEAN]
      /\ variables'["derivative"] <=> variables["derivative"]
  BY <1>1 DEF TypeOK, Differentiators
<1>3. /\ pc' \in {"dump_init", "undefined"}
      /\ root["expression"] = NULL => pc' = "undefined"
  BY DEF Parse, LexerLosesError, Accept, Refuse, Goto
<1>4. /\ failed \subseteq failed'
      /\ failed' \subseteq failed \cup {"WORD_TOO_LONG", "InitNode token", "TreeLexer"}
  BY DEF Parse, LexerLosesError, Fail
<1>5. failed' = {} => leaked' \subseteq leaked \cup {"tokens"}
  BY DEF Parse, LexerLosesError, Accept, Refuse, Fail
<1>6. leaked' \subseteq leaked \cup {"tokens", "word"}
  BY DEF Parse, LexerLosesError, Accept, Refuse
<1>7. QED
  BY <1>1, <1>2, <1>3, <1>4, <1>5, <1>6

(* A dump changes nothing but what it leaks.                                     *)
LEMMA DumpOutcome ==
  ASSUME NEW d \in Differentiators, NEW at, NEW next, DumpExpressionTree(d, at, next)
  PROVE  /\ pc = at /\ pc' \in {next, "undefined"}
         /\ failed' \in {failed, failed \cup {"dump"}}
         /\ leaked' \in {leaked, leaked \cup {"dumpBuffer"}}
         /\ buffer' = buffer /\ errors' = errors /\ registered' = registered
  BY DEF DumpExpressionTree, DumpBufferLost, Goto, Fail, trees

(* Each call of main keeps IInv, whether it succeeds or fails.                     *)
LEMMA NextIInv == IInv /\ [Next]_vars => IInv'
<1> SUFFICES ASSUME TypeOK, ExpressionInv, DerivativeInv, TableInv, ReleaseInv, RegisteredInv,
                    [Next]_vars
             PROVE  IInv'
  BY DEF IInv
<1>1. CASE InitReassignments
  <2>1. TypeOK'
    BY <1>1, CallNames, NullIsNoString
    DEF TypeOK, Places, Differentiators, InitReassignments, trees, Goto, Fail
  <2>2. ExpressionInv'
    BY <1>1, NullIsNoString
    DEF ExpressionInv, BeforeExpression, BeforeParse, InitReassignments, trees, Goto, Fail
  <2>3. DerivativeInv'
    BY <1>1, NullIsNoString
    DEF DerivativeInv, BeforeExpression, BeforeParse, BeforeDerivative, Endings,
        InitReassignments, trees, Goto, Fail
  <2>4. TableInv'
    BY <1>1
    DEF TableInv, BeforeExpression, BeforeParse, Differentiators, InitReassignments, trees,
        Goto, Fail
  <2>5. ReleaseInv'
    BY <1>1, NullIsNoString
    DEF ReleaseInv, Endings, InitReassignments, trees, Goto, Fail
  <2>6. RegisteredInv'
    BY <1>1
    DEF RegisteredInv, TreeFailure, BeforeExpression, BeforeParse, BeforeDerivative,
        Endings, InitReassignments, trees, Goto, Fail
  <2>7. QED
    BY <2>1, <2>2, <2>3, <2>4, <2>5, <2>6 DEF IInv
<1>2. CASE InitNameTable
  <2>1. TypeOK'
    BY <1>2, CallNames, NullIsNoString
    DEF TypeOK, Places, Differentiators, InitNameTable, trees, Goto, Fail
  <2>2. ExpressionInv'
    BY <1>2, NullIsNoString
    DEF ExpressionInv, BeforeExpression, BeforeParse, InitNameTable, trees, Goto, Fail
  <2>3. DerivativeInv'
    BY <1>2, NullIsNoString
    DEF DerivativeInv, BeforeExpression, BeforeParse, BeforeDerivative, Endings,
        InitNameTable, trees, Goto, Fail
  <2>4. TableInv'
    BY <1>2
    DEF TableInv, BeforeExpression, BeforeParse, Differentiators, InitNameTable, trees,
        Goto, Fail
  <2>5. ReleaseInv'
    BY <1>2, NullIsNoString
    DEF ReleaseInv, Endings, InitNameTable, trees, Goto, Fail
  <2>6. RegisteredInv'
    BY <1>2
    DEF RegisteredInv, TreeFailure, BeforeExpression, BeforeParse, BeforeDerivative,
        Endings, InitNameTable, trees, Goto, Fail
  <2>7. QED
    BY <2>1, <2>2, <2>3, <2>4, <2>5, <2>6 DEF IInv
<1>3. CASE InitExpression
  <2>1. /\ root' \in [Differentiators -> {NULL, "EQUALS", "derived", "destroyed"}]
        /\ nameTable' \in [Differentiators -> {NULL, "table"}]
        /\ errors' \in [Differentiators -> SUBSET {"TREE_ERROR"}]
        /\ root'["derivative"] = root["derivative"]
        /\ nameTable'["derivative"] = nameTable["derivative"]
        /\ errors'["derivative"] = errors["derivative"]
        /\ \/ /\ root'["expression"] = "EQUALS" /\ nameTable'["expression"] = "table"
              /\ errors'["expression"] = {} /\ failed' = failed
           \/ /\ root'["expression"] = root["expression"]
              /\ nameTable'["expression"] = nameTable["expression"]
              /\ errors'["expression"] = {"TREE_ERROR"}
              /\ failed' = failed \cup {TreeFailure("expression")}
    BY <1>3, InitTreeOutcome DEF InitExpression, Differentiators
  <2>2. /\ pc = "InitDifferentiator" /\ pc' = "getline"
        /\ UNCHANGED <<buffer, table, variables, registered, leaked>>
    BY <1>3 DEF InitExpression, Goto
  <2>3. TypeOK'
    BY <2>1, <2>2, CallNames, NullIsNoString
    DEF TypeOK, Places, Differentiators
  <2>4. ExpressionInv'
    BY <2>1, <2>2, NullIsNoString
    DEF ExpressionInv, BeforeExpression, BeforeParse
  <2>5. DerivativeInv'
    BY <2>1, <2>2, NullIsNoString
    DEF DerivativeInv, BeforeExpression, BeforeParse, BeforeDerivative, Endings
  <2>6. TableInv'
    BY <2>1, <2>2
    DEF TableInv, BeforeExpression, BeforeParse, Differentiators
  <2>7. ReleaseInv'
    BY <2>1, <2>2, NullIsNoString
    DEF ReleaseInv, Endings
  <2>8. RegisteredInv'
    BY <2>1, <2>2
    DEF RegisteredInv, TreeFailure, BeforeExpression, BeforeParse, BeforeDerivative,
        Endings
  <2>9. QED
    BY <2>3, <2>4, <2>5, <2>6, <2>7, <2>8 DEF IInv
<1>4. CASE ReadLine
  <2>1. TypeOK'
    BY <1>4, CallNames, NullIsNoString
    DEF TypeOK, Places, Differentiators, ReadLine, trees, Goto, Fail
  <2>2. ExpressionInv'
    BY <1>4, NullIsNoString
    DEF ExpressionInv, BeforeExpression, BeforeParse, ReadLine, trees, Goto, Fail
  <2>3. DerivativeInv'
    BY <1>4, NullIsNoString
    DEF DerivativeInv, BeforeExpression, BeforeParse, BeforeDerivative, Endings, ReadLine,
        trees, Goto, Fail
  <2>4. TableInv'
    BY <1>4
    DEF TableInv, BeforeExpression, BeforeParse, Differentiators, ReadLine, trees, Goto, Fail
  <2>5. ReleaseInv'
    BY <1>4, NullIsNoString
    DEF ReleaseInv, Endings, ReadLine, trees, Goto, Fail
  <2>6. RegisteredInv'
    BY <1>4
    DEF RegisteredInv, TreeFailure, BeforeExpression, BeforeParse, BeforeDerivative,
        Endings, ReadLine, trees, Goto, Fail
  <2>7. QED
    BY <2>1, <2>2, <2>3, <2>4, <2>5, <2>6 DEF IInv
<1>5. CASE InitTokens
  <2>1. TypeOK'
    BY <1>5, CallNames, NullIsNoString
    DEF TypeOK, Places, Differentiators, InitTokens, trees, Goto, Fail
  <2>2. ExpressionInv'
    BY <1>5, NullIsNoString
    DEF ExpressionInv, BeforeExpression, BeforeParse, InitTokens, trees, Goto, Fail
  <2>3. DerivativeInv'
    BY <1>5, NullIsNoString
    DEF DerivativeInv, BeforeExpression, BeforeParse, BeforeDerivative, Endings, InitTokens,
        trees, Goto, Fail
  <2>4. TableInv'
    BY <1>5
    DEF TableInv, BeforeExpression, BeforeParse, Differentiators, InitTokens, trees, Goto,
        Fail
  <2>5. ReleaseInv'
    BY <1>5, NullIsNoString
    DEF ReleaseInv, Endings, InitTokens, trees, Goto, Fail
  <2>6. RegisteredInv'
    BY <1>5
    DEF RegisteredInv, TreeFailure, BeforeExpression, BeforeParse, BeforeDerivative,
        Endings, InitTokens, trees, Goto, Fail
  <2>7. QED
    BY <2>1, <2>2, <2>3, <2>4, <2>5, <2>6 DEF IInv
<1>6. CASE Parse
  <2>1. /\ variables' \in [Differentiators -> BOOLEAN]
        /\ variables'["derivative"] <=> variables["derivative"]
        /\ variables'["expression"] => variables["expression"] \/ table = "ready"
        /\ pc' \in {"dump_init", "undefined"}
        /\ root["expression"] = NULL => pc' = "undefined"
        /\ failed \subseteq failed'
        /\ failed' \subseteq failed \cup {"WORD_TOO_LONG", "InitNode token", "TreeLexer"}
        /\ failed' = {} => leaked' \subseteq leaked \cup {"tokens"}
        /\ leaked' \subseteq leaked \cup {"tokens", "word"}
    BY <1>6, ParseOutcome
  <2>2. /\ pc = "parse"
        /\ UNCHANGED <<buffer, table, root, nameTable, errors, registered>>
    BY <1>6 DEF Parse, Accept, Refuse
  <2>3. TypeOK'
    BY <2>1, <2>2, CallNames, NullIsNoString
    DEF TypeOK, Places, Differentiators
  <2>4. ExpressionInv'
    BY <2>1, <2>2, NullIsNoString
    DEF ExpressionInv, BeforeExpression, BeforeParse
  <2>5. DerivativeInv'
    BY <2>1, <2>2, NullIsNoString
    DEF DerivativeInv, BeforeExpression, BeforeParse, BeforeDerivative, Endings
  <2>6. TableInv'
    BY <2>1, <2>2
    DEF TableInv, BeforeExpression, BeforeParse, Differentiators
  <2>7. ReleaseInv'
    BY <2>1, <2>2, NullIsNoString
    DEF ReleaseInv, Endings
  <2>8. RegisteredInv'
    BY <2>1, <2>2
    DEF RegisteredInv, TreeFailure, BeforeExpression, BeforeParse, BeforeDerivative,
        Endings
  <2>9. QED
    BY <2>3, <2>4, <2>5, <2>6, <2>7, <2>8 DEF IInv
<1>7. CASE DumpInit
  <2>1. TypeOK'
    BY <1>7, CallNames, NullIsNoString
    DEF TypeOK, Places, Differentiators, DumpInit, DumpExpressionTree, Dumpable,
        DumpBufferLost, trees, Goto, Fail
  <2>2. ExpressionInv'
    BY <1>7, NullIsNoString
    DEF ExpressionInv, BeforeExpression, BeforeParse, DumpInit, DumpExpressionTree,
        Dumpable, DumpBufferLost, trees, Goto, Fail
  <2>3. DerivativeInv'
    BY <1>7, NullIsNoString
    DEF DerivativeInv, BeforeExpression, BeforeParse, BeforeDerivative, Endings, DumpInit,
        DumpExpressionTree, Dumpable, DumpBufferLost, trees, Goto, Fail
  <2>4. TableInv'
    BY <1>7
    DEF TableInv, BeforeExpression, BeforeParse, Differentiators, DumpInit,
        DumpExpressionTree, Dumpable, DumpBufferLost, trees, Goto, Fail
  <2>5. ReleaseInv'
    BY <1>7, NullIsNoString
    DEF ReleaseInv, Endings, DumpInit, DumpExpressionTree, Dumpable, DumpBufferLost, trees,
        Goto, Fail
  <2>6. RegisteredInv'
    <3>1. /\ pc = "dump_init" /\ pc' \in {"fopen", "undefined"}
          /\ failed' \in {failed, failed \cup {"dump"}}
          /\ leaked' \in {leaked, leaked \cup {"dumpBuffer"}}
          /\ buffer' = buffer /\ errors' = errors /\ registered' = registered
      BY <1>7, DumpOutcome DEF DumpInit, Differentiators
    <3>2. QED
      BY <3>1
      DEF RegisteredInv, TreeFailure, BeforeExpression, BeforeParse, BeforeDerivative, Endings
  <2>7. QED
    BY <2>1, <2>2, <2>3, <2>4, <2>5, <2>6 DEF IInv
<1>8. CASE OpenReport
  <2>1. TypeOK'
    BY <1>8, CallNames, NullIsNoString
    DEF TypeOK, Places, Differentiators, OpenReport, trees, Goto, Fail
  <2>2. ExpressionInv'
    BY <1>8, NullIsNoString
    DEF ExpressionInv, BeforeExpression, BeforeParse, OpenReport, trees, Goto, Fail
  <2>3. DerivativeInv'
    BY <1>8, NullIsNoString
    DEF DerivativeInv, BeforeExpression, BeforeParse, BeforeDerivative, Endings, OpenReport,
        trees, Goto, Fail
  <2>4. TableInv'
    BY <1>8
    DEF TableInv, BeforeExpression, BeforeParse, Differentiators, OpenReport, trees, Goto,
        Fail
  <2>5. ReleaseInv'
    BY <1>8, NullIsNoString
    DEF ReleaseInv, Endings, OpenReport, trees, Goto, Fail
  <2>6. RegisteredInv'
    BY <1>8
    DEF RegisteredInv, TreeFailure, BeforeExpression, BeforeParse, BeforeDerivative,
        Endings, OpenReport, trees, Goto, Fail
  <2>7. QED
    BY <2>1, <2>2, <2>3, <2>4, <2>5, <2>6 DEF IInv
<1>9. CASE WriteExpression
  <2>1. TypeOK'
    BY <1>9, CallNames, NullIsNoString
    DEF TypeOK, Places, Differentiators, WriteExpression, Printable, trees, Goto, Fail
  <2>2. ExpressionInv'
    BY <1>9, NullIsNoString
    DEF ExpressionInv, BeforeExpression, BeforeParse, WriteExpression, Printable, trees,
        Goto, Fail
  <2>3. DerivativeInv'
    BY <1>9, NullIsNoString
    DEF DerivativeInv, BeforeExpression, BeforeParse, BeforeDerivative, Endings,
        WriteExpression, Printable, trees, Goto, Fail
  <2>4. TableInv'
    BY <1>9
    DEF TableInv, BeforeExpression, BeforeParse, Differentiators, WriteExpression,
        Printable, trees, Goto, Fail
  <2>5. ReleaseInv'
    BY <1>9, NullIsNoString
    DEF ReleaseInv, Endings, WriteExpression, Printable, trees, Goto, Fail
  <2>6. RegisteredInv'
    BY <1>9
    DEF RegisteredInv, TreeFailure, BeforeExpression, BeforeParse, BeforeDerivative,
        Endings, WriteExpression, Printable, trees, Goto, Fail
  <2>7. QED
    BY <2>1, <2>2, <2>3, <2>4, <2>5, <2>6 DEF IInv
<1>10. CASE BeginDifferentiate
  <2>1. CASE Verified("expression")
    <3>1. /\ root' \in [Differentiators -> {NULL, "EQUALS", "derived", "destroyed"}]
          /\ nameTable' \in [Differentiators -> {NULL, "table"}]
          /\ errors' \in [Differentiators -> SUBSET {"TREE_ERROR"}]
          /\ root'["expression"] = root["expression"]
          /\ nameTable'["expression"] = nameTable["expression"]
          /\ errors'["expression"] = errors["expression"]
          /\ \/ /\ root'["derivative"] = "EQUALS" /\ nameTable'["derivative"] = "table"
                /\ errors'["derivative"] = {} /\ failed' = failed
             \/ /\ root'["derivative"] = root["derivative"]
                /\ nameTable'["derivative"] = nameTable["derivative"]
                /\ errors'["derivative"] = {"TREE_ERROR"}
                /\ failed' = failed \cup {TreeFailure("derivative")}
      BY <1>10, <2>1, InitTreeOutcome DEF BeginDifferentiate, Differentiators
    <3>2. /\ pc = "Differentiate" /\ pc' = "Derive"
          /\ UNCHANGED <<buffer, table, variables, registered, leaked>>
      BY <1>10, <2>1 DEF BeginDifferentiate, Goto
    <3>3. TypeOK'
      BY <3>1, <3>2, CallNames, NullIsNoString
      DEF TypeOK, Places, Differentiators
    <3>4. ExpressionInv'
      BY <3>1, <3>2, NullIsNoString
      DEF ExpressionInv, BeforeExpression, BeforeParse
    <3>5. DerivativeInv'
      BY <3>1, <3>2, NullIsNoString
      DEF DerivativeInv, BeforeExpression, BeforeParse, BeforeDerivative, Endings
    <3>6. TableInv'
      BY <3>1, <3>2
      DEF TableInv, BeforeExpression, BeforeParse, Differentiators
    <3>7. ReleaseInv'
      BY <3>1, <3>2, NullIsNoString
      DEF ReleaseInv, Endings
    <3>8. RegisteredInv'
      BY <3>1, <3>2
      DEF RegisteredInv, TreeFailure, BeforeExpression, BeforeParse, BeforeDerivative,
          Endings
    <3>9. QED
      BY <3>3, <3>4, <3>5, <3>6, <3>7, <3>8 DEF IInv
  <2>2. CASE ~Verified("expression")
    <3>1. FALSE
      BY <1>10, <2>2 DEF BeginDifferentiate, Verified, ExpressionInv, BeforeExpression, BeforeParse
    <3>2. QED
      BY <3>1
  <2>3. QED
    BY <2>1, <2>2
<1>11. CASE Derive
  <2>1. TypeOK'
    BY <1>11, CallNames, NullIsNoString
    DEF TypeOK, Places, Differentiators, Derive, trees, Goto, Fail
  <2>2. ExpressionInv'
    BY <1>11, NullIsNoString
    DEF ExpressionInv, BeforeExpression, BeforeParse, Derive, trees, Goto, Fail, TypeOK,
        Differentiators
  <2>3. DerivativeInv'
    BY <1>11, NullIsNoString
    DEF DerivativeInv, BeforeExpression, BeforeParse, BeforeDerivative, Endings, Derive,
        trees, Goto, Fail, TypeOK, Differentiators
  <2>4. TableInv'
    BY <1>11
    DEF TableInv, BeforeExpression, BeforeParse, Differentiators, Derive, trees, Goto, Fail,
        TypeOK
  <2>5. ReleaseInv'
    BY <1>11, NullIsNoString
    DEF ReleaseInv, Endings, Derive, trees, Goto, Fail
  <2>6. RegisteredInv'
    BY <1>11
    DEF RegisteredInv, TreeFailure, BeforeExpression, BeforeParse, BeforeDerivative,
        Endings, Derive, trees, Goto, Fail
  <2>7. QED
    BY <2>1, <2>2, <2>3, <2>4, <2>5, <2>6 DEF IInv
<1>12. CASE DumpNoOpt
  <2>1. TypeOK'
    BY <1>12, CallNames, NullIsNoString
    DEF TypeOK, Places, Differentiators, DumpNoOpt, DumpExpressionTree, Dumpable,
        DumpBufferLost, trees, Goto, Fail
  <2>2. ExpressionInv'
    BY <1>12, NullIsNoString
    DEF ExpressionInv, BeforeExpression, BeforeParse, DumpNoOpt, DumpExpressionTree,
        Dumpable, DumpBufferLost, trees, Goto, Fail
  <2>3. DerivativeInv'
    BY <1>12, NullIsNoString
    DEF DerivativeInv, BeforeExpression, BeforeParse, BeforeDerivative, Endings, DumpNoOpt,
        DumpExpressionTree, Dumpable, DumpBufferLost, trees, Goto, Fail
  <2>4. TableInv'
    BY <1>12
    DEF TableInv, BeforeExpression, BeforeParse, Differentiators, DumpNoOpt,
        DumpExpressionTree, Dumpable, DumpBufferLost, trees, Goto, Fail
  <2>5. ReleaseInv'
    BY <1>12, NullIsNoString
    DEF ReleaseInv, Endings, DumpNoOpt, DumpExpressionTree, Dumpable, DumpBufferLost, trees,
        Goto, Fail
  <2>6. RegisteredInv'
    <3>1. /\ pc = "dump_no_opt" /\ pc' \in {"OptimizeTree", "undefined"}
          /\ failed' \in {failed, failed \cup {"dump"}}
          /\ leaked' \in {leaked, leaked \cup {"dumpBuffer"}}
          /\ buffer' = buffer /\ errors' = errors /\ registered' = registered
      BY <1>12, DumpOutcome DEF DumpNoOpt, Differentiators
    <3>2. QED
      BY <3>1
      DEF RegisteredInv, TreeFailure, BeforeExpression, BeforeParse, BeforeDerivative, Endings
  <2>7. QED
    BY <2>1, <2>2, <2>3, <2>4, <2>5, <2>6 DEF IInv
<1>13. CASE OptimizeTree
  <2>1. TypeOK'
    BY <1>13, CallNames, NullIsNoString
    DEF TypeOK, Places, Differentiators, OptimizeTree, Optimize, Verified, trees, Goto, Fail
  <2>2. ExpressionInv'
    BY <1>13, NullIsNoString
    DEF ExpressionInv, BeforeExpression, BeforeParse, OptimizeTree, Optimize, Verified, trees, Goto,
        Fail
  <2>3. DerivativeInv'
    BY <1>13, NullIsNoString
    DEF DerivativeInv, BeforeExpression, BeforeParse, BeforeDerivative, Endings,
        OptimizeTree, Optimize, Verified, trees, Goto, Fail
  <2>4. TableInv'
    BY <1>13
    DEF TableInv, BeforeExpression, BeforeParse, Differentiators, OptimizeTree, Optimize,
        Verified, trees, Goto, Fail, TypeOK
  <2>5. ReleaseInv'
    BY <1>13, NullIsNoString
    DEF ReleaseInv, RegisteredInv, Endings, OptimizeTree, Optimize, Verified, trees, Goto,
        Fail
  <2>6. RegisteredInv'
    <3>1. /\ pc = "OptimizeTree" /\ pc' \in {"results", "undefined"}
          /\ buffer' = buffer /\ errors' = errors
          /\ failed' \in {failed, failed \cup {"InitNode constant"}}
          /\ leaked' \in {leaked, leaked \cup {"constants"}}
      BY <1>13 DEF OptimizeTree, Optimize, Goto, Fail
    <3>2. registered' # {} => buffer = "ready" /\ errors["derivative"] = {}
      BY <1>13, <3>1 DEF OptimizeTree, Optimize, Verified, RegisteredInv, Endings
    <3>3. QED
      BY <3>1, <3>2
      DEF RegisteredInv, TreeFailure, BeforeExpression, BeforeParse, BeforeDerivative, Endings
  <2>7. QED
    BY <2>1, <2>2, <2>3, <2>4, <2>5, <2>6 DEF IInv
<1>14. CASE WriteResults
  <2>1. TypeOK'
    BY <1>14, CallNames, NullIsNoString
    DEF TypeOK, Places, Differentiators, WriteResults, Printable, trees, Goto, Fail
  <2>2. ExpressionInv'
    BY <1>14, NullIsNoString
    DEF ExpressionInv, BeforeExpression, BeforeParse, WriteResults, Printable, trees, Goto,
        Fail
  <2>3. DerivativeInv'
    BY <1>14, NullIsNoString
    DEF DerivativeInv, BeforeExpression, BeforeParse, BeforeDerivative, Endings,
        WriteResults, Printable, trees, Goto, Fail, TypeOK, Differentiators
  <2>4. TableInv'
    BY <1>14
    DEF TableInv, BeforeExpression, BeforeParse, Differentiators, WriteResults, Printable,
        trees, Goto, Fail
  <2>5. ReleaseInv'
    BY <1>14, NullIsNoString
    DEF ReleaseInv, Endings, WriteResults, Printable, trees, Goto, Fail
  <2>6. RegisteredInv'
    BY <1>14
    DEF RegisteredInv, TreeFailure, BeforeExpression, BeforeParse, BeforeDerivative,
        Endings, WriteResults, Printable, trees, Goto, Fail
  <2>7. QED
    BY <2>1, <2>2, <2>3, <2>4, <2>5, <2>6 DEF IInv
<1>15. CASE DumpDerivative
  <2>1. TypeOK'
    BY <1>15, CallNames, NullIsNoString
    DEF TypeOK, Places, Differentiators, DumpDerivative, DumpExpressionTree, Dumpable,
        DumpBufferLost, trees, Goto, Fail
  <2>2. ExpressionInv'
    BY <1>15, NullIsNoString
    DEF ExpressionInv, BeforeExpression, BeforeParse, DumpDerivative, DumpExpressionTree,
        Dumpable, DumpBufferLost, trees, Goto, Fail
  <2>3. DerivativeInv'
    BY <1>15, NullIsNoString
    DEF DerivativeInv, BeforeExpression, BeforeParse, BeforeDerivative, Endings,
        DumpDerivative, DumpExpressionTree, Dumpable, DumpBufferLost, trees, Goto, Fail
  <2>4. TableInv'
    BY <1>15
    DEF TableInv, BeforeExpression, BeforeParse, Differentiators, DumpDerivative,
        DumpExpressionTree, Dumpable, DumpBufferLost, trees, Goto, Fail
  <2>5. ReleaseInv'
    BY <1>15, NullIsNoString
    DEF ReleaseInv, Endings, DumpDerivative, DumpExpressionTree, Dumpable, DumpBufferLost,
        trees, Goto, Fail
  <2>6. RegisteredInv'
    <3>1. /\ pc = "dump" /\ pc' \in {"DestroyBuffer", "undefined"}
          /\ failed' \in {failed, failed \cup {"dump"}}
          /\ leaked' \in {leaked, leaked \cup {"dumpBuffer"}}
          /\ buffer' = buffer /\ errors' = errors /\ registered' = registered
      BY <1>15, DumpOutcome DEF DumpDerivative, Differentiators
    <3>2. QED
      BY <3>1
      DEF RegisteredInv, TreeFailure, BeforeExpression, BeforeParse, BeforeDerivative, Endings
  <2>7. QED
    BY <2>1, <2>2, <2>3, <2>4, <2>5, <2>6 DEF IInv
<1>16. CASE DestroyReassignments
  <2>1. TypeOK'
    BY <1>16, CallNames, NullIsNoString
    DEF TypeOK, Places, Differentiators, DestroyReassignments, AfterBuffer, trees, Goto, Fail
  <2>2. ExpressionInv'
    BY <1>16, NullIsNoString
    DEF ExpressionInv, BeforeExpression, BeforeParse, DestroyReassignments, AfterBuffer,
        trees, Goto, Fail
  <2>3. DerivativeInv'
    BY <1>16, NullIsNoString
    DEF DerivativeInv, BeforeExpression, BeforeParse, BeforeDerivative, Endings,
        DestroyReassignments, AfterBuffer, trees, Goto, Fail
  <2>4. TableInv'
    BY <1>16
    DEF TableInv, BeforeExpression, BeforeParse, Differentiators, DestroyReassignments,
        AfterBuffer, trees, Goto, Fail
  <2>5. ReleaseInv'
    BY <1>16, NullIsNoString
    DEF ReleaseInv, RegisteredInv, Endings, DestroyReassignments, AfterBuffer, trees, Goto,
        Fail
  <2>6. RegisteredInv'
    BY <1>16
    DEF RegisteredInv, TreeFailure, BeforeExpression, BeforeParse, BeforeDerivative,
        Endings, DestroyReassignments, AfterBuffer, trees, Goto, Fail
  <2>7. QED
    BY <2>1, <2>2, <2>3, <2>4, <2>5, <2>6 DEF IInv
<1>17. CASE DestroyExpression
  <2>1. TypeOK'
    BY <1>17, CallNames, NullIsNoString
    DEF TypeOK, Places, Differentiators, DestroyExpression, DestroyDifferentiator, trees,
        Goto, Fail
  <2>2. ExpressionInv'
    BY <1>17, NullIsNoString
    DEF ExpressionInv, BeforeExpression, BeforeParse, DestroyExpression,
        DestroyDifferentiator, trees, Goto, Fail, TypeOK, Differentiators
  <2>3. DerivativeInv'
    BY <1>17, NullIsNoString
    DEF DerivativeInv, BeforeExpression, BeforeParse, BeforeDerivative, Endings,
        DestroyExpression, DestroyDifferentiator, trees, Goto, Fail, TypeOK, Differentiators
  <2>4. TableInv'
    BY <1>17
    DEF TableInv, BeforeExpression, BeforeParse, Differentiators, DestroyExpression,
        DestroyDifferentiator, trees, Goto, Fail
  <2>5. ReleaseInv'
    BY <1>17, NullIsNoString
    DEF ReleaseInv, Endings, DestroyExpression, DestroyDifferentiator, trees, Goto, Fail,
        TypeOK, Differentiators
  <2>6. RegisteredInv'
    BY <1>17
    DEF RegisteredInv, TreeFailure, BeforeExpression, BeforeParse, BeforeDerivative,
        Endings, DestroyExpression, DestroyDifferentiator, trees, Goto, Fail, TypeOK,
        Differentiators
  <2>7. QED
    BY <2>1, <2>2, <2>3, <2>4, <2>5, <2>6 DEF IInv
<1>18. CASE DestroyDerivative
  <2>1. TypeOK'
    BY <1>18, CallNames, NullIsNoString
    DEF TypeOK, Places, Differentiators, DestroyDerivative, DestroyDifferentiator, trees,
        Goto, Fail
  <2>2. ExpressionInv'
    BY <1>18, NullIsNoString
    DEF ExpressionInv, BeforeExpression, BeforeParse, DestroyDerivative,
        DestroyDifferentiator, trees, Goto, Fail, TypeOK, Differentiators
  <2>3. DerivativeInv'
    BY <1>18, NullIsNoString
    DEF DerivativeInv, BeforeExpression, BeforeParse, BeforeDerivative, Endings,
        DestroyDerivative, DestroyDifferentiator, trees, Goto, Fail, TypeOK, Differentiators
  <2>4. TableInv'
    BY <1>18
    DEF TableInv, BeforeExpression, BeforeParse, Differentiators, DestroyDerivative,
        DestroyDifferentiator, trees, Goto, Fail
  <2>5. ReleaseInv'
    BY <1>18, NullIsNoString
    DEF ReleaseInv, Endings, DestroyDerivative, DestroyDifferentiator, trees, Goto, Fail,
        TypeOK, Differentiators
  <2>6. RegisteredInv'
    BY <1>18
    DEF RegisteredInv, TreeFailure, BeforeExpression, BeforeParse, BeforeDerivative,
        Endings, DestroyDerivative, DestroyDifferentiator, trees, Goto, Fail, TypeOK,
        Differentiators
  <2>7. QED
    BY <2>1, <2>2, <2>3, <2>4, <2>5, <2>6 DEF IInv
<1>19. CASE DestroyNameTable
  <2>1. TypeOK'
    BY <1>19, CallNames, NullIsNoString
    DEF TypeOK, Places, Differentiators, DestroyNameTable, trees, Goto, Fail
  <2>2. ExpressionInv'
    BY <1>19, NullIsNoString
    DEF ExpressionInv, BeforeExpression, BeforeParse, DestroyNameTable, trees, Goto, Fail
  <2>3. DerivativeInv'
    BY <1>19, NullIsNoString
    DEF DerivativeInv, BeforeExpression, BeforeParse, BeforeDerivative, Endings,
        DestroyNameTable, trees, Goto, Fail
  <2>4. TableInv'
    BY <1>19
    DEF TableInv, BeforeExpression, BeforeParse, Differentiators, DestroyNameTable, trees,
        Goto, Fail
  <2>5. ReleaseInv'
    BY <1>19, NullIsNoString
    DEF ReleaseInv, Endings, DestroyNameTable, trees, Goto, Fail
  <2>6. RegisteredInv'
    BY <1>19
    DEF RegisteredInv, TreeFailure, BeforeExpression, BeforeParse, BeforeDerivative,
        Endings, DestroyNameTable, trees, Goto, Fail
  <2>7. QED
    BY <2>1, <2>2, <2>3, <2>4, <2>5, <2>6 DEF IInv
<1>20. CASE UNCHANGED vars
  <2>1. TypeOK'
    BY <1>20, CallNames, NullIsNoString
    DEF TypeOK, Places, Differentiators, vars, trees
  <2>2. ExpressionInv'
    BY <1>20, NullIsNoString
    DEF ExpressionInv, BeforeExpression, BeforeParse, vars, trees
  <2>3. DerivativeInv'
    BY <1>20, NullIsNoString
    DEF DerivativeInv, BeforeExpression, BeforeParse, BeforeDerivative, Endings, vars, trees
  <2>4. TableInv'
    BY <1>20
    DEF TableInv, BeforeExpression, BeforeParse, Differentiators, vars, trees
  <2>5. ReleaseInv'
    BY <1>20, NullIsNoString
    DEF ReleaseInv, Endings, vars, trees
  <2>6. RegisteredInv'
    BY <1>20
    DEF RegisteredInv, TreeFailure, BeforeExpression, BeforeParse, BeforeDerivative,
        Endings, vars, trees
  <2>7. QED
    BY <2>1, <2>2, <2>3, <2>4, <2>5, <2>6 DEF IInv
<1>21. QED
  BY <1>1, <1>2, <1>3, <1>4, <1>5, <1>6, <1>7, <1>8, <1>9, <1>10, <1>11,
     <1>12, <1>13, <1>14, <1>15, <1>16, <1>17, <1>18, <1>19, <1>20 DEF Next

(* So IInv holds at every place of every execution.                              *)
LEMMA Invariance == Spec => []IInv
<1>1. QED
  BY InitIInv, NextIInv, PTL DEF Spec

-----------------------------------------------------------------------------
(* Whatever fails, the variables keep their types and no structure is marked with   *)
(* another error than TREE_ERROR.                                              *)
THEOREM TypeCorrect == Spec => []TypeOK
<1>1. IInv => TypeOK
  BY DEF IInv
<1>2. QED
  BY <1>1, Invariance, PTL

(* What VerifyDifferentiator lets through has its name table: for a derivative whose *)
(* InitTree failed it is the error flag alone that tells.                         *)
THEOREM VerifiedHasTable == Spec => []VerifiedIsInitialised
<1>1. IInv => VerifiedIsInitialised
  <2> SUFFICES ASSUME IInv, NEW d \in Differentiators, Verified(d)
               PROVE  nameTable[d] = "table"
    BY DEF VerifiedIsInitialised
  <2>1. CASE d = "expression"
    BY <2>1 DEF IInv, ExpressionInv, Verified
  <2>2. CASE d = "derivative"
    <3>1. nameTable[d] # NULL
      BY <2>2 DEF IInv, DerivativeInv, Verified
    <3>2. QED
      BY <3>1 DEF IInv, TypeOK
  <2>3. QED
    BY <2>1, <2>2 DEF Differentiators
<1>2. QED
  BY <1>1, Invariance, PTL

(* An execution that ends has destroyed both buffers, the nodes the optimizer         *)
(* detached and, unless DestroyTree itself failed, both trees, whichever calls failed  *)
(* before; what it loses without a failing call or a freed node is three things.     *)
THEOREM EndsReleased == Spec => []Released
<1>1. IInv => Released
  BY DEF IInv, ReleaseInv, RegisteredInv, TableInv, Released, Endings, Differentiators
<1>2. QED
  BY <1>1, Invariance, PTL

(* What leads to undefined behaviour is what UndefinedCauses names: no other failure,  *)
(* at no other place, and without a failure only the nodes the optimizer freed.       *)
THEOREM UndefinedExplained == Spec => UndefinedCauses
<1> DEFINE Cause ==
      \/ pc = "getline" /\ "getline" \in failed'
      \/ pc = "parse" /\ failed' \cap {"InitNode token", "TreeLexer"} # {}
      \/ pc \in {"parse", "dump_init"} /\ TreeFailure("expression") \in failed
      \/ pc = "Derive" /\ "InitNode derivative" \in failed'
      \/ pc = "OptimizeTree" /\ failed' \cap {"InitNode derivative", "InitNode constant"} # {}
      \/ pc \in {"Derive", "dump_no_opt", "results"} /\ TreeFailure("derivative") \in failed
      \/ /\ pc = "results" /\ "freed" \in registered
         /\ failed \cap {"InitBuffer", TreeFailure("derivative")} = {}
      \/ pc = "dump" /\ "fopen" \in failed
<1>1. ASSUME IInv, Next, pc' = "undefined" PROVE Cause
  <2> SUFFICES ASSUME TypeOK, ExpressionInv, DerivativeInv, TableInv, ReleaseInv, RegisteredInv
               PROVE  Cause
    BY <1>1 DEF IInv
  <2>1. CASE ReadLine
    BY <1>1, <2>1 DEF ReadLine, Goto, Fail
  <2>2. CASE Parse
    BY <1>1, <2>2 DEF Parse, LexerLosesError, Accept, Refuse, Goto, Fail, ExpressionInv, BeforeExpression
  <2>3. CASE DumpInit
    BY <1>1, <2>3, NullIsNoString
    DEF DumpInit, DumpExpressionTree, Dumpable, Goto, ExpressionInv, TableInv,
       BeforeExpression, BeforeParse, Differentiators, TypeOK
  <2>4. CASE WriteExpression
    BY <1>1, <2>4, NullIsNoString
    DEF WriteExpression, Printable, Goto, ExpressionInv, TableInv,
       BeforeExpression, BeforeParse, Differentiators, TypeOK
  <2>5. CASE BeginDifferentiate
    BY <1>1, <2>5 DEF BeginDifferentiate, Goto
  <2>6. CASE Derive
    BY <1>1, <2>6 DEF Derive, Goto, Fail, DerivativeInv
  <2>7. CASE DumpNoOpt
    BY <1>1, <2>7 DEF DumpNoOpt, DumpExpressionTree, Dumpable, Goto, DerivativeInv, TableInv,
       BeforeExpression, BeforeParse, BeforeDerivative, Differentiators, TypeOK
  <2>8. CASE WriteResults
    <3>1. CASE "freed" \in registered
      BY <2>8, <3>1 DEF WriteResults, RegisteredInv
    <3>2. CASE "freed" \notin registered
      BY <1>1, <2>8, <3>2, NullIsNoString
      DEF WriteResults, Printable, Goto, ExpressionInv, DerivativeInv, TableInv, ReleaseInv,
          BeforeExpression, BeforeParse, BeforeDerivative, Endings, Differentiators, TypeOK
    <3>3. QED
      BY <3>1, <3>2
  <2>9. CASE DumpDerivative
    BY <1>1, <2>9, NullIsNoString
    DEF DumpDerivative, DumpExpressionTree, Dumpable, Goto, DerivativeInv,
       TableInv, BeforeExpression, BeforeParse, BeforeDerivative, Differentiators, TypeOK
  <2>10. CASE OptimizeTree
    BY <1>1, <2>10 DEF OptimizeTree, Optimize, Goto, Fail
  <2>11. QED
    BY <1>1, <2>1, <2>2, <2>3, <2>4, <2>5, <2>6, <2>7, <2>8, <2>9, <2>10
    DEF Next, InitReassignments, InitNameTable, InitExpression, InitTokens, OpenReport,
        DestroyReassignments, AfterBuffer, DestroyExpression, DestroyDerivative,
        DestroyNameTable, Goto
<1>2. IInv /\ [Next]_vars => [pc' = "undefined" /\ pc # "undefined" => Cause]_vars
  BY <1>1
<1>3. QED
  BY <1>2, Invariance, PTL DEF Spec, UndefinedCauses

=============================================================================
