# A TLA+ model of Differentiator

Differentiator reads one expression from standard input, differentiates it by the
first variable of its name table, simplifies the result and writes a LaTeX report.
It is a sequential C++ program. What is hard about it is not concurrency but
pointers and order: the parser works in place on nodes it may already have
destroyed and backs out of attempts; subtrees are registered in a buffer under a
name `R_i` and must live as long as the report; the optimizer rewrites the tree it
recurses through; three pieces of code free the same nodes.

The repository has no documentation and no tests. Where a run contradicts the
program, it contradicts an assertion, a name or a printed text, which the findings
in `PROJECT.json` quote.

## The system

| Component | State | Operations | What makes it correct |
|---|---|---|---|
| Operation table (`DifferentiatorOperations.def`, `DifferentiatorOperations.cpp`) | none; an X-macro list | columns: name, designation, priority, evaluation, LaTeX, derivative, neutral elements | each rule is an identity |
| Lexer (`Lexer.cpp`) | the token array, the name table | `TreeLexer` | cuts the line into the right tokens, TERMINATOR last, a record per name and an index that leads to it, comes to an end |
| Parser (`RecursiveDescentParser.cpp`) | token cursor, error flags, node links, C++ call stack | `ParseFile`, `GetGrammar`, `GetBinaryOperation`, `GetUnaryOperation`, `GetSeparator`, `GetNumber` | never leaves the array, never meets a destroyed token, accepts exactly the sentences of its grammar with the right tree, links agree |
| Reassignments (`GetReassignments`) | depth of each node, the buffer | one traversal, called after every rule | each deep subtree registered once, children before parents |
| Differentiation (`Differentiator.cpp`, `OperationsDSL.cpp`) | the new tree | `Differentiate`, one rule per operation, `CreateNode`, `CopySubtree` | the result is the derivative |
| Optimizer (`TreeOptimizations.cpp`, `OptimizeTree`) | the tree in place, `manualDelete` flags | `ComputeSubtree`, `CollapseNeutralElements` | keeps the value, keeps a tree, frees only what nobody needs, stops when nothing is left |
| Report (`DifferentiatorIO.cpp`) | the LaTeX stream | `DifferentiateAndGenerateLatexReport`, `WriteExpressionToStream`, the loop that frees detached nodes | prints only live nodes, frees each node once, what it prints reads back as the tree |
| Core (`DifferentiatorCore.cpp`) | the tree's EQUALS root, name table, error flags | `InitDifferentiator`, `DestroyDifferentiator`, `VerifyDifferentiator` | what passes the verification is initialised; everything is destroyed in the end |
| EvalTree | name table values | `EvalTree` | the value of the tree; never called |
| Main flow (`main.cpp`) | everything above, in order | a straight sequence | errors are ignored between the steps; it is known which of them do harm |
| Dump | a buffer of text | `DumpExpressionTree`, `EmitNode` | draws every node once and every link |
| Phrases | the stream | `PrintPhrase` | not modelled |
| Libraries (Tree, Buffer, FileIO, CustomAssert, Logger) | submodules, not in the repository | | external; modelled from their uses |

The components call each other in one direction: `main` → `ParseFile` → (lexer,
parser, `GetReassignments`), then the report → `Differentiate` → (rules,
`GetReassignments`) and `OptimizeTree`. They share the nodes of the tree and the
reassignments buffer, which holds plain pointers to nodes of two trees.

## The modules

| Module | Models | How its state and actions correspond to the code |
|---|---|---|
| `Operations` | the operation table | names, priorities and numbers of operands |
| `Reassignments` | `GetReassignments` | recursive functions indexed by node: the weight each call returns, the nodes it gives to the buffer, in order. A write to the buffer may fail, and nobody notices: `Written` is what the buffer gets when some nodes are refused. A node is given to it once, so it is enough to say which ones |
| `ReassignmentsProofs` | | lemmas about those functions, for any heap without cycles in which no node has two owners |
| `Extrema` | | the smallest element of a set of natural numbers: how the proofs argue by induction |
| `Text` | the symbols of a line | classes of `ctype.h` as sets of symbols, the designations of the table, what `sscanf ("%lf")` takes for a number |
| `Lexer` | `TreeLexer` | an action is one turn of a loop or one way out of it: a space, a number, a letter, the end of a word, the lookup of a name. `word` is the buffer, which outlives the word; `status` is the place in the function or how it returned. Every allocation may fail, that of a token's node too: then `NULL` is appended (`LostNode`) and the lexer goes on. `Capacity` is the memory for tokens, `MaxLost` a bound on the nodes that are lost. `spelled` is a history variable: what kind each token was to have, the word it came from and where it ended. `ImplementsTokens` is the refinement of `Tokens`: the position is where the last token ended |
| `Tokens` | nothing: the abstract lexer | one token a step, defined by the shortest designation at a place or the whole stretch of letters or punctuation |
| `MCLexer` | | lines for TLC |
| `LexerProofs` | | the theorems about `Lexer`, and that it implements `Tokens` |
| `Parser` | the parser | a stack machine: a frame is an active C++ call, an action is the code between two calls. Tokens are the tree nodes themselves, by index; a token that was destroyed or never allocated is `NULL`. `LexerResults` gives the token sequences and the way `TreeLexer` returned. `refused` is a history variable: the nodes that could not be written to the buffer. Reading outside the array or through a destroyed token leads to the status `undefined` |
| `Grammar` | nothing: the reference | the sentences of the priorities in the table and the trees of each, declaratively: a recursive function on the spans of a text |
| `Recognition` | | what `Parser` accepts and the tree it makes, stated with `Grammar` |
| `MCParser` | | inputs for TLC, and what `SyntaxAssert` stands for in the code |
| `ParserProofs` | | the theorems about `Parser`: its control, its links, the tree it hands to `GetReassignments` and `Differentiate`, and that this is the tree of the grammar |
| `Paths` | trees by value | a function from the paths of the nodes; a subtree, a tree with a part replaced. `Derivative`, `Heap` and `Simplifier` share it |
| `PathsProofs` | | lemmas about those functions |
| `Derivative` | `Differentiate`, the rules, `CreateNode`, `CopySubtree` | functions on trees; a tree is named by the paths from its root and carries labels, depths and what was registered while it was built. There is memory for the nodes here; see the abstractions |
| `Heap` | the nodes of a derivative in memory | `InMemory` lays a tree of `Derivative` out with `kind`, `value` and the three pointers; `LaidOut` and `Proper` are what the optimizer needs of such a heap |
| `Differentiation` | the call of `Differentiate` in `main` | one action, from any tree the parser may leave to the derivative and its buffer, in which up to `MaxRefused` of the nodes may be missing |
| `Slopes` | `EvalTree` on an expression, and nothing: the reference | the value of every node and, computed with it and without a derivative, the slope (forward differentiation), in any exact arithmetic |
| `DerivativeProofs` | | the theorems about `Differentiation` and `Slopes` |
| `Expressions` | what `ParseFile` leaves | the trees of terms with the depths the parser gives them, for TLC |
| `Arithmetic` | the evaluation callbacks | over the integers modulo a prime: exact, so that equality of values means something. `NaN` stands for every result that is no finite number |
| `MCDerivative` | | the expressions and the arithmetic for TLC; the words of `Writer` read back with `Grammar` |
| `Writer` | `WriteExpressionInternal`, `WriteNodeContentToLatex` | a function from a tree of `Derivative` to words. The braces of `\frac`, of an exponent and of a root are groups a reader sees, and appear as brackets |
| `Optimizer` | `OptimizeTree`, `ComputeSubtree`, `CollapseNeutralElements`; what the report reads and frees afterwards; `DestroyDifferentiator` | a heap of nodes (`kind`, `value`, `left`, `right`, `parent`, the set `live`) and a stack of the recursive calls. `order` says which operations evaluate their right operand first, since `EvalSubtree (left) + EvalSubtree (right)` leaves it open. A step that would use or free a freed node leads to the phase `undefined`. `ImplementsSimplifier` is the refinement: the term is what the pointers below the root mean |
| `Simplifier` | nothing: the abstract optimizer | a term, rewritten by the rules of the table one place at a time; no nodes, pointers, passes or memory |
| `Values` | `EvalTree` on the heap of `Optimizer` | the value of the derivative for every value of the variables, and which steps keep it |
| `MCOptimizer` | | derivatives laid out in memory; four classes of doubles: 0, 1, NaN, and the numbers that are neither 0 nor 1 nor within `EPS` of them |
| `MCOptimizerValues` | | the same derivatives in exact arithmetic |
| `OptimizerProofs` | | the theorems about `Optimizer` and `Values` |
| `Dump` | `EmitNode` and its helpers | the statements of nodes and links, in the order of the traversal, for any heap |
| `Drawing` | `main`'s first dump | `Dump` on what `Parser` accepted |
| `Session` | `main`, `ParseFile`'s beginning, `InitDifferentiator`, `VerifyDifferentiator`, `DestroyDifferentiator`, the name table's life, `DumpExpressionTree`, the order of the report | one action per call, which succeeds or fails. For each of the two structures: its root, its pointer to the name table, its error flags, whether a variable is in its tree. `registered` says what the optimizer made of nodes the buffer holds: some detached, some freed. The lexer, the parser, the rules and the optimizer are here by their outcomes only, those of an allocation that fails included. `failed` and `leaked` are history variables |
| `SessionProofs` | | the theorems about `Session` |

Definitions marked `Fault:` are not used by the specifications. Each is a bug that
the code could have, and names what changes; the mutants of `PROJECT.json` put it in
place of the definition after it, and the property named there must then fail.

Abstractions. Numbers and variables are single tokens for the parser, which only
asks whether a token is an operand. In `Derivative` and `Optimizer` there is memory
for every node; a constant of the optimizer gets the address `Fresh(n)` of the node it
replaces. In the code `CreateNode` returns `NULL` without memory
(`OperationsDSL.cpp:31`), `CopySubtree` dereferences the `NULL` it gets from `InitNode`
(`OperationsDSL.cpp:9`), and a rule that was given `NULL` leaves a hole in the derivative
or dereferences it. These outcomes are in `Session` (`InitNode derivative` and
`InitNode constant` in `Derive` and `Optimize`); the nodes of a derivative with a hole
are not followed. The registered nodes of the expression itself are not in the optimizer's `registered`:
they belong to another tree, which no modelled step changes. `GetReassignments`,
`Differentiate` and their helpers are deterministic and meet no shared state while
they run, so they are functions and not steps.

The components are composed at their interfaces: what one assumes of its input is what
a theorem says of the other's output.

| Assumption | Asks | Theorem |
|---|---|---|
| `LexerAssumption` (`Parser`) | after a normal return in which nothing was lost, words and TERMINATOR; otherwise a TERMINATOR can only be the last token, and then a `NULL` is among the others | `FitsParser` (`LexerProofs`) |
| `ExpressionAssumption` (`Differentiation`) | a tree in which every operation has its operands | `LinksCoherent` and `OperandsInPlace` (`ParserProofs`), for every input the parser accepts |
| `DerivativeAssumption` (`Optimizer`) | a tree with agreeing links, and a buffer that holds no node twice or before one below it | `DerivativeFits` (`DerivativeProofs`) |

`Session` puts the calls in the order of `main`.

External code is modelled from its uses. `InitTree` and `InitBuffer` may fail and then
leave what was there; `DestroySingleNode` tolerates `NULL`, as `ParseFile` passes it
destroyed tokens; `DestroyTree` frees everything below the root or fails; `sscanf`
takes the longest number, an unfinished exponent included, and refuses `0x` without
a digit after it. At the end of input `getline` leaves a buffer with any content, or none.

## What the runs show

| Run | Bounds | Result |
|---|---|---|
| `Parser` | all sequences of up to 5 words over 7 kinds of token, up to 4 over all 9, all chains of 5 operands; up to 3 words, or `NULL`s in their place, of which the lexer lost something | `TypeOK`, `CursorSafe`, `LostNotAccepted`, `LinksAgree`, `LinkedAlive`, `RegisteredBottomUp`, `FitsDifferentiate`, `AcceptsSentences`, `MisparseDropsTokens`, `DumpDescribesTree`, `Termination` hold |
| `ParserSentences` | up to 4 words | violated: `number ^ sin variable` is accepted, as the tree of `sin variable`, whatever came before. By the same recovery `( number number variable` yields a number with a child, a `TREE_ERROR` no caller looks at |
| `Derivative` | 10,377 trees: two levels of all operations, and a function around those; what a misparse leaves, an operand with a child or `=` as an operation, alone and inside an operation; operands x, y, 0, 2; every write to the buffer succeeding or one of them refused; modulo 5, at every point | the result is the derivative whenever every power is a power of the variable; no node is registered twice or before one below it, whichever write is refused; the derivative is what the optimizer needs (`FitsOptimizer`); `ReadsBack`: the printed expression and derivative and every `R_i` are read by the grammar of the program as the tree that was printed, and as no other, for texts of up to 30 words |
| `DerivativePowers` | the same, without a refused write | violated: the rule of POW ignores the base's derivative |
| `Optimizer` | derivatives of expressions with products and powers, operands x, 0, 2, and of misparsed ones; four classes of doubles; left or right operand first | the tree stays a tree of allocated nodes with agreeing links; the passes meet no freed node, only the two loops of the report can; the loop that frees the detached nodes frees none twice; only constants made by the optimizer leak |
| `OptimizerValues` | derivatives of expressions over all operations and functions, also a function twice around an operation; modulo 5, every value of x | only the rules for a zero on the left of `-` and `^` change a value; every step is a rewriting of the term; at the end no rule applies; the loop stops |
| `OptimizerNegation` | products and quotients | violated: `0 - x` becomes `x` |
| `OptimizerRegistered` | products and quotients with 0 | violated: a registered node dies with an unregistered one above it |
| `OptimizerDelete` | the derivative of x / 2 · 1 ^ (0 + 0 + 2) + 2 | violated: that loop asks a child it freed before whose child it is |
| `Lexer` | lines of up to 5 symbols over letters, two punctuation marks, a digit and a space; up to 3 over more symbols, one of them in no class; eight longer lines with functions and numbers; words of at most 4 letters, memory for 7 tokens, at most one lost node | the lexer refines `Tokens`, a lost token standing for what it was to be; a normal return means that the line can be cut into tokens; TERMINATOR is then the last token, or a `NULL` in its place, and never before; each word is in the name table once; memory runs out only on lines where the scan gets stuck; it always returns |
| `LexerNames` | lines of up to 3 symbols | violated: two variables, one index |
| `Session` | every call failing or not | which failing calls lead to undefined behaviour, and where; with no failing call, only the loops of the report over nodes the optimizer freed do. What is verified is initialised. At the end both buffers, both trees and the detached nodes are destroyed; without a failure what is lost is the report file, which is never closed, tokens a misparse dropped and constants of the optimizer |

Why the bounds are enough. Five words hold a bracketed operation, a function of a
bracket, and every way an attempt can fail after taking a token, inside and outside
brackets; the chains give subtrees deeper than `MAX_DEPTH` twice over. A third level, a
function around two others, is what makes a rule look again at what the rule below it
registered; one function is enough for that (`COS`, whose rule makes as many nodes as
any function's). One refused write can be any of them, and what becomes of the others
does not depend on how many there are. For the
optimizer, the derivative of two operations one above the other already has up to
forty nodes and several registered ones, nested and side by side, because every rule
copies its operands; that gives every combination of detached, registered and freed
neighbours the rules can make of two levels. What two levels do not give is a node
detached in one pass whose registered child is detached in a later one; the expression
of `OptimizerDelete` is there for that, and is among the derivatives of `Optimizer` too.
The classes of doubles (0, 1,
NaN, and the numbers that are not near them) are what the neutral elements tell apart; a
result that arithmetic on the classes leaves open is chosen freely. Numbers within `EPS`
of 0 or 1, but different from them, are in no class: about them say the theorems, which hold for
every `Evaluate`. Modulo 5 the constants 0, 1,
2 and -1 differ and every non-zero number has an inverse, so that an identity of the
rules is an identity there; the functions are tables, about which the rules of the
optimizer may assume nothing, and the derivative rules only that each is paired with
its derivative.

For the lexer, what matters of a symbol is its class and whether it begins or
continues a designation or a number. Five symbols hold two words with a border
between them, a word that meets a designation half way (`ln`, `+`), a number in front
of a word, and every way of getting stuck; the longer lines add the designations of
three and four letters, a word of five letters (one too many, with
`MAX_WORD_LENGTH` 4 for 256) and an exponent that eats a function's first letter.
`Digit` has three digits, as only 0 (in `0x`) differs from the others. `Capacity` is
more than the longest line needs, so that it is reached only by a lexer that is
stuck. The size of a name table record is the real one, 16. `Session` has no bounds:
its state space is complete. Texts of more than 30 words are long
derivatives made of the same neighbourhoods of two levels the shorter ones have.

`CHECK_DEADLOCK FALSE` stands in every configuration because the program ends.

Fairness is weak fairness of the whole next-state relation: one thread, which never
waits for anything, goes on as long as it has a next step. No action gets fairness of
its own.

## What is proved

The proofs are about the specifications the runs check, for every value of the
constants. Where a proof has to argue by induction over numbers, positions or trees it
takes a smallest counterexample (`Extrema`, and `TreeInduction` and `TreeRecursion` in
`ReassignmentsProofs`, over links or over paths), because the induction theorems of the library take an operator
as a parameter, which the provers cannot instantiate.

### The parser

`ParserProofs` assumes `NullAssumption` and `LexerAssumption` only: any set of token
sequences of any length, any way the lexer may return, any of the nodes lost.

- `TypeCorrect`: `Spec => []TypeOK`. `TypeInv` adds to `TypeOK` what each frame must
  hold at the place it is suspended at: a binary operation in its loop has a value, one
  that waits for its right operand has its node, and each priority belongs to its
  function.
- `CursorSafety`: `Spec => []CursorSafe`. Not inductive: a step that reads needs to
  know that the token under the cursor is alive. `CursorInv` says that everything from
  the cursor on is still there and, as long as the lexer did its work, that the cursor
  is at most at TERMINATOR, which no step consumes. The recovery in
  `GetUnaryOperation` is the interesting case: whatever the failed attempt destroyed is
  behind the cursor.
- `LossesRefused`: `Spec => []LostNotAccepted`. Nobody looks at what the lexer returned
  or whether a token is there; what keeps a damaged line from being differentiated is
  only that the end must be TERMINATOR and that a missing token cannot be passed.
  `LexerInv` says so: as long as the parser is at work, what is behind the cursor are
  words that were there. A `TERMINATOR` after a loss has a `NULL` before it, by
  `LexerAssumption`, so the cursor never comes to it.
- `LinksCoherent`: `Spec => []LinksAgree`. `LinkInv` adds that the values the active
  calls hold are different nodes behind the cursor without a parent, so that linking
  one gives it its first owner, and that the nodes from the cursor on have no links.
- `NothingDangles`: `Spec => []LinkedAlive`. Brackets are destroyed while nodes hang
  below each other. `AliveInv` adds that every owner is behind the cursor
  (`OwnersBehind`) and that what the calls hold is alive: a bracket is destroyed where
  it is read, at the cursor, and so is never one of them.

`ReassignmentsBottomUp`: `Spec => []RegisteredBottomUp` is about the tree. Two
things must hold of the heap before the traversal is known to end and to meet every
node once. `Acyclic` says that there is an order that every link goes down; the index
of a token is no such order, since an operation lies between its operands, so the
proof gives a new top rank to every owner when it is linked. That a node has one owner
is `LinksAgree`. `SumInv` then says that the depths of what is complete add up, whatever
was linked and given up before. The rest is about the functions of `Reassignments` on
any such heap: `ReassignmentsProofs` shows that their recursive definitions have a
solution, what a subtree contains, that two subtrees are nested or apart, and with it
which nodes are registered (`RegisteredExactly`) and in which order
(`RegisteredInOrder`).

`OperandsInPlace`: `Spec => []FitsDifferentiate`. The rules, the evaluation and the
printer dereference operands nobody checked. `SumInv` carries the reason along: what a
call returns is complete, every node below it having the operands of its label, and an
operation that waits for its right operand is held by its own frame and in no other
tree, so that one given up half way never gets into the accepted tree.

`DrawsTheTree`: `Spec => []DumpDescribesTree`. `EmitNodeIs` gives the recursive
definition of `EmitNode` a solution, and `TreeDrawn` shows by induction over the tree what
it is: below a node that has no cycle below it and no node with two owners, the statements
are one for each node and one for each link (`DrawnAboveDraws`: what the children emit is
apart), and one less for the links than for the nodes (`DrawnAboveCounted`). The labels
are there because of `OperandsInPlace`: no destroyed token is in the tree.

Two theorems compare the parser with `Grammar`, for inputs of every length. The trees of a
span are the solution of a recursive definition on spans (`PhrasesAre`), and a level that is
repeated to the left has a spine of operations, which is what a loop walks (`Spine`).

- `SentencesAccepted`: `Spec => []AcceptsSentences`. The invariant, `ExpectInv`, is about
  an input that is a sentence, with any of its trees: every active call has a goal
  (`Expects`). A goal is a phrase of a level with its tree and the place where it ends, or
  the failure of an attempt, which leaves the cursor where it was.
  Each kind of suspended call says what its callee has to deliver for it to reach its own
  goal (`Suspends`), and a loop that it can get from where it is to the end of its
  phrase (`Leads`). The failure of the attempt in `GetUnaryOperation` is a goal like any
  other, so that the recovery after it is known to begin at the right token. When all
  calls have delivered, the tree is the one that was chosen: hence there is only one.
- `LossesShow`: `Spec => []MisparseDropsTokens`. What the parser accepts need not be a
  sentence (the run `ParserSentences`), so the invariant, `CleanInv`, is a disjunction. As
  long as nothing was given up, every call has parsed a phrase from where it began
  (`Clean`), and no operand has a child. Otherwise there is a root that was given up
  (`Lost`): a node behind the cursor, alive, owned by nobody and held by no call. Such a
  root stays (`LostStays`), since only what a call holds is ever linked, and a call that
  gives up a value makes one (`LostNow`). At the end it is a token that is not in the tree.

### The lexer

`LexerProofs` assumes `ClassAssumption` (the classes of `ctype.h` are disjoint),
`LexerBounds` (sizes are numbers) and `LinesAreWords` (a line is a sequence of symbols).
Its invariant is `BufferInv`, where in the line and in the word buffer each place of
`TreeLexer` is, and `TokensInv`, what each token written so far has to do with the word
it was made from.

- `TypeCorrect`, `TerminatorOnlyLast`, `OneRecordPerName`: `TypeOK`, `TerminatorLast` and
  `NamesOnce` hold throughout, whichever allocations fail. After a normal return the last
  token was to be TERMINATOR: it is, or it is the `NULL` its node was lost to.
- `FitsParser`: when `TreeLexer` returns, what it hands over is what `LexerAssumption`
  asks of an element of `LexerResults`: complete, or marked by the loss that the parser
  then comes to. It makes that assumption of the theorems about
  the parser a fact about the lexer.

It also proves the refinement, `Refinement`: `Spec => ImplementsTokens`. The
abstract lexer compares a whole run of symbols with the table and the code decides letter
by letter; `PlaceInv` says that, at each letter, none of the prefixes read so far is a
designation and no boundary was passed. From it `NormalNeedsScannable` and
`MemoryBound`: a normal return means the line can be cut into tokens, and on such a
line memory does not run out before its length. `ProgressInv` relates the place of the
scan to the solution of the recursive definition of `Scannable`.

### Differentiation

`DerivativeProofs` is about `Differentiate` on any tree of any size. For the shape of the
result it assumes `ExpressionAssumption` (a tree in which the operations have their
operands: what `ParserProofs` proves of the parser), `LiteralAssumption` (a label is a
number, a variable or an operation, and only one of them) and `NullAssumption`.

- `BufferInOrder`: `Spec => []RegisteredOnce`, whichever writes to the buffer are refused
  (`WrittenIs`: what is written is in the order of what was given). The rules call `GetReassignments` on
  every level, over trees that contain the results of the levels below. What makes this
  work is that a registered node has depth 1, so that the next traversal stops there.
  `Shaped` says so, together with the order of the buffer, and every function that
  makes a tree is shown to keep it: `CreateNodeIs` (two buffers one after the other, below
  two different children), `ReassignedInOrder` (the new ones are above the old ones),
  `CopyInOrder` (a copy has no buffer but keeps the depths), and the rules made of them.
- `DerivativeFits`: `Spec => []FitsOptimizer`. Laid out in memory, the derivative is what
  `DerivativeAssumption` of `Optimizer` asks, for every expression, misparsed or not; and
  it is `Proper` if the expression is a `Formula`: operands are leaves there and `=` is no
  operation.
- `DifferentiatesRightly`: `Spec => []DerivativeCorrectWithoutChain`. By induction over
  the expression, the derivative of each of its parts has the value its slope has. It
  needs that the value of a tree follows from those of its operands (`NodeValueIs`, from
  `PathRecursion`: the recursive definitions of `Slopes` have a solution), that a copy
  has the value of what it is a copy of (`CopyValueIs`), and that `GetReassignments`
  changes no value. What is left is algebra, a lemma for each rule: `QuotientRule`,
  `NumberPowerRule`, `PowerRule`, together `RuleIsRight`. The reference is not the rule
  again: the quotient of the textbook is `(u' - (u/v) v') / v`, a power with a number as
  exponent a product of equal factors, and functions have slopes of their own.

  Its assumptions say what an exact arithmetic is: the finite numbers are a field in
  which `a^2` is `a a` and `a^b` is `a a^(b-1)` (`FieldAssumption`), 0, 1, 2 and -1 are
  among them (`ConstantsAssumption`), an operation without a number it needs has none as
  its result, but for `pow` (`NumberAssumption`), variables are not operations
  (`VariableAssumption`), and a point gives every variable a number (`PointsAssumption`).
  They leave open what the functions are. Doubles round, so they are not a field; the
  theorem is about the formulas, not about rounding. `DerivativePowers` shows that the
  condition on the powers cannot be dropped.

### The optimizer

`OptimizerProofs` assumes that the numbers the rules use are numbers
(`NumberAssumption`), that an evaluation has a number or NaN as its result
(`EvaluateAssumption`), and `DerivativeAssumption`: the trees are those `CreateNode` and
`CopySubtree` link, and the buffer holds no node before one below it. The number of
nodes, the operations, the arithmetic, the registered nodes and the operand orders are
arbitrary.

The invariant `IInv` describes the heap as a forest. `Mine` is what belongs to a node:
its children, or, of a detached node, those that still name it as their parent. Every
allocated node that is neither the root nor detached nor a constant belongs to exactly
one other, its parent (`OneOwner`, `ParentIs`, `HasOwner`); the root and the detached nodes
belong to none (`TopsFree`); what belongs to an allocated node is allocated
(`OwnedLive`). `NotYet` says that a node's constant exists only once the node has given way,
which is what makes the new link the constant's first. `CallInv` says that each active
call works on a child of the node of the call before, so that replacing the innermost
node leaves the nodes of the others in the tree, and `ReportInv` what the loops of
the report have done so far. Four kinds of steps change the forest, and each is a lemma
for any forest: a node gives way to another (`DetachKeepsForest`), a tree nobody owns is
freed (`FreeKeepsForest`), and the order of the buffer makes the loop free a node before
any node above it (`DeletedIs`, `BufferInv`).

- `TypeCorrect`: `Spec => []TypeOK`.
- `TreeStaysIntact`: `Spec => []TreeIntact`. That a tree has one link less than nodes
  follows from a bijection (`LinksCounted`).
- `PassesNeverUndefined`: `Spec => UndefinedOnlyInReport`.
- `ReportFreesOnce`: `Spec => []FreedOnce`.
- `ConstantsLeak`: `Spec => []LeaksOnlyConstants`; with `AllBelowRoot`, that when no
  detached node is left everything but constants is below the root.
- `OptimizesCompletely`: `Spec => []NothingLeft`, for derivatives that are all `Proper`.
  `QuietInv` says what a pass has established as long as it has changed nothing: below
  every child that was visited there is nothing to do, and the result of the call is what
  the child is. By `DerivativeFits` the derivatives of formulas are `Proper`. Others need
  not be, and are left unfinished: the passes do not look below a number, which may have
  got a child by a misparse (see the run `ParserSentences`), nor at the right operand of
  an `=` that was copied into the derivative.
- `RewritesByTheRules`: `Spec => ImplementsSimplifier`, the refinement. `TermIs` shows
  that the pointers below a node mean a term, built from the terms of its operands.
  `GotInv` says that the results an active call has got are the operands it evaluates,
  although they were computed on nodes that may have given way since. Then a node gives
  way either to a constant or to one of its children, and `ReplacementGrafts` shows that
  on the term this is one subterm replaced at the path of the node, whatever else the
  step does to links and memory; `FoldRewrites` and `CollapseRewrites` that what takes its
  place is what a rule of the table says.
- `ValueKept`: `Spec => OnlyZeroOnTheLeftChangesValue`. Each rule, but for the two, keeps
  the value of the node that gives way (`FoldPreserves`, `NeutralPreserves`), and
  `ReplacementPreserves` carries that up to the root: a node's value may only change from
  NaN to something, and an operation either ignores such an operand or is NaN with it. The assumptions of
  `Values` say which arithmetic: `EvalTree` and the optimizer compute the same
  (`ResultAssumption`), what is no number makes no number of an operation it matters to
  (`NaNAssumption`), and the neutral elements are neutral (`NeutralAssumption`). Doubles
  satisfy them up to `EPS` only: 0 is everything up to 10^-5 there.

What is not true is that nothing freed is ever used: `OptimizerRegistered` and
`OptimizerDelete` show the two loops of the report doing it. In the second, a registered
product gives way to its factor and keeps its pointer to it; a pass later the factor, also
registered, gives way to a constant. The loop comes to the factor first, frees it, and
then reads its parent pointer to learn whether it still belongs to the product. The
condition is right (`ReportFreesOnce`: nothing is freed twice as long as what it reads is
intact) but it is asked of freed memory.

### The session

`SessionProofs`, for every combination of failing calls (`NullIsNoString` is all it
assumes):

- `TypeCorrect`: `Spec => []TypeOK`.
- `VerifiedHasTable`: `Spec => []VerifiedIsInitialised`. The derivative gets its root
  from `Differentiate` even when its `InitDifferentiator` failed and left it without a
  name table; what keeps such a structure from being verified is the error flag.
- `EndsReleased`: `Spec => []Released`. Detached nodes hang only in the buffer: they are
  released because the report's loop always comes before the buffer is destroyed.
- `UndefinedExplained`: `Spec => UndefinedCauses`. The last cause needs no failing call:
  the report reads a node the optimizer freed (see `OptimizerRegistered` and
  `OptimizerDelete`). It needs a buffer and a derivative that were initialised.

None of them is inductive: each is about a place far from the failure it depends on.
`IInv` carries the failure there. It says at which places the expression and the
derivative may still have no root, that a missing root or name table has its
`TREE_ERROR` set and its failure on record, where there may be registered nodes that are
detached or freed and that nothing they need has failed then (`RegisteredInv`), and what
has been destroyed at each of the places of the end.

### Only model-checked

- `Termination` of the parser, the lexer and the optimizer: liveness under fairness, which
  is out of this prover's reach.
- `ReadsBack`: it reads the text of `Writer` with `Grammar`. The theorems about the parser
  show how to argue about the sentences of `Grammar`; what is missing is the other side,
  how the words of a subtree lie in those of the tree above it.

The properties of the violated runs are false, so there is nothing to prove of them.

## Not modelled

- Fixed text: the head of the document, the phrases, the graphviz attributes that say
  nothing of the tree.
- The form of numbers: a number is one word of the printed text. So a negative base of
  a power, which only the optimizer can make and which gets no brackets, is not in
  `ReadsBack`; nor is the derivative after the optimization.
- `WriteNodeContentToStream`: nothing calls it.
- The error flags `EvalTree` sets: nothing calls it either. The values it computes are
  `EvalInternal` in `Values` and `Values` in `Slopes`.
- Failing writes to the print buffers of the report: they truncate a text and are
  dropped by every caller.
- A derivative with a hole, where memory ran out, node by node: only what comes of it, in
  `Session`.
- The libraries, beyond what is said above of their uses.

## Plan

1. Done: `Operations`, `Reassignments`, `Parser` with `Grammar`; `Derivative`, `Heap`,
   `Optimizer`; `Text`, `Lexer`, `Tokens`; `Writer`; `Dump`; `Session`; `Simplifier` and
   the refinements; `Slopes` and `Values`.
2. Done: theorems about every module with a state, and about the interfaces between them:
   what each component assumes of its input is proved of the one before.
3. Done: both refinements, of `Tokens` and of `Simplifier`; that Differentiate is right
   for powers of the variable, and that the optimizer keeps values, in exact arithmetic.
4. Worth stating next: for which expressions the report meets no freed node, as an
   invariant about what registered nodes may lie below an unregistered one.
5. Done: that the parser accepts the sentences of `Grammar`, each with its one tree, and
   loses tokens wherever it accepts anything else.
6. Worth proving next: `ReadsBack`, with recursive functions in place of the RECURSIVE
   operators that read a text back.
