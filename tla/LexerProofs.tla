----------------------------- MODULE LexerProofs -----------------------------
(***************************************************************************)
(* Theorems about Lexer, for every set of lines, all sizes of the word buffer  *)
(* and of the memory, and every combination of failing allocations; and that it  *)
(* implements Tokens: one symbol at a time it yields the tokens the abstract    *)
(* lexer cuts off the line.                                                  *)
(***************************************************************************)
EXTENDS MCLexer, Extrema, SequenceTheorems, FiniteSetTheorems

-----------------------------------------------------------------------------
(* The text.                                                                  *)

(* A run is inside the text, is in the class, and is followed by a symbol that is  *)
(* not, or by the end of the text.                                             *)
LEMMA RunLengthIs ==
  ASSUME NEW S, NEW text \in Seq(S), NEW from \in 1..(Len(text) + 1), NEW class
  PROVE  /\ RunLength(text, from, class) \in 0..(Len(text) - from + 1)
         /\ \A k \in from..(from + RunLength(text, from, class) - 1) : text[k] \in class
         /\ from + RunLength(text, from, class) <= Len(text)
              => text[from + RunLength(text, from, class)] \notin class
<1> DEFINE L == {n \in 0..(Len(text) - from + 1) : \A k \in from..(from + n - 1) : text[k] \in class}
           r == RunLength(text, from, class)
<1>1. Len(text) \in Nat
  BY LenProperties
<1>2. L \subseteq Nat /\ Len(text) - from + 1 \in Nat /\ \A n \in L : n <= Len(text) - from + 1
  BY <1>1
<1>3. 0 \in L
  BY <1>1
<1>4. r \in L /\ \A n \in L : r >= n
  <2>1. r = Max(L)
    BY DEF RunLength
  <2> HIDE DEF L, r
  <2>2. QED
    BY <1>2, <1>3, <2>1, MaxIs
<1>5. ASSUME from + r <= Len(text), text[from + r] \in class
      PROVE  FALSE
  <2>1. r \in Nat /\ r + 1 \in 0..(Len(text) - from + 1)
    BY <1>1, <1>4, <1>5
  <2>2. \A k \in from..(from + (r + 1) - 1) : k \in from..(from + r - 1) \/ k = from + r
    BY <2>1
  <2>3. r + 1 \in L
    BY <1>4, <1>5, <2>1, <2>2
  <2>4. QED
    BY <1>4, <2>1, <2>3
<1>6. QED
  BY <1>4, <1>5

(* Only one length has these three properties.                                  *)
LEMMA RunLengthUnique ==
  ASSUME NEW S, NEW text \in Seq(S), NEW from \in 1..(Len(text) + 1), NEW class,
         NEW n \in 0..(Len(text) - from + 1),
         \A k \in from..(from + n - 1) : text[k] \in class,
         from + n <= Len(text) => text[from + n] \notin class
  PROVE  RunLength(text, from, class) = n
<1> DEFINE r == RunLength(text, from, class)
<1>1. Len(text) \in Nat
  BY LenProperties
<1>2. /\ r \in 0..(Len(text) - from + 1)
      /\ \A k \in from..(from + r - 1) : text[k] \in class
      /\ from + r <= Len(text) => text[from + r] \notin class
  BY RunLengthIs
<1> HIDE DEF r
<1>3. ASSUME r < n
      PROVE  FALSE
  <2>1. from + r \in from..(from + n - 1) /\ from + r <= Len(text)
    BY <1>1, <1>2, <1>3
  <2>2. QED
    BY <1>2, <2>1
<1>4. ASSUME n < r
      PROVE  FALSE
  <2>1. from + n \in from..(from + r - 1) /\ from + n <= Len(text)
    BY <1>1, <1>2, <1>4
  <2>2. QED
    BY <1>2, <2>1
<1>5. r = n
  BY <1>1, <1>2, <1>3, <1>4
<1>6. QED
  BY <1>5 DEF r

(* Behind the text there is no symbol.                                          *)
LEMMA AtSymbol ==
  ASSUME NEW text, Len(text) \in Nat, NEW n \in Nat \ {0},
         NEW mark \in {".", "e", "p", "+", "-", "x"}, At(text, n) = mark
  PROVE  n \in 1..Len(text)
<1>1. CASE n <= Len(text)
  BY <1>1
<1>2. CASE ~ (n <= Len(text))
  <2>1. At(text, n) = ""
    BY <1>2, Zenon DEF At
  <2>2. mark # ""
    OBVIOUS
  <2>3. QED
    BY <2>1, <2>2, Zenon
<1>3. QED
  BY <1>1, <1>2

(* sscanf takes no symbol behind the end of the line.                             *)
LEMMA NumberLengthBound ==
  ASSUME NEW S, NEW text \in Seq(S), NEW at \in 1..Len(text)
  PROVE  NumberLength(text, at) \in 0..(Len(text) - at + 1)
<1> DEFINE HexDigit == Digit \cup {"e", "c"}
           Fraction(from, digits) ==
             LET whole == from + RunLength(text, from, digits)
             IN  IF At(text, whole) = "." THEN whole + 1 + RunLength(text, whole + 1, digits)
                 ELSE whole
           Exponent(from, mark) ==
             LET sign == IF At(text, from + 1) \in {"+", "-"} THEN from + 2 ELSE from + 1
             IN  IF At(text, from) = mark THEN sign + RunLength(text, sign, Digit) ELSE from
           hexadecimal == At(text, at) = "0" /\ At(text, at + 1) = "x"
           End == Len(text) + 1
<1>1. Len(text) \in Nat
  BY LenProperties
<1>2. ASSUME NEW from \in 1..End, NEW digits
      PROVE  Fraction(from, digits) \in from..End
  <2> DEFINE whole == from + RunLength(text, from, digits)
  <2>1. whole \in from..End
    BY <1>1, RunLengthIs
  <2>2. CASE At(text, whole) = "."
    <3>1. whole \in Nat \ {0}
      BY <2>1
    <3> HIDE DEF whole
    <3>2. whole \in 1..Len(text)
      BY <1>1, <2>2, <3>1, AtSymbol
    <3>3. whole + 1 \in 1..(Len(text) + 1)
      BY <1>1, <3>2
    <3>4. RunLength(text, whole + 1, digits) \in 0..(Len(text) - (whole + 1) + 1)
      BY <3>3, RunLengthIs
    <3>5. whole + 1 + RunLength(text, whole + 1, digits) \in from..End
      BY <1>1, <2>1, <3>2, <3>4
    <3>6. QED
      BY <2>2, <3>5 DEF whole
  <2>3. QED
    BY <2>1, <2>2
<1>3. ASSUME NEW from \in 1..End, NEW mark \in {"e", "p"}
      PROVE  Exponent(from, mark) \in from..End
  <2> DEFINE sign == IF At(text, from + 1) \in {"+", "-"} THEN from + 2 ELSE from + 1
  <2>1. CASE At(text, from) = mark
    <3>1. from \in 1..Len(text)
      <4>1. from \in Nat \ {0} /\ mark \in {".", "e", "p", "+", "-", "x"}
        OBVIOUS
      <4>2. QED
        BY <1>1, <2>1, <4>1, AtSymbol
    <3>2. sign \in (from + 1)..End
      <4>1. CASE At(text, from + 1) \in {"+", "-"}
        <5>1. from + 1 \in 1..Len(text)
          <6>1. from + 1 \in Nat \ {0}
            BY <1>1
          <6>2. QED
            BY <1>1, <4>1, <6>1, AtSymbol
        <5>2. QED
          BY <1>1, <4>1, <5>1
      <4>2. QED
        BY <1>1, <3>1, <4>1
    <3>3. RunLength(text, sign, Digit) \in 0..(Len(text) - sign + 1)
      BY <1>1, <3>1, <3>2, RunLengthIs
    <3> HIDE DEF sign
    <3>4. sign + RunLength(text, sign, Digit) \in from..End
      BY <1>1, <3>1, <3>2, <3>3
    <3>5. QED
      BY <2>1, <3>4 DEF sign
  <2>2. CASE At(text, from) # mark
    BY <1>1, <2>2
  <2>3. QED
    BY <2>1, <2>2
<1>4. NumberLength(text, at) =
        IF ~hexadecimal THEN Exponent(Fraction(at, Digit), "e") - at
        ELSE IF At(text, at + 2) \notin HexDigit \cup {"."} THEN 0
        ELSE Exponent(Fraction(at + 2, HexDigit), "p") - at
  BY DEF NumberLength
<1> HIDE DEF Fraction, Exponent
<1>5. CASE ~hexadecimal
  <2>1. Fraction(at, Digit) \in at..End
    BY <1>1, <1>2
  <2>2. Exponent(Fraction(at, Digit), "e") \in Fraction(at, Digit)..End
    BY <1>1, <1>3, <2>1
  <2>3. QED
    BY <1>1, <1>4, <1>5, <2>1, <2>2
<1>6. CASE hexadecimal /\ At(text, at + 2) \in HexDigit \cup {"."}
  <2>1. at + 1 \in 1..Len(text)
    <3>1. at + 1 \in Nat \ {0}
      BY <1>1
    <3>2. QED
      BY <1>1, <1>6, <3>1, AtSymbol
  <2>2. at + 2 \in 1..End
    BY <1>1, <2>1
  <2>3. Fraction(at + 2, HexDigit) \in (at + 2)..End
    BY <1>2, <2>2
  <2>4. Exponent(Fraction(at + 2, HexDigit), "p") \in Fraction(at + 2, HexDigit)..End
    BY <1>1, <1>3, <2>2, <2>3
  <2>5. QED
    BY <1>1, <1>4, <1>6, <2>2, <2>3, <2>4
<1>7. CASE hexadecimal /\ At(text, at + 2) \notin HexDigit \cup {"."}
  BY <1>1, <1>4, <1>7
<1>8. QED
  BY <1>5, <1>6, <1>7

(* The line is a sequence of symbols, and has a length.                           *)
LEMMA LineIsWord ==
  ASSUME input \in Inputs
  PROVE  input \in Seq(Symbols) /\ Len(input) \in Nat
         /\ \A n \in 1..Len(input) : input[n] \in Symbols
<1>1. input \in Seq(Symbols)
  BY LinesAreWords DEF Words
<1>2. QED
  BY <1>1, LenProperties, ElementOfSeq

-----------------------------------------------------------------------------
(* The invariant, in two parts: the reading and the writing.                      *)

(* The letters read so far are in the buffer.                                    *)
BufferInv ==
  /\ input \in Inputs
  /\ symbol \in 1..(Len(input) + 1)
  /\ letterNumber \in 0..MAX_WORD_LENGTH
  /\ word # NULL => /\ word \in Words
                    /\ letterNumber <= Len(word) /\ Len(word) <= MAX_WORD_LENGTH

Places == {"scan", "word", "name", "undefined"} \cup Outcomes

TokenRecords == [kind : TokenKinds \cup {NULL}, variableIndex : Nat \cup {NULL}]

Spellings == [kind : TokenKinds, word : Words, end : 1..(Len(input) + 1)]

Named(text) == \E k \in 1..Len(nameTable) : nameTable[k] = text

(* A token is what it was to be, or lost.  A variable has an index in the name table,  *)
(* and its word is there.                                                      *)
TokenInv(i) ==
  /\ tokens[i].kind \in {spelled[i].kind, NULL}
  /\ IF tokens[i].kind = "VARIABLE_NODE"
     THEN tokens[i].variableIndex \in 0..(Len(nameTable) - 1) /\ Named(spelled[i].word)
     ELSE tokens[i].variableIndex = NULL
  /\ spelled[i].kind = "TERMINATOR" <=> status = "NO_PARSING_ERRORS" /\ i = Len(tokens)

TokensInv ==
  /\ status \in Places
  /\ nameTable \in Seq(Words)
  /\ \A i, j \in 1..Len(nameTable) : nameTable[i] = nameTable[j] => i = j
  /\ tokens \in Seq(TokenRecords) /\ spelled \in Seq(Spellings)
  /\ Len(spelled) = Len(tokens)
  /\ \A i \in 1..Len(tokens) : TokenInv(i)

IInv == BufferInv /\ TokensInv

-----------------------------------------------------------------------------
(* Before the scan starts nothing is written.                                *)
LEMMA InitIInv == Init => IInv
<1> SUFFICES ASSUME Init
             PROVE  IInv
  OBVIOUS
<1>1. Len(input) \in Nat
  BY LineIsWord DEF Init
<1>2. <<>> \in Seq(Words) /\ <<>> \in Words /\ <<>> \in Seq(TokenRecords) /\ <<>> \in Seq(Spellings)
      /\ Len(<<>>) = 0
  BY EmptySeq DEF Words
<1>3. BufferInv
  BY <1>1, <1>2, LexerBounds DEF Init, BufferInv
<1>4. TokensInv
  BY <1>2 DEF Init, TokensInv, Places
<1>5. QED
  BY <1>3, <1>4 DEF IInv

(* A step that neither returns normally nor writes a token keeps what was written.   *)
LEMMA NothingWritten ==
  ASSUME TokensInv, UNCHANGED <<input, nameTable, tokens, spelled>>,
         status # "NO_PARSING_ERRORS", status' \in Places \ {"NO_PARSING_ERRORS"}
  PROVE  TokensInv'
<1>1. Len(tokens)' = Len(tokens) /\ Spellings' = Spellings
  BY DEF Spellings
<1>2. \A i \in 1..Len(tokens) : TokenInv(i)'
  BY DEF TokensInv, TokenInv, Named
<1>3. QED
  BY <1>1, <1>2 DEF TokensInv, Places, Outcomes

(* WriteNodePointer writes one token, or none and gives up.                        *)
Written(kind, index, text, end, next) ==
  /\ status' = next
  /\ tokens' \in Seq(TokenRecords) /\ spelled' \in Seq(Spellings)
  /\ Len(tokens') = Len(tokens) + 1 /\ Len(spelled') = Len(spelled) + 1
  /\ \A i \in 1..Len(tokens) : tokens'[i] = tokens[i] /\ spelled'[i] = spelled[i]
  /\ tokens'[Len(tokens')] \in {[kind |-> kind, variableIndex |-> index], LostNode}
  /\ spelled'[Len(tokens')] = [kind |-> kind, word |-> text, end |-> end]

(* WriteNodePointer appends the token or, without memory, leaves the tokens alone. *)
LEMMA WriteOutcome ==
  ASSUME TokensInv, NEW kind \in TokenKinds, NEW index \in Nat \cup {NULL}, NEW text \in Words,
         NEW end \in 1..(Len(input) + 1), NEW next, WriteNodePointer(kind, index, text, end, next)
  PROVE  \/ Written(kind, index, text, end, next)
         \/ status' = "TOKEN_ARRAY_ERROR" /\ UNCHANGED <<tokens, spelled>>
<1>1. /\ [kind |-> kind, variableIndex |-> index] \in TokenRecords /\ LostNode \in TokenRecords
      /\ [kind |-> kind, word |-> text, end |-> end] \in Spellings
  BY DEF TokenRecords, Spellings, LostNode
<1>2. ASSUME NEW node \in {[kind |-> kind, variableIndex |-> index], LostNode},
             tokens' = Append(tokens, node),
             spelled' = Append(spelled, [kind |-> kind, word |-> text, end |-> end]),
             status' = next
      PROVE  Written(kind, index, text, end, next)
  <2>1. tokens \in Seq(TokenRecords) /\ spelled \in Seq(Spellings) /\ Len(spelled) = Len(tokens)
        /\ Len(tokens) \in Nat
    BY LenProperties DEF TokensInv
  <2>2. /\ tokens' \in Seq(TokenRecords) /\ Len(tokens') = Len(tokens) + 1
        /\ \A i \in 1..Len(tokens) : tokens'[i] = tokens[i]
        /\ tokens'[Len(tokens) + 1] = node
    BY <1>1, <1>2, <2>1, AppendProperties
  <2>3. /\ spelled' \in Seq(Spellings) /\ Len(spelled') = Len(spelled) + 1
        /\ \A i \in 1..Len(spelled) : spelled'[i] = spelled[i]
        /\ spelled'[Len(spelled) + 1] = [kind |-> kind, word |-> text, end |-> end]
    BY <1>1, <1>2, <2>1, AppendProperties
  <2>4. QED
    BY <1>2, <2>1, <2>2, <2>3 DEF Written
<1>3. QED
  BY <1>2 DEF WriteNodePointer

(* The name table keeps its names, all different, and may get one more.             *)
NamesGrow ==
  /\ nameTable' \in Seq(Words)
  /\ Len(nameTable') \in Nat /\ Len(nameTable') >= Len(nameTable)
  /\ \A k \in 1..Len(nameTable) : nameTable'[k] = nameTable[k]
  /\ \A i, j \in 1..Len(nameTable') : nameTable'[i] = nameTable'[j] => i = j

(* The kinds of token that no designation stands for.                        *)
LEMMA OtherKinds ==
  {"NUMERIC_NODE", "VARIABLE_NODE", "TERMINATOR"} \subseteq TokenKinds
  BY DEF TokenKinds, WordKinds, Operands

(* What was written stays right when a token is added and the name table grows.       *)
LEMMA TokenWritten ==
  ASSUME TokensInv, input' = input, status # "NO_PARSING_ERRORS", NamesGrow,
         NEW kind \in TokenKinds, NEW index, NEW text, NEW end, NEW next \in Places,
         Written(kind, index, text, end, next),
         IF kind = "VARIABLE_NODE"
         THEN index \in 0..(Len(nameTable') - 1) /\ Named(text)'
         ELSE index = NULL,
         kind = "TERMINATOR" <=> next = "NO_PARSING_ERRORS"
  PROVE  TokensInv'
<1>1. Len(tokens) \in Nat /\ Len(nameTable) \in Nat /\ Spellings' = Spellings
  BY LenProperties DEF TokensInv, Spellings
<1>2. ASSUME NEW i \in 1..Len(tokens)
      PROVE  TokenInv(i)'
  <2>1. TokenInv(i) /\ tokens'[i] = tokens[i] /\ spelled'[i] = spelled[i] /\ i # Len(tokens')
    BY <1>1 DEF TokensInv, Written
  <2>2. Named(spelled[i].word) => Named(spelled[i].word)'
    BY <1>1, <2>1 DEF Named, NamesGrow
  <2>3. spelled[i].kind # "TERMINATOR"
    BY <2>1 DEF TokenInv
  <2>4. QED
    BY <1>1, <2>1, <2>2, <2>3 DEF TokenInv, NamesGrow
<1>3. ASSUME NEW i, i = Len(tokens')
      PROVE  TokenInv(i)'
  <2>1. /\ tokens'[i] \in {[kind |-> kind, variableIndex |-> index], LostNode}
        /\ spelled'[i] = [kind |-> kind, word |-> text, end |-> end]
        /\ status' = next
    BY <1>3 DEF Written
  <2>2. Named(spelled[i].word)' <=> Named(text)'
    BY <2>1 DEF Named
  <2>3. NULL # "VARIABLE_NODE"
    BY OtherKinds, LexerBounds
  <2>4. QED
    BY <1>3, <2>1, <2>2, <2>3 DEF TokenInv, LostNode
<1>4. ASSUME NEW i \in 1..Len(tokens')
      PROVE  TokenInv(i)'
  <2>1. i \in 1..Len(tokens) \/ i = Len(tokens')
    BY <1>1 DEF Written
  <2>2. QED
    BY <1>2, <1>3, <2>1
<1>5. QED
  BY <1>1, <1>4 DEF TokensInv, Written, NamesGrow, Places, Outcomes

(* A step that leaves the name table alone keeps what the tokens say of it.  *)
LEMMA SameNames ==
  ASSUME TokensInv, nameTable' = nameTable
  PROVE  NamesGrow
  BY LenProperties DEF TokensInv, NamesGrow

-----------------------------------------------------------------------------
(* The word with one more letter.                                              *)
LEMMA LongerWord ==
  ASSUME BufferInv, InLine, word # NULL
  PROVE  /\ Longer \in Words /\ Len(Longer) = letterNumber + 1
         /\ \A k \in 1..letterNumber : Longer[k] = word[k]
         /\ Longer[letterNumber + 1] = Current
<1>1. /\ word \in Seq(Symbols) /\ Len(word) \in Nat /\ letterNumber \in 0..Len(word)
      /\ \A i \in 1..letterNumber : word[i] \in Symbols
  BY LexerBounds, LenProperties, ElementOfSeq DEF BufferInv, Words
<1>2. Current \in Symbols
  BY LineIsWord DEF BufferInv, InLine, Current
<1>3. /\ SubSeq(word, 1, letterNumber) \in Seq(Symbols)
      /\ Len(SubSeq(word, 1, letterNumber)) = letterNumber
      /\ \A i \in 1..letterNumber : SubSeq(word, 1, letterNumber)[i] = word[i]
  <2>1. letterNumber \in Int /\ 1 \in Int
    BY <1>1
  <2>2. /\ SubSeq(word, 1, letterNumber) \in Seq(Symbols)
        /\ Len(SubSeq(word, 1, letterNumber)) =
             IF 1 <= letterNumber THEN letterNumber - 1 + 1 ELSE 0
        /\ \A i \in 1..(letterNumber - 1 + 1) :
             SubSeq(word, 1, letterNumber)[i] = word[1 + i - 1]
    BY <1>1, <2>1, SubSeqProperties
  <2>3. ASSUME NEW i \in 1..letterNumber
        PROVE  i \in 1..(letterNumber - 1 + 1) /\ 1 + i - 1 = i
    BY <1>1
  <2>4. QED
    BY <1>1, <2>2, <2>3
<1>4. /\ Longer \in Seq(Symbols)
      /\ Len(Longer) = Len(SubSeq(word, 1, letterNumber)) + 1
      /\ \A i \in 1..Len(SubSeq(word, 1, letterNumber)) :
           Longer[i] = SubSeq(word, 1, letterNumber)[i]
      /\ Longer[Len(SubSeq(word, 1, letterNumber)) + 1] = Current
  BY <1>2, <1>3, AppendProperties DEF Longer
<1>5. QED
  BY <1>3, <1>4 DEF Words

(* A row of the table is a kind of token, and neither a variable nor TERMINATOR.     *)
LEMMA OperationKinds ==
  ASSUME NEW text, NEW op \in FindOperationByDesignation(text)
  PROVE  op \in TokenKinds /\ op \notin {"VARIABLE_NODE", "NUMERIC_NODE", "TERMINATOR"}
  BY DEF FindOperationByDesignation, TokenKinds, WordKinds, OperationNames, Brackets,
         BinaryOps, FunctionOps

(* The index of a record is at most its position.                                 *)
LEMMA NameIndexIs ==
  ASSUME NEW position \in Nat
  PROVE  NameIndex(position) \in 0..position
  BY DEF NameIndex, RECORD_SIZE

(* The reading: each step stays in the line and in the word buffer.                  *)
LEMMA BufferStep ==
  ASSUME BufferInv, [Next]_vars
  PROVE  BufferInv'
<1>1. /\ Len(input) \in Nat /\ symbol \in Nat /\ letterNumber \in Nat
      /\ MAX_WORD_LENGTH \in Nat
  BY LineIsWord, LexerBounds DEF BufferInv
<1>2. CASE SkipSpace
  BY <1>1, <1>2 DEF SkipSpace, PassSpace, InLine, BufferInv
<1>3. CASE ReadNumber
  <2>1. NumberLength(input, symbol) \in 0..(Len(input) - symbol + 1)
    BY <1>1, <1>3, LineIsWord, NumberLengthBound DEF ReadNumber, InLine, BufferInv
  <2>2. symbol' \in 1..(Len(input) + 1)
    BY <1>1, <1>3, <2>1 DEF ReadNumber, BufferInv
  <2>3. QED
    BY <1>3, <2>2 DEF ReadNumber, BufferInv
<1>4. CASE BeginWord
  BY <1>1, <1>4 DEF BeginWord, BufferInv
<1>5. CASE ReadOperation \/ ReadLetter
  <2>1. /\ Longer \in Words /\ Len(Longer) = letterNumber + 1 /\ word' = Longer
        /\ letterNumber < MAX_WORD_LENGTH /\ symbol' = symbol + 1 /\ symbol <= Len(input)
        /\ input' = input /\ letterNumber' \in {letterNumber, letterNumber + 1}
    BY <1>5, LongerWord DEF ReadOperation, ReadLetter, WordGoesOn, InLine
  <2>2. QED
    BY <1>1, <2>1 DEF BufferInv
<1>6. CASE WordTooLong \/ EndWord \/ ReuseName \/ AddName \/ NameTableError \/ UseNoWord
           \/ Terminate \/ UNCHANGED vars
  <2>1. UNCHANGED <<input, symbol, word, letterNumber>>
    BY <1>6 DEF WordTooLong, EndWord, ReuseName, AddName, NameTableError, UseNoWord, Terminate,
         AfterName, vars
  <2>2. QED
    BY <2>1 DEF BufferInv
<1>7. QED
  BY <1>2, <1>3, <1>4, <1>5, <1>6 DEF Next

(* The writing: a name is added only if it is not there, and a token is TERMINATOR    *)
(* only on a normal return.                                                    *)
LEMMA TokensStep ==
  ASSUME IInv, [Next]_vars
  PROVE  TokensInv'
<1> USE DEF IInv
<1>1. <<>> \in Words /\ NULL \in Nat \cup {NULL} /\ Len(nameTable) \in Nat
  BY EmptySeq, LenProperties DEF TokensInv, Words
<1>2. CASE \/ SkipSpace \/ BeginWord \/ WordTooLong \/ ReadLetter \/ EndWord
           \/ NameTableError \/ UseNoWord
  <2>1. /\ UNCHANGED <<input, nameTable, tokens, spelled>>
        /\ status # "NO_PARSING_ERRORS" /\ status' \in Places \ {"NO_PARSING_ERRORS"}
    BY <1>2 DEF SkipSpace, BeginWord, WordTooLong, ReadLetter, EndWord, NameTableError,
         UseNoWord, Places, Outcomes
  <2>2. QED
    BY <2>1, NothingWritten
<1>3. ASSUME NEW kind \in TokenKinds, NEW index \in Nat \cup {NULL}, NEW text \in Words,
             NEW end \in 1..(Len(input) + 1), NEW next \in Places, NamesGrow, input' = input,
             status # "NO_PARSING_ERRORS",
             WriteNodePointer(kind, index, text, end, next),
             IF kind = "VARIABLE_NODE"
             THEN index \in 0..(Len(nameTable') - 1) /\ Named(text)'
             ELSE index = NULL,
             kind = "TERMINATOR" <=> next = "NO_PARSING_ERRORS"
      PROVE  TokensInv'
  <2>1. CASE Written(kind, index, text, end, next)
    BY <1>3, <2>1, TokenWritten
  <2>2. CASE status' = "TOKEN_ARRAY_ERROR" /\ UNCHANGED <<tokens, spelled>>
    <3>1. ASSUME NEW i \in 1..Len(tokens)
          PROVE  TokenInv(i)'
      <4>1. TokenInv(i) /\ tokens' = tokens /\ spelled' = spelled /\ status' = "TOKEN_ARRAY_ERROR"
        BY <2>2 DEF TokensInv
      <4>2. spelled[i].kind # "TERMINATOR"
        BY <1>3, <4>1 DEF TokenInv
      <4>3. Named(spelled[i].word) => Named(spelled[i].word)'
        BY <1>1, <1>3, <4>1 DEF Named, NamesGrow
      <4>4. QED
        BY <1>1, <1>3, <4>1, <4>2, <4>3 DEF TokenInv, NamesGrow
    <3>2. Spellings' = Spellings
      BY <1>3 DEF Spellings
    <3>3. QED
      BY <1>3, <2>2, <3>1, <3>2 DEF TokensInv, NamesGrow, Places, Outcomes
  <2>3. QED
    BY <1>3, <2>1, <2>2, WriteOutcome
<1>4. CASE ReadNumber
  <2> DEFINE end == symbol + NumberLength(input, symbol)
  <2>1. NumberLength(input, symbol) \in 0..(Len(input) - symbol + 1) /\ Len(input) \in Nat
    BY <1>4, LineIsWord, NumberLengthBound DEF ReadNumber, InLine, BufferInv
  <2>2. end \in 1..(Len(input) + 1) /\ "scan" \in Places
    BY <2>1 DEF BufferInv, Places
  <2>3. /\ WriteNodePointer("NUMERIC_NODE", NULL, <<>>, end, "scan")
        /\ NamesGrow /\ input' = input /\ status # "NO_PARSING_ERRORS"
    BY <1>4, SameNames DEF ReadNumber
  <2>4. QED
    BY <1>1, <1>3, <2>2, <2>3, OtherKinds
<1>5. CASE ReadOperation
  <2>1. Longer \in Words /\ symbol + 1 \in 1..(Len(input) + 1) /\ "scan" \in Places
    BY <1>5, LongerWord, LineIsWord DEF ReadOperation, WordGoesOn, InLine, BufferInv, Places
  <2>2. PICK op \in FindOperationByDesignation(Longer) :
          WriteNodePointer(op, NULL, Longer, symbol + 1, "scan")
    BY <1>5 DEF ReadOperation
  <2>3. NamesGrow /\ input' = input /\ status # "NO_PARSING_ERRORS"
    BY <1>5, SameNames DEF ReadOperation
  <2>4. QED
    BY <1>1, <1>3, <2>1, <2>2, <2>3, OperationKinds
<1>6. CASE ReuseName
  <2>1. PICK position \in FindName(word) :
          WriteNodePointer("VARIABLE_NODE", NameIndex(position), word, symbol, "scan")
    BY <1>6 DEF ReuseName
  <2>2. /\ position \in 0..(Len(nameTable) - 1)
        /\ NameIndex(position) \in 0..(Len(nameTable) - 1)
        /\ nameTable[position + 1] = word /\ position + 1 \in 1..Len(nameTable)
    BY <1>1, <2>1, NameIndexIs DEF FindName
  <2>3. NamesGrow /\ input' = input /\ status # "NO_PARSING_ERRORS" /\ nameTable' = nameTable
    BY <1>6, SameNames DEF ReuseName
  <2>4. word \in Words /\ symbol \in 1..(Len(input) + 1) /\ "scan" \in Places
    BY <1>6 DEF ReuseName, BufferInv, Places
  <2>5. NameIndex(position) \in Nat \cup {NULL}
    BY <1>1, <2>2
  <2>6. PICK text \in Words, end \in 1..(Len(input) + 1) : text = word /\ end = symbol
    BY <2>4
  <2>7. WriteNodePointer("VARIABLE_NODE", NameIndex(position), text, end, "scan")
    BY <2>1, <2>6
  <2>8. Named(text)' /\ NameIndex(position) \in 0..(Len(nameTable') - 1)
    BY <2>2, <2>3, <2>6 DEF Named
  <2>9. QED
    BY <1>3, <2>3, <2>4, <2>5, <2>7, <2>8, OtherKinds
<1>7. CASE AddName
  <2>1. /\ word \in Words /\ symbol \in 1..(Len(input) + 1) /\ "scan" \in Places
        /\ word' = word /\ input' = input /\ status # "NO_PARSING_ERRORS"
        /\ nameTable' = Append(nameTable, word)
    BY <1>7 DEF AddName, BufferInv, Places
  <2>2. /\ nameTable' \in Seq(Words) /\ Len(nameTable') = Len(nameTable) + 1
        /\ \A k \in 1..Len(nameTable) : nameTable'[k] = nameTable[k]
        /\ nameTable'[Len(nameTable) + 1] = word
    BY <2>1, AppendProperties DEF TokensInv
  <2>3. \A k \in 1..Len(nameTable) : nameTable[k] # word
    <3>1. \A k \in 1..Len(nameTable) : k - 1 \in 0..(Len(nameTable) - 1) /\ (k - 1) + 1 = k
      BY <1>1
    <3>2. QED
      BY <1>7, <3>1 DEF AddName, FindName
  <2>4. NamesGrow
    <3>1. \A i \in 1..Len(nameTable') : i \in 1..Len(nameTable) \/ i = Len(nameTable) + 1
      BY <1>1, <2>2
    <3>2. \A i, j \in 1..Len(nameTable') : nameTable'[i] = nameTable'[j] => i = j
      BY <2>2, <2>3, <3>1 DEF TokensInv
    <3>3. QED
      BY <1>1, <2>2, <3>2 DEF NamesGrow
  <2>5. Named(word)'
    BY <1>1, <2>1, <2>2 DEF Named
  <2>6. NameIndex(Len(nameTable)) \in 0..(Len(nameTable') - 1)
    BY <1>1, <2>2, NameIndexIs
  <2>7. WriteNodePointer("VARIABLE_NODE", NameIndex(Len(nameTable)), word, symbol, "scan")
    BY <1>7 DEF AddName
  <2>8. QED
    BY <1>1, <1>3, <2>1, <2>2, <2>4, <2>5, <2>6, <2>7, OtherKinds
<1>8. CASE Terminate
  <2>1. /\ WriteNodePointer("TERMINATOR", NULL, <<>>, symbol, "NO_PARSING_ERRORS")
        /\ NamesGrow /\ input' = input /\ status # "NO_PARSING_ERRORS"
        /\ symbol \in 1..(Len(input) + 1) /\ "NO_PARSING_ERRORS" \in Places
    BY <1>8, SameNames DEF Terminate, BufferInv, Places, Outcomes
  <2>2. QED
    BY <1>1, <1>3, <2>1, OtherKinds
<1>9. CASE UNCHANGED vars
  BY <1>9 DEF vars, TokensInv, TokenInv, Named, Spellings
<1>10. QED
  BY <1>2, <1>4, <1>5, <1>6, <1>7, <1>8, <1>9 DEF Next

(* The inductive invariant holds throughout the scan.                        *)
LEMMA Invariance == Spec => []IInv
<1>1. IInv /\ [Next]_vars => IInv'
  BY BufferStep, TokensStep DEF IInv
<1>2. QED
  BY <1>1, InitIInv, PTL DEF Spec

-----------------------------------------------------------------------------
(* The variables keep their types on every line: the scan stays inside it, a word in   *)
(* its buffer, and a variable's index in the name table.                           *)
THEOREM TypeCorrect == Spec => []TypeOK
<1>1. IInv => TypeOK
  <2> SUFFICES ASSUME IInv
               PROVE  TypeOK
    OBVIOUS
  <2>1. DOMAIN tokens = 1..Len(tokens)
    BY LenProperties DEF IInv, TokensInv
  <2>2. ASSUME NEW i \in 1..Len(tokens)
        PROVE  tokens[i].kind \in {spelled[i].kind, NULL}
    BY DEF IInv, TokensInv, TokenInv
  <2>3. \A i \in DOMAIN tokens :
          /\ tokens[i].kind \in {spelled[i].kind, NULL}
          /\ IF tokens[i].kind = "VARIABLE_NODE"
             THEN tokens[i].variableIndex \in 0..(Len(nameTable) - 1)
             ELSE tokens[i].variableIndex = NULL
    BY <2>1, <2>2 DEF IInv, TokensInv, TokenInv
  <2>4. QED
    BY <2>3 DEF IInv, BufferInv, TokensInv, TypeOK, Spellings, Places
<1>2. QED
  BY <1>1, Invariance, PTL

(* A normal return has written a last token.                                          *)
WroteLast == status = "NO_PARSING_ERRORS" => tokens # <<>>

(* That is so throughout the scan.                                           *)
LEMMA WroteLastInvariant == Spec => []WroteLast
<1>1. Init => WroteLast
  BY DEF Init, WroteLast
<1>2. IInv /\ WroteLast /\ [Next]_vars => WroteLast'
  <2> SUFFICES ASSUME IInv, WroteLast, [Next]_vars, status' = "NO_PARSING_ERRORS"
               PROVE  tokens' # <<>>
    BY DEF WroteLast
  <2>1. CASE Terminate
    <3>1. /\ WriteNodePointer("TERMINATOR", NULL, <<>>, symbol, "NO_PARSING_ERRORS")
          /\ <<>> \in Words /\ NULL \in Nat \cup {NULL} /\ symbol \in 1..(Len(input) + 1)
      BY <2>1, EmptySeq DEF Terminate, IInv, BufferInv, Words
    <3>2. Written("TERMINATOR", NULL, <<>>, symbol, "NO_PARSING_ERRORS")
      BY <3>1, WriteOutcome, OtherKinds DEF IInv
    <3>3. Len(tokens') = Len(tokens) + 1 /\ Len(tokens) \in Nat
      BY <3>2, LenProperties DEF Written, IInv, TokensInv
    <3>4. QED
      BY <3>3, EmptySeq
  <2>2. CASE UNCHANGED vars
    BY <2>2 DEF vars, WroteLast
  <2>3. QED
    BY <2>1, <2>2 DEF Next, SkipSpace, ReadNumber, BeginWord, WordTooLong, ReadOperation,
       ReadLetter, EndWord, ReuseName, AddName, NameTableError, UseNoWord, WriteNodePointer
<1>3. QED
  BY <1>1, <1>2, Invariance, PTL DEF Spec

(* TERMINATOR is only ever the last token of a lexer that returns normally, and such a    *)
(* lexer has written it, or NULL in its place: nothing else stops the parser.           *)
THEOREM TerminatorOnlyLast == Spec => []TerminatorLast
<1>1. IInv /\ WroteLast => TerminatorLast
  <2> SUFFICES ASSUME IInv, WroteLast
               PROVE  TerminatorLast
    OBVIOUS
  <2>1. DOMAIN tokens = 1..Len(tokens) /\ Len(tokens) \in Nat
    BY LenProperties DEF IInv, TokensInv
  <2>2. \A i \in DOMAIN tokens :
          tokens[i].kind = "TERMINATOR" => status = "NO_PARSING_ERRORS" /\ i = Len(tokens)
    <3>1. NULL # "TERMINATOR"
      BY OtherKinds, LexerBounds
    <3>2. QED
      BY <2>1, <3>1 DEF IInv, TokensInv, TokenInv
  <2>3. ASSUME status = "NO_PARSING_ERRORS"
        PROVE  tokens # <<>> /\ tokens[Len(tokens)].kind \in {"TERMINATOR", NULL}
    <3>1. tokens # <<>> /\ Len(tokens) \in 1..Len(tokens)
      BY <2>1, <2>3, EmptySeq DEF WroteLast, IInv, TokensInv
    <3>2. QED
      BY <2>3, <3>1 DEF IInv, TokensInv, TokenInv
  <2>4. QED
    BY <2>2, <2>3 DEF TerminatorLast
<1>2. QED
  BY <1>1, Invariance, WroteLastInvariant, PTL

(* Every variable's word is in the name table, and no word is there twice.              *)
THEOREM OneRecordPerName == Spec => []NamesOnce
<1>1. IInv => NamesOnce
  <2> SUFFICES ASSUME IInv
               PROVE  NamesOnce
    OBVIOUS
  <2>1. DOMAIN tokens = 1..Len(tokens) /\ DOMAIN nameTable = 1..Len(nameTable)
        /\ Len(nameTable) \in Nat
    BY LenProperties DEF IInv, TokensInv
  <2>2. ASSUME NEW i \in Variables
        PROVE  Cardinality(FindName(spelled[i].word)) = 1
    <3>1. PICK k \in 1..Len(nameTable) : nameTable[k] = spelled[i].word
      BY <2>1 DEF Variables, IInv, TokensInv, TokenInv, Named
    <3>2. ASSUME NEW j \in 0..(Len(nameTable) - 1)
          PROVE  nameTable[j + 1] = spelled[i].word <=> j = k - 1
      <4>1. j + 1 \in 1..Len(nameTable) /\ (j + 1 = k <=> j = k - 1)
        BY <2>1
      <4>2. QED
        BY <3>1, <4>1 DEF IInv, TokensInv
    <3>3. FindName(spelled[i].word) = {k - 1}
      BY <2>1, <3>2 DEF FindName
    <3>4. QED
      BY <3>3, FS_Singleton
  <2>3. QED
    BY <2>1, <2>2 DEF NamesOnce, IInv, TokensInv
<1>2. QED
  BY <1>1, Invariance, PTL

-----------------------------------------------------------------------------
(* What ParseFile hands over to the parser: the tokens before TERMINATOR if all of the line   *)
(* got there, and else all that the array holds; the errors of allocations are lost on the  *)
(* way.                                                                          *)
Whole == status = "NO_PARSING_ERRORS" /\ \A i \in 1..Len(tokens) : tokens[i].kind # NULL

WordCount == IF Whole THEN Len(tokens) - 1 ELSE Len(tokens)

HandedOver ==
  [words   |-> [i \in 1..WordCount |-> tokens[i].kind],
   outcome |-> IF Whole THEN "NO_PARSING_ERRORS"
               ELSE IF status = "WORD_TOO_LONG" THEN status ELSE "LOST_ERROR"]

(* What Parser assumes of an element of LexerResults, and what its Init adds: a line that got  *)
(* there whole has TERMINATOR behind its words; otherwise there is none, or a NULL is in     *)
(* front of it.                                                                  *)
ParserInput ==
  status \in Outcomes =>
    LET words == HandedOver.words
    IN  /\ words \in Seq(TokenKinds \cup {NULL})
        /\ HandedOver.outcome \in {"NO_PARSING_ERRORS", "WORD_TOO_LONG", "LOST_ERROR"}
        /\ IF HandedOver.outcome = "NO_PARSING_ERRORS"
           THEN /\ words \in Seq(WordKinds)
                /\ Len(tokens) = Len(words) + 1 /\ tokens[Len(tokens)].kind = "TERMINATOR"
           ELSE /\ Len(tokens) = Len(words)
                /\ \A i \in 1..Len(words) : words[i] = "TERMINATOR" =>
                     i = Len(words) /\ \E j \in 1..Len(words) : words[j] = NULL

(* The lexer and the parser fit: whatever happened, what ParseFile hands over is an input   *)
(* that Parser is specified for, with TERMINATOR where Parser puts it.                *)
THEOREM FitsParser == Spec => []ParserInput
<1>1. IInv /\ WroteLast => ParserInput
  <2> DEFINE words == HandedOver.words
  <2> SUFFICES ASSUME IInv, WroteLast, status \in Outcomes
               PROVE  /\ words \in Seq(TokenKinds \cup {NULL})
                      /\ HandedOver.outcome \in {"NO_PARSING_ERRORS", "WORD_TOO_LONG", "LOST_ERROR"}
                      /\ IF HandedOver.outcome = "NO_PARSING_ERRORS"
                         THEN /\ words \in Seq(WordKinds)
                              /\ Len(tokens) = Len(words) + 1
                              /\ tokens[Len(tokens)].kind = "TERMINATOR"
                         ELSE /\ Len(tokens) = Len(words)
                              /\ \A i \in 1..Len(words) : words[i] = "TERMINATOR" =>
                                   i = Len(words) /\ \E j \in 1..Len(words) : words[j] = NULL
    BY DEF ParserInput
  <2>1. Len(tokens) \in Nat /\ (status = "NO_PARSING_ERRORS" => Len(tokens) > 0)
    BY LenProperties, EmptySeq DEF IInv, TokensInv, WroteLast
  <2>2. WordCount \in 0..Len(tokens)
    BY <2>1 DEF WordCount, Whole
  <2>3. ASSUME NEW i \in 1..Len(tokens)
        PROVE  /\ tokens[i].kind \in TokenKinds \cup {NULL}
               /\ tokens[i].kind = "TERMINATOR" => status = "NO_PARSING_ERRORS" /\ i = Len(tokens)
               /\ Whole /\ i # Len(tokens) => tokens[i].kind \in WordKinds
               /\ Whole /\ i = Len(tokens) => tokens[i].kind = "TERMINATOR"
    <3>1. tokens[i] \in TokenRecords /\ TokenInv(i)
      BY ElementOfSeq DEF IInv, TokensInv
    <3>2. tokens[i].kind \in TokenKinds \cup {NULL} /\ (Whole => tokens[i].kind # NULL)
      BY <3>1 DEF TokenRecords, Whole
    <3>3. NULL # "TERMINATOR"
      BY OtherKinds, LexerBounds
    <3>4. tokens[i].kind = "TERMINATOR" => status = "NO_PARSING_ERRORS" /\ i = Len(tokens)
      BY <3>1, <3>3 DEF TokenInv
    <3>5. Whole => tokens[i].kind = spelled[i].kind /\ status = "NO_PARSING_ERRORS"
      BY <3>1, <3>2 DEF TokenInv, Whole
    <3>6. spelled[i].kind = "TERMINATOR" <=> status = "NO_PARSING_ERRORS" /\ i = Len(tokens)
      BY <3>1 DEF TokenInv
    <3>7. QED
      BY <3>2, <3>4, <3>5, <3>6 DEF TokenKinds
  <2>4. /\ words = [i \in 1..WordCount |-> tokens[i].kind]
        /\ words \in Seq(TokenKinds \cup {NULL}) /\ Len(words) = WordCount
        /\ Whole => words \in Seq(WordKinds)
    <3>1. words = [i \in 1..WordCount |-> tokens[i].kind]
      BY DEF HandedOver
    <3>2. \A i \in 1..WordCount :
            /\ i \in 1..Len(tokens) /\ tokens[i].kind \in TokenKinds \cup {NULL}
            /\ Whole => tokens[i].kind \in WordKinds
      BY <2>1, <2>2, <2>3 DEF WordCount
    <3> HIDE DEF words
    <3>3. words \in Seq(TokenKinds \cup {NULL}) /\ Len(words) = WordCount
      BY <2>2, <3>1, <3>2
    <3>4. ASSUME Whole
          PROVE  words \in Seq(WordKinds)
      BY <2>2, <3>1, <3>2, <3>4
    <3>5. QED
      BY <3>1, <3>3, <3>4
  <2>5. Whole => tokens[Len(tokens)].kind = "TERMINATOR"
    <3>1. Whole => Len(tokens) \in 1..Len(tokens)
      BY <2>1 DEF Whole
    <3>2. QED
      BY <2>3, <3>1
  <2>6. ASSUME ~Whole, NEW i \in 1..Len(words), words[i] = "TERMINATOR"
        PROVE  i = Len(words) /\ \E j \in 1..Len(words) : words[j] = NULL
    <3>1. /\ Len(words) = Len(tokens) /\ WordCount = Len(tokens)
          /\ \A j \in 1..Len(tokens) : words[j] = tokens[j].kind
      BY <2>2, <2>4, <2>6 DEF WordCount
    <3>2. status = "NO_PARSING_ERRORS" /\ i = Len(tokens)
      BY <2>3, <2>6, <3>1
    <3>3. PICK j \in 1..Len(tokens) : tokens[j].kind = NULL
      BY <2>6, <3>2 DEF Whole
    <3>4. QED
      BY <3>1, <3>2, <3>3
  <2>7. /\ HandedOver.outcome \in {"NO_PARSING_ERRORS", "WORD_TOO_LONG", "LOST_ERROR"}
        /\ HandedOver.outcome = "NO_PARSING_ERRORS" <=> Whole
    BY DEF HandedOver, Outcomes
  <2> HIDE DEF words
  <2>8. CASE Whole
    <3>1. Len(tokens) = Len(words) + 1
      BY <2>1, <2>4, <2>8 DEF WordCount, Whole
    <3>2. QED
      BY <2>4, <2>5, <2>7, <2>8, <3>1
  <2>9. CASE ~Whole
    <3>1. Len(tokens) = Len(words)
      BY <2>4, <2>9 DEF WordCount
    <3>2. QED
      BY <2>4, <2>6, <2>7, <2>9, <3>1
  <2>10. QED
    BY <2>8, <2>9
<1>2. QED
  BY <1>1, Invariance, WroteLastInvariant, PTL

-----------------------------------------------------------------------------
(* The operators of Text mean the same in both modules, and no two rows of the    *)
(* table have the same designation.                                           *)
LEMMA SameText ==
  /\ \A text, from, class : T!RunLength(text, from, class) = RunLength(text, from, class)
  /\ \A w : T!FindOperationByDesignation(w) = FindOperationByDesignation(w)
  /\ \A text, at : T!NumberLength(text, at) = NumberLength(text, at)
  /\ T!Digit = Digit
<1>1. \A text, from, class : T!RunLength(text, from, class) = RunLength(text, from, class)
  BY DEF T!RunLength, RunLength, T!Max, Max
<1>2. T!OperationNames = OperationNames
  BY DEF T!OperationNames, OperationNames, T!Brackets, Brackets, T!BinaryOps, BinaryOps,
         T!FunctionOps, FunctionOps
<1>3. T!Designation = Designation
  BY <1>2 DEF T!Designation, Designation
<1>4. \A w : T!FindOperationByDesignation(w) = FindOperationByDesignation(w)
  BY <1>2, <1>3 DEF T!FindOperationByDesignation, FindOperationByDesignation
<1>5. \A text, at : T!NumberLength(text, at) = NumberLength(text, at)
  BY SMTT(20), <1>1 DEF T!NumberLength, NumberLength, T!At, At, T!Digit, Digit
<1>6. T!Digit = Digit
  BY DEF T!Digit, Digit
<1>7. QED
  BY <1>1, <1>4, <1>5, <1>6

(* No two operations have the same designation.                              *)
LEMMA OneOperation ==
  ASSUME NEW text, NEW op \in FindOperationByDesignation(text)
  PROVE  FindOperationByDesignation(text) = {op}
<1>1. ASSUME NEW o \in OperationNames, NEW p \in OperationNames, Designation[o] = Designation[p]
      PROVE  o = p
  BY <1>1 DEF OperationNames, Brackets, BinaryOps, FunctionOps, Designation
<1>2. QED
  BY <1>1 DEF FindOperationByDesignation

(* A run is at least as long as a stretch of symbols of the class.                 *)
LEMMA RunLengthAtLeast ==
  ASSUME NEW S, NEW text \in Seq(S), NEW from \in 1..(Len(text) + 1), NEW class,
         NEW n \in 0..(Len(text) - from + 1),
         \A k \in from..(from + n - 1) : text[k] \in class
  PROVE  RunLength(text, from, class) \in n..(Len(text) - from + 1)
<1> DEFINE r == RunLength(text, from, class)
<1>1. Len(text) \in Nat
  BY LenProperties
<1>2. /\ r \in 0..(Len(text) - from + 1)
      /\ from + r <= Len(text) => text[from + r] \notin class
  BY RunLengthIs
<1> HIDE DEF r
<1>3. ASSUME r < n
      PROVE  FALSE
  <2>1. from + r \in from..(from + n - 1) /\ from + r <= Len(text)
    BY <1>1, <1>2, <1>3
  <2>2. QED
    BY <1>2, <2>1
<1>4. r \in n..(Len(text) - from + 1)
  BY <1>1, <1>2, <1>3
<1>5. QED
  BY <1>4 DEF r

(* WordLength in terms of the operators of Lexer.                                  *)
Stretch(line, start) == RunLength(line, start, T!Class(line[start]))

Found(line, start) ==
  {m \in 1..Stretch(line, start) :
     FindOperationByDesignation(SubSeq(line, start, start + m - 1)) # {}}

(* The length of the word Tokens takes, in terms of Found.                   *)
LEMMA WordLengthDef ==
  ASSUME NEW line, NEW start
  PROVE  T!WordLength(line, start) =
           IF Found(line, start) = {} THEN Stretch(line, start) ELSE Min(Found(line, start))
<1>1. T!RunLength(line, start, T!Class(line[start])) = Stretch(line, start)
  BY SameText DEF Stretch
<1>2. {m \in 1..Stretch(line, start) :
         T!FindOperationByDesignation(SubSeq(line, start, start + m - 1)) # {}}
        = Found(line, start)
  BY SameText DEF Found
<1>3. \A A : T!Min(A) = Min(A)
  BY DEF T!Min, Min
<1>4. T!WordLength(line, start) =
        IF Found(line, start) = {} THEN Stretch(line, start) ELSE T!Min(Found(line, start))
  BY <1>1, <1>2 DEF T!WordLength
<1>5. QED
  BY <1>3, <1>4

(* A word is as long as the first designation in its stretch of symbols of one      *)
(* class, or as the stretch.                                                  *)
LEMMA WordLengthIs ==
  ASSUME NEW S, NEW line \in Seq(S), NEW start \in 1..Len(line),
         NEW n \in 1..(Len(line) - start + 1),
         \A k \in start..(start + n - 1) : line[k] \in T!Class(line[start]),
         \A m \in 1..(n - 1) : FindOperationByDesignation(SubSeq(line, start, start + m - 1)) = {},
         \/ FindOperationByDesignation(SubSeq(line, start, start + n - 1)) # {}
         \/ /\ FindOperationByDesignation(SubSeq(line, start, start + n - 1)) = {}
            /\ start + n <= Len(line) => line[start + n] \notin T!Class(line[start])
  PROVE  T!WordLength(line, start) = n
<1> DEFINE stretch == Stretch(line, start)
           found == Found(line, start)
<1>1. T!WordLength(line, start) = IF found = {} THEN stretch ELSE Min(found)
  BY WordLengthDef
<1>2. Len(line) \in Nat /\ start \in 1..(Len(line) + 1) /\ n \in 0..(Len(line) - start + 1)
  BY LenProperties
<1>3. stretch \in n..(Len(line) - start + 1)
  BY <1>2, RunLengthAtLeast DEF Stretch
<1> HIDE DEF stretch
<1>4. CASE FindOperationByDesignation(SubSeq(line, start, start + n - 1)) # {}
  <2>1. n \in found /\ found \subseteq Nat
    BY <1>2, <1>3, <1>4 DEF Found, stretch
  <2>2. \A m \in found : m >= n
    BY <1>2, <1>3 DEF Found, stretch
  <2>3. Min(found) \in found /\ \A m \in found : Min(found) <= m
    <3> HIDE DEF found
    <3>1. QED
      BY <2>1, MinIs
  <2>4. Min(found) = n
    <3> HIDE DEF found
    <3>1. Min(found) >= n /\ Min(found) <= n /\ Min(found) \in Nat /\ n \in Nat
      BY <1>2, <2>1, <2>2, <2>3
    <3>2. QED
      BY <3>1
  <2>5. QED
    BY <1>1, <2>1, <2>4
<1>5. CASE /\ FindOperationByDesignation(SubSeq(line, start, start + n - 1)) = {}
           /\ start + n <= Len(line) => line[start + n] \notin T!Class(line[start])
  <2>1. stretch = n
    BY <1>2, <1>5, RunLengthUnique DEF stretch, Stretch
  <2>2. found = {}
    <3>1. \A m \in 1..n : m \in 1..(n - 1) \/ m = n
      BY <1>2
    <3>2. QED
      BY <1>5, <2>1, <3>1 DEF Found, stretch
  <2>3. QED
    BY <1>1, <2>1, <2>2
<1>6. QED
  BY <1>4, <1>5

(* Where there are only spaces up to a symbol that is none, or to the end, the scan    *)
(* starts there.                                                              *)
LEMMA StartIs ==
  ASSUME NEW S, NEW line \in Seq(S), NEW from \in 1..(Len(line) + 1),
         NEW start \in from..(Len(line) + 1),
         \A k \in from..(start - 1) : line[k] \in Space,
         start <= Len(line) => line[start] \notin Space
  PROVE  T!Start(line, from) = start
<1>1. Len(line) \in Nat /\ start - from \in 0..(Len(line) - from + 1)
      /\ from + (start - from) - 1 = start - 1 /\ from + (start - from) = start
  BY LenProperties
<1>2. RunLength(line, from, Space) = start - from
  BY <1>1, RunLengthUnique
<1>3. QED
  BY <1>1, <1>2, SameText DEF T!Start

-----------------------------------------------------------------------------
(* The invariant: between the last token and the place of the scan are only spaces, and  *)
(* the letters of the present word are the symbols of the line from its beginning.       *)
LastEnd == IF spelled = <<>> THEN 1 ELSE spelled[Len(spelled)].end

WordStart == symbol - letterNumber

WordClass == T!Class(input[WordStart])

Gap(from) == LastEnd \in 1..from /\ \A k \in LastEnd..(from - 1) : input[k] \in Space

ScanInv == status = "scan" => Gap(symbol)

(* What has been read of the word.                                               *)
LettersInv ==
  /\ WordStart \in 1..Len(input) /\ Gap(WordStart)
  /\ input[WordStart] \notin Space
  /\ input[WordStart] \in Digit => NumberLength(input, WordStart) = 0
  /\ \A k \in WordStart..(symbol - 1) : input[k] \in WordClass
  /\ letterNumber > 0 => word = SubSeq(input, WordStart, symbol - 1)
  /\ \A n \in 1..letterNumber :
       FindOperationByDesignation(SubSeq(input, WordStart, WordStart + n - 1)) = {}

(* What may follow.                                                           *)
WordInv ==
  /\ status \in {"word", "name"} => LettersInv
  /\ status = "word" /\ letterNumber > 0 /\ InLine => ~Boundary(input[symbol - 1], Current)
  /\ status = "name" /\ InLine => Current \notin WordClass

PlaceInv == ScanInv /\ WordInv

-----------------------------------------------------------------------------
(* Of two neighbouring symbols of a word the second is in the class of the first just     *)
(* when there is no boundary between them.                                       *)
LEMMA ClassOf ==
  ASSUME NEW first, NEW before, NEW after
  PROVE  /\ first \in Letter \cup Punct <=> first \in T!Class(first)
         /\ T!Class(first) \subseteq Letter \cup Punct
         /\ before \in T!Class(first) /\ Boundary(before, after) => after \notin T!Class(first)
         /\ before \in T!Class(first) /\ after \in Letter \cup Punct /\ ~Boundary(before, after)
              => after \in T!Class(first)
  BY ClassAssumption DEF T!Class, Boundary

(* The last token ends where the one just written does.                              *)
LEMMA WrittenEnd ==
  ASSUME TokensInv, NEW kind, NEW index, NEW text, NEW end, NEW next,
         Written(kind, index, text, end, next)
  PROVE  LastEnd' = end
<1>1. Len(tokens) \in Nat /\ Len(spelled) = Len(tokens)
  BY LenProperties DEF TokensInv
<1>2. Len(spelled') = Len(tokens') /\ spelled'[Len(tokens')].end = end /\ Len(spelled') # 0
  BY <1>1 DEF Written
<1>3. spelled' # <<>>
  BY <1>2, EmptySeq
<1>4. QED
  BY <1>2, <1>3 DEF LastEnd

(* One more letter: it is in the class of the word, and the buffer holds what was read.    *)
LEMMA NextLetter ==
  ASSUME IInv, PlaceInv, status = "word", WordGoesOn, word # NULL
  PROVE  /\ \A k \in WordStart..symbol : input[k] \in WordClass
         /\ Longer = SubSeq(input, WordStart, symbol)
<1>1. /\ Len(input) \in Nat /\ input \in Seq(Symbols) /\ letterNumber \in Nat
      /\ symbol \in 1..Len(input) /\ Current = input[symbol]
      /\ WordStart \in 1..symbol /\ WordStart + letterNumber = symbol
      /\ Current \in Letter \cup Punct
  BY LineIsWord, LexerBounds DEF IInv, BufferInv, WordGoesOn, InLine, Current, PlaceInv, WordInv,
     LettersInv, WordStart
<1>2. LettersInv /\ (letterNumber > 0 => ~Boundary(input[symbol - 1], Current))
  BY DEF PlaceInv, WordInv, WordGoesOn
<1>3. Current \in WordClass
  <2>1. CASE letterNumber = 0
    <3>1. WordStart = symbol
      BY <1>1, <2>1
    <3>2. QED
      BY <1>1, <3>1, ClassOf DEF WordClass
  <2>2. CASE letterNumber > 0
    <3>1. symbol - 1 \in WordStart..(symbol - 1)
      BY <1>1, <2>2
    <3>2. input[symbol - 1] \in WordClass
      BY <1>2, <3>1 DEF LettersInv
    <3>3. QED
      BY <1>1, <1>2, <2>2, <3>2, ClassOf DEF WordClass
  <2>3. QED
    BY <1>1, <2>1, <2>2
<1>4. \A k \in WordStart..symbol : input[k] \in WordClass
  <2>1. \A k \in WordStart..symbol : k \in WordStart..(symbol - 1) \/ k = symbol
    BY <1>1
  <2>2. QED
    BY <1>1, <1>2, <1>3, <2>1 DEF LettersInv
<1>5. Longer = SubSeq(input, WordStart, symbol)
  <2>1. /\ Longer \in Words /\ Len(Longer) = letterNumber + 1
        /\ \A k \in 1..letterNumber : Longer[k] = word[k]
        /\ Longer[letterNumber + 1] = Current
    BY LongerWord DEF IInv, WordGoesOn
  <2>2. /\ SubSeq(input, WordStart, symbol) \in Seq(Symbols)
        /\ Len(SubSeq(input, WordStart, symbol)) = letterNumber + 1
        /\ \A k \in 1..(letterNumber + 1) :
             SubSeq(input, WordStart, symbol)[k] = input[WordStart + k - 1]
    <3>1. \A n \in WordStart..symbol : input[n] \in Symbols
      BY <1>1, LineIsWord DEF IInv, BufferInv
    <3>2. WordStart <= symbol /\ symbol - WordStart + 1 = letterNumber + 1
          /\ WordStart \in Int /\ symbol \in Int
      BY <1>1
    <3>3. QED
      BY <1>1, <3>1, <3>2, SubSeqProperties
  <2>3. ASSUME NEW k \in 1..letterNumber
        PROVE  word[k] = input[WordStart + k - 1]
    <3>1. word = SubSeq(input, WordStart, symbol - 1)
      BY <1>1, <1>2 DEF LettersInv
    <3>2. \A n \in WordStart..(symbol - 1) : input[n] \in Symbols
      BY <1>1, LineIsWord DEF IInv, BufferInv
    <3>3. /\ WordStart \in Int /\ symbol - 1 \in Int
          /\ k \in 1..((symbol - 1) - WordStart + 1)
      BY <1>1
    <3>4. QED
      BY <1>1, <3>1, <3>2, <3>3, SubSeqProperties
  <2>4. ASSUME NEW k \in 1..(letterNumber + 1)
        PROVE  Longer[k] = SubSeq(input, WordStart, symbol)[k]
    <3>1. k \in 1..letterNumber \/ k = letterNumber + 1
      BY <1>1
    <3>2. WordStart + (letterNumber + 1) - 1 = symbol
      BY <1>1
    <3>3. QED
      BY <1>1, <2>1, <2>2, <2>3, <3>1, <3>2
  <2>5. QED
    BY <2>1, <2>2, <2>4, SeqEqual DEF Words
<1>6. QED
  BY <1>4, <1>5

-----------------------------------------------------------------------------
(* The invariant holds after a return, and where a token has just been written.          *)
LEMMA NotReading ==
  ASSUME status' \notin {"scan", "word", "name"}
  PROVE  PlaceInv'
  BY DEF PlaceInv, ScanInv, WordInv

(* After a token the scan is where the token ends.                           *)
LEMMA BehindToken ==
  ASSUME TokensInv, NEW kind, NEW index, NEW text, NEW end \in Nat \ {0},
         Written(kind, index, text, end, "scan"), symbol' = end
  PROVE  PlaceInv'
<1>1. LastEnd' = symbol' /\ symbol' \in Nat \ {0} /\ status' = "scan"
  BY WrittenEnd DEF Written
<1>2. QED
  BY <1>1 DEF PlaceInv, ScanInv, WordInv, Gap

(* A token that cannot be written ends the reading.                                 *)
LEMMA BehindWrite ==
  ASSUME TokensInv, NEW kind \in TokenKinds, NEW index \in Nat \cup {NULL}, NEW text \in Words,
         NEW end \in 1..(Len(input) + 1), WriteNodePointer(kind, index, text, end, "scan"),
         status' = "scan" => symbol' = end
  PROVE  PlaceInv'
<1>1. end \in Nat \ {0}
  OBVIOUS
<1>2. CASE Written(kind, index, text, end, "scan")
  BY <1>1, <1>2, BehindToken DEF Written
<1>3. CASE status' = "TOKEN_ARRAY_ERROR"
  BY <1>3, NotReading
<1>4. QED
  BY <1>2, <1>3, WriteOutcome

(* Every step of the lexer keeps it between its last token and the one it is in. *)
LEMMA PlaceStep ==
  ASSUME IInv, PlaceInv, [Next]_vars
  PROVE  PlaceInv'
<1>1. /\ Len(input) \in Nat /\ symbol \in 1..(Len(input) + 1) /\ letterNumber \in Nat
      /\ TokensInv /\ <<>> \in Words /\ NULL \in Nat \cup {NULL}
  BY LineIsWord, LexerBounds, EmptySeq DEF IInv, BufferInv, Words
<1>2. CASE SkipSpace
  <2>1. /\ status' = "scan" /\ symbol' = symbol + 1 /\ LastEnd' = LastEnd /\ input' = input
        /\ Gap(symbol) /\ input[symbol] \in Space
    BY <1>2 DEF SkipSpace, PassSpace, LastEnd, PlaceInv, ScanInv, Current
  <2>2. \A k \in LastEnd..(symbol' - 1) : k \in LastEnd..(symbol - 1) \/ k = symbol
    BY <1>1, <2>1 DEF Gap
  <2>3. Gap(symbol)'
    BY <1>1, <2>1, <2>2 DEF Gap
  <2>4. QED
    BY <2>1, <2>3 DEF PlaceInv, ScanInv, WordInv
<1>3. CASE ReadNumber
  <2> DEFINE end == symbol + NumberLength(input, symbol)
  <2>1. end \in 1..(Len(input) + 1)
    BY <1>1, <1>3, LineIsWord, NumberLengthBound DEF ReadNumber, InLine, IInv, BufferInv
  <2>2. /\ WriteNodePointer("NUMERIC_NODE", NULL, <<>>, end, "scan")
        /\ status' = "scan" => symbol' = end
    BY <1>3 DEF ReadNumber
  <2> HIDE DEF end
  <2>3. QED
    BY <1>1, <2>1, <2>2, OtherKinds, BehindWrite
<1>4. CASE BeginWord
  <2>1. /\ status' = "word" /\ letterNumber' = 0 /\ UNCHANGED <<input, symbol, word, spelled>>
        /\ symbol \in 1..Len(input) /\ input[symbol] \notin Space
        /\ input[symbol] \in Digit => ~ (NumberLength(input, symbol) > 0)
        /\ Gap(symbol)
    BY <1>1, <1>4 DEF BeginWord, InLine, Current, IsNumber, PlaceInv, ScanInv
  <2>2. WordStart' = symbol /\ LastEnd' = LastEnd
    BY <1>1, <2>1 DEF WordStart, LastEnd
  <2>3. NumberLength(input, symbol) \in Nat
    BY <1>1, <2>1, LineIsWord, NumberLengthBound DEF IInv, BufferInv
  <2>4. Gap(WordStart)'
    BY <2>1, <2>2 DEF Gap
  <2>5. LettersInv'
    BY <1>1, <2>1, <2>2, <2>3, <2>4 DEF LettersInv
  <2>6. QED
    BY <2>1, <2>5 DEF PlaceInv, ScanInv, WordInv
<1>5. CASE ReadOperation
  <2>1. PICK op \in FindOperationByDesignation(Longer) :
          WriteNodePointer(op, NULL, Longer, symbol + 1, "scan")
    BY <1>5 DEF ReadOperation
  <2>2. Longer \in Words /\ symbol + 1 \in 1..(Len(input) + 1) /\ symbol' = symbol + 1
    BY <1>1, <1>5, LongerWord DEF ReadOperation, WordGoesOn, InLine, IInv
  <2>3. QED
    BY <1>1, <2>1, <2>2, OperationKinds, BehindWrite
<1>6. CASE ReadLetter
  <2>1. /\ \A k \in WordStart..symbol : input[k] \in WordClass
        /\ Longer = SubSeq(input, WordStart, symbol)
        /\ LettersInv
    BY <1>6, NextLetter DEF ReadLetter, PlaceInv, WordInv
  <2>2. /\ symbol' = symbol + 1 /\ letterNumber' = letterNumber + 1 /\ word' = Longer
        /\ UNCHANGED <<input, spelled>> /\ symbol \in 1..Len(input)
        /\ FindOperationByDesignation(Longer) = {}
        /\ status' = IF Boundary(Current, At(input, symbol + 1)) THEN "name" ELSE "word"
    BY <1>1, <1>6 DEF ReadLetter, WordGoesOn, InLine
  <2>3. /\ WordStart' = WordStart /\ WordClass' = WordClass /\ LastEnd' = LastEnd
        /\ WordStart \in 1..symbol /\ WordStart + letterNumber = symbol
    BY <1>1, <2>1, <2>2 DEF WordStart, WordClass, LastEnd, LettersInv
  <2>4. LettersInv'
    <3>1. Gap(WordStart)'
      BY <2>1, <2>2, <2>3 DEF LettersInv, Gap
    <3>2. word' = SubSeq(input, WordStart, symbol)
      BY <2>1, <2>2
    <3>3. ASSUME NEW n \in 1..(letterNumber + 1)
          PROVE  FindOperationByDesignation(SubSeq(input, WordStart, WordStart + n - 1)) = {}
      <4>1. n \in 1..letterNumber \/ n = letterNumber + 1
        BY <1>1
      <4>2. WordStart + (letterNumber + 1) - 1 = symbol
        BY <1>1, <2>3
      <4>3. QED
        BY <2>1, <2>2, <4>1, <4>2 DEF LettersInv
    <3>4. symbol' - 1 = symbol
      BY <1>1, <2>2
    <3>5. QED
      BY <1>1, <2>1, <2>2, <2>3, <3>1, <3>2, <3>3, <3>4 DEF LettersInv
  <2>5. /\ symbol + 1 <= Len(input) => At(input, symbol + 1) = input[symbol + 1]
        /\ symbol' - 1 = symbol
    <3>1. symbol + 1 <= Len(input) => At(input, symbol + 1) = input[symbol + 1]
      BY DEF At
    <3>2. symbol' - 1 = symbol
      BY <1>1, <2>2
    <3>3. QED
      BY <3>1, <3>2
  <2>6. input[symbol] \in WordClass /\ Current = input[symbol]
    BY <1>1, <2>1, <2>3 DEF Current
  <2>7. (status = "word" /\ letterNumber > 0 /\ InLine => ~Boundary(input[symbol - 1], Current))'
    BY <2>2, <2>5, <2>6 DEF InLine, Current
  <2>8. (status = "name" /\ InLine => Current \notin WordClass)'
    <3>1. SUFFICES ASSUME status' = "name", symbol + 1 <= Len(input)
                   PROVE  input[symbol + 1] \notin WordClass
      BY <2>2, <2>3 DEF InLine, Current
    <3>2. Boundary(input[symbol], input[symbol + 1])
      BY <2>2, <2>5, <2>6, <3>1
    <3>3. QED
      BY <2>6, <3>2, ClassOf DEF WordClass
  <2>9. QED
    BY <2>2, <2>4, <2>7, <2>8 DEF PlaceInv, ScanInv, WordInv
<1>7. CASE EndWord
  <2>1. /\ UNCHANGED <<input, symbol, word, letterNumber, spelled>> /\ status' = "name"
        /\ LettersInv /\ ~WordGoesOn
    BY <1>7 DEF EndWord, PlaceInv, WordInv
  <2>2. LettersInv'
    BY <2>1 DEF LettersInv, Gap, LastEnd, WordStart, WordClass
  <2>3. InLine => Current \notin WordClass
    BY <2>1, ClassOf DEF WordGoesOn, WordClass
  <2>4. QED
    BY <2>1, <2>2, <2>3 DEF PlaceInv, ScanInv, WordInv, InLine, Current, WordClass, WordStart
<1>8. CASE ReuseName
  <2>1. PICK position \in FindName(word) :
          WriteNodePointer("VARIABLE_NODE", NameIndex(position), word, symbol, "scan")
    BY <1>8 DEF ReuseName
  <2>2. word \in Words /\ symbol' = symbol /\ position \in Nat
    BY <1>8, <2>1 DEF ReuseName, AfterName, FindName, IInv, BufferInv
  <2>3. NameIndex(position) \in Nat \cup {NULL}
    BY <2>2, NameIndexIs
  <2>4. QED
    BY <1>1, <2>1, <2>2, <2>3, OtherKinds, BehindWrite
<1>9. CASE AddName
  <2>1. WriteNodePointer("VARIABLE_NODE", NameIndex(Len(nameTable)), word, symbol, "scan")
    BY <1>9 DEF AddName
  <2>2. word \in Words /\ symbol' = symbol /\ Len(nameTable) \in Nat
    BY <1>1, <1>9, LenProperties DEF AddName, AfterName, IInv, BufferInv, TokensInv
  <2>3. NameIndex(Len(nameTable)) \in Nat \cup {NULL}
    BY <2>2, NameIndexIs
  <2>4. QED
    BY <1>1, <2>1, <2>2, <2>3, OtherKinds, BehindWrite
<1>10. CASE WordTooLong \/ NameTableError \/ UseNoWord \/ Terminate
  BY <1>10, NotReading DEF WordTooLong, NameTableError, UseNoWord, Terminate, WriteNodePointer
<1>11. CASE UNCHANGED vars
  BY <1>11 DEF vars, PlaceInv, ScanInv, WordInv, LettersInv, Gap, LastEnd, WordStart, WordClass,
     InLine, Current
<1>12. QED
  BY <1>2, <1>3, <1>4, <1>5, <1>6, <1>7, <1>8, <1>9, <1>10, <1>11 DEF Next

-----------------------------------------------------------------------------
(* The tokens as Tokens sees them: their kinds, those of lost nodes included.          *)
Kinds ==
  [i \in DOMAIN tokens |-> IF tokens[i].kind = NULL THEN spelled[i].kind ELSE tokens[i].kind]

(* They are the kinds the tokens were to have.                                     *)
LEMMA KindsOf ==
  ASSUME NEW t \in Seq(TokenRecords), NEW made,
         \A i \in 1..Len(t) : made[i].kind \in TokenKinds /\ t[i].kind \in {made[i].kind, NULL},
         NEW kinds,
         kinds = [i \in DOMAIN t |-> IF t[i].kind = NULL THEN made[i].kind ELSE t[i].kind]
  PROVE  /\ kinds \in Seq(TokenKinds) /\ Len(kinds) = Len(t) /\ Len(t) \in Nat
         /\ \A i \in 1..Len(t) : kinds[i] = made[i].kind
<1>1. DOMAIN t = 1..Len(t) /\ Len(t) \in Nat
  BY LenProperties
<1>2. ASSUME NEW i \in 1..Len(t)
      PROVE  made[i].kind \in TokenKinds /\ kinds[i] = made[i].kind
  BY <1>1
<1>3. kinds = [i \in 1..Len(t) |-> kinds[i]]
  BY <1>1
<1>4. kinds \in Seq(TokenKinds) /\ Len(kinds) = Len(t)
  BY <1>1, <1>2, <1>3
<1>5. QED
  BY <1>1, <1>2, <1>4

(* So Tokens sees what each token was to be.                                       *)
LEMMA KindsAre ==
  ASSUME TokensInv
  PROVE  /\ Kinds \in Seq(TokenKinds) /\ Len(Kinds) = Len(tokens) /\ Len(tokens) \in Nat
         /\ \A i \in 1..Len(tokens) : Kinds[i] = spelled[i].kind
<1>1. ASSUME NEW i \in 1..Len(tokens)
      PROVE  spelled[i].kind \in TokenKinds /\ tokens[i].kind \in {spelled[i].kind, NULL}
  <2>1. spelled[i] \in Spellings
    BY ElementOfSeq DEF TokensInv
  <2>2. QED
    BY <2>1 DEF TokensInv, TokenInv, Spellings
<1>2. QED
  BY <1>1, KindsOf DEF TokensInv, Kinds

(* Writing a token appends its kind.                                         *)
LEMMA KindAppended ==
  ASSUME IInv, NEW kind \in TokenKinds, NEW index, NEW text, NEW end, NEW next,
         Written(kind, index, text, end, next)
  PROVE  Kinds' = Append(Kinds, kind)
<1>1. /\ Len(tokens') = Len(tokens) + 1 /\ spelled'[Len(tokens) + 1].kind = kind
      /\ \A i \in 1..Len(tokens) : spelled'[i] = spelled[i]
      /\ Len(spelled') = Len(tokens')
  BY DEF Written, IInv, TokensInv
<1>2. /\ Kinds \in Seq(TokenKinds) /\ Len(Kinds) = Len(tokens) /\ Len(tokens) \in Nat
      /\ \A i \in 1..Len(tokens) : Kinds[i] = spelled[i].kind
  BY KindsAre DEF IInv
<1>3. /\ Kinds' \in Seq(TokenKinds) /\ Len(Kinds') = Len(tokens')
      /\ \A i \in 1..Len(tokens') : Kinds'[i] = spelled'[i].kind
  <2>1. ASSUME NEW i \in 1..Len(tokens')
        PROVE  spelled'[i].kind \in TokenKinds /\ tokens'[i].kind \in {spelled'[i].kind, NULL}
    <3>1. CASE i \in 1..Len(tokens)
      <4>1. tokens'[i] = tokens[i] /\ spelled'[i] = spelled[i]
        BY <3>1 DEF Written
      <4>2. spelled[i] \in Spellings
        BY <3>1, ElementOfSeq DEF IInv, TokensInv
      <4>3. QED
        BY <3>1, <4>1, <4>2 DEF IInv, TokensInv, TokenInv, Spellings
    <3>2. CASE i = Len(tokens')
      BY <3>2 DEF Written, LostNode
    <3>3. QED
      BY <1>1, <1>2, <3>1, <3>2
  <2>2. tokens' \in Seq(TokenRecords)
    BY DEF Written
  <2>3. QED
    BY <2>1, <2>2, KindsOf DEF Kinds
<1>5. /\ Append(Kinds, kind) \in Seq(TokenKinds) /\ Len(Append(Kinds, kind)) = Len(Kinds) + 1
      /\ \A i \in 1..Len(Kinds) : Append(Kinds, kind)[i] = Kinds[i]
      /\ Append(Kinds, kind)[Len(Kinds) + 1] = kind
  BY <1>2, AppendProperties
<1>6. ASSUME NEW i \in 1..Len(Kinds')
      PROVE  Kinds'[i] = Append(Kinds, kind)[i]
  <2>1. i \in 1..Len(tokens) \/ i = Len(tokens) + 1
    BY <1>1, <1>2, <1>3
  <2>2. QED
    BY <1>1, <1>2, <1>3, <1>5, <2>1
<1>7. QED
  BY <1>1, <1>2, <1>3, <1>5, <1>6, SeqEqual

(* The step of Tokens that a written token is.                                      *)
Takes(kind, end) == Kinds' = Append(Kinds, kind) /\ LastEnd' = end /\ input' = input

(* A written token is a step of Tokens, if it is the token Tokens takes.     *)
LEMMA TokenOf ==
  ASSUME IInv, NEW kind \in TokenKinds, NEW index, NEW text, NEW end, NEW next,
         Written(kind, index, text, end, next), input' = input
  PROVE  Takes(kind, end)
  BY KindAppended, WrittenEnd DEF IInv, Takes

(* Where Tokens goes on.                                                         *)
LEMMA HereIs ==
  ASSUME IInv, NEW from \in 1..(Len(input) + 1), Gap(from),
         from <= Len(input) => input[from] \notin Space
  PROVE  T!Here = from
<1>1. input \in Seq(Symbols) /\ Len(input) \in Nat
  BY LineIsWord DEF IInv, BufferInv
<1>2. LastEnd \in 1..(Len(input) + 1) /\ from \in LastEnd..(Len(input) + 1)
  BY <1>1 DEF Gap
<1>3. T!Start(input, LastEnd) = from
  BY <1>1, <1>2, StartIs DEF Gap
<1>4. QED
  BY <1>3 DEF T!Here, LastEnd

-----------------------------------------------------------------------------
(* Each action takes the token of Tokens, or nothing.                                *)
AbstractVars == <<input, LastEnd, Kinds>>

(* A write: the abstract step is the one that takes the token, if it is written.          *)
LEMMA WriteTakes ==
  ASSUME IInv, input' = input, NEW kind \in TokenKinds, NEW index \in Nat \cup {NULL},
         NEW text \in Words, NEW end \in 1..(Len(input) + 1), NEW next,
         WriteNodePointer(kind, index, text, end, next)
  PROVE  Takes(kind, end) \/ UNCHANGED AbstractVars
<1>1. CASE Written(kind, index, text, end, next)
  BY <1>1, TokenOf
<1>2. CASE UNCHANGED <<tokens, spelled>>
  BY <1>2 DEF AbstractVars, LastEnd, Kinds
<1>3. QED
  BY <1>1, <1>2, WriteOutcome DEF IInv

(* A number is what Tokens takes next, or no token was written.              *)
LEMMA NumberTakes ==
  ASSUME IInv, PlaceInv, ReadNumber
  PROVE  [T!Next]_AbstractVars
<1> DEFINE end == symbol + NumberLength(input, symbol)
<1>1. /\ symbol \in 1..Len(input) /\ input[symbol] \in Digit /\ NumberLength(input, symbol) > 0
      /\ input[symbol] \notin Space /\ Gap(symbol) /\ input' = input
      /\ WriteNodePointer("NUMERIC_NODE", NULL, <<>>, end, "scan")
      /\ Len(input) \in Nat
  BY LineIsWord, ClassAssumption DEF ReadNumber, InLine, IsNumber, Current, IInv, BufferInv, PlaceInv,
     ScanInv
<1>2. end \in 1..(Len(input) + 1)
  BY <1>1, LineIsWord, NumberLengthBound DEF IInv, BufferInv
<1>3. T!Here = symbol
  BY <1>1, HereIs
<1>4. Takes("NUMERIC_NODE", end) \/ UNCHANGED AbstractVars
  <2>1. <<>> \in Words /\ NULL \in Nat \cup {NULL} /\ "NUMERIC_NODE" \in TokenKinds
    BY EmptySeq, OtherKinds DEF Words
  <2> HIDE DEF end
  <2>2. QED
    BY <1>1, <1>2, <2>1, WriteTakes
<1>5. T!NumberLength(input, symbol) = NumberLength(input, symbol) /\ T!Digit = Digit
  BY SameText
<1>6. QED
  <2>1. CASE Takes("NUMERIC_NODE", end)
    <3>1. T!Token("NUMERIC_NODE", T!Here + T!NumberLength(input, T!Here))
      BY <1>3, <1>5, <2>1 DEF Takes, T!Token, Kinds, LastEnd
    <3>2. T!TakeNumber
      BY <1>1, <1>3, <1>5, <3>1 DEF T!TakeNumber
    <3>3. QED
      BY <1>1, <1>3, <3>2 DEF T!Next
  <2>2. QED
    BY <1>4, <2>1

(* The word the concrete lexer has read is the one the abstract lexer takes.             *)
LEMMA WordTakes ==
  ASSUME IInv, PlaceInv, NEW n \in 1..(Len(input) - WordStart + 1), LettersInv,
         \A k \in WordStart..(WordStart + n - 1) : input[k] \in WordClass,
         \A m \in 1..(n - 1) :
           FindOperationByDesignation(SubSeq(input, WordStart, WordStart + m - 1)) = {},
         NEW kind,
         LET found == FindOperationByDesignation(SubSeq(input, WordStart, WordStart + n - 1))
         IN  \/ found = {kind}
             \/ /\ found = {} /\ kind = "VARIABLE_NODE"
                /\ WordStart + n <= Len(input) => input[WordStart + n] \notin WordClass,
         Takes(kind, WordStart + n) \/ UNCHANGED AbstractVars
  PROVE  [T!Next]_AbstractVars
<1> DEFINE text == SubSeq(input, WordStart, WordStart + n - 1)
<1>1. input \in Seq(Symbols) /\ Len(input) \in Nat /\ WordStart \in 1..Len(input)
  BY LineIsWord DEF IInv, BufferInv, LettersInv
<1>2. T!Here = WordStart
  BY <1>1, HereIs DEF LettersInv
<1>3. T!WordLength(input, WordStart) = n
  BY <1>1, WordLengthIs DEF WordClass
<1>4. T!WordKind(text) = kind
  <2>1. T!FindOperationByDesignation(text) = FindOperationByDesignation(text)
    BY SameText
  <2> HIDE DEF text
  <2>2. CASE FindOperationByDesignation(text) = {kind}
    BY <2>1, <2>2 DEF T!WordKind
  <2>3. CASE FindOperationByDesignation(text) = {} /\ kind = "VARIABLE_NODE"
    BY <2>1, <2>3 DEF T!WordKind
  <2>4. QED
    BY <2>2, <2>3 DEF text
<1>5. QED
  <2>1. CASE Takes(kind, WordStart + n)
    <3> DEFINE length == T!WordLength(input, T!Here)
    <3>1. length = n /\ T!Here = WordStart
      BY <1>2, <1>3
    <3> HIDE DEF length
    <3>2. T!Token(T!WordKind(SubSeq(input, T!Here, T!Here + length - 1)), T!Here + length)
      BY <1>4, <2>1, <3>1 DEF Takes, T!Token, Kinds, LastEnd
    <3> USE DEF length
    <3>3. T!TakeWord
      BY <3>1, <3>2 DEF T!TakeWord
    <3>4. QED
      BY <1>1, <1>2, <3>3 DEF T!Next
  <2>2. QED
    BY <2>1

(* So is a designation: it is the shortest one at the start of the word.     *)
LEMMA OperationTakes ==
  ASSUME IInv, PlaceInv, ReadOperation
  PROVE  [T!Next]_AbstractVars
<1> DEFINE n == letterNumber + 1
<1>1. /\ LettersInv /\ symbol \in 1..Len(input) /\ input' = input /\ Len(input) \in Nat
      /\ \A k \in WordStart..symbol : input[k] \in WordClass
      /\ Longer = SubSeq(input, WordStart, symbol) /\ letterNumber \in Nat /\ Longer \in Words
  BY LineIsWord, LexerBounds, NextLetter, LongerWord DEF ReadOperation, WordGoesOn, InLine, IInv,
     BufferInv, PlaceInv, WordInv
<1>2. PICK op \in FindOperationByDesignation(Longer) :
        WriteNodePointer(op, NULL, Longer, symbol + 1, "scan")
  BY DEF ReadOperation
<1>3. /\ WordStart + n = symbol + 1 /\ WordStart + n - 1 = symbol
      /\ n \in 1..(Len(input) - WordStart + 1) /\ n - 1 = letterNumber
  BY <1>1 DEF WordStart, LettersInv
<1>4. Takes(op, WordStart + n) \/ UNCHANGED AbstractVars
  <2>1. symbol + 1 \in 1..(Len(input) + 1) /\ NULL \in Nat \cup {NULL} /\ op \in TokenKinds
    BY <1>1, OperationKinds
  <2>2. Takes(op, symbol + 1) \/ UNCHANGED AbstractVars
    BY <1>1, <1>2, <2>1, WriteTakes
  <2>3. QED
    BY <1>3, <2>2
<1>5. FindOperationByDesignation(SubSeq(input, WordStart, WordStart + n - 1)) = {op}
  BY <1>1, <1>2, <1>3, OneOperation
<1> HIDE DEF n
<1>6. QED
  BY <1>1, <1>3, <1>4, <1>5, WordTakes DEF LettersInv

(* A name is the whole stretch of its class, or was not a single letter.                *)
LEMMA NameTakes ==
  ASSUME IInv, PlaceInv, status = "name", input' = input, word \in Words,
         NEW index \in Nat \cup {NULL},
         WriteNodePointer("VARIABLE_NODE", index, word, symbol, "scan")
  PROVE  [T!Next]_AbstractVars
<1>1. /\ LettersInv /\ symbol \in 1..(Len(input) + 1) /\ Len(input) \in Nat
      /\ symbol <= Len(input) => input[symbol] \notin WordClass
      /\ letterNumber \in Nat
  BY LineIsWord, LexerBounds DEF IInv, BufferInv, PlaceInv, WordInv, InLine, Current
<1>2. WordStart + letterNumber = symbol /\ WordStart \in 1..Len(input)
  BY <1>1 DEF WordStart, LettersInv
<1>3. Takes("VARIABLE_NODE", symbol) \/ UNCHANGED AbstractVars
  BY <1>1, OtherKinds, WriteTakes
<1>4. CASE letterNumber > 0
  <2>1. /\ letterNumber \in 1..(Len(input) - WordStart + 1)
        /\ WordStart + letterNumber - 1 = symbol - 1
    BY <1>1, <1>2, <1>4
  <2>2. FindOperationByDesignation(SubSeq(input, WordStart, WordStart + letterNumber - 1)) = {}
    <3>1. letterNumber \in 1..letterNumber
      BY <1>1, <1>4
    <3>2. QED
      BY <1>1, <3>1 DEF LettersInv
  <2>3. \A m \in 1..(letterNumber - 1) : m \in 1..letterNumber
    BY <1>1
  <2>4. QED
    BY <1>1, <1>2, <1>3, <2>1, <2>2, <2>3, WordTakes DEF LettersInv
<1>5. CASE letterNumber = 0
  <2>1. WordStart = symbol /\ symbol \in 1..Len(input)
    BY <1>2, <1>5 DEF WordStart
  <2>2. T!Here = symbol
    BY <1>1, <2>1, HereIs DEF LettersInv
  <2>3. T!TokenLength(input, symbol) = 0
    <3>1. CASE input[symbol] \in Digit
      BY <1>1, <2>1, <3>1, SameText DEF T!TokenLength, LettersInv
    <3>2. CASE input[symbol] \notin Digit
      <4>1. input[symbol] \notin T!Class(input[symbol])
        BY <1>1, <2>1 DEF WordClass
      <4>2. RunLength(input, symbol, T!Class(input[symbol])) = 0
        <5>1. input \in Seq(Symbols) /\ symbol \in 1..(Len(input) + 1)
              /\ 0 \in 0..(Len(input) - symbol + 1) /\ symbol + 0 = symbol
              /\ \A k \in symbol..(symbol + 0 - 1) : input[k] \in T!Class(input[symbol])
          BY <1>1, <2>1, LineIsWord DEF IInv, BufferInv
        <5>2. QED
          BY <4>1, <5>1, RunLengthUnique
      <4>3. T!WordLength(input, symbol) = 0
        <5>1. T!RunLength(input, symbol, T!Class(input[symbol])) = 0
          BY <4>2, SameText
        <5>2. QED
          BY <5>1 DEF T!WordLength
      <4>4. T!Digit = Digit
        BY SameText
      <4>5. QED
        BY <3>2, <4>3, <4>4 DEF T!TokenLength
    <3>3. QED
      BY <3>1, <3>2
  <2>4. CASE Takes("VARIABLE_NODE", symbol)
    <3>1. T!Invent
      BY <2>2, <2>3, <2>4 DEF T!Invent, Takes, T!Token, Kinds, LastEnd
    <3>2. QED
      BY <2>1, <2>2, <3>1 DEF T!Next
  <2>5. QED
    BY <1>3, <2>4
<1>6. QED
  BY <1>1, <1>4, <1>5

(* TERMINATOR is written where nothing but spaces is left.                   *)
LEMMA EndTakes ==
  ASSUME IInv, PlaceInv, Terminate
  PROVE  [T!Next]_AbstractVars
<1>1. /\ symbol \in 1..(Len(input) + 1) /\ ~ (symbol <= Len(input)) /\ Gap(symbol)
      /\ input' = input /\ Len(input) \in Nat /\ status = "scan"
      /\ WriteNodePointer("TERMINATOR", NULL, <<>>, symbol, "NO_PARSING_ERRORS")
  BY LineIsWord DEF Terminate, InLine, IInv, BufferInv, PlaceInv, ScanInv
<1>2. T!Here = symbol
  BY <1>1, HereIs
<1>3. ~T!Terminated
  <2>1. /\ Kinds \in Seq(TokenKinds) /\ Len(Kinds) = Len(tokens) /\ Len(tokens) \in Nat
        /\ \A i \in 1..Len(tokens) : Kinds[i] = spelled[i].kind
    BY KindsAre DEF IInv
  <2>2. \A i \in 1..Len(tokens) : spelled[i].kind # "TERMINATOR"
    BY <1>1 DEF IInv, TokensInv, TokenInv
  <2>3. Kinds # <<>> => Len(Kinds) \in 1..Len(tokens)
    BY <2>1, EmptySeq
  <2>4. ~ (Kinds # <<>> /\ Kinds[Len(Kinds)] = "TERMINATOR")
    BY <2>1, <2>2, <2>3
  <2>5. QED
    BY <2>4 DEF T!Terminated, Kinds
<1>4. Takes("TERMINATOR", symbol) \/ UNCHANGED AbstractVars
  BY <1>1, OtherKinds, EmptySeq, WriteTakes DEF Words
<1>5. CASE Takes("TERMINATOR", symbol)
  <2>1. T!Terminate
    <3>1. T!Token("TERMINATOR", T!Here)
      BY <1>2, <1>5 DEF Takes, T!Token, Kinds, LastEnd
    <3>2. QED
      BY <1>1, <1>2, <1>3, <3>1 DEF T!Terminate
  <2>2. QED
    BY <2>1 DEF T!Next
<1>6. QED
  BY <1>4, <1>5

(* Each step of the lexer is a step of Tokens or a stutter.                  *)
LEMMA ImplementsStep ==
  ASSUME IInv, PlaceInv, [Next]_vars
  PROVE  [T!Next]_AbstractVars
<1>1. CASE \/ SkipSpace \/ BeginWord \/ WordTooLong \/ ReadLetter \/ EndWord
           \/ NameTableError \/ UseNoWord \/ UNCHANGED vars
  BY <1>1 DEF SkipSpace, BeginWord, WordTooLong, ReadLetter, EndWord, NameTableError, UseNoWord,
     vars, AbstractVars, LastEnd, Kinds
<1>2. CASE ReuseName
  <2>1. PICK position \in FindName(word) :
          WriteNodePointer("VARIABLE_NODE", NameIndex(position), word, symbol, "scan")
    BY <1>2 DEF ReuseName
  <2>2. word \in Words /\ status = "name" /\ input' = input /\ position \in Nat
    BY <1>2, <2>1 DEF ReuseName, FindName, IInv, BufferInv
  <2>3. NameIndex(position) \in Nat \cup {NULL}
    BY <2>2, NameIndexIs
  <2>4. QED
    BY <2>1, <2>2, <2>3, NameTakes
<1>3. CASE AddName
  <2>1. WriteNodePointer("VARIABLE_NODE", NameIndex(Len(nameTable)), word, symbol, "scan")
    BY <1>3 DEF AddName
  <2>2. word \in Words /\ status = "name" /\ input' = input /\ Len(nameTable) \in Nat
    BY <1>3, LenProperties DEF AddName, IInv, BufferInv, TokensInv
  <2>3. NameIndex(Len(nameTable)) \in Nat \cup {NULL}
    BY <2>2, NameIndexIs
  <2>4. QED
    BY <2>1, <2>2, <2>3, NameTakes
<1>4. QED
  BY <1>1, <1>2, <1>3, NumberTakes, OperationTakes, EndTakes DEF Next

(* Lexer implements Tokens: the loops over symbols, the word buffer and the name table     *)
(* cut every line into the tokens that the abstract lexer takes in one step each,         *)
(* whatever allocations fail.                                                     *)
THEOREM Refinement == Spec => ImplementsTokens
<1>1. Init => PlaceInv /\ T!Init
  <2> SUFFICES ASSUME Init
               PROVE  PlaceInv /\ T!Init
    OBVIOUS
  <2>1. T!Init
    BY DEF Init, T!Init
  <2>2. PlaceInv
    BY DEF Init, PlaceInv, ScanInv, WordInv, Gap, LastEnd
  <2>3. QED
    BY <2>1, <2>2
<1>2. IInv /\ PlaceInv /\ [Next]_vars => PlaceInv'
  BY PlaceStep
<1>3. IInv /\ PlaceInv /\ [Next]_vars
        => [T!Next]_<<input, IF spelled = <<>> THEN 1 ELSE spelled[Len(spelled)].end,
                      [i \in DOMAIN tokens |->
                         IF tokens[i].kind = NULL THEN spelled[i].kind ELSE tokens[i].kind]>>
  BY ImplementsStep DEF AbstractVars, LastEnd, Kinds
<1>4. QED
  BY <1>1, <1>2, <1>3, Invariance, PTL DEF Spec, ImplementsTokens, T!Spec

-----------------------------------------------------------------------------
(* The lines that can be cut to their end.                                          *)

(* The next token begins behind the last one and ends in the line.                      *)
LEMMA TokenBounds ==
  ASSUME NEW S, NEW line \in Seq(S)
  PROVE  /\ \A from \in 1..(Len(line) + 1) : T!Start(line, from) \in from..(Len(line) + 1)
         /\ \A start \in 1..Len(line) :
              T!TokenLength(line, start) \in 0..(Len(line) - start + 1)
<1>1. Len(line) \in Nat
  BY LenProperties
<1>2. ASSUME NEW from \in 1..(Len(line) + 1)
      PROVE  T!Start(line, from) \in from..(Len(line) + 1)
  <2>1. RunLength(line, from, Space) \in 0..(Len(line) - from + 1)
    BY RunLengthIs
  <2>2. T!Start(line, from) = from + RunLength(line, from, Space)
    BY SameText DEF T!Start
  <2>3. QED
    BY <1>1, <2>1, <2>2
<1>3. ASSUME NEW start \in 1..Len(line)
      PROVE  T!TokenLength(line, start) \in 0..(Len(line) - start + 1)
  <2>1. Stretch(line, start) \in 0..(Len(line) - start + 1)
    BY <1>1, RunLengthIs DEF Stretch
  <2>2. Found(line, start) \subseteq 1..Stretch(line, start) /\ Found(line, start) \subseteq Nat
    BY DEF Found
  <2>3. Found(line, start) # {} => Min(Found(line, start)) \in 1..Stretch(line, start)
    BY <2>2, MinIs
  <2>4. T!WordLength(line, start) \in 0..Stretch(line, start)
    BY <2>1, <2>3, WordLengthDef
  <2>5. T!WordLength(line, start) \in 0..(Len(line) - start + 1)
    BY <1>1, <2>1, <2>4
  <2>6. T!NumberLength(line, start) \in 0..(Len(line) - start + 1)
    BY SameText, NumberLengthBound
  <2>7. QED
    BY <2>5, <2>6 DEF T!TokenLength
<1>4. QED
  BY <1>2, <1>3

(* Whether the scan comes to the end from a position; the recursion in Scannable has a      *)
(* solution, as every token is behind the one before.                               *)
Scans(f, line) ==
  \A from \in 1..(Len(line) + 1) :
    LET start == T!Start(line, from)
    IN  f[from] <=> \/ start > Len(line)
                    \/ /\ T!TokenLength(line, start) > 0
                       /\ f[start + T!TokenLength(line, start)]

(* The recursive definition of Scannable has a solution, which decides it.   *)
LEMMA ScannableIs ==
  ASSUME NEW S, NEW line \in Seq(S)
  PROVE  \E f \in [1..(Len(line) + 1) -> BOOLEAN] : Scans(f, line) /\ (T!Scannable(line) <=> f[1])
<1> DEFINE N == Len(line) + 1
           start(from) == T!Start(line, from)
           next == [from \in 1..N |-> start(from) + T!TokenLength(line, start(from))]
           ends == {from \in 1..N : start(from) > Len(line)}
           goes == {from \in 1..N : T!TokenLength(line, start(from)) > 0}
           F(f) == f = [from \in 1..N |->
                          \/ start(from) > Len(line)
                          \/ /\ T!TokenLength(line, start(from)) > 0
                             /\ f[start(from) + T!TokenLength(line, start(from))]]
<1>1. N \in Nat \ {0}
  BY LenProperties
<1>2. ASSUME NEW from \in (1..N) \cap goes, from \notin ends
      PROVE  next[from] \in (from + 1)..N
  <2>1. start(from) \in from..N /\ start(from) \in 1..Len(line)
    BY <1>1, <1>2, TokenBounds
  <2>2. T!TokenLength(line, start(from)) \in 1..(Len(line) - start(from) + 1)
    BY <1>1, <1>2, <2>1, TokenBounds
  <2>3. next[from] = start(from) + T!TokenLength(line, start(from))
    OBVIOUS
  <2> HIDE DEF start
  <2>4. QED
    BY <1>1, <2>1, <2>2, <2>3
<1>3. \E f \in [1..N -> BOOLEAN] : Solves(f, N, ends, goes, next)
  <2> HIDE DEF N, next, ends, goes
  <2>1. Upward(N, ends, goes, next)
    BY <1>2 DEF Upward
  <2>2. QED
    BY <1>1, <2>1, UpwardRecursion
<1>4. \E f : F(f)
  <2>1. PICK f \in [1..N -> BOOLEAN] : Solves(f, N, ends, goes, next)
    BY <1>3
  <2>2. \A from \in 1..N :
          f[from] = \/ start(from) > Len(line)
                    \/ /\ T!TokenLength(line, start(from)) > 0
                       /\ f[start(from) + T!TokenLength(line, start(from))]
    BY <2>1 DEF Solves
  <2>3. f = [from \in 1..N |-> f[from]]
    OBVIOUS
  <2> HIDE DEF start
  <2>4. F(f)
    BY <2>2, <2>3
  <2>5. QED
    BY <2>4
<1>5. PICK f : F(f) /\ T!Scannable(line) = f[1]
  <2> DEFINE g == CHOOSE f : F(f)
  <2>1. F(g)
    BY <1>4
  <2>2. T!Scannable(line) = g[1]
    BY DEF T!Scannable
  <2> HIDE DEF g
  <2>3. QED
    BY <2>1, <2>2
<1>6. f \in [1..N -> BOOLEAN]
  BY <1>5
<1>7. Scans(f, line)
  BY <1>5 DEF Scans
<1>8. QED
  BY <1>1, <1>5, <1>6, <1>7

(* Where a token starts there is no space to skip.                           *)
LEMMA StartAgain ==
  ASSUME NEW S, NEW line \in Seq(S), NEW from \in 1..(Len(line) + 1)
  PROVE  T!Start(line, T!Start(line, from)) = T!Start(line, from)
<1> DEFINE start == T!Start(line, from)
<1>1. start \in from..(Len(line) + 1) /\ Len(line) \in Nat
  BY TokenBounds, LenProperties
<1>2. start = from + RunLength(line, from, Space)
  BY SameText DEF T!Start
<1>3. start <= Len(line) => line[start] \notin Space
  BY <1>2, RunLengthIs
<1> HIDE DEF start
<1>4. start \in 1..(Len(line) + 1) /\ start \in start..(Len(line) + 1)
      /\ \A k \in start..(start - 1) : line[k] \in Space
  BY <1>1
<1>5. T!Start(line, start) = start
  BY <1>3, <1>4, StartIs
<1>6. QED
  BY <1>5 DEF start

-----------------------------------------------------------------------------
(* How far the tokens get.                                                        *)
Ended == Kinds # <<>> /\ Kinds[Len(Kinds)] = "TERMINATOR"

NextStart == T!Start(input, LastEnd)

(* A step of Tokens in short: a token, of no length where the scan is stuck, or the end.    *)
TakesOne ==
  \/ UNCHANGED <<Kinds, LastEnd>>
  \/ /\ NextStart <= Len(input)
     /\ \E kind \in WordKinds : Takes(kind, NextStart + T!TokenLength(input, NextStart))
  \/ NextStart > Len(input) /\ ~Ended /\ Takes("TERMINATOR", NextStart)

(* Where the last token ends, and where the next one begins.                          *)
LEMMA EndIsIn ==
  ASSUME IInv
  PROVE  /\ input \in Seq(Symbols) /\ Len(input) \in Nat
         /\ LastEnd \in 1..(Len(input) + 1) /\ NextStart \in LastEnd..(Len(input) + 1)
         /\ Kinds \in Seq(TokenKinds) /\ Len(Kinds) = Len(tokens) /\ Len(tokens) \in Nat
         /\ \A i \in 1..Len(tokens) : Kinds[i] = spelled[i].kind
<1>1. input \in Seq(Symbols) /\ Len(input) \in Nat
  BY LineIsWord DEF IInv, BufferInv
<1>2. spelled # <<>> => spelled[Len(spelled)] \in Spellings
  BY ElementOfSeq, EmptySeq, LenProperties DEF IInv, TokensInv
<1>3. LastEnd \in 1..(Len(input) + 1)
  BY <1>1, <1>2 DEF LastEnd, Spellings
<1>4. QED
  BY <1>1, <1>3, TokenBounds, KindsAre DEF NextStart, IInv

(* A step of Tokens takes what starts where it goes on, or TERMINATOR at the end.     *)
LEMMA TokensTakeOne ==
  ASSUME IInv, [T!Next]_AbstractVars
  PROVE  TakesOne
<1>1. input \in Seq(Symbols) /\ Len(input) \in Nat /\ T!Here = NextStart
      /\ (T!Terminated <=> Ended)
  BY LineIsWord DEF IInv, BufferInv, NextStart, T!Here, LastEnd, T!Terminated, Ended, Kinds
<1>2. LastEnd \in 1..(Len(input) + 1) /\ NextStart \in LastEnd..(Len(input) + 1)
  BY EndIsIn
<1>3. CASE NextStart <= Len(input) /\ T!TakeNumber
  <2>1. /\ T!TokenLength(input, NextStart) = T!NumberLength(input, NextStart)
    BY <1>1, <1>3 DEF T!TakeNumber, T!TokenLength
  <2>2. T!Token("NUMERIC_NODE", T!Here + T!NumberLength(input, T!Here))
    BY <1>3 DEF T!TakeNumber
  <2>3. Takes("NUMERIC_NODE", NextStart + T!TokenLength(input, NextStart))
    BY <1>1, <2>1, <2>2 DEF T!Token, Takes, Kinds, LastEnd
  <2>4. QED
    BY <1>3, <2>3 DEF TakesOne, WordKinds, Operands
<1>4. CASE NextStart <= Len(input) /\ T!TakeWord
  <2> DEFINE length == T!WordLength(input, NextStart)
             text == SubSeq(input, NextStart, NextStart + length - 1)
  <2>1. length > 0 /\ T!Token(T!WordKind(text), T!Here + length)
    BY <1>1, <1>4 DEF T!TakeWord, T!Token
  <2>2. input[NextStart] \notin T!Digit
    <3>1. SUFFICES ASSUME input[NextStart] \in Digit
                   PROVE  FALSE
      BY SameText
    <3>2. T!Class(input[NextStart]) = {}
      BY <3>1, ClassAssumption DEF T!Class
    <3>3. NextStart \in 1..(Len(input) + 1) /\ 0 \in 0..(Len(input) - NextStart + 1)
          /\ \A k \in NextStart..(NextStart + 0 - 1) : input[k] \in {}
      BY <1>1, <1>2
    <3>4. Stretch(input, NextStart) = 0
      BY <1>1, <3>2, <3>3, RunLengthUnique DEF Stretch
    <3>5. Found(input, NextStart) = {}
      BY <3>4 DEF Found
    <3>6. length = 0
      BY <3>4, <3>5, WordLengthDef
    <3>7. QED
      BY <2>1, <3>6
  <2>3. T!TokenLength(input, NextStart) = length
    BY <2>2 DEF T!TokenLength
  <2>4. T!WordKind(text) \in WordKinds
    <3>1. T!FindOperationByDesignation(text) = FindOperationByDesignation(text)
      BY SameText
    <3>2. FindOperationByDesignation(text) \subseteq OperationNames
      BY DEF FindOperationByDesignation
    <3>3. QED
      BY <3>1, <3>2 DEF T!WordKind, WordKinds, Operands
  <2>5. Takes(T!WordKind(text), NextStart + T!TokenLength(input, NextStart))
    BY <1>1, <2>1, <2>3 DEF T!Token, Takes, Kinds, LastEnd
  <2>6. QED
    BY <1>4, <2>4, <2>5 DEF TakesOne
<1>5. CASE NextStart <= Len(input) /\ T!Invent
  <2>1. T!TokenLength(input, NextStart) = 0 /\ T!Token("VARIABLE_NODE", T!Here)
    BY <1>1, <1>5 DEF T!Invent, T!Token
  <2>2. NextStart + T!TokenLength(input, NextStart) = NextStart
    BY <1>1, <1>2, <2>1
  <2>3. Takes("VARIABLE_NODE", NextStart + T!TokenLength(input, NextStart))
    BY <1>1, <2>1, <2>2 DEF T!Token, Takes, Kinds, LastEnd
  <2>4. QED
    BY <1>5, <2>3 DEF TakesOne, WordKinds, Operands
<1>6. CASE T!Terminate
  <2>1. T!Here > Len(input) /\ ~T!Terminated /\ T!Token("TERMINATOR", T!Here)
    BY <1>6 DEF T!Terminate
  <2>2. Takes("TERMINATOR", NextStart)
    BY <1>1, <2>1 DEF T!Token, Takes, Kinds, LastEnd
  <2>3. QED
    BY <1>1, <2>1, <2>2 DEF TakesOne
<1>7. CASE UNCHANGED AbstractVars
  BY <1>7 DEF AbstractVars, TakesOne
<1>8. QED
  BY <1>1, <1>3, <1>4, <1>5, <1>6, <1>7 DEF T!Next

(* Whether the rest of the line can be scanned does not change, and if it can each token    *)
(* has a symbol of its own.                                                      *)
ProgressInv ==
  \A f \in [1..(Len(input) + 1) -> BOOLEAN] :
    Scans(f, input) =>
      /\ f[LastEnd] <=> f[1]
      /\ f[1] => Len(Kinds) <= IF Ended THEN LastEnd ELSE LastEnd - 1

EndedInv == Ended => NextStart > Len(input)

(* A token that is taken is the last one.                                            *)
LEMMA TakesAppends ==
  ASSUME IInv, NEW kind \in TokenKinds, NEW end, Takes(kind, end)
  PROVE  /\ Len(Kinds') = Len(Kinds) + 1 /\ LastEnd' = end /\ input' = input
         /\ Ended' <=> kind = "TERMINATOR"
<1>1. /\ Len(Kinds') = Len(Kinds) + 1 /\ Kinds'[Len(Kinds) + 1] = kind
      /\ LastEnd' = end /\ input' = input /\ Len(Kinds) \in Nat
  BY EndIsIn, AppendProperties DEF Takes
<1>2. Kinds' # <<>>
  BY <1>1, EmptySeq
<1>3. QED
  BY <1>1, <1>2 DEF Ended

(* A token has a symbol, unless the scan is stuck and never gets to the end.            *)
LEMMA ProgressStep ==
  ASSUME IInv, ProgressInv, EndedInv, input' = input, TakesOne
  PROVE  ProgressInv' /\ EndedInv'
<1> DEFINE length == T!TokenLength(input, NextStart)
<1>1. /\ input \in Seq(Symbols) /\ Len(input) \in Nat /\ Len(Kinds) \in Nat
      /\ LastEnd \in 1..(Len(input) + 1) /\ NextStart \in LastEnd..(Len(input) + 1)
  BY EndIsIn
<1>2. T!Start(input, NextStart) = NextStart
  BY <1>1, StartAgain DEF NextStart
<1>3. NextStart <= Len(input) => length \in 0..(Len(input) - NextStart + 1)
  BY <1>1, TokenBounds
<1>4. ASSUME NEW f \in [1..(Len(input) + 1) -> BOOLEAN], Scans(f, input)
      PROVE  /\ f[LastEnd] <=> NextStart > Len(input) \/ (length > 0 /\ f[NextStart + length])
             /\ f[NextStart] <=> NextStart > Len(input) \/ (length > 0 /\ f[NextStart + length])
  <2>1. NextStart \in 1..(Len(input) + 1) /\ T!Start(input, LastEnd) = NextStart
    BY <1>1 DEF NextStart
  <2>2. \A from \in 1..(Len(input) + 1) : T!Start(input, from) = NextStart =>
          (f[from] <=> NextStart > Len(input) \/ (length > 0 /\ f[NextStart + length]))
    BY <1>4 DEF Scans
  <2>3. QED
    BY <1>1, <1>2, <2>1, <2>2
<1> HIDE DEF length
<1>5. CASE UNCHANGED <<Kinds, LastEnd>>
  BY <1>5 DEF ProgressInv, EndedInv, Ended, NextStart
<1>6. ASSUME NextStart <= Len(input), NEW kind \in WordKinds, Takes(kind, NextStart + length)
      PROVE  ProgressInv' /\ EndedInv'
  <2>1. kind \in TokenKinds /\ kind # "TERMINATOR"
    BY DEF WordKinds, TokenKinds, Operands, OperationNames, Brackets, BinaryOps, FunctionOps
  <2>2. /\ Len(Kinds') = Len(Kinds) + 1 /\ LastEnd' = NextStart + length /\ ~Ended'
    BY <1>6, <2>1, TakesAppends
  <2>3. ~Ended
    BY <1>1, <1>6 DEF EndedInv
  <2>4. ASSUME NEW f \in [1..(Len(input) + 1) -> BOOLEAN], Scans(f, input)
        PROVE  /\ f[LastEnd'] <=> f[1]
               /\ f[1] => Len(Kinds') <= LastEnd' - 1
    <3>1. /\ f[LastEnd] <=> f[1]
          /\ f[1] => Len(Kinds) <= LastEnd - 1
      BY <2>3, <2>4 DEF ProgressInv
    <3>2. CASE length = 0
      <4>1. LastEnd' = NextStart /\ ~f[LastEnd] /\ ~f[NextStart]
        BY <1>1, <1>4, <1>6, <2>2, <2>4, <3>2
      <4>2. QED
        BY <3>1, <4>1
    <3>3. CASE length > 0
      <4>1. f[LastEnd] <=> f[LastEnd']
        <5>1. f[LastEnd] <=> f[NextStart + length]
          BY <1>1, <1>4, <1>6, <2>4, <3>3
        <5>2. QED
          BY <2>2, <5>1
      <4>2. LastEnd <= LastEnd' - 1
        BY <1>1, <1>3, <1>6, <2>2, <3>3
      <4>3. QED
        BY <1>1, <1>3, <1>6, <2>2, <3>1, <4>1, <4>2
    <3>4. QED
      BY <1>3, <1>6, <3>2, <3>3
  <2>5. ProgressInv'
    BY <2>2, <2>4 DEF ProgressInv
  <2>6. QED
    BY <2>2, <2>5 DEF EndedInv
<1>7. ASSUME NextStart > Len(input), ~Ended, Takes("TERMINATOR", NextStart)
      PROVE  ProgressInv' /\ EndedInv'
  <2>1. /\ Len(Kinds') = Len(Kinds) + 1 /\ LastEnd' = NextStart /\ Ended'
    BY <1>7, OtherKinds, TakesAppends
  <2>2. ASSUME NEW f \in [1..(Len(input) + 1) -> BOOLEAN], Scans(f, input)
        PROVE  /\ f[LastEnd'] <=> f[1]
               /\ f[1] => Len(Kinds') <= LastEnd'
    <3>1. /\ f[LastEnd] <=> f[1]
          /\ f[1] => Len(Kinds) <= LastEnd - 1
      BY <1>7, <2>2 DEF ProgressInv
    <3>2. f[LastEnd] /\ f[NextStart]
      BY <1>4, <1>7, <2>2
    <3>3. f[LastEnd'] = f[NextStart]
      BY <2>1
    <3>4. QED
      BY <1>1, <2>1, <3>1, <3>2, <3>3
  <2>3. ProgressInv'
    BY <2>1, <2>2 DEF ProgressInv
  <2>4. NextStart' = NextStart
    BY <1>2, <2>1 DEF NextStart
  <2>5. QED
    BY <1>7, <2>3, <2>4 DEF EndedInv
<1>8. QED
  BY <1>5, <1>6, <1>7 DEF TakesOne, length

(* The tokens are bounded by the place of the scan, and TERMINATOR ends it.  *)
LEMMA ProgressInvariant == Spec => [](ProgressInv /\ EndedInv)
<1>1. Init => PlaceInv /\ ProgressInv /\ EndedInv
  <2> SUFFICES ASSUME Init
               PROVE  PlaceInv /\ ProgressInv /\ EndedInv
    OBVIOUS
  <2>1. LastEnd = 1 /\ Kinds = <<>>
    BY DEF Init, LastEnd, Kinds
  <2>2. ~Ended /\ Len(Kinds) = 0
    BY <2>1, EmptySeq DEF Ended
  <2>3. PlaceInv
    BY DEF Init, PlaceInv, ScanInv, WordInv, Gap, LastEnd
  <2>4. QED
    BY <2>1, <2>2, <2>3 DEF ProgressInv, EndedInv
<1>2. IInv /\ PlaceInv /\ ProgressInv /\ EndedInv /\ [Next]_vars
        => PlaceInv' /\ ProgressInv' /\ EndedInv'
  <2> SUFFICES ASSUME IInv, PlaceInv, ProgressInv, EndedInv, [Next]_vars
               PROVE  PlaceInv' /\ ProgressInv' /\ EndedInv'
    OBVIOUS
  <2>1. input' = input
    BY DEF Next, vars, SkipSpace, ReadNumber, BeginWord, WordTooLong, ReadOperation, ReadLetter,
       EndWord, ReuseName, AddName, NameTableError, UseNoWord, Terminate
  <2>2. QED
    BY <2>1, PlaceStep, ImplementsStep, TokensTakeOne, ProgressStep
<1>3. QED
  BY <1>1, <1>2, Invariance, PTL DEF Spec

(* The lexer returns normally only from lines it can cut into tokens: no line is accepted   *)
(* at whose middle the scan is stuck.                                              *)
THEOREM NormalNeedsScannable == Spec => []NormalOnlyIfScannable
<1>1. IInv /\ WroteLast /\ ProgressInv /\ EndedInv => NormalOnlyIfScannable
  <2> SUFFICES ASSUME IInv, WroteLast, ProgressInv, EndedInv, status = "NO_PARSING_ERRORS"
               PROVE  T!Scannable(input)
    BY DEF NormalOnlyIfScannable
  <2>1. Len(tokens) \in 1..Len(tokens) /\ spelled[Len(tokens)].kind = "TERMINATOR"
    <3>1. Len(tokens) \in 1..Len(tokens)
      BY EndIsIn, EmptySeq, LenProperties DEF WroteLast, IInv, TokensInv
    <3>2. QED
      BY <3>1 DEF IInv, TokensInv, TokenInv
  <2>2. Ended
    BY <2>1, EndIsIn, EmptySeq DEF Ended
  <2>3. PICK f \in [1..(Len(input) + 1) -> BOOLEAN] :
          Scans(f, input) /\ (T!Scannable(input) <=> f[1])
    BY EndIsIn, ScannableIs
  <2>4. f[LastEnd]
    BY <2>2, <2>3, EndIsIn DEF EndedInv, NextStart, Scans
  <2>5. QED
    BY <2>3, <2>4 DEF ProgressInv
<1>2. QED
  BY <1>1, Invariance, WroteLastInvariant, ProgressInvariant, PTL

(* On a line that can be scanned there are at most as many tokens as symbols, and            *)
(* TERMINATOR: a lexer that needs more memory is stuck.                                *)
THEOREM MemoryBound == Spec => []MemoryFollowsInput
<1>1. IInv /\ ProgressInv => MemoryFollowsInput
  <2> SUFFICES ASSUME IInv, ProgressInv, T!Scannable(input)
               PROVE  Len(tokens) <= Len(input) + 1
    BY DEF MemoryFollowsInput
  <2>1. PICK f \in [1..(Len(input) + 1) -> BOOLEAN] :
          Scans(f, input) /\ (T!Scannable(input) <=> f[1])
    BY EndIsIn, ScannableIs
  <2>2. Len(Kinds) <= IF Ended THEN LastEnd ELSE LastEnd - 1
    BY <2>1 DEF ProgressInv
  <2>3. QED
    BY <2>2, EndIsIn
<1>2. QED
  BY <1>1, Invariance, ProgressInvariant, PTL

=============================================================================
