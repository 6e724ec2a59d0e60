-------------------------------- MODULE Lexer --------------------------------
(***************************************************************************)
(* tok_list_lex (lex.c): the loop that offers the source to six handlers   *)
(* in a fixed order, the loops inside the handlers, the line and column    *)
(* bookkeeping, the token list with its growing buffer, and the error      *)
(* returns that release the list.  One step is one iteration of one loop,  *)
(* or the code of a handler before or after its loop.                      *)
(***************************************************************************)
EXTENDS SourceText, FiniteSets, FiniteSetsExt

CONSTANTS
    Sources,    \* the sources, each with Slack bytes that lie behind it
    MaxSize,    \* bound: the size of the longest source
    TokCap,     \* what make_tok_list allocates (32)
    U32,        \* number of values of a u32 (2^32)
    Keywords    \* the spellings tok_kw_kind_get knows

ASSUME LexerAssumption ==
    /\ MaxSize \in Nat
    /\ Sources \subseteq Seq(Byte)
    /\ \A buf \in Sources : Size(buf) \in 0 .. MaxSize
    /\ TokCap \in Nat \ {0}
    /\ U32 \in Nat \ {0}
    /\ 2 * MaxSize <= U32   \* no source of more than 2 GiB

VARIABLES
    src,        \* the bytes of the Src and, behind them, Slack bytes more
    pos,        \* lex_pos_cur: the offset of the StrIter, the line, the column
    beg,        \* local of the handlers: where the lexeme began
    iter,       \* local of the loop: where the iteration began (beg.off)
    escaped,    \* local of lex_handle_str
    toks,       \* the tokens in the list
    cap,        \* the capacity of the list's buffer
    pc,         \* what runs next
    result      \* the LexErr tok_list_lex answers, once it is done

vars == <<src, pos, beg, iter, escaped, toks, cap, pc, result>>

TokKind == {"Whitespace", "Ident", "Keyword", "Int", "Str", "Sym"}

LexErr == {"kLexNoErr", "kLexUnexpectedSym", "kLexNonTermStr"}

\* The control points inside a handler that has begun a lexeme at beg.
Scanning == {"whitespace_loop", "ident_loop", "num_loop", "str_loop"}

Label == Scanning \cup {"loop", "whitespace", "newline", "ident", "num",
                        "str", "special", "check", "done"}

MakePos(off, line, col) == [off |-> off, line |-> line, col |-> col]

LexPeek == StrIterPeek(src, pos.off)

\* Mutated form: a newline starts a new line without resetting the column.
LexNextKeepsColumn(p) ==
    LET newline == StrIterPeek(src, p.off) = LineFeed
    IN  MakePos(p.off + Width(src, p.off),
                IF newline THEN p.line + 1 ELSE p.line, p.col + 1)

\* lex_next: where the lexer is after the code point at p.
LexNext(p) ==
    LET off == p.off + Width(src, p.off)
    IN  IF StrIterPeek(src, p.off) = LineFeed THEN MakePos(off, p.line + 1, 0)
                                              ELSE MakePos(off, p.line, p.col + 1)

\* Mutated form: the buffer grows one token too late.
TokListCapLate == IF Len(toks) > cap THEN (2 * cap) % U32 ELSE cap

\* The capacity tok_list_push leaves: tok_list_reserve never shrinks.
TokListCap ==
    LET double == (2 * cap) % U32
    IN  IF Len(toks) >= cap /\ cap <= double THEN double ELSE cap

TokListPush(kind, end) ==
    /\ toks' = Append(toks, [kind |-> kind, beg |-> beg, end |-> end])
    /\ cap' = TokListCap

\* TOK_LIST_CHECK_ERR: the caller is left with an empty list.
Fail(err) ==
    /\ toks' = <<>>
    /\ cap' = 0
    /\ pc' = "done"
    /\ result' = err

TokListSame == UNCHANGED <<toks, cap>>
-----------------------------------------------------------------------------
Init ==
    /\ src \in Sources
    /\ pos = MakePos(0, 0, 0)
    /\ beg = MakePos(0, 0, 0)
    /\ iter = 0
    /\ escaped = FALSE
    /\ toks = <<>>
    /\ cap = TokCap
    /\ pc = "loop"
    /\ result = "kLexNoErr"

LoopBegin ==
    /\ pc = "loop"
    /\ LexPeek # kInvalidCodepoint
    /\ iter' = pos.off
    /\ pc' = "whitespace"
    /\ TokListSame
    /\ UNCHANGED <<pos, beg, escaped, result>>

LoopEnd ==
    /\ pc = "loop"
    /\ LexPeek = kInvalidCodepoint
    /\ pc' = "done"
    /\ TokListSame
    /\ UNCHANGED <<pos, beg, iter, escaped, result>>

\* A handler that finds nothing to do returns kLexNoErr.
Skip(here, next) ==
    /\ pc = here
    /\ pc' = next
    /\ TokListSame
    /\ UNCHANGED <<pos, beg, iter, escaped, result>>

\* A handler notes where it is and enters its loop.
Begin(here, next) ==
    /\ pc = here
    /\ beg' = pos
    /\ pc' = next
    /\ TokListSame
    /\ UNCHANGED <<pos, iter, escaped, result>>

\* One iteration of a handler's loop over code points that satisfy P.
Scan(here, P(_)) ==
    /\ pc = here
    /\ P(LexPeek)
    /\ pos' = LexNext(pos)
    /\ TokListSame
    /\ UNCHANGED <<beg, iter, escaped, pc, result>>

\* The code after a handler's loop: the token goes from beg to pos.
End(here, P(_), kind, next) ==
    /\ pc = here
    /\ ~ P(LexPeek)
    /\ TokListPush(kind, pos)
    /\ pc' = next
    /\ UNCHANGED <<pos, beg, iter, escaped, result>>

WhitespaceBegin == Begin("whitespace", "whitespace_loop")
WhitespaceScan == Scan("whitespace_loop", LexIsWhitespace)

\* Mutated form: a token even where there was no whitespace.
WhitespaceEndAlways ==
    End("whitespace_loop", LexIsWhitespace, "Whitespace", "newline")

WhitespaceEnd ==
    \/ /\ beg.off # pos.off
       /\ End("whitespace_loop", LexIsWhitespace, "Whitespace", "newline")
    \/ /\ beg.off = pos.off
       /\ ~ LexIsWhitespace(LexPeek)
       /\ Skip("whitespace_loop", "newline")

\* lex_handle_newline takes one newline and makes no token of it.
NewlineTake ==
    /\ pc = "newline"
    /\ LexPeek = LineFeed
    /\ pos' = LexNext(pos)
    /\ pc' = "ident"
    /\ TokListSame
    /\ UNCHANGED <<beg, iter, escaped, result>>

NewlineSkip == LexPeek # LineFeed /\ Skip("newline", "ident")

IdentSkip == ~ IdentStart(LexPeek) /\ Skip("ident", "num")
IdentBegin == IdentStart(LexPeek) /\ Begin("ident", "ident_loop")
IdentScan == Scan("ident_loop", IdentPart)

\* lex_span_slice: the slice of a token may reach past the text.
SpanSlice(b, e) == SubSeq(src, b + 1, e)

IdentEnd ==
    LET isKw == SpanSlice(beg.off, pos.off) \in Keywords
    IN  End("ident_loop", IdentPart, IF isKw THEN "Keyword" ELSE "Ident", "num")

NumSkip == ~ LexIsNum(LexPeek) /\ Skip("num", "str")
NumBegin == LexIsNum(LexPeek) /\ Begin("num", "num_loop")
NumScan == Scan("num_loop", LexIsNumSym)
NumEnd == End("num_loop", LexIsNumSym, "Int", "str")

StrSkip == LexPeek # Quote /\ Skip("str", "special")

StrBegin ==
    /\ pc = "str"
    /\ LexPeek = Quote
    /\ beg' = pos
    /\ pos' = LexNext(pos)
    /\ escaped' = FALSE
    /\ pc' = "str_loop"
    /\ TokListSame
    /\ UNCHANGED <<iter, result>>

\* Mutated form: a backslash escapes the rest of the string.
StrCharStaysEscaped ==
    /\ pc = "str_loop"
    /\ LexPeek # kInvalidCodepoint
    /\ LexPeek = Quote => escaped
    /\ pos' = LexNext(pos)
    /\ escaped' = (escaped \/ LexPeek = Backslash)
    /\ TokListSame
    /\ UNCHANGED <<beg, iter, pc, result>>

StrChar ==
    /\ pc = "str_loop"
    /\ LexPeek # kInvalidCodepoint
    /\ LexPeek = Quote => escaped
    /\ pos' = LexNext(pos)
    /\ escaped' = (LexPeek = Backslash)
    /\ TokListSame
    /\ UNCHANGED <<beg, iter, pc, result>>

StrClose ==
    /\ pc = "str_loop"
    /\ LexPeek = Quote
    /\ ~ escaped
    /\ pos' = LexNext(pos)
    /\ TokListPush("Str", pos')
    /\ pc' = "special"
    /\ UNCHANGED <<beg, iter, escaped, result>>

StrUnterminated ==
    /\ pc = "str_loop"
    /\ LexPeek = kInvalidCodepoint
    /\ Fail("kLexNonTermStr")
    /\ UNCHANGED <<pos, beg, iter, escaped>>

SpecialSkip == ~ LexIsSpecial(LexPeek) /\ Skip("special", "check")

\* The token has one code point.  One that stands for a special byte but is
\* spelled with more than that byte has no kind and is refused.
SpecialTake ==
    /\ pc = "special"
    /\ LexIsSpecial(LexPeek)
    /\ pos' = LexNext(pos)
    /\ beg' = pos
    /\ IF TokSymKindGet(SpanSlice(pos.off, pos'.off))
       THEN /\ toks' = Append(toks, [kind |-> "Sym", beg |-> pos, end |-> pos'])
            /\ cap' = TokListCap
            /\ pc' = "check"
            /\ UNCHANGED result
       ELSE Fail("kLexUnexpectedSym")
    /\ UNCHANGED <<iter, escaped>>

\* Mutated form: an iteration that took nothing is repeated.
CheckStuckAgain == Skip("check", "loop")

\* The end of an iteration: one that took nothing is an error.
CheckStuck ==
    /\ pc = "check"
    /\ iter = pos.off
    /\ Fail("kLexUnexpectedSym")
    /\ UNCHANGED <<pos, beg, iter, escaped>>

CheckMoved == iter # pos.off /\ Skip("check", "loop")

Whitespace == WhitespaceBegin \/ WhitespaceScan \/ WhitespaceEnd
Newline == NewlineTake \/ NewlineSkip
Ident == IdentSkip \/ IdentBegin \/ IdentScan \/ IdentEnd
Num == NumSkip \/ NumBegin \/ NumScan \/ NumEnd
Str == StrSkip \/ StrBegin \/ StrChar \/ StrClose \/ StrUnterminated
Special == SpecialSkip \/ SpecialTake
Loop == LoopBegin \/ LoopEnd \/ CheckStuck \/ CheckMoved

Next ==
    /\ Loop \/ Whitespace \/ Newline \/ Ident \/ Num \/ Str \/ Special
    /\ UNCHANGED src

Spec == Init /\ [][Next]_vars

\* One thread runs the lexer to its end and nothing in it blocks.
FairSpec == Spec /\ WF_vars(Next)
-----------------------------------------------------------------------------
(***************************************************************************)
(* Properties                                                              *)
(***************************************************************************)

Position == [off : Nat, line : Nat, col : Nat]

Token == [kind : TokKind, beg : Position, end : Position]

\* Every variable keeps its type, and the iterator never runs further past
\* the end of the source than the rest of a truncated code point.
TypeOK ==
    /\ src \in Seq(Byte) /\ Size(src) \in 0 .. MaxSize
    /\ pos \in Position /\ pos.off <= Size(src) + Slack
    /\ beg \in Position /\ beg.off <= pos.off
    /\ iter \in Nat /\ iter <= pos.off
    /\ escaped \in BOOLEAN
    /\ toks \in Seq(Token)
    /\ cap \in Nat
    /\ pc \in Label
    /\ result \in LexErr

\* Where token i ends; before the first token, the start of the source.
TokEnd(i) == IF i = 0 THEN 0 ELSE toks[i].end.off

\* From a, newline after newline, however each is spelled, one comes to b.
OnlyNewlines(buf, a, b) ==
    /\ a <= b
    /\ \E units \in SUBSET (a .. b - 1) :
        /\ a \in units \cup {b}
        /\ \A u \in units : /\ StrIterPeek(buf, u) = LineFeed
                            /\ u + Width(buf, u) \in units \cup {b}

\* The tokens are nonempty, in the order of the source, without overlap, and
\* between them there is nothing but code points that decode to a newline;
\* when tok_list_lex answers kLexNoErr they reach up to the place where
\* decoding stopped.  No byte of any source, one that is not UTF-8 included,
\* is lost between tokens, which the parser and the error excerpts
\* (span_slice) take for granted.
TokensTile ==
    /\ \A i \in 1 .. Len(toks) :
        /\ OnlyNewlines(src, TokEnd(i - 1), toks[i].beg.off)
        /\ toks[i].beg.off < toks[i].end.off
    /\ (pc = "done" /\ result = "kLexNoErr") =>
        OnlyNewlines(src, TokEnd(Len(toks)), pos.off)

\* tok_list_push writes at index len: the list never holds more tokens than
\* its buffer, whatever the doubling of a 32-bit capacity does.
TokListFits == Len(toks) <= cap

Continuation == 128 .. 191

\* Every code point of more than one byte is wholly in the text, and stands
\* for none that one byte could spell.
WellFormed(buf) ==
    \A off \in 0 .. Size(buf) - 1 : Width(buf, off) > 1 =>
        /\ off + Width(buf, off) <= Size(buf)
        /\ \A i \in off + 2 .. off + Width(buf, off) : buf[i] \in Continuation
        /\ Decode(buf, off) > 127

\* What str_off_to_line_col (str.c) counts, byte by byte, up to off.
StrOffToLineCol(str, off) ==
    LET newlines == { i \in 1 .. off : str[i] = LineFeed }
    IN  [line |-> Cardinality(newlines), col |-> off - Max(newlines \cup {0})]

\* The line and column the lexer carries along in each span are those the
\* text itself gives for the offset (str_off_to_line_col), except that a
\* column counts a code point once and not each of its bytes.
PositionsAgree ==
    WellFormed(src) =>
        \A p \in {pos, beg} \cup UNION { {toks[i].beg, toks[i].end} :
                                         i \in 1 .. Len(toks) } :
            LET there == StrOffToLineCol(src, p.off)
            IN  /\ p.line = there.line
                /\ p.col = Cardinality({ i \in p.off - there.col + 1 .. p.off :
                                           src[i] \notin Continuation })

\* The six handlers, in the order they run and with their lookahead of one
\* code point, cut the source as Tokenizer says: at the longest lexeme, with
\* no lexeme split or joined because another handler came first.
Lexemes == INSTANCE Tokenizer WITH
    text <- src,
    at <- IF pc \in Scanning \/ result # "kLexNoErr" THEN beg.off ELSE pos.off,
    out <- [i \in 1 .. Len(toks) |-> [kind |-> toks[i].kind,
                                     beg |-> toks[i].beg.off,
                                     end |-> toks[i].end.off]],
    verdict <- IF pc = "done" THEN result ELSE "running"

ImplementsTokenizer == Lexemes!AbsSpec

\* Every source is lexed to its end or refused: each iteration of the outer
\* loop takes a byte or stops.
Terminates == <>(pc = "done")

\* Where the control points stand in an iteration of the outer loop, counted
\* from its end.
Rank ==
    CASE pc = "loop" -> 13             [] pc = "whitespace" -> 12
      [] pc = "whitespace_loop" -> 11  [] pc = "newline" -> 10
      [] pc = "ident" -> 9             [] pc = "ident_loop" -> 8
      [] pc = "num" -> 7               [] pc = "num_loop" -> 6
      [] pc = "str" -> 5               [] pc = "str_loop" -> 4
      [] pc = "special" -> 3           [] pc = "check" -> 2
      [] pc = "done" -> 0

\* Where the iteration of the outer loop that runs, or the next one, began.
Began == IF pc \in {"loop", "done"} THEN pos.off ELSE iter

\* A bound on the steps tok_list_lex still takes: those of the handlers'
\* loops, those of the iterations to come, and the rest of this one.
StepsLeft ==
    LET end == Size(src) + Slack
    IN  (end - pos.off) + 12 * (end - Began) + Rank

\* Lexing takes time linear in the source: no step of any handler, and no
\* iteration of the outer loop, leaves as much to do as there was before it,
\* and at "check" an iteration that took nothing does not begin again.
AlwaysProgress == [][StepsLeft' \in Nat /\ StepsLeft' < StepsLeft]_vars
=============================================================================
