----------------------------- MODULE LexerProofs -----------------------------
(***************************************************************************)
(* Proofs about Lexer, for every set of keywords, every size of source and *)
(* every initial capacity.                                                 *)
(***************************************************************************)
EXTENDS Lexer, Induction

(***************************************************************************)
(* Type correctness.  Almost every action of the lexer is one of the four  *)
(* shapes Skip, Begin, Scan and End, so there is a lemma for each.         *)
(***************************************************************************)

\* A code point has one to four bytes.
LEMMA WidthNat == \A buf, off : Width(buf, off) \in 1 .. 4
BY DEF Width

\* What the first byte of a code point tells.
LEMMA FirstByte ==
    ASSUME NEW buf, NEW off, buf[off + 1] \in Byte,
           Decode(buf, off) # kInvalidCodepoint
    PROVE  \/ /\ buf[off + 1] \in 0 .. 127
              /\ Decode(buf, off) = buf[off + 1] /\ Width(buf, off) = 1
           \/ buf[off + 1] \in 192 .. 247 /\ Width(buf, off) > 1
<1>1. PICK first \in Byte : first = buf[off + 1]
  OBVIOUS
<1>2. first \in 0 .. 127 \/ first \in 192 .. 247
  BY <1>1, SMT DEF Decode, Byte
<1>3. CASE first \in 0 .. 127
  BY <1>1, <1>3, SMT DEF Decode, Width
<1>4. CASE first \in 192 .. 247
  BY <1>1, <1>4, SMT DEF Width
<1>5. QED
  BY <1>1, <1>2, <1>3, <1>4

\* A code point that lex_peek returned is within the source, and lex_next
\* goes beyond it, at most to the end of a truncated code point.
LEMMA NextPosition ==
    ASSUME TypeOK, LexPeek # kInvalidCodepoint
    PROVE  LET next == LexNext(pos)
           IN  /\ pos.off < Size(src)
               /\ next \in Position
               /\ pos.off < next.off
               /\ next.off <= Size(src) + Slack
<1>1. pos \in Position /\ Size(src) \in Nat
  BY LexerAssumption DEF TypeOK
<1>2. pos.off < Size(src)
  BY <1>1 DEF LexPeek, StrIterPeek, Position
<1>3. PICK width \in 1 .. 4 : width = Width(src, pos.off)
  BY WidthNat
<1>4. QED
  BY <1>1, <1>2, <1>3 DEF LexNext, MakePos, Position, Slack

\* Types are kept where a handler finds nothing to do, ...
LEMMA SkipType ==
    ASSUME TypeOK, UNCHANGED src,
           NEW here, NEW next \in Label, Skip(here, next)
    PROVE  TypeOK'
BY DEF TypeOK, Skip, TokListSame

\* ... where it notes the place it is at, ...
LEMMA BeginType ==
    ASSUME TypeOK, UNCHANGED src,
           NEW here, NEW next \in Label, Begin(here, next)
    PROVE  TypeOK'
BY DEF TypeOK, Begin, TokListSame, Position

\* One code point further, in any of the loops or at a newline.
LEMMA ScanType ==
    ASSUME TypeOK, UNCHANGED <<src, toks, cap>>, LexPeek # kInvalidCodepoint,
           pos' = LexNext(pos), beg' \in {beg, pos},
           iter' = iter, escaped' \in BOOLEAN, pc' \in Label, result' = result
    PROVE  TypeOK'
<1>1. /\ pos' \in Position
      /\ pos.off < pos'.off
      /\ pos'.off <= Size(src) + Slack
  BY NextPosition
<1>2. /\ pos.off \in Nat /\ pos'.off \in Nat /\ beg.off \in Nat /\ beg.off <= pos.off
      /\ iter \in Nat /\ iter <= pos.off
  BY <1>1 DEF TypeOK, Position
<1>3. beg' \in Position /\ beg'.off <= pos'.off /\ iter' <= pos'.off
  <2>1. beg.off <= pos'.off /\ pos.off <= pos'.off /\ iter <= pos'.off
    BY <1>1, <1>2
  <2>2. QED
    BY <2>1 DEF TypeOK
<1>4. QED
  BY <1>1, <1>2, <1>3 DEF TypeOK

\* tok_list_push: the list grows by one token, the capacity stays a number.
LEMMA PushType ==
    ASSUME toks \in Seq(Token), cap \in Nat,
           NEW kind \in TokKind, NEW b \in Position, NEW e \in Position
    PROVE  /\ Append(toks, [kind |-> kind, beg |-> b, end |-> e]) \in Seq(Token)
           /\ TokListCap \in Nat
<1>1. (2 * cap) % U32 \in Nat
  BY LexerAssumption
<1>2. TokListCap \in Nat
  BY <1>1 DEF TokListCap
<1>3. [kind |-> kind, beg |-> b, end |-> e] \in Token
  BY DEF Token
<1>4. QED
  BY <1>2, <1>3

\* ... where it pushes a token, ...
LEMMA EndType ==
    ASSUME TypeOK, UNCHANGED <<src, pos, beg, iter, escaped, result>>,
           NEW kind \in TokKind, TokListPush(kind, pos), pc' \in Label
    PROVE  TypeOK'
<1>1. toks' \in Seq(Token) /\ cap' \in Nat
  BY PushType DEF TypeOK, TokListPush
<1>2. QED
  BY <1>1 DEF TypeOK

\* ... and where it answers an error.
LEMMA FailType ==
    ASSUME TypeOK, UNCHANGED <<src, pos, beg, iter, escaped>>,
           NEW err \in LexErr, Fail(err)
    PROVE  TypeOK'
BY DEF TypeOK, Fail, Label

\* A class of code points that some handler scans never has kInvalidCodepoint.
LEMMA NothingTakesInvalid ==
    /\ ~ LexIsWhitespace(kInvalidCodepoint)
    /\ ~ IdentPart(kInvalidCodepoint) /\ ~ IdentStart(kInvalidCodepoint)
    /\ ~ LexIsNum(kInvalidCodepoint) /\ ~ LexIsNumSym(kInvalidCodepoint)
    /\ ~ LexIsSpecial(kInvalidCodepoint)
    /\ kInvalidCodepoint \notin {LineFeed, Quote}
BY SMT DEF kInvalidCodepoint, LexIsWhitespace, IdentPart, IdentStart, LexIsAlfa,
       LexIsUnicode, LexIsNum, LexIsNumSym, LexIsSpecial, SymbolByte,
       LineFeed, Quote, Underscore

\* The lexer starts with the right types.
LEMMA TypeInit == Init => TypeOK
<1> SUFFICES ASSUME Init PROVE TypeOK
  OBVIOUS
<1>3. src \in Seq(Byte) /\ Size(src) \in 0 .. MaxSize
  BY LexerAssumption DEF Init
<1>4. /\ pos \in Position /\ beg \in Position
      /\ pos.off = 0 /\ beg.off = 0
  BY DEF Init, MakePos, Position
<1>5. toks \in Seq(Token) /\ cap \in Nat
  BY LexerAssumption DEF Init
<1>6. 0 <= Size(src) + Slack
  BY <1>3 DEF Slack
<1>7. pc \in Label /\ result \in LexErr /\ escaped \in BOOLEAN /\ iter = 0
  BY DEF Init, Label, LexErr
<1>8. QED
  BY <1>3, <1>4, <1>5, <1>6, <1>7 DEF TypeOK

\* Every step keeps the types.
LEMMA TypeStep == TypeOK /\ [Next]_vars => TypeOK'
<1> SUFFICES ASSUME TypeOK, [Next]_vars PROVE TypeOK'
  OBVIOUS
<1> USE DEF Label, Scanning
<1>1. CASE UNCHANGED vars
  BY <1>1 DEF vars, TypeOK
<1>2. CASE UNCHANGED src /\ Loop
  <2>1. CASE LoopBegin
    BY <1>2, <2>1 DEF LoopBegin, TokListSame, TypeOK, Position
  <2>2. CASE LoopEnd
    BY <1>2, <2>2 DEF LoopEnd, TokListSame, TypeOK
  <2>3. CASE CheckStuck
    BY <1>2, <2>3, FailType DEF CheckStuck, LexErr
  <2>4. CASE CheckMoved
    BY <1>2, <2>4, SkipType DEF CheckMoved
  <2>5. QED
    BY <1>2, <2>1, <2>2, <2>3, <2>4 DEF Loop
<1>3. CASE UNCHANGED src /\ Whitespace
  <2>1. CASE WhitespaceBegin
    BY <1>3, <2>1, BeginType DEF WhitespaceBegin
  <2>2. CASE WhitespaceScan
    BY <1>3, <2>2, ScanType, NothingTakesInvalid
    DEF WhitespaceScan, Scan, TokListSame, TypeOK
  <2>3. CASE WhitespaceEnd
    <3>1. CASE End("whitespace_loop", LexIsWhitespace, "Whitespace", "newline")
      BY <1>3, <3>1, EndType DEF End, TokKind
    <3>2. CASE Skip("whitespace_loop", "newline")
      BY <1>3, <3>2, SkipType
    <3>3. QED
      BY <2>3, <3>1, <3>2 DEF WhitespaceEnd
  <2>4. QED
    BY <1>3, <2>1, <2>2, <2>3 DEF Whitespace
<1>4. CASE UNCHANGED src /\ Newline
  <2>1. CASE NewlineTake
    BY <1>4, <2>1, ScanType, NothingTakesInvalid
    DEF NewlineTake, TokListSame, TypeOK
  <2>2. CASE NewlineSkip
    BY <1>4, <2>2, SkipType DEF NewlineSkip
  <2>3. QED
    BY <1>4, <2>1, <2>2 DEF Newline
<1>5. CASE UNCHANGED src /\ Ident
  <2>1. CASE IdentSkip
    BY <1>5, <2>1, SkipType DEF IdentSkip
  <2>2. CASE IdentBegin
    BY <1>5, <2>2, BeginType DEF IdentBegin
  <2>3. CASE IdentScan
    BY <1>5, <2>3, ScanType, NothingTakesInvalid
    DEF IdentScan, Scan, TokListSame, TypeOK
  <2>4. CASE IdentEnd
    BY <1>5, <2>4, EndType DEF IdentEnd, End, TokKind
  <2>5. QED
    BY <1>5, <2>1, <2>2, <2>3, <2>4 DEF Ident
<1>6. CASE UNCHANGED src /\ Num
  <2>1. CASE NumSkip
    BY <1>6, <2>1, SkipType DEF NumSkip
  <2>2. CASE NumBegin
    BY <1>6, <2>2, BeginType DEF NumBegin
  <2>3. CASE NumScan
    BY <1>6, <2>3, ScanType, NothingTakesInvalid
    DEF NumScan, Scan, TokListSame, TypeOK
  <2>4. CASE NumEnd
    BY <1>6, <2>4, EndType DEF NumEnd, End, TokKind
  <2>5. QED
    BY <1>6, <2>1, <2>2, <2>3, <2>4 DEF Num
<1>7. CASE UNCHANGED src /\ Str
  <2>1. CASE StrSkip
    BY <1>7, <2>1, SkipType DEF StrSkip
  <2>2. CASE StrBegin
    BY <1>7, <2>2, ScanType, NothingTakesInvalid
    DEF StrBegin, TokListSame
  <2>3. CASE StrChar
    BY <1>7, <2>3, ScanType DEF StrChar, TokListSame, TypeOK
  <2>4. CASE StrClose
    <3>1. LexPeek # kInvalidCodepoint
      BY <2>4, NothingTakesInvalid DEF StrClose
    <3>2. /\ pos' \in Position
          /\ pos.off < pos'.off
          /\ pos'.off <= Size(src) + Slack
      BY <2>4, <3>1, NextPosition DEF StrClose
    <3>3. toks' \in Seq(Token) /\ cap' \in Nat
      BY <2>4, <3>2, PushType DEF StrClose, TokListPush, TypeOK, TokKind
    <3>4. /\ pc' \in Label
          /\ UNCHANGED <<src, beg, iter, escaped, result>>
      BY <1>7, <2>4 DEF StrClose
    <3>5. /\ pos.off \in Nat /\ pos'.off \in Nat /\ beg.off \in Nat
          /\ beg.off <= pos.off /\ iter \in Nat /\ iter <= pos.off
      BY <3>2 DEF TypeOK, Position
    <3>6. iter <= pos'.off /\ beg.off <= pos'.off
      BY <3>2, <3>5
    <3>7. QED
      BY <3>2, <3>3, <3>4, <3>5, <3>6 DEF TypeOK
  <2>5. CASE StrUnterminated
    BY <1>7, <2>5, FailType DEF StrUnterminated, LexErr
  <2>6. QED
    BY <1>7, <2>1, <2>2, <2>3, <2>4, <2>5 DEF Str
<1>8. CASE UNCHANGED src /\ Special
  <2>1. CASE SpecialSkip
    BY <1>8, <2>1, SkipType DEF SpecialSkip
  <2>2. CASE SpecialTake
    <3>1. LexPeek # kInvalidCodepoint
      BY <2>2, NothingTakesInvalid DEF SpecialTake
    <3>2. /\ pos' \in Position
          /\ pos.off < pos'.off
          /\ pos'.off <= Size(src) + Slack
      BY <2>2, <3>1, NextPosition DEF SpecialTake
    <3>3. /\ toks' \in Seq(Token) /\ cap' \in Nat
          /\ pc' \in Label /\ result' \in LexErr
      <4>1. CASE TokSymKindGet(SpanSlice(pos.off, pos'.off))
        <5>1. pos \in Position /\ cap \in Nat /\ toks \in Seq(Token)
          BY DEF TypeOK
        <5>2. "Sym" \in TokKind
          BY DEF TokKind
        <5>3. toks' \in Seq(Token) /\ cap' \in Nat
          BY <2>2, <3>2, <4>1, <5>1, <5>2, PushType DEF SpecialTake
        <5>4. QED
          BY <2>2, <4>1, <5>3 DEF SpecialTake, TypeOK
      <4>2. CASE ~ TokSymKindGet(SpanSlice(pos.off, pos'.off))
        BY <2>2, <4>2 DEF SpecialTake, Fail, LexErr
      <4>3. QED
        BY <4>1, <4>2
    <3>4. beg' = pos /\ UNCHANGED <<src, iter, escaped>>
      BY <1>8, <2>2 DEF SpecialTake
    <3>5. /\ pos.off \in Nat /\ pos'.off \in Nat
          /\ pos \in Position /\ iter \in Nat /\ iter <= pos.off
          /\ src \in Seq(Byte) /\ Size(src) \in 0 .. MaxSize /\ escaped \in BOOLEAN
      BY <3>2 DEF TypeOK, Position
    <3>6. iter <= pos'.off /\ pos.off <= pos'.off
      BY <3>2, <3>5
    <3>7. QED
      BY <3>2, <3>3, <3>4, <3>5, <3>6 DEF TypeOK
  <2>3. QED
    BY <1>8, <2>1, <2>2 DEF Special
<1>9. QED
  BY <1>1, <1>2, <1>3, <1>4, <1>5, <1>6, <1>7, <1>8 DEF Next

\* The lexer keeps its types and its iterator never passes the end of the
\* source by more than the tail of a truncated code point.
THEOREM TypeCorrect == Spec => []TypeOK
BY TypeInit, TypeStep, PTL DEF Spec
-----------------------------------------------------------------------------
(***************************************************************************)
(* The tokens tile the source.  TokensTile is not inductive: what a        *)
(* handler will push depends on where its lexeme began, on the bytes the   *)
(* handler has taken since, and on the tokens the list already holds.      *)
(***************************************************************************)

\* Where the token now being scanned, or else the next one, begins.
NextStart == IF pc \in Scanning THEN beg.off ELSE pos.off

\* The tokens tile the source up to NextStart.
Tiling ==
    /\ \A i \in 1 .. Len(toks) :
        /\ OnlyNewlines(src, TokEnd(i - 1), toks[i].beg.off)
        /\ toks[i].beg.off < toks[i].end.off
    /\ result # "kLexNoErr" => pc = "done" /\ toks = <<>>
    /\ result = "kLexNoErr" => OnlyNewlines(src, TokEnd(Len(toks)), NextStart)

\* What has been taken, or will be next: a handler that pushes a token has
\* taken at least one code point for it.
LexemeBegun ==
    /\ pc = "whitespace_loop" => \/ beg = pos
                                \/ beg.off < pos.off
    /\ pc = "ident_loop" => \/ beg = pos /\ IdentPart(LexPeek)
                           \/ beg.off < pos.off
    /\ pc = "num_loop" => \/ beg = pos /\ LexIsNumSym(LexPeek)
                         \/ beg.off < pos.off
    /\ pc = "str_loop" => beg.off < pos.off
    /\ (pc \in Scanning /\ beg # pos) => beg.off < Size(src)

\* The list has no more tokens than the bytes they cover, and room for them.
Bounded ==
    /\ \A i \in 1 .. Len(toks) : i <= toks[i].end.off
    /\ Len(toks) <= cap
    /\ pc # "done" => cap > 0

IInv == TypeOK /\ Tiling /\ LexemeBegun /\ Bounded

\* Offsets are numbers.
LEMMA OffsetTypes ==
    ASSUME TypeOK
    PROVE  /\ TokEnd(Len(toks)) \in Nat
           /\ NextStart \in Nat
           /\ toks \in Seq(Token) /\ Len(toks) \in Nat
           /\ Size(src) \in Nat
<1>1. toks \in Seq(Token) /\ pos \in Position /\ beg \in Position
  BY DEF TypeOK
<1>2. \A t \in Token : t.end.off \in Nat
  BY DEF Token, Position
<1>3. Len(toks) \in Nat /\ \A i \in 1 .. Len(toks) : toks[i] \in Token
  BY <1>1
<1>4. TokEnd(Len(toks)) \in Nat
  <2>1. CASE Len(toks) = 0
    BY <2>1 DEF TokEnd
  <2>2. CASE Len(toks) # 0
    BY <1>2, <1>3, <2>2 DEF TokEnd
  <2>3. QED
    BY <2>1, <2>2
<1>5. NextStart \in Nat
  BY <1>1 DEF NextStart, Position
<1>6. Size(src) \in Nat
  BY LexerAssumption DEF TypeOK
<1>7. QED
  BY <1>1, <1>3, <1>4, <1>5, <1>6

\* The offsets of the newlines on the way from a to b.
NewlinesAt(S, a, b) ==
    /\ S \in SUBSET (a .. b - 1)
    /\ a \in S \cup {b}
    /\ \A u \in S : /\ StrIterPeek(src, u) = LineFeed
                    /\ u + Width(src, u) \in S \cup {b}

\* OnlyNewlines says that there are such offsets.
LEMMA NewlinesFound ==
    ASSUME NEW a, NEW b
    PROVE  OnlyNewlines(src, a, b) <=> a <= b /\ \E S : NewlinesAt(S, a, b)
BY DEF OnlyNewlines, NewlinesAt

\* Newlines followed by newlines are newlines; so is nothing at all, ...
LEMMA NewlinesJoin ==
    ASSUME NEW a \in Nat, NEW b \in Nat, NEW c \in Nat,
           OnlyNewlines(src, a, b), OnlyNewlines(src, b, c)
    PROVE  OnlyNewlines(src, a, c)
<1>1. a <= b /\ b <= c
  BY NewlinesFound
<1>2. PICK S : NewlinesAt(S, a, b)
  BY NewlinesFound
<1>3. PICK T : NewlinesAt(T, b, c)
  BY NewlinesFound
<1>4. NewlinesAt(S \cup T, a, c)
  <2>1. S \cup T \in SUBSET (a .. c - 1)
    BY <1>1, <1>2, <1>3 DEF NewlinesAt
  <2>2. a \in (S \cup T) \cup {c}
    BY <1>2, <1>3 DEF NewlinesAt
  <2>3. ASSUME NEW u \in S \cup T
        PROVE  /\ StrIterPeek(src, u) = LineFeed
               /\ u + Width(src, u) \in (S \cup T) \cup {c}
    BY <1>2, <1>3, <2>3 DEF NewlinesAt
  <2>4. QED
    BY <2>1, <2>2, <2>3 DEF NewlinesAt
<1>5. QED
  BY <1>1, <1>4, NewlinesFound

\* Nothing is newlines only ...
LEMMA NoNewlines ==
    ASSUME NEW a \in Nat
    PROVE  OnlyNewlines(src, a, a)
<1>1. NewlinesAt({}, a, a)
  BY DEF NewlinesAt
<1>2. QED
  BY <1>1, NewlinesFound

\* ... and the code point of a newline, in whatever spelling.
LEMMA OneNewline ==
    ASSUME NEW a \in Nat, StrIterPeek(src, a) = LineFeed
    PROVE  OnlyNewlines(src, a, a + Width(src, a))
<1>1. PICK b \in Nat : b = a + Width(src, a) /\ a < b
  BY WidthNat
<1>2. NewlinesAt({a}, a, b)
  BY <1>1 DEF NewlinesAt
<1>3. QED
  BY <1>1, <1>2, NewlinesFound

\* A step that leaves the list alone and moves at most over newlines.
LEMMA KeepStep ==
    ASSUME IInv, TypeOK', UNCHANGED <<src, toks, cap, result>>,
           pc # "done", OnlyNewlines(src, NextStart, NextStart')
    PROVE  Tiling' /\ Bounded'
<1>1. /\ NextStart \in Nat /\ NextStart' \in Nat
      /\ TokEnd(Len(toks)) \in Nat
  <2>1. NextStart' \in Nat
    BY DEF TypeOK, NextStart, Position
  <2>2. QED
    BY <2>1, OffsetTypes DEF IInv
<1>2. result = "kLexNoErr" /\ OnlyNewlines(src, TokEnd(Len(toks)), NextStart)
  BY DEF IInv, Tiling
<1>3. OnlyNewlines(src, TokEnd(Len(toks)), NextStart')
  BY <1>1, <1>2, NewlinesJoin
<1>4. Tiling'
  BY <1>2, <1>3 DEF IInv, Tiling, TokEnd
<1>5. Bounded'
  BY DEF IInv, Bounded
<1>6. QED
  BY <1>4, <1>5

\* The doubling of the capacity does not wrap: the list has fewer tokens than
\* the source has bytes, and those are at most half of what a u32 counts.
LEMMA RoomForOneMore ==
    ASSUME IInv, pc # "done", Len(toks) < Size(src)
    PROVE  Len(toks) + 1 <= TokListCap /\ TokListCap > 0
<1>1. /\ cap \in Nat /\ cap > 0
      /\ Len(toks) \in Nat /\ Len(toks) <= cap
      /\ Size(src) \in Nat /\ Size(src) <= MaxSize
  BY LexerAssumption DEF IInv, TypeOK, Bounded
<1>2. CASE Len(toks) < cap
  <2>1. (2 * cap) % U32 \in Nat
    BY <1>1, LexerAssumption
  <2>2. QED
    BY <1>1, <1>2, <2>1 DEF TokListCap
<1>3. CASE Len(toks) = cap
  <2>1. 2 * cap < U32
    BY <1>1, <1>3, LexerAssumption
  <2>2. (2 * cap) % U32 = 2 * cap
    BY <1>1, <2>1, LexerAssumption
  <2>3. QED
    BY <1>1, <1>3, <2>2 DEF TokListCap
<1>4. QED
  BY <1>1, <1>2, <1>3

\* A step that pushes the token from NextStart to the next NextStart.
LEMMA PushStep ==
    ASSUME IInv, TypeOK', UNCHANGED <<src, result>>, pc # "done",
           NEW t \in Token, toks' = Append(toks, t), cap' = TokListCap,
           t.beg.off = NextStart, t.beg.off < t.end.off,
           t.beg.off < Size(src), NextStart' = t.end.off
    PROVE  Tiling' /\ Bounded'
<1>1. /\ t.beg.off \in Nat /\ t.end.off \in Nat
      /\ TokEnd(Len(toks)) \in Nat
      /\ toks \in Seq(Token) /\ Len(toks) \in Nat
      /\ Size(src) \in Nat
  <2>1. t.beg.off \in Nat /\ t.end.off \in Nat
    BY DEF Token, Position
  <2>2. QED
    BY <2>1, OffsetTypes DEF IInv
<1>2. result = "kLexNoErr" /\ OnlyNewlines(src, TokEnd(Len(toks)), t.beg.off)
  BY DEF IInv, Tiling
<1>3. /\ Len(toks') = Len(toks) + 1
      /\ toks'[Len(toks) + 1] = t
      /\ \A i \in 1 .. Len(toks) : toks'[i] = toks[i]
  BY <1>1
<1>4. Len(toks) <= t.beg.off
  <2>1. CASE Len(toks) = 0
    BY <1>1, <2>1
  <2>2. CASE Len(toks) > 0
    BY <1>1, <1>2, <2>2 DEF IInv, Bounded, TokEnd, OnlyNewlines
  <2>3. QED
    BY <1>1, <2>1, <2>2
<1>5. Bounded'
  <2>1. Len(toks) + 1 <= cap' /\ cap' > 0
    BY <1>1, <1>4, RoomForOneMore
  <2>2. ASSUME NEW i \in 1 .. Len(toks')
        PROVE  i <= toks'[i].end.off
    <3>1. CASE i = Len(toks) + 1
      BY <1>1, <1>3, <1>4, <3>1
    <3>2. CASE i \in 1 .. Len(toks)
      BY <1>3, <3>2 DEF IInv, Bounded
    <3>3. QED
      BY <1>1, <1>3, <3>1, <3>2
  <2>3. QED
    BY <1>3, <2>1, <2>2 DEF Bounded
<1>6. Tiling'
  <2>1. ASSUME NEW i \in 1 .. Len(toks')
        PROVE  /\ OnlyNewlines(src, TokEnd(i - 1), toks[i].beg.off)'
               /\ toks'[i].beg.off < toks'[i].end.off
    <3>1. CASE i = Len(toks) + 1
      <4>1. TokEnd(i - 1)' = TokEnd(Len(toks))
        BY <1>1, <1>3, <3>1 DEF TokEnd
      <4>2. QED
        BY <1>1, <1>2, <1>3, <3>1, <4>1
    <3>2. CASE i \in 1 .. Len(toks)
      <4>1. TokEnd(i - 1)' = TokEnd(i - 1)
        BY <1>1, <1>3, <3>2 DEF TokEnd
      <4>2. /\ OnlyNewlines(src, TokEnd(i - 1), toks[i].beg.off)
            /\ toks[i].beg.off < toks[i].end.off
        BY <3>2 DEF IInv, Tiling
      <4>3. QED
        BY <1>3, <3>2, <4>1, <4>2
    <3>3. QED
      BY <1>1, <1>3, <3>1, <3>2
  <2>2. TokEnd(Len(toks))' = NextStart'
    BY <1>1, <1>3 DEF TokEnd
  <2>3. OnlyNewlines(src, TokEnd(Len(toks)), NextStart)'
    BY <1>1, <2>2, NoNewlines
  <2>4. QED
    BY <1>2, <2>1, <2>3 DEF Tiling
<1>7. QED
  BY <1>5, <1>6

\* An error leaves no tokens to tile anything.
LEMMA FailStep ==
    ASSUME IInv, TypeOK', UNCHANGED src, NEW err \in LexErr, Fail(err),
           err # "kLexNoErr"
    PROVE  IInv'
BY DEF IInv, Tiling, LexemeBegun, Bounded, Fail, Scanning

\* The invariant is kept where a handler finds nothing to do, ...
LEMMA SkipStep ==
    ASSUME IInv, TypeOK', UNCHANGED src, NEW here, NEW next, Skip(here, next),
           here # "done", here \in Scanning => beg.off = pos.off,
           next \notin Scanning
    PROVE  IInv'
<1>1. NextStart' = NextStart /\ NextStart \in Nat
  BY OffsetTypes DEF IInv, Skip, NextStart
<1>2. OnlyNewlines(src, NextStart, NextStart')
  BY <1>1, NoNewlines
<1>3. Tiling' /\ Bounded'
  BY <1>2, KeepStep DEF Skip, TokListSame
<1>4. LexemeBegun'
  BY DEF Skip, LexemeBegun, Scanning
<1>5. QED
  BY <1>3, <1>4 DEF IInv

\* ... where it begins a lexeme, ...
LEMMA BeginStep ==
    ASSUME IInv, TypeOK', UNCHANGED src, NEW here, NEW next, Begin(here, next),
           here # "done", here \notin Scanning,
           next \in Scanning \ {"str_loop"},
           next = "ident_loop" => IdentPart(LexPeek),
           next = "num_loop" => LexIsNumSym(LexPeek)
    PROVE  IInv'
<1>1. NextStart' = NextStart /\ NextStart \in Nat
  BY OffsetTypes DEF IInv, Begin, NextStart
<1>2. OnlyNewlines(src, NextStart, NextStart')
  BY <1>1, NoNewlines
<1>3. Tiling' /\ Bounded'
  BY <1>2, KeepStep DEF Begin, TokListSame
<1>4. LexemeBegun'
  BY DEF Begin, LexemeBegun, Scanning, LexPeek
<1>5. QED
  BY <1>3, <1>4 DEF IInv

\* ... where it goes on with it, ...
LEMMA ScanStep ==
    ASSUME IInv, TypeOK', pc \in Scanning, LexPeek # kInvalidCodepoint,
           pos' = LexNext(pos),
           UNCHANGED <<src, beg, toks, cap, pc, result>>
    PROVE  IInv'
<1>1. NextStart' = NextStart /\ NextStart \in Nat
  BY OffsetTypes DEF IInv, NextStart
<1>2. OnlyNewlines(src, NextStart, NextStart')
  BY <1>1, NoNewlines
<1>3. Tiling' /\ Bounded'
  BY <1>2, KeepStep DEF Scanning
<1>4. pos.off < Size(src) /\ pos.off < pos'.off
  BY NextPosition DEF IInv
<1>5. /\ beg.off \in Nat /\ pos.off \in Nat /\ pos'.off \in Nat
      /\ beg.off <= pos.off /\ Size(src) \in Nat
  BY DEF IInv, TypeOK, Position
<1>6. beg.off < pos'.off /\ beg.off < Size(src)
  BY <1>4, <1>5
<1>7. LexemeBegun'
  BY <1>6 DEF LexemeBegun
<1>8. QED
  BY <1>3, <1>7 DEF IInv

\* ... and where it ends it.
LEMMA EndStep ==
    ASSUME IInv, TypeOK', UNCHANGED <<src, pos, beg, result>>,
           NEW kind \in TokKind, TokListPush(kind, pos),
           pc \in Scanning, pc' \notin Scanning, beg.off < pos.off
    PROVE  IInv'
<1> DEFINE t == [kind |-> kind, beg |-> beg, end |-> pos]
<1>1. t \in Token /\ t.beg = beg /\ t.end = pos
  BY DEF IInv, TypeOK, Token
<1>2. NextStart = beg.off /\ NextStart' = pos.off /\ beg.off < Size(src)
  BY DEF NextStart, IInv, LexemeBegun, TypeOK, Position
<1>3. pc # "done"
  BY DEF Scanning
<1>4. toks' = Append(toks, t) /\ cap' = TokListCap /\ UNCHANGED result
  BY DEF TokListPush
<1>5. Tiling' /\ Bounded'
  BY <1>1, <1>2, <1>3, <1>4, PushStep
<1>6. LexemeBegun'
  BY DEF LexemeBegun, Scanning
<1>7. QED
  BY <1>5, <1>6 DEF IInv

\* The invariant holds of the empty list.
LEMMA IInvInit == Init => IInv
<1> SUFFICES ASSUME Init PROVE IInv
  OBVIOUS
<1>1. Len(toks) = 0 /\ NextStart = 0
  BY DEF Init, NextStart, Scanning, MakePos
<1>2. Tiling
  BY <1>1, NoNewlines DEF Init, Tiling, TokEnd
<1>3. LexemeBegun /\ Bounded
  BY <1>1, LexerAssumption DEF Init, LexemeBegun, Bounded, Scanning
<1>4. QED
  BY <1>2, <1>3, TypeInit DEF IInv

\* Every step keeps the invariant.
LEMMA IInvStep == IInv /\ [Next]_vars => IInv'
<1> SUFFICES ASSUME IInv, [Next]_vars PROVE IInv'
  OBVIOUS
<1>1. TypeOK'
  BY TypeStep DEF IInv
<1>2. CASE UNCHANGED vars
  BY <1>2 DEF vars, IInv, TypeOK, Tiling, TokEnd, NextStart,
              LexemeBegun, LexPeek, Bounded
<1>3. CASE UNCHANGED src /\ Loop
  <2>1. CASE LoopBegin
    <3>1. NextStart' = NextStart /\ NextStart \in Nat
      BY <2>1, OffsetTypes DEF LoopBegin, IInv, NextStart, Scanning
    <3>2. OnlyNewlines(src, NextStart, NextStart')
      BY <3>1, NoNewlines
    <3>3. Tiling' /\ Bounded'
      BY <1>1, <1>3, <2>1, <3>2, KeepStep DEF LoopBegin, TokListSame
    <3>4. LexemeBegun'
      BY <2>1 DEF LoopBegin, LexemeBegun, Scanning
    <3>5. QED
      BY <1>1, <3>3, <3>4 DEF IInv
  <2>2. CASE LoopEnd
    <3>1. NextStart' = NextStart /\ NextStart \in Nat
      BY <2>2, OffsetTypes DEF LoopEnd, IInv, NextStart, Scanning
    <3>2. OnlyNewlines(src, NextStart, NextStart')
      BY <3>1, NoNewlines
    <3>3. Tiling' /\ Bounded'
      BY <1>1, <1>3, <2>2, <3>2, KeepStep DEF LoopEnd, TokListSame
    <3>4. LexemeBegun'
      BY <2>2 DEF LoopEnd, LexemeBegun, Scanning
    <3>5. QED
      BY <1>1, <3>3, <3>4 DEF IInv
  <2>3. CASE CheckStuck
    BY <1>1, <1>3, <2>3, FailStep DEF CheckStuck, LexErr
  <2>4. CASE CheckMoved
    BY <1>1, <1>3, <2>4, SkipStep DEF CheckMoved, Scanning
  <2>5. QED
    BY <1>3, <2>1, <2>2, <2>3, <2>4 DEF Loop
<1>4. CASE UNCHANGED src /\ Whitespace
  <2>1. CASE WhitespaceBegin
    BY <1>1, <1>4, <2>1, BeginStep DEF WhitespaceBegin, Scanning
  <2>2. CASE WhitespaceScan
    BY <1>1, <1>4, <2>2, ScanStep, NothingTakesInvalid
    DEF WhitespaceScan, Scan, TokListSame, Scanning
  <2>3. CASE WhitespaceEnd
    <3>1. CASE beg.off # pos.off
      <4>1. End("whitespace_loop", LexIsWhitespace, "Whitespace", "newline")
        BY <2>3, <3>1 DEF WhitespaceEnd
      <4>2. beg.off < pos.off
        BY <3>1 DEF IInv, TypeOK, Position
      <4>3. QED
        BY <1>1, <1>4, <4>1, <4>2, EndStep DEF End, Scanning, TokKind
    <3>2. CASE beg.off = pos.off
      BY <1>1, <1>4, <2>3, <3>2, SkipStep DEF WhitespaceEnd, Scanning
    <3>3. QED
      BY <3>1, <3>2
  <2>4. QED
    BY <1>4, <2>1, <2>2, <2>3 DEF Whitespace
<1>5. CASE UNCHANGED src /\ Newline
  <2>1. CASE NewlineTake
    <3>1. /\ NextStart = pos.off /\ NextStart' = pos.off + Width(src, pos.off)
          /\ StrIterPeek(src, pos.off) = LineFeed
      BY <2>1 DEF NewlineTake, NextStart, Scanning, LexNext, MakePos, LexPeek
    <3>2. pos.off \in Nat
      BY DEF IInv, TypeOK, Position
    <3>3. OnlyNewlines(src, NextStart, NextStart')
      BY <3>1, <3>2, OneNewline
    <3>4. Tiling' /\ Bounded'
      BY <1>1, <1>5, <2>1, <3>3, KeepStep DEF NewlineTake, TokListSame
    <3>5. LexemeBegun'
      BY <2>1 DEF NewlineTake, LexemeBegun, Scanning
    <3>6. QED
      BY <1>1, <3>4, <3>5 DEF IInv
  <2>2. CASE NewlineSkip
    BY <1>1, <1>5, <2>2, SkipStep DEF NewlineSkip, Scanning
  <2>3. QED
    BY <1>5, <2>1, <2>2 DEF Newline
<1>6. CASE UNCHANGED src /\ Ident
  <2>1. CASE IdentSkip
    BY <1>1, <1>6, <2>1, SkipStep DEF IdentSkip, Scanning
  <2>2. CASE IdentBegin
    BY <1>1, <1>6, <2>2, BeginStep DEF IdentBegin, Scanning, IdentPart
  <2>3. CASE IdentScan
    BY <1>1, <1>6, <2>3, ScanStep, NothingTakesInvalid
    DEF IdentScan, Scan, TokListSame, Scanning
  <2>4. CASE IdentEnd
    <3>1. beg.off < pos.off
      BY <2>4 DEF IdentEnd, End, IInv, LexemeBegun
    <3>2. QED
      BY <1>1, <1>6, <2>4, <3>1, EndStep DEF IdentEnd, End, Scanning, TokKind
  <2>5. QED
    BY <1>6, <2>1, <2>2, <2>3, <2>4 DEF Ident
<1>7. CASE UNCHANGED src /\ Num
  <2>1. CASE NumSkip
    BY <1>1, <1>7, <2>1, SkipStep DEF NumSkip, Scanning
  <2>2. CASE NumBegin
    BY <1>1, <1>7, <2>2, BeginStep DEF NumBegin, Scanning, LexIsNumSym
  <2>3. CASE NumScan
    BY <1>1, <1>7, <2>3, ScanStep, NothingTakesInvalid
    DEF NumScan, Scan, TokListSame, Scanning
  <2>4. CASE NumEnd
    <3>1. beg.off < pos.off
      BY <2>4 DEF NumEnd, End, IInv, LexemeBegun
    <3>2. QED
      BY <1>1, <1>7, <2>4, <3>1, EndStep DEF NumEnd, End, Scanning, TokKind
  <2>5. QED
    BY <1>7, <2>1, <2>2, <2>3, <2>4 DEF Num
<1>8. CASE UNCHANGED src /\ Str
  <2>1. CASE StrSkip
    BY <1>1, <1>8, <2>1, SkipStep DEF StrSkip, Scanning
  <2>2. CASE StrBegin
    <3>1. pos.off < Size(src) /\ pos.off < pos'.off
      BY <2>2, NextPosition, NothingTakesInvalid DEF StrBegin, IInv
    <3>2. NextStart' = NextStart /\ NextStart \in Nat
      BY <2>2, OffsetTypes DEF StrBegin, IInv, NextStart, Scanning
    <3>3. OnlyNewlines(src, NextStart, NextStart')
      BY <3>2, NoNewlines
    <3>4. Tiling' /\ Bounded'
      BY <1>1, <1>8, <2>2, <3>3, KeepStep DEF StrBegin, TokListSame
    <3>5. LexemeBegun'
      BY <1>8, <2>2, <3>1 DEF StrBegin, LexemeBegun
    <3>6. QED
      BY <1>1, <3>4, <3>5 DEF IInv
  <2>3. CASE StrChar
    BY <1>1, <1>8, <2>3, ScanStep DEF StrChar, TokListSame, Scanning
  <2>4. CASE StrClose
    <3> DEFINE t == [kind |-> "Str", beg |-> beg, end |-> pos']
    <3>1. pos.off < pos'.off
      BY <2>4, NextPosition, NothingTakesInvalid DEF StrClose, IInv
    <3>2. t \in Token
      BY <1>1 DEF IInv, TypeOK, Token, TokKind
    <3>3. /\ NextStart = beg.off /\ NextStart' = pos'.off
          /\ beg.off < pos'.off /\ beg.off < Size(src)
      <4>1. /\ beg.off \in Nat /\ pos.off \in Nat /\ pos'.off \in Nat
            /\ Size(src) \in Nat /\ beg.off <= pos.off
        BY <1>1 DEF IInv, TypeOK, Position
      <4>2. NextStart = beg.off /\ NextStart' = pos'.off
        BY <2>4 DEF StrClose, NextStart, Scanning
      <4>3. beg # pos => beg.off < Size(src)
        BY <2>4 DEF StrClose, Scanning, IInv, LexemeBegun
      <4>4. beg.off < pos.off
        BY <2>4 DEF StrClose, IInv, LexemeBegun
      <4>5. QED
        BY <3>1, <4>1, <4>2, <4>3, <4>4
    <3>4. Tiling' /\ Bounded'
      BY <1>1, <1>8, <2>4, <3>2, <3>3, PushStep DEF StrClose, TokListPush
    <3>5. LexemeBegun'
      BY <2>4 DEF StrClose, LexemeBegun, Scanning
    <3>6. QED
      BY <1>1, <3>4, <3>5 DEF IInv
  <2>5. CASE StrUnterminated
    BY <1>1, <1>8, <2>5, FailStep DEF StrUnterminated, LexErr
  <2>6. QED
    BY <1>8, <2>1, <2>2, <2>3, <2>4, <2>5 DEF Str
<1>9. CASE UNCHANGED src /\ Special
  <2>1. CASE SpecialSkip
    BY <1>1, <1>9, <2>1, SkipStep DEF SpecialSkip, Scanning
  <2>2. CASE SpecialTake /\ TokSymKindGet(SpanSlice(pos.off, pos'.off))
    <3> DEFINE t == [kind |-> "Sym", beg |-> pos, end |-> pos']
    <3>1. pos.off < Size(src) /\ pos.off < pos'.off
      BY <2>2, NextPosition, NothingTakesInvalid DEF SpecialTake, IInv
    <3>2. t \in Token
      BY <1>1 DEF IInv, TypeOK, Token, TokKind
    <3>3. NextStart = pos.off /\ NextStart' = pos'.off
      BY <2>2 DEF SpecialTake, NextStart, Scanning
    <3>4. toks' = Append(toks, t) /\ cap' = TokListCap /\ result' = result
      BY <2>2 DEF SpecialTake
    <3>5. Tiling' /\ Bounded'
      BY <1>1, <1>9, <2>2, <3>1, <3>2, <3>3, <3>4, PushStep DEF SpecialTake
    <3>6. LexemeBegun'
      BY <2>2 DEF SpecialTake, LexemeBegun, Scanning
    <3>7. QED
      BY <1>1, <3>5, <3>6 DEF IInv
  <2>3. CASE SpecialTake /\ ~ TokSymKindGet(SpanSlice(pos.off, pos'.off))
    BY <1>1, <1>9, <2>3, FailStep DEF SpecialTake, LexErr
  <2>4. QED
    BY <1>9, <2>1, <2>2, <2>3 DEF Special
<1>10. QED
  BY <1>2, <1>3, <1>4, <1>5, <1>6, <1>7, <1>8, <1>9 DEF Next

\* So it always holds.
LEMMA Invariance == Spec => []IInv
BY IInvInit, IInvStep, PTL DEF Spec

\* The tokens cover the source from left to right without overlap, leaving
\* out newlines only, whatever its size and whatever the keywords.
THEOREM TokensAlwaysTile == Spec => []TokensTile
<1>1. IInv => TokensTile
  <2> SUFFICES ASSUME IInv PROVE TokensTile
    OBVIOUS
  <2>1. (pc = "done" /\ result = "kLexNoErr") => NextStart = pos.off
    BY DEF NextStart, Scanning
  <2>2. QED
    BY <2>1 DEF IInv, Tiling, TokensTile
<1>2. QED
  BY <1>1, Invariance, PTL

\* The token list stays within its buffer although its capacity doubles in a
\* u32: no source of up to 2 GiB has enough tokens for the capacity to wrap.
THEOREM TokListAlwaysFits == Spec => []TokListFits
<1>1. IInv => TokListFits
  BY DEF IInv, Bounded, TokListFits
<1>2. QED
  BY <1>1, Invariance, PTL
-----------------------------------------------------------------------------
(***************************************************************************)
(* Lines and columns.  What PositionsAgree says of an offset is kept by    *)
(* lex_next, given that the last line of a text up to an offset begins no  *)
(* further than there.                                                     *)
(***************************************************************************)

Newlines(str, off) == { i \in 1 .. off : str[i] = LineFeed }

LastLine(str, off) == Max(Newlines(str, off) \cup {0})

\* The bytes from start to off that do not go on with a code point.
Firsts(str, start, off) == { i \in start + 1 .. off : str[i] \notin Continuation }

Agrees(str, p) ==
    /\ LastLine(str, p.off) \in 0 .. p.off
    /\ p.line = Cardinality(Newlines(str, p.off))
    /\ p.col = Cardinality(Firsts(str, LastLine(str, p.off), p.off))

AllAgree ==
    WellFormed(src) =>
        /\ Agrees(src, pos) /\ Agrees(src, beg)
        /\ \A i \in 1 .. Len(toks) : Agrees(src, toks[i].beg) /\ Agrees(src, toks[i].end)

\* The newlines and the code points of a text are counted.
LEMMA Counted ==
    ASSUME NEW str, NEW off \in Nat, NEW start \in Nat
    PROVE  /\ IsFiniteSet(Newlines(str, off)) /\ IsFiniteSet(Firsts(str, start, off))
           /\ Cardinality(Newlines(str, off)) \in Nat
           /\ Cardinality(Firsts(str, start, off)) \in Nat
<1>1. IsFiniteSet(1 .. off) /\ IsFiniteSet(start + 1 .. off)
  BY FS_Interval
<1>2. /\ Newlines(str, off) \in SUBSET (1 .. off)
      /\ Firsts(str, start, off) \in SUBSET (start + 1 .. off)
  BY DEF Newlines, Firsts
<1>3. IsFiniteSet(Newlines(str, off)) /\ IsFiniteSet(Firsts(str, start, off))
  BY <1>1, <1>2, FS_Subset
<1>4. QED
  BY <1>3, FS_CardinalityType

\* The start of a text has line 0 and column 0.
LEMMA AgreesAtStart ==
    ASSUME NEW str
    PROVE  Agrees(str, MakePos(0, 0, 0))
<1>1. PICK p : p = MakePos(0, 0, 0)
  OBVIOUS
<1>2. p.off = 0 /\ p.line = 0 /\ p.col = 0
  BY <1>1 DEF MakePos
<1>3. Newlines(str, 0) = {} /\ Firsts(str, 0, 0) = {}
  BY DEF Newlines, Firsts
<1>4. LastLine(str, 0) = 0
  BY <1>3 DEF LastLine, Max
<1>5. Cardinality({}) = 0
  BY FS_EmptySet
<1>6. /\ Newlines(str, p.off) = {} /\ LastLine(str, p.off) = 0
      /\ Firsts(str, LastLine(str, p.off), p.off) = {}
  BY <1>2, <1>3, <1>4
<1>7. Agrees(str, p)
  BY <1>2, <1>5, <1>6 DEF Agrees
<1>8. QED
  BY <1>1, <1>7

\* A line begins behind its newline.
LEMMA AgreesNewline ==
    ASSUME NEW str, NEW p \in Position, Agrees(str, p),
           str[p.off + 1] = LineFeed
    PROVE  Agrees(str, MakePos(p.off + 1, p.line + 1, 0))
<1>1. PICK q : q = MakePos(p.off + 1, p.line + 1, 0)
  OBVIOUS
<1>2. q.off = p.off + 1 /\ q.line = p.line + 1 /\ q.col = 0
  BY <1>1 DEF MakePos
<1>3. PICK off \in Nat : off = p.off
  BY DEF Position
<1>4. Newlines(str, off + 1) = Newlines(str, off) \cup {off + 1}
  BY <1>3 DEF Newlines
<1>5. off + 1 \notin Newlines(str, off)
  BY DEF Newlines
<1>6. Cardinality(Newlines(str, off + 1)) = Cardinality(Newlines(str, off)) + 1
  BY <1>4, <1>5, Counted, FS_AddElement
<1>7. LastLine(str, off + 1) = off + 1
  <2> DEFINE S == Newlines(str, off + 1) \cup {0}
  <2>1. off + 1 \in S /\ \A y \in S : y \in Nat /\ off + 1 >= y
    BY <1>4 DEF Newlines
  <2>2. \A x \in S : (\A y \in S : x >= y) => x = off + 1
    BY <2>1
  <2>3. QED
    BY <2>1, <2>2 DEF LastLine, Max
<1>8. Firsts(str, off + 1, off + 1) = {} /\ Cardinality({}) = 0
  BY FS_EmptySet DEF Firsts
<1>9. /\ LastLine(str, q.off) = q.off /\ q.off \in Nat
      /\ Cardinality(Newlines(str, q.off)) = q.line
      /\ Firsts(str, LastLine(str, q.off), q.off) = {}
  BY <1>2, <1>3, <1>6, <1>7, <1>8 DEF Agrees
<1>10. Agrees(str, q)
  BY <1>2, <1>8, <1>9 DEF Agrees
<1>11. QED
  BY <1>1, <1>10

\* A line goes on behind what holds no newline: one code point further, at
\* its first byte, when the others go on with it.
LEMMA AgreesOnLine ==
    ASSUME NEW str, NEW p \in Position, Agrees(str, p), NEW width \in 1 .. 4,
           str[p.off + 1] # LineFeed, str[p.off + 1] \notin Continuation,
           \A i \in p.off + 2 .. p.off + width : str[i] \in Continuation
    PROVE  Agrees(str, MakePos(p.off + width, p.line, p.col + 1))
<1>1. PICK q : q = MakePos(p.off + width, p.line, p.col + 1)
  OBVIOUS
<1>2. q.off = p.off + width /\ q.line = p.line /\ q.col = p.col + 1
  BY <1>1 DEF MakePos
<1>3. PICK off \in Nat : off = p.off
  BY DEF Position
<1>4. \A i \in off + 1 .. off + width : str[i] # LineFeed
  <2> TAKE i \in off + 1 .. off + width
  <2>1. i = off + 1 \/ i \in off + 2 .. off + width
    OBVIOUS
  <2>2. LineFeed \notin Continuation
    BY DEF LineFeed, Continuation
  <2>3. QED
    BY <1>3, <2>1, <2>2
<1>5. Newlines(str, off + width) = Newlines(str, off)
  BY <1>4 DEF Newlines
<1>6. PICK start \in 0 .. off : start = LastLine(str, off)
  BY <1>3 DEF Agrees
<1>7. LastLine(str, off + width) = start
  BY <1>5, <1>6 DEF LastLine
<1>8. Firsts(str, start, off + width) = Firsts(str, start, off) \cup {off + 1}
  <2>1. ASSUME NEW i \in off + 1 .. off + width, str[i] \notin Continuation
        PROVE  i = off + 1
    BY <1>3, <2>1
  <2>2. QED
    BY <1>3, <1>6, <2>1 DEF Firsts
<1>9. off + 1 \notin Firsts(str, start, off)
  BY DEF Firsts
<1>10. Cardinality(Firsts(str, start, off + width)) = Cardinality(Firsts(str, start, off)) + 1
  <2>1. start \in Nat
    BY <1>6
  <2>2. IsFiniteSet(Firsts(str, start, off))
    BY <2>1, Counted
  <2>3. QED
    BY <1>8, <1>9, <2>2, FS_AddElement
<1>11. QED
  <2>1. LastLine(str, q.off) \in 0 .. q.off
    BY <1>2, <1>3, <1>6, <1>7
  <2>2. /\ q.line = Cardinality(Newlines(str, q.off))
        /\ q.col = Cardinality(Firsts(str, LastLine(str, q.off), q.off))
    BY <1>2, <1>3, <1>5, <1>6, <1>7, <1>10 DEF Agrees
  <2>3. QED
    BY <1>1, <2>1, <2>2 DEF Agrees

\* lex_next keeps count.
LEMMA AgreesNext ==
    ASSUME src \in Seq(Byte), Size(src) \in Nat, WellFormed(src), NEW p \in Position,
           Agrees(src, p), StrIterPeek(src, p.off) # kInvalidCodepoint
    PROVE  Agrees(src, LexNext(p))
<1>1. PICK off \in Nat : off = p.off
  BY DEF Position
<1>2. off \in 0 .. Size(src) - 1 /\ off + 1 \in 1 .. Len(src)
  BY <1>1 DEF StrIterPeek, Size, Slack
<1>3. PICK first \in Byte : first = src[off + 1]
  BY <1>2
<1>4. PICK width \in 1 .. 4 : width = Width(src, off)
  BY WidthNat
<1>5. StrIterPeek(src, off) = Decode(src, off) /\ Decode(src, off) # kInvalidCodepoint
  BY <1>1, <1>2 DEF StrIterPeek
<1>6. \/ first \in 0 .. 127 /\ Decode(src, off) = first /\ width = 1
      \/ first \in 192 .. 247 /\ width > 1
  <2>1. src[off + 1] \in Byte
    BY <1>3
  <2>2. \/ /\ src[off + 1] \in 0 .. 127
           /\ Decode(src, off) = src[off + 1] /\ Width(src, off) = 1
        \/ src[off + 1] \in 192 .. 247 /\ Width(src, off) > 1
    BY <1>5, <2>1, FirstByte, Zenon
  <2>3. QED
    BY <1>3, <1>4, <2>2, Zenon
<1>7. CASE first \in 0 .. 127
  <2>1. width = 1 /\ StrIterPeek(src, off) = first /\ first \notin Continuation
    BY <1>5, <1>6, <1>7 DEF Continuation
  <2>2. CASE first = LineFeed
    <3>1. LexNext(p) = MakePos(p.off + 1, p.line + 1, 0)
      BY <1>1, <1>4, <2>1, <2>2 DEF LexNext
    <3>2. QED
      BY <1>1, <1>3, <2>2, <3>1, AgreesNewline
  <2>3. CASE first # LineFeed
    <3>1. LexNext(p) = MakePos(p.off + width, p.line, p.col + 1)
      BY <1>1, <1>4, <2>1, <2>3 DEF LexNext
    <3>2. \A i \in p.off + 2 .. p.off + width : src[i] \in Continuation
      BY <1>1, <2>1
    <3>3. QED
      BY <1>1, <1>3, <2>1, <2>3, <3>1, <3>2, AgreesOnLine
  <2>4. QED
    BY <2>2, <2>3
<1>8. CASE first \in 192 .. 247
  <2>1. width > 1 /\ first \notin Continuation /\ first # LineFeed
    BY <1>6, <1>8 DEF Continuation, LineFeed
  <2>2. /\ \A i \in off + 2 .. off + width : src[i] \in Continuation
        /\ Decode(src, off) > 127
    BY <1>2, <1>4, <2>1 DEF WellFormed
  <2>3. LexNext(p) = MakePos(p.off + width, p.line, p.col + 1)
    BY <1>1, <1>4, <1>5, <2>2 DEF LexNext, LineFeed
  <2>4. QED
    BY <1>1, <1>3, <2>1, <2>2, <2>3, AgreesOnLine
<1>9. QED
  BY <1>6, <1>7, <1>8

\* What a step does to the positions: the lexer goes on by a code point or
\* stays, a lexeme begins where the lexer is, and a token has the positions
\* at hand.
LEMMA PositionsMove ==
    ASSUME [Next]_vars
    PROVE  /\ UNCHANGED src
           /\ \/ pos' = pos
              \/ LexPeek # kInvalidCodepoint /\ pos' = LexNext(pos)
           /\ beg' \in {beg, pos}
           /\ \/ toks' \in {toks, <<>>}
              \/ \E kind \in TokKind, b \in {beg, pos}, e \in {pos, pos'} :
                    toks' = Append(toks, [kind |-> kind, beg |-> b, end |-> e])
<1>1. UNCHANGED src
  BY DEF Next, vars
<1>2. ASSUME NEW here, NEW next, Skip(here, next) \/ Begin(here, next)
      PROVE  pos' = pos /\ beg' \in {beg, pos} /\ toks' = toks
  BY <1>2 DEF Skip, Begin, TokListSame
<1>3. ASSUME NEW err, Fail(err) PROVE toks' = <<>>
  BY <1>3 DEF Fail
<1>4. CASE UNCHANGED vars
  BY <1>4 DEF vars
<1>5. CASE Loop
  BY <1>1, <1>2, <1>3, <1>5
     DEF Loop, LoopBegin, LoopEnd, CheckStuck, CheckMoved, TokListSame
<1>6. CASE WhitespaceScan \/ IdentScan \/ NumScan
  BY <1>1, <1>6, NothingTakesInvalid
     DEF WhitespaceScan, IdentScan, NumScan, Scan, TokListSame
<1>7. ASSUME NEW kind \in TokKind, TokListPush(kind, pos), UNCHANGED <<pos, beg>>
      PROVE  \E k \in TokKind, b \in {beg, pos}, e \in {pos, pos'} :
                toks' = Append(toks, [kind |-> k, beg |-> b, end |-> e])
  BY <1>7 DEF TokListPush
<1>8. CASE Whitespace /\ ~WhitespaceScan
  <2>1. CASE WhitespaceBegin
    BY <1>1, <1>2, <2>1 DEF WhitespaceBegin
  <2>2. CASE End("whitespace_loop", LexIsWhitespace, "Whitespace", "newline")
    BY <1>1, <1>7, <2>2 DEF End, TokKind
  <2>3. CASE Skip("whitespace_loop", "newline")
    BY <1>1, <1>2, <2>3
  <2>4. QED
    BY <1>8, <2>1, <2>2, <2>3 DEF Whitespace, WhitespaceEnd
<1>9. CASE Newline
  <2>1. CASE NewlineTake
    BY <1>1, <2>1, NothingTakesInvalid DEF NewlineTake, TokListSame
  <2>2. CASE NewlineSkip
    BY <1>1, <1>2, <2>2 DEF NewlineSkip
  <2>3. QED
    BY <1>9, <2>1, <2>2 DEF Newline
<1>10. CASE Ident /\ ~IdentScan
  <2>1. CASE IdentSkip \/ IdentBegin
    BY <1>1, <1>2, <2>1 DEF IdentSkip, IdentBegin
  <2>2. CASE IdentEnd
    BY <1>1, <1>7, <2>2 DEF IdentEnd, End, TokKind
  <2>3. QED
    BY <1>10, <2>1, <2>2 DEF Ident
<1>11. CASE Num /\ ~NumScan
  <2>1. CASE NumSkip \/ NumBegin
    BY <1>1, <1>2, <2>1 DEF NumSkip, NumBegin
  <2>2. CASE NumEnd
    BY <1>1, <1>7, <2>2 DEF NumEnd, End, TokKind
  <2>3. QED
    BY <1>11, <2>1, <2>2 DEF Num
<1>12. CASE Str
  <2>1. CASE StrSkip
    BY <1>1, <1>2, <2>1 DEF StrSkip
  <2>2. CASE StrBegin \/ StrChar
    BY <1>1, <2>2, NothingTakesInvalid DEF StrBegin, StrChar, TokListSame
  <2>3. CASE StrClose
    BY <1>1, <2>3, NothingTakesInvalid DEF StrClose, TokListPush, TokKind
  <2>4. CASE StrUnterminated
    BY <1>1, <1>3, <2>4 DEF StrUnterminated
  <2>5. QED
    BY <1>12, <2>1, <2>2, <2>3, <2>4 DEF Str
<1>13. CASE Special
  <2>1. CASE SpecialSkip
    BY <1>1, <1>2, <2>1 DEF SpecialSkip
  <2>2. CASE SpecialTake /\ TokSymKindGet(SpanSlice(pos.off, pos'.off))
    BY <1>1, <2>2, NothingTakesInvalid DEF SpecialTake, TokKind
  <2>3. CASE SpecialTake /\ ~ TokSymKindGet(SpanSlice(pos.off, pos'.off))
    BY <1>1, <1>3, <2>3, NothingTakesInvalid DEF SpecialTake
  <2>4. QED
    BY <1>13, <2>1, <2>2, <2>3 DEF Special
<1>14. QED
  BY <1>4, <1>5, <1>6, <1>8, <1>9, <1>10, <1>11, <1>12, <1>13
     DEF Next, Whitespace, Ident, Num

\* No position is out of step at first.
LEMMA AgreeInit == Init => AllAgree
BY AgreesAtStart DEF Init, AllAgree

\* Nor is any after a step.
LEMMA AgreeStep == TypeOK /\ AllAgree /\ [Next]_vars => AllAgree'
<1> SUFFICES ASSUME TypeOK, AllAgree, [Next]_vars
             PROVE  AllAgree'
  OBVIOUS
<1> SUFFICES ASSUME WellFormed(src)
             PROVE  AllAgree'
  BY PositionsMove DEF AllAgree, WellFormed
<1>1. /\ Agrees(src, pos) /\ Agrees(src, beg)
      /\ \A i \in 1 .. Len(toks) : Agrees(src, toks[i].beg) /\ Agrees(src, toks[i].end)
  BY DEF AllAgree
<1>2. /\ UNCHANGED src /\ src \in Seq(Byte) /\ Size(src) \in Nat /\ pos \in Position
      /\ toks \in Seq(Token) /\ Len(toks) \in Nat
  BY PositionsMove, LexerAssumption DEF TypeOK
<1>3. Agrees(src, pos')
  <2>1. CASE pos' = pos
    BY <1>1, <2>1
  <2>2. CASE LexPeek # kInvalidCodepoint /\ pos' = LexNext(pos)
    BY <1>1, <1>2, <2>2, AgreesNext DEF LexPeek
  <2>3. QED
    BY <2>1, <2>2, PositionsMove
<1>4. Agrees(src, beg')
  BY <1>1, PositionsMove
<1>5. \A i \in 1 .. Len(toks') : Agrees(src, toks'[i].beg) /\ Agrees(src, toks'[i].end)
  <2>1. CASE toks' = toks
    BY <1>1, <2>1
  <2>2. CASE toks' = <<>>
    BY <2>2
  <2>3. CASE \E kind \in TokKind, b \in {beg, pos}, e \in {pos, pos'} :
                toks' = Append(toks, [kind |-> kind, beg |-> b, end |-> e])
    <3>1. PICK kind \in TokKind, b \in {beg, pos}, e \in {pos, pos'} :
             toks' = Append(toks, [kind |-> kind, beg |-> b, end |-> e])
      BY <2>3
    <3>2. PICK t : t = [kind |-> kind, beg |-> b, end |-> e]
      OBVIOUS
    <3>3. /\ Len(toks') = Len(toks) + 1 /\ toks'[Len(toks) + 1] = t
          /\ \A i \in 1 .. Len(toks) : toks'[i] = toks[i]
      BY <1>2, <3>1, <3>2
    <3>4. Agrees(src, t.beg) /\ Agrees(src, t.end)
      BY <1>1, <1>3, <3>1, <3>2
    <3>5. QED
      BY <1>1, <1>2, <3>3, <3>4
  <2>4. QED
    BY <2>1, <2>2, <2>3, PositionsMove
<1>6. QED
  BY <1>2, <1>3, <1>4, <1>5 DEF AllAgree

\* What is kept is what the property says.
LEMMA AgreeImplies == TypeOK /\ AllAgree => PositionsAgree
<1> SUFFICES ASSUME TypeOK, AllAgree, WellFormed(src),
                    NEW p \in {pos, beg} \cup UNION { {toks[i].beg, toks[i].end} :
                                                     i \in 1 .. Len(toks) }
             PROVE  LET there == StrOffToLineCol(src, p.off)
                    IN  /\ p.line = there.line
                        /\ p.col = Cardinality({ i \in p.off - there.col + 1 .. p.off :
                                                   src[i] \notin Continuation })
  BY DEF PositionsAgree
<1>1. Agrees(src, p)
  BY DEF AllAgree
<1>2. PICK there : there = StrOffToLineCol(src, p.off)
  OBVIOUS
<1>3. /\ there.line = Cardinality(Newlines(src, p.off))
      /\ there.col = p.off - LastLine(src, p.off)
  BY <1>2 DEF StrOffToLineCol, Newlines, LastLine
<1>4. p.off \in Nat
  <2>1. \A i \in 1 .. Len(toks) : toks[i] \in Token
    BY DEF TypeOK
  <2>2. \A i \in 1 .. Len(toks) : toks[i].beg \in Position /\ toks[i].end \in Position
    BY <2>1 DEF Token
  <2>3. p \in Position
    BY <2>2 DEF TypeOK
  <2>4. QED
    BY <2>3 DEF Position
<1>5. p.off - there.col = LastLine(src, p.off)
  BY <1>1, <1>3, <1>4 DEF Agrees
<1>6. QED
  BY <1>1, <1>2, <1>3, <1>5 DEF Agrees, Firsts

\* The line and column the lexer carries along are those of the offset, in
\* every text whose code points are whole.
THEOREM PositionsAlwaysAgree == Spec => []PositionsAgree
<1>1. Init => TypeOK /\ AllAgree
  BY TypeInit, AgreeInit
<1>2. TypeOK /\ AllAgree /\ [Next]_vars => (TypeOK /\ AllAgree)'
  BY TypeStep, AgreeStep
<1>3. QED
  BY <1>1, <1>2, AgreeImplies, PTL DEF Spec
-----------------------------------------------------------------------------
(***************************************************************************)
(* The lexer cuts the source as Tokenizer says.  While it is in a loop, it *)
(* has gone from code point to code point since the lexeme began, and when *)
(* an iteration has taken nothing, no handler takes what is there.         *)
(***************************************************************************)

\* Where the code point at u ends.
After(str, u) == u + Width(str, u)

\* The code points from a to b begin at S.
Path(str, S, a, b) ==
    /\ S \in SUBSET (a .. b - 1) /\ a \in S
    /\ \A u \in S : /\ StrIterPeek(str, u) # kInvalidCodepoint
                    /\ After(str, u) \in S \cup {b}
                    /\ u # a => \E v \in S : After(str, v) = u
    /\ \E v \in S : After(str, v) = b
    /\ \A u, w \in S : u < w => After(str, u) <= w

\* So they do, or there is none yet.
MayPath(str, S, a, b) == (a = b /\ S = {}) \/ Path(str, S, a, b)

\* Every quote in a string but the first stands behind a backslash, and the
\* lexer knows whether the next one would.
StringOf(str, S, a, b, esc) ==
    /\ Path(str, S, a, b)
    /\ StrIterPeek(str, a) = Quote
    /\ \A q \in S \ {a} : StrIterPeek(str, q) = Quote =>
          \E v \in S : After(str, v) = q /\ StrIterPeek(str, v) = Backslash
    /\ esc <=> \E v \in S : After(str, v) = b /\ StrIterPeek(str, v) = Backslash

\* What the handler whose loop runs has taken.
Scanned ==
    /\ pc = "whitespace_loop" =>
          \E S : /\ MayPath(src, S, beg.off, pos.off)
                 /\ \A u \in S : LexIsWhitespace(StrIterPeek(src, u))
    /\ pc = "ident_loop" =>
          /\ IdentStart(StrIterPeek(src, beg.off))
          /\ \E S : /\ MayPath(src, S, beg.off, pos.off)
                    /\ \A u \in S : IdentPart(StrIterPeek(src, u))
    /\ pc = "num_loop" =>
          /\ LexIsNum(StrIterPeek(src, beg.off))
          /\ \E S : /\ MayPath(src, S, beg.off, pos.off)
                    /\ \A u \in S : LexIsNumSym(StrIterPeek(src, u))
    /\ pc = "str_loop" => \E S : StringOf(src, S, beg.off, pos.off, escaped)
    /\ pc \in Scanning => iter <= beg.off

\* What an iteration that has taken nothing so far was offered to.
Offered ==
    iter = pos.off =>
        /\ pc \notin {"loop", "done"} => LexPeek # kInvalidCodepoint
        /\ pc \in {"newline", "ident", "num", "str", "special", "check"} =>
              ~ LexIsWhitespace(LexPeek)
        /\ pc \in {"ident", "num", "str", "special", "check"} => LexPeek # LineFeed
        /\ pc \in {"num", "str", "special", "check"} => ~ IdentStart(LexPeek)
        /\ pc \in {"str", "special", "check"} => ~ LexIsNum(LexPeek)
        /\ pc \in {"special", "check"} => LexPeek # Quote
        /\ pc = "check" => ~ LexIsSpecial(LexPeek)

\* The whitespace handler comes first and notes where it is.
BegunHere == pc \notin {"loop", "whitespace", "done"} => iter <= beg.off

CutInv == IInv /\ Scanned /\ Offered /\ BegunHere

\* A path goes on over the next code point.
LEMMA PathGrows ==
    ASSUME NEW str, NEW a \in Nat, NEW b \in Nat, NEW S, MayPath(str, S, a, b),
           StrIterPeek(str, b) # kInvalidCodepoint
    PROVE  Path(str, S \cup {b}, a, After(str, b))
<1>1. PICK c \in Nat : c = After(str, b) /\ b < c
  BY WidthNat DEF After
<1>2. CASE a = b /\ S = {}
  <2>1. b \in a .. c - 1
    BY <1>1, <1>2
  <2>2. QED
    BY <1>1, <1>2, <2>1 DEF Path
<1>3. CASE Path(str, S, a, b)
  <2>1. /\ S \in SUBSET (a .. b - 1) /\ a \in S
        /\ \A u \in S : /\ StrIterPeek(str, u) # kInvalidCodepoint
                        /\ After(str, u) \in S \cup {b}
                        /\ u # a => \E v \in S : After(str, v) = u
        /\ \E v \in S : After(str, v) = b
        /\ \A u, w \in S : u < w => After(str, u) <= w
    BY <1>3 DEF Path
  <2>2. S \cup {b} \in SUBSET (a .. c - 1) /\ a \in S \cup {b}
    BY <1>1, <2>1
  <2>3. ASSUME NEW u \in S \cup {b}
        PROVE  /\ StrIterPeek(str, u) # kInvalidCodepoint
               /\ After(str, u) \in S \cup {b} \cup {c}
               /\ u # a => \E v \in S \cup {b} : After(str, v) = u
    BY <1>1, <2>1
  <2>4. \E v \in S \cup {b} : After(str, v) = c
    BY <1>1
  <2>5. ASSUME NEW u \in S \cup {b}, NEW w \in S \cup {b}, u < w
        PROVE  After(str, u) <= w
    <3>1. u # b
      BY <2>1, <2>5
    <3>2. CASE w \in S
      BY <2>1, <2>5, <3>1, <3>2
    <3>3. CASE w = b
      <4>1. After(str, u) \in (a .. b - 1) \cup {b}
        BY <2>1, <3>1
      <4>2. QED
        BY <3>3, <4>1
    <3>4. QED
      BY <3>2, <3>3
  <2>6. QED
    BY <1>1, <2>2, <2>3, <2>4, <2>5 DEF Path
<1>4. QED
  BY <1>2, <1>3 DEF MayPath

\* Two code points of a path do not end at the same place.
LEMMA PathInjective ==
    ASSUME NEW str, NEW a \in Nat, NEW b \in Nat, NEW S, Path(str, S, a, b),
           NEW v \in S, NEW w \in S, After(str, v) = After(str, w)
    PROVE  v = w
<1>1. /\ v \in Nat /\ w \in Nat
      /\ v < w => After(str, v) <= w
      /\ w < v => After(str, w) <= v
  BY DEF Path
<1>2. PICK x \in Nat, y \in Nat : /\ x = Width(str, v) /\ x >= 1
                                  /\ y = Width(str, w) /\ y >= 1
  BY WidthNat
<1>3. v + x = w + y
  BY <1>2 DEF After
<1>4. /\ v < w => w + y <= w
      /\ w < v => v + x <= v
  BY <1>1, <1>2, <1>3 DEF After
<1>5. QED
  BY <1>1, <1>2, <1>4

\* A quote behind which a backslash stands goes on with the string, and so
\* does any other code point.
LEMMA StringGrows ==
    ASSUME NEW str, NEW a \in Nat, NEW b \in Nat, NEW S, NEW esc \in BOOLEAN,
           StringOf(str, S, a, b, esc),
           StrIterPeek(str, b) # kInvalidCodepoint,
           StrIterPeek(str, b) = Quote => esc
    PROVE  StringOf(str, S \cup {b}, a, After(str, b), StrIterPeek(str, b) = Backslash)
<1>1. Path(str, S, a, b) /\ Path(str, S \cup {b}, a, After(str, b))
  BY PathGrows DEF StringOf, MayPath
<1>2. \A q \in (S \cup {b}) \ {a} : StrIterPeek(str, q) = Quote =>
         \E v \in S \cup {b} : After(str, v) = q /\ StrIterPeek(str, v) = Backslash
  BY DEF StringOf
<1>3. \A v \in S \cup {b} : After(str, v) = After(str, b) => v = b
  <2>1. After(str, b) \in Nat
    BY WidthNat DEF After
  <2>2. QED
    BY <1>1, <2>1, PathInjective
<1>4. (StrIterPeek(str, b) = Backslash) <=>
         \E v \in S \cup {b} : /\ After(str, v) = After(str, b)
                               /\ StrIterPeek(str, v) = Backslash
  BY <1>3
<1>5. QED
  BY <1>1, <1>2, <1>4 DEF StringOf

\* The numbers a step is about.
LEMMA Offsets ==
    ASSUME IInv
    PROVE  /\ pos.off \in Nat /\ beg.off \in Nat /\ beg.off <= pos.off
           /\ iter \in Nat /\ iter <= pos.off /\ escaped \in BOOLEAN
BY DEF IInv, TypeOK, Position

\* lex_next goes on behind the code point it is at.
LEMMA Moved ==
    ASSUME IInv, LexPeek # kInvalidCodepoint, pos' = LexNext(pos)
    PROVE  pos'.off = After(src, pos.off) /\ pos.off < pos'.off
<1>1. pos'.off = After(src, pos.off)
  BY DEF LexNext, MakePos, After, LexPeek
<1>2. QED
  BY <1>1, NextPosition DEF IInv

\* A handler that finds nothing to do has been offered what is there.
LEMMA SkipCut ==
    ASSUME CutInv, UNCHANGED src, NEW here, NEW next, Skip(here, next),
           next \notin Scanning,
           Offered'
    PROVE  Scanned' /\ Offered'
BY DEF Skip, Scanned, Scanning

\* A handler begins with no code point taken.
LEMMA BeginCut ==
    ASSUME CutInv, UNCHANGED src, NEW here, NEW next, Begin(here, next),
           here \notin {"loop", "done"}, next \in Scanning \ {"str_loop"},
           next = "ident_loop" => IdentStart(LexPeek),
           next = "num_loop" => LexIsNum(LexPeek)
    PROVE  Scanned' /\ Offered'
<1>1. /\ beg' = pos /\ UNCHANGED <<pos, iter, src>> /\ pc = here /\ pc' = next
      /\ iter <= pos.off
  BY Offsets DEF Begin, CutInv
<1>2. MayPath(src, {}, pos.off, pos.off)
  BY DEF MayPath
<1>3. Scanned'
  BY <1>1, <1>2 DEF Scanned, Scanning, LexPeek
<1>4. Offered'
  BY <1>1 DEF CutInv, Offered, Scanning, LexPeek
<1>5. QED
  BY <1>3, <1>4

\* A loop goes on over one code point.
LEMMA ScanCut ==
    ASSUME CutInv, UNCHANGED src,
           \/ WhitespaceScan
           \/ IdentScan
           \/ NumScan
    PROVE  Scanned' /\ Offered'
<1>1. /\ LexPeek # kInvalidCodepoint /\ pos' = LexNext(pos)
      /\ UNCHANGED <<src, beg, iter, pc>> /\ pc \in Scanning \ {"str_loop"}
  BY NothingTakesInvalid DEF WhitespaceScan, IdentScan, NumScan, Scan, Scanning
<1>2. pos'.off = After(src, pos.off) /\ pos.off < pos'.off
  BY <1>1, Moved DEF CutInv
<1>3. /\ pos.off \in Nat /\ beg.off \in Nat /\ iter \in Nat /\ iter <= beg.off
      /\ iter <= pos.off
  BY <1>1, Offsets DEF CutInv, Scanned
<1>4. ASSUME NEW S, MayPath(src, S, beg.off, pos.off)
      PROVE  MayPath(src, S \cup {pos.off}, beg.off, pos'.off)
  BY <1>1, <1>2, <1>3, <1>4, PathGrows DEF LexPeek, MayPath
<1>5. CASE WhitespaceScan
  <2>1. PICK S : /\ MayPath(src, S, beg.off, pos.off)
                 /\ \A u \in S : LexIsWhitespace(StrIterPeek(src, u))
    BY <1>5 DEF WhitespaceScan, Scan, CutInv, Scanned
  <2>2. LexIsWhitespace(StrIterPeek(src, pos.off)) /\ pc = "whitespace_loop"
    BY <1>5 DEF WhitespaceScan, Scan, LexPeek
  <2>3. /\ MayPath(src, S \cup {pos.off}, beg.off, pos'.off)
        /\ \A u \in S \cup {pos.off} : LexIsWhitespace(StrIterPeek(src, u))
    BY <1>4, <2>1, <2>2
  <2>4. Scanned'
    BY <1>1, <1>3, <2>2, <2>3 DEF Scanned
  <2>5. QED
    BY <1>1, <1>2, <1>3, <2>4 DEF Offered
<1>6. CASE IdentScan
  <2>1. PICK S : /\ MayPath(src, S, beg.off, pos.off)
                 /\ \A u \in S : IdentPart(StrIterPeek(src, u))
    BY <1>6 DEF IdentScan, Scan, CutInv, Scanned
  <2>2. /\ IdentPart(StrIterPeek(src, pos.off)) /\ pc = "ident_loop"
        /\ IdentStart(StrIterPeek(src, beg.off))
    BY <1>6 DEF IdentScan, Scan, LexPeek, CutInv, Scanned
  <2>3. /\ MayPath(src, S \cup {pos.off}, beg.off, pos'.off)
        /\ \A u \in S \cup {pos.off} : IdentPart(StrIterPeek(src, u))
    BY <1>4, <2>1, <2>2
  <2>4. Scanned'
    BY <1>1, <1>3, <2>2, <2>3 DEF Scanned
  <2>5. QED
    BY <1>1, <1>2, <1>3, <2>4 DEF Offered
<1>7. CASE NumScan
  <2>1. PICK S : /\ MayPath(src, S, beg.off, pos.off)
                 /\ \A u \in S : LexIsNumSym(StrIterPeek(src, u))
    BY <1>7 DEF NumScan, Scan, CutInv, Scanned
  <2>2. /\ LexIsNumSym(StrIterPeek(src, pos.off)) /\ pc = "num_loop"
        /\ LexIsNum(StrIterPeek(src, beg.off))
    BY <1>7 DEF NumScan, Scan, LexPeek, CutInv, Scanned
  <2>3. /\ MayPath(src, S \cup {pos.off}, beg.off, pos'.off)
        /\ \A u \in S \cup {pos.off} : LexIsNumSym(StrIterPeek(src, u))
    BY <1>4, <2>1, <2>2
  <2>4. Scanned'
    BY <1>1, <1>3, <2>2, <2>3 DEF Scanned
  <2>5. QED
    BY <1>1, <1>2, <1>3, <2>4 DEF Offered
<1>8. QED
  BY <1>5, <1>6, <1>7

\* A lexeme that has ended is not empty: the iteration has taken something.
LEMMA TakenCut ==
    ASSUME CutInv, UNCHANGED iter, pos'.off \in Nat, iter < pos'.off, pc' \notin Scanning
    PROVE  Scanned' /\ Offered'
<1>1. iter' # pos'.off
  BY Offsets DEF CutInv
<1>2. QED
  BY <1>1 DEF Scanned, Offered, Scanning

\* The program of an iteration that stops.
LEMMA DoneCut ==
    ASSUME CutInv, pc' = "done"
    PROVE  Scanned' /\ Offered'
BY DEF Scanned, Offered, Scanning

\* All of lex_handle_str but what it skips.
LEMMA StrCut ==
    ASSUME CutInv, UNCHANGED src, StrBegin \/ StrChar \/ StrClose
    PROVE  Scanned' /\ Offered'
<1>1. /\ LexPeek # kInvalidCodepoint /\ pos' = LexNext(pos) /\ UNCHANGED <<src, iter>>
  BY NothingTakesInvalid DEF StrBegin, StrChar, StrClose
<1>2. /\ pos'.off = After(src, pos.off) /\ pos.off < pos'.off
      /\ pos.off \in Nat /\ beg.off \in Nat /\ iter \in Nat /\ iter <= pos.off
      /\ escaped \in BOOLEAN
  BY <1>1, Moved, Offsets DEF CutInv
<1>3. pos'.off \in Nat /\ iter < pos'.off
  BY <1>2, WidthNat DEF After
<1>4. CASE StrBegin
  <2>1. beg' = pos /\ pc' = "str_loop" /\ escaped' = FALSE /\ LexPeek = Quote
    BY <1>4 DEF StrBegin
  <2>2. MayPath(src, {}, pos.off, pos.off)
    BY DEF MayPath
  <2>3. Path(src, {} \cup {pos.off}, pos.off, pos'.off)
    BY <1>1, <1>2, <2>2, PathGrows DEF LexPeek
  <2>4. StringOf(src, {} \cup {pos.off}, pos.off, pos'.off, FALSE)
    <3>1. StrIterPeek(src, pos.off) = Quote /\ Quote # Backslash
      BY <2>1, SMT DEF LexPeek, Quote, Backslash
    <3>2. QED
      BY <2>3, <3>1 DEF StringOf
  <2>5. Scanned'
    BY <1>1, <1>2, <2>1, <2>4 DEF Scanned
  <2>6. QED
    BY <1>1, <1>2, <1>3, <2>5 DEF Offered
<1>5. CASE StrChar
  <2>1. /\ pc = "str_loop" /\ UNCHANGED <<beg, pc>>
        /\ LexPeek = Quote => escaped
        /\ escaped' = (LexPeek = Backslash) /\ iter <= beg.off
    BY <1>5 DEF StrChar, CutInv, Scanned, Scanning
  <2>2. PICK S : StringOf(src, S, beg.off, pos.off, escaped)
    BY <2>1 DEF CutInv, Scanned
  <2>3. StringOf(src, S \cup {pos.off}, beg.off, pos'.off, escaped')
    BY <1>1, <1>2, <2>1, <2>2, StringGrows DEF LexPeek
  <2>4. Scanned'
    BY <1>1, <1>2, <2>1, <2>3 DEF Scanned
  <2>5. QED
    BY <1>1, <1>2, <1>3, <2>4 DEF Offered
<1>6. CASE StrClose
  BY <1>1, <1>3, <1>6, TakenCut DEF StrClose, Scanning
<1>7. QED
  BY <1>4, <1>5, <1>6

\* No lexeme begins before its iteration did.
LEMMA BegunStep ==
    ASSUME IInv, BegunHere, [Next]_vars
    PROVE  BegunHere'
<1>1. /\ pc = "loop" => pc' \in {"loop", "whitespace", "done"}
      /\ pc = "whitespace" => pc' = "whitespace" \/ (UNCHANGED iter /\ beg' = pos)
      /\ pc # "loop" => UNCHANGED iter
  <2>1. CASE UNCHANGED vars
    BY <2>1 DEF vars
  <2>2. CASE Loop
    BY <2>2 DEF Loop, LoopBegin, LoopEnd, CheckStuck, CheckMoved, Skip
  <2>3. CASE Whitespace
    BY <2>3 DEF Whitespace, WhitespaceBegin, WhitespaceScan, WhitespaceEnd,
                Begin, Scan, End, Skip
  <2>4. CASE Newline \/ Ident \/ Num
    BY <2>4 DEF Newline, NewlineTake, NewlineSkip, Ident, IdentSkip, IdentBegin,
                IdentScan, IdentEnd, Num, NumSkip, NumBegin, NumScan, NumEnd,
                Begin, Scan, End, Skip
  <2>5. CASE Str \/ Special
    BY <2>5 DEF Str, StrSkip, StrBegin, StrChar, StrClose, StrUnterminated,
                Special, SpecialSkip, SpecialTake, Skip
  <2>6. QED
    BY <2>1, <2>2, <2>3, <2>4, <2>5 DEF Next
<1>2. pc = "done" => pc' = "done"
  BY DEF Next, vars, Loop, LoopBegin, LoopEnd, CheckStuck, CheckMoved, Whitespace,
         WhitespaceBegin, WhitespaceScan, WhitespaceEnd, Newline, NewlineTake,
         NewlineSkip, Ident, IdentSkip, IdentBegin, IdentScan, IdentEnd, Num, NumSkip,
         NumBegin, NumScan, NumEnd, Str, StrSkip, StrBegin, StrChar, StrClose,
         StrUnterminated, Special, SpecialSkip, SpecialTake, Begin, Scan, End, Skip
<1>3. iter <= pos.off /\ beg' \in {beg, pos}
  BY PositionsMove, Offsets
<1>4. QED
  BY <1>1, <1>2, <1>3 DEF BegunHere

\* Nothing has been taken at first.
LEMMA CutInit == Init => CutInv
<1> SUFFICES ASSUME Init PROVE CutInv
  OBVIOUS
<1>1. pc = "loop"
  BY DEF Init
<1>2. Scanned /\ Offered /\ BegunHere
  BY <1>1 DEF Scanned, Offered, BegunHere, Scanning
<1>3. QED
  BY <1>2, IInvInit DEF CutInv

\* Every step keeps what a loop has taken.
LEMMA CutStep == CutInv /\ [Next]_vars => CutInv'
<1> SUFFICES ASSUME CutInv, [Next]_vars PROVE Scanned' /\ Offered'
  BY IInvStep, BegunStep DEF CutInv
<1>1. UNCHANGED src
  BY PositionsMove
<1>2. /\ pos.off \in Nat /\ beg.off \in Nat /\ beg.off <= pos.off
      /\ iter \in Nat /\ iter <= pos.off
      /\ pc \in Scanning => iter <= beg.off
  BY Offsets DEF CutInv, Scanned
<1>3. CASE UNCHANGED vars
  BY <1>3 DEF vars, CutInv, Scanned, Offered, LexPeek, Scanning
<1>4. CASE Loop
  <2>1. CASE LoopBegin
    BY <1>1, <2>1 DEF LoopBegin, Scanned, Offered, Scanning, LexPeek
  <2>2. CASE LoopEnd \/ CheckStuck
    BY <2>2, DoneCut DEF LoopEnd, CheckStuck, Fail
  <2>3. CASE CheckMoved
    BY <2>3 DEF CheckMoved, Skip, Scanned, Offered, Scanning
  <2>4. QED
    BY <1>4, <2>1, <2>2, <2>3 DEF Loop
<1>5. CASE WhitespaceScan \/ IdentScan \/ NumScan
  BY <1>1, <1>5, ScanCut
<1>6. ASSUME NEW next, UNCHANGED <<pos, iter>>, pc \in Scanning,
             beg.off < pos.off, pc' = next, next \notin Scanning
      PROVE  Scanned' /\ Offered'
  BY <1>2, <1>6, TakenCut
<1>7. CASE Whitespace /\ ~WhitespaceScan
  <2>1. CASE WhitespaceBegin
    BY <1>1, <2>1, BeginCut DEF WhitespaceBegin, Scanning
  <2>2. CASE /\ beg.off # pos.off
             /\ End("whitespace_loop", LexIsWhitespace, "Whitespace", "newline")
    BY <1>2, <1>6, <2>2 DEF End, Scanning
  <2>3. CASE ~ LexIsWhitespace(LexPeek) /\ Skip("whitespace_loop", "newline")
    <3>1. Offered'
      BY <1>1, <2>3 DEF CutInv, Offered, Skip, LexPeek
    <3>2. QED
      BY <1>1, <2>3, <3>1, SkipCut DEF Scanning
  <2>4. QED
    BY <1>7, <2>1, <2>2, <2>3 DEF Whitespace, WhitespaceEnd
<1>8. CASE Newline
  <2>1. CASE NewlineTake
    <3>1. pos.off < pos'.off /\ pos'.off = After(src, pos.off)
      BY <2>1, Moved, NothingTakesInvalid DEF NewlineTake, CutInv
    <3>2. pos'.off \in Nat
      BY <1>2, <3>1, WidthNat DEF After
    <3>3. QED
      BY <1>2, <2>1, <3>1, <3>2, TakenCut DEF NewlineTake, Scanning
  <2>2. CASE NewlineSkip
    <3>1. Offered'
      BY <1>1, <2>2 DEF CutInv, Offered, NewlineSkip, Skip, LexPeek
    <3>2. QED
      BY <1>1, <2>2, <3>1, SkipCut DEF NewlineSkip, Scanning
  <2>3. QED
    BY <1>8, <2>1, <2>2 DEF Newline
<1>9. CASE Ident /\ ~IdentScan
  <2>1. CASE IdentSkip
    <3>1. Offered'
      BY <1>1, <2>1 DEF CutInv, Offered, IdentSkip, Skip, LexPeek
    <3>2. QED
      BY <1>1, <2>1, <3>1, SkipCut DEF IdentSkip, Scanning
  <2>2. CASE IdentBegin
    BY <1>1, <2>2, BeginCut DEF IdentBegin, Scanning
  <2>3. CASE IdentEnd
    <3>1. beg.off < pos.off
      BY <2>3 DEF IdentEnd, End, CutInv, IInv, LexemeBegun
    <3>2. QED
      BY <1>6, <2>3, <3>1 DEF IdentEnd, End, Scanning
  <2>4. QED
    BY <1>9, <2>1, <2>2, <2>3 DEF Ident
<1>10. CASE Num /\ ~NumScan
  <2>1. CASE NumSkip
    <3>1. Offered'
      BY <1>1, <2>1 DEF CutInv, Offered, NumSkip, Skip, LexPeek
    <3>2. QED
      BY <1>1, <2>1, <3>1, SkipCut DEF NumSkip, Scanning
  <2>2. CASE NumBegin
    BY <1>1, <2>2, BeginCut DEF NumBegin, Scanning
  <2>3. CASE NumEnd
    <3>1. beg.off < pos.off
      BY <2>3 DEF NumEnd, End, CutInv, IInv, LexemeBegun
    <3>2. QED
      BY <1>6, <2>3, <3>1 DEF NumEnd, End, Scanning
  <2>4. QED
    BY <1>10, <2>1, <2>2, <2>3 DEF Num
<1>11. CASE Str
  <2>1. CASE StrSkip
    <3>1. Offered'
      BY <1>1, <2>1 DEF CutInv, Offered, StrSkip, Skip, LexPeek
    <3>2. QED
      BY <1>1, <2>1, <3>1, SkipCut DEF StrSkip, Scanning
  <2>2. CASE StrBegin \/ StrChar \/ StrClose
    BY <1>1, <2>2, StrCut
  <2>3. CASE StrUnterminated
    BY <2>3, DoneCut DEF StrUnterminated, Fail
  <2>4. QED
    BY <1>11, <2>1, <2>2, <2>3 DEF Str
<1>12. CASE Special
  <2>1. CASE SpecialSkip
    <3>1. Offered'
      BY <1>1, <2>1 DEF CutInv, Offered, SpecialSkip, Skip, LexPeek
    <3>2. QED
      BY <1>1, <2>1, <3>1, SkipCut DEF SpecialSkip, Scanning
  <2>2. CASE SpecialTake
    <3>1. pos.off < pos'.off /\ pos'.off = After(src, pos.off)
      BY <2>2, Moved, NothingTakesInvalid DEF SpecialTake, CutInv
    <3>2. pos'.off \in Nat
      BY <1>2, <3>1, WidthNat DEF After
    <3>3. UNCHANGED iter /\ pc' \notin Scanning
      BY <2>2 DEF SpecialTake, Fail, Scanning
    <3>4. QED
      BY <1>2, <3>1, <3>2, <3>3, TakenCut
  <2>3. QED
    BY <1>12, <2>1, <2>2 DEF Special
<1>13. QED
  BY <1>3, <1>4, <1>5, <1>7, <1>8, <1>9, <1>10, <1>11, <1>12
     DEF Next, Whitespace, Ident, Num
-----------------------------------------------------------------------------
(***************************************************************************)
(* The lexemes of Tokenizer                                                *)
(***************************************************************************)

\* What the refinement makes of the state.
LexAt == IF pc \in Scanning \/ result # "kLexNoErr" THEN beg.off ELSE pos.off

LexOut == [i \in 1 .. Len(toks) |-> [kind |-> toks[i].kind,
                                     beg |-> toks[i].beg.off,
                                     end |-> toks[i].end.off]]

LexVerdict == IF pc = "done" THEN result ELSE "running"

\* Tokenizer reads the same text with the same classes.
LEMMA SameText ==
    /\ \A off : Lexemes!CodePoint(off) = StrIterPeek(src, off)
    /\ \A off : Lexemes!Width(src, off) = Width(src, off)
    /\ \A u, v : Lexemes!Follows(u, v) <=> v = After(src, u)
    /\ \A cp : /\ Lexemes!LexIsWhitespace(cp) <=> LexIsWhitespace(cp)
               /\ Lexemes!IdentStart(cp) <=> IdentStart(cp)
               /\ Lexemes!IdentPart(cp) <=> IdentPart(cp)
               /\ Lexemes!LexIsNum(cp) <=> LexIsNum(cp)
               /\ Lexemes!LexIsNumSym(cp) <=> LexIsNumSym(cp)
               /\ Lexemes!LexIsSpecial(cp) <=> LexIsSpecial(cp)
    /\ \A slice : Lexemes!TokSymKindGet(slice) <=> TokSymKindGet(slice)
    /\ Lexemes!kInvalidCodepoint = kInvalidCodepoint
    /\ Lexemes!LineFeed = LineFeed /\ Lexemes!Quote = Quote
    /\ Lexemes!Backslash = Backslash
<1> Lexemes!kInvalidCodepoint = kInvalidCodepoint
  BY SMT DEF Lexemes!kInvalidCodepoint, kInvalidCodepoint
<1>1. \A off : Lexemes!Decode(src, off) = Decode(src, off)
  BY DEF Lexemes!Decode, Decode
<1>2. Lexemes!Size(src) = Size(src)
  BY DEF Lexemes!Size, Size, Lexemes!Slack, Slack
<1>3. \A off : Lexemes!CodePoint(off) = StrIterPeek(src, off)
  BY <1>1, <1>2
     DEF Lexemes!CodePoint, Lexemes!StrIterPeek, StrIterPeek
<1>4. \A off : Lexemes!Width(src, off) = Width(src, off)
  BY DEF Lexemes!Width, Width
<1>5. \A u, v : Lexemes!Follows(u, v) <=> v = After(src, u)
  BY <1>4 DEF Lexemes!Follows, After
<1>6. \A cp : /\ Lexemes!LexIsWhitespace(cp) <=> LexIsWhitespace(cp)
              /\ Lexemes!LexIsAlfa(cp) <=> LexIsAlfa(cp)
              /\ Lexemes!LexIsUnicode(cp) <=> LexIsUnicode(cp)
              /\ Lexemes!LexIsNum(cp) <=> LexIsNum(cp)
  BY DEF Lexemes!LexIsWhitespace, LexIsWhitespace, Lexemes!LexIsNum, LexIsNum,
         Lexemes!LexIsAlfa, LexIsAlfa, Lexemes!LexIsUnicode, LexIsUnicode
<1>7. \A cp : /\ Lexemes!IdentStart(cp) <=> IdentStart(cp)
              /\ Lexemes!IdentPart(cp) <=> IdentPart(cp)
              /\ Lexemes!LexIsNumSym(cp) <=> LexIsNumSym(cp)
  BY <1>6 DEF Lexemes!IdentStart, IdentStart, Lexemes!IdentPart, IdentPart,
         Lexemes!LexIsNumSym, LexIsNumSym, Lexemes!Underscore, Underscore
<1>8. /\ \A cp : Lexemes!LexIsSpecial(cp) <=> LexIsSpecial(cp)
      /\ \A slice : Lexemes!TokSymKindGet(slice) <=> TokSymKindGet(slice)
  <2>1. Lexemes!SymbolByte = SymbolByte
    BY DEF Lexemes!SymbolByte, SymbolByte
  <2>2. QED
    BY <2>1 DEF Lexemes!LexIsSpecial, LexIsSpecial, Lexemes!TokSymKindGet, TokSymKindGet
<1>9. QED
  BY <1>3, <1>4, <1>5, <1>6, <1>7, <1>8
     DEF Lexemes!LineFeed, LineFeed, Lexemes!Quote, Quote, Lexemes!Backslash, Backslash

\* A path is what Tokenizer calls a cut.
LEMMA PathCut ==
    ASSUME NEW S, NEW a, NEW b, Path(src, S, a, b)
    PROVE  S \in Lexemes!Cut(a, b)
<1>1. /\ S \in SUBSET (a .. b - 1) /\ a \in S
      /\ \A u \in S : /\ StrIterPeek(src, u) # kInvalidCodepoint
                      /\ After(src, u) \in S \cup {b}
                      /\ u # a => \E v \in S : After(src, v) = u
  BY DEF Path
<1>2. \A u : u + Lexemes!Width(src, u) = After(src, u)
  BY SameText DEF After
<1>3. Lexemes!Units(S, a, b)
  BY <1>1, <1>2, SameText DEF Lexemes!Units
<1>4. QED
  BY <1>1, <1>3 DEF Lexemes!Cut

\* The loops over code points of one kind make the lexemes of that kind.
LEMMA RunLexeme ==
    ASSUME NEW S, NEW a, NEW b, Path(src, S, a, b)
    PROVE  /\ /\ \A u \in S : LexIsWhitespace(StrIterPeek(src, u))
              /\ ~ LexIsWhitespace(StrIterPeek(src, b))
              => Lexemes!Lexeme("Whitespace", a, b)
           /\ /\ \A u \in S : LexIsNumSym(StrIterPeek(src, u))
              /\ ~ LexIsNumSym(StrIterPeek(src, b))
              /\ LexIsNum(StrIterPeek(src, a))
              => Lexemes!Lexeme("Int", a, b)
           /\ /\ \A u \in S : IdentPart(StrIterPeek(src, u))
              /\ ~ IdentPart(StrIterPeek(src, b))
              /\ IdentStart(StrIterPeek(src, a))
              => Lexemes!Lexeme(IF SpanSlice(a, b) \in Keywords THEN "Keyword" ELSE "Ident",
                                a, b)
<1>1. S \in Lexemes!Cut(a, b)
  BY PathCut
<1>2. ASSUME \A u \in S : LexIsWhitespace(StrIterPeek(src, u)),
             ~ LexIsWhitespace(StrIterPeek(src, b))
      PROVE  Lexemes!Lexeme("Whitespace", a, b)
  BY <1>1, <1>2, SameText DEF Lexemes!Lexeme, Lexemes!Run
<1>3. ASSUME \A u \in S : LexIsNumSym(StrIterPeek(src, u)),
             ~ LexIsNumSym(StrIterPeek(src, b)), LexIsNum(StrIterPeek(src, a))
      PROVE  Lexemes!Lexeme("Int", a, b)
  BY <1>1, <1>3, SameText DEF Lexemes!Lexeme, Lexemes!Run
<1>4. ASSUME \A u \in S : IdentPart(StrIterPeek(src, u)),
             ~ IdentPart(StrIterPeek(src, b)), IdentStart(StrIterPeek(src, a))
      PROVE  Lexemes!Lexeme(IF SpanSlice(a, b) \in Keywords THEN "Keyword" ELSE "Ident",
                            a, b)
  <2>1. Lexemes!Word(a, b) = SpanSlice(a, b)
    BY DEF Lexemes!Word, SpanSlice
  <2>2. CASE SpanSlice(a, b) \in Keywords
    BY <1>1, <1>4, <2>1, <2>2, SameText DEF Lexemes!Lexeme, Lexemes!Run
  <2>3. CASE SpanSlice(a, b) \notin Keywords
    BY <1>1, <1>4, <2>1, <2>3, SameText DEF Lexemes!Lexeme, Lexemes!Run
  <2>4. QED
    BY <2>2, <2>3
<1>5. QED
  BY <1>2, <1>3, <1>4

\* A string that closes is one of Tokenizer's.
LEMMA StringLexeme ==
    ASSUME NEW S, NEW a \in Nat, NEW b \in Nat, StringOf(src, S, a, b, FALSE),
           StrIterPeek(src, b) = Quote
    PROVE  Lexemes!Lexeme("Str", a, After(src, b))
<1>1. PICK c \in Nat : c = After(src, b) /\ b < c
  BY WidthNat DEF After
<1>2. PICK T : T = S \cup {b}
  OBVIOUS
<1>3. Path(src, T, a, c) /\ Path(src, S, a, b)
  BY <1>1, <1>2, PathGrows, NothingTakesInvalid DEF StringOf, MayPath
<1>4. b \in T \ {a}
  BY <1>2, <1>3 DEF Path
<1>5. \A u \in T : After(src, u) = b => StrIterPeek(src, u) # Backslash
  BY <1>1, <1>2 DEF StringOf
<1>6. Lexemes!Closes(T, b) /\ Lexemes!Follows(b, c)
  BY <1>1, <1>5, SameText DEF Lexemes!Closes
<1>7. ASSUME NEW q \in T \ {a}, Lexemes!Closes(T, q)
      PROVE  Lexemes!Follows(q, c)
  <2>1. StrIterPeek(src, q) = Quote
    BY <1>7, SameText DEF Lexemes!Closes
  <2>2. ~ \E v \in S : After(src, v) = q /\ StrIterPeek(src, v) = Backslash
    BY <1>2, <1>7, SameText DEF Lexemes!Closes
  <2>3. q = b
    BY <1>2, <2>1, <2>2 DEF StringOf
  <2>4. QED
    BY <1>6, <2>3
<1>8. T \in Lexemes!Cut(a, c)
  BY <1>3, PathCut
<1>9. Lexemes!StringLexeme(a, c)
  BY <1>4, <1>6, <1>7, <1>8, SameText DEF StringOf, Lexemes!StringLexeme
<1>10. QED
  BY <1>1, <1>9 DEF Lexemes!Lexeme

\* A path goes on until a byte that does not decode, and so does every other
\* one from the same place.
LEMMA CutWithin ==
    ASSUME NEW S, NEW a \in Nat, NEW b \in Nat, NEW c \in Nat, NEW units,
           Path(src, S, a, b), StrIterPeek(src, b) = kInvalidCodepoint,
           units \in Lexemes!Cut(a, c)
    PROVE  units \subseteq S
<1>1. /\ units \in SUBSET (a .. c - 1)
      /\ \A u \in units : /\ StrIterPeek(src, u) # kInvalidCodepoint
                          /\ u # a => \E v \in units : After(src, v) = u
  BY SameText DEF Lexemes!Cut, Lexemes!Units
<1> SUFFICES ASSUME NEW x \in units, x \notin S PROVE FALSE
  OBVIOUS
<1> DEFINE Out == { u \in units : u \notin S }
<1>2. PICK u \in Out : \A w \in Out : u <= w
  <2>1. Out \subseteq Nat /\ Out # {}
    <3>1. \A u \in units : u \in Nat
      BY <1>1
    <3>2. x \in Out
      OBVIOUS
    <3>3. QED
      BY <3>1, <3>2
  <2>2. QED
    BY <2>1, LeastOfNat
<1>3. a \in S
  BY DEF Path
<1>4. PICK v \in units : After(src, v) = u
  BY <1>1, <1>2, <1>3
<1>5. v < u
  <2>1. v \in Nat /\ u \in Nat
    BY <1>1, <1>2
  <2>2. PICK w \in Nat : w = Width(src, v) /\ w >= 1
    BY WidthNat
  <2>3. QED
    BY <1>4, <2>1, <2>2 DEF After
<1>6. v \in S
  BY <1>1, <1>2, <1>5
<1>7. u \in S \cup {b}
  BY <1>4, <1>6 DEF Path
<1>8. QED
  BY <1>1, <1>2, <1>7

\* A string that the text ends in does not close anywhere.
LEMMA NoStringLexeme ==
    ASSUME NEW S, NEW a \in Nat, NEW b \in Nat, NEW c \in Nat, NEW esc,
           StringOf(src, S, a, b, esc), StrIterPeek(src, b) = kInvalidCodepoint
    PROVE  ~ Lexemes!StringLexeme(a, c)
<1> SUFFICES ASSUME NEW units \in Lexemes!Cut(a, c), NEW q \in units \ {a},
                    Lexemes!Closes(units, q)
             PROVE  FALSE
  BY DEF Lexemes!StringLexeme
<1>1. Path(src, S, a, b)
  BY DEF StringOf
<1>2. units \subseteq S
  BY <1>1, CutWithin
<1>3. StrIterPeek(src, q) = Quote
  BY SameText DEF Lexemes!Closes
<1>4. PICK v \in S : After(src, v) = q /\ StrIterPeek(src, v) = Backslash
  BY <1>2, <1>3 DEF StringOf
<1>5. PICK w \in units : After(src, w) = q
  BY SameText DEF Lexemes!Cut, Lexemes!Units
<1>6. v = w
  BY <1>1, <1>2, <1>4, <1>5, PathInjective
<1>7. QED
  BY <1>4, <1>5, <1>6, SameText DEF Lexemes!Closes

\* A symbol that is spelled with its own byte is one of Tokenizer's, and no
\* other is.
LEMMA SymLexeme ==
    ASSUME NEW a \in Nat, LexIsSpecial(StrIterPeek(src, a))
    PROVE  IF TokSymKindGet(SpanSlice(a, After(src, a)))
           THEN Lexemes!Lexeme("Sym", a, After(src, a))
           ELSE \A b : ~ Lexemes!Lexeme("Sym", a, b)
<1>1. \A b : Lexemes!Word(a, b) = SpanSlice(a, b)
  BY DEF Lexemes!Word, SpanSlice
<1>2. QED
  BY <1>1, SameText DEF Lexemes!Lexeme

-----------------------------------------------------------------------------
(***************************************************************************)
(* Every step is one of Tokenizer's or is not seen                         *)
(***************************************************************************)

\* The lexer begins where Tokenizer does.
LEMMA InitCuts == Init => Lexemes!AbsInit
<1> SUFFICES ASSUME Init PROVE Lexemes!AbsInit
  OBVIOUS
<1>1. src \in Seq(Byte) /\ Len(src) >= Slack
  BY TypeInit, LexerAssumption DEF TypeOK, Size, Slack
<1>2. pc = "loop" /\ result = "kLexNoErr" /\ pos.off = 0 /\ toks = <<>>
  BY DEF Init, MakePos
<1>3. LexAt = 0 /\ LexVerdict = "running" /\ LexOut = <<>>
  <2>1. LexAt = 0 /\ LexVerdict = "running"
    BY <1>2 DEF LexAt, LexVerdict, Scanning
  <2>2. LexOut = <<>>
    BY <1>2 DEF LexOut
  <2>3. QED
    BY <2>1, <2>2
<1>4. src \in Seq(Lexemes!Byte) /\ Len(src) >= Lexemes!Slack
  BY <1>1 DEF Lexemes!Byte, Byte, Lexemes!Slack, Slack
<1>5. QED
  BY <1>3, <1>4, SMTT(30) DEF Lexemes!AbsInit, LexAt, LexVerdict, LexOut

\* A token more is a lexeme more.
LEMMA OutAppends ==
    ASSUME TypeOK, NEW kind, NEW b, NEW e,
           toks' = Append(toks, [kind |-> kind, beg |-> b, end |-> e])
    PROVE  LexOut' = Append(LexOut, [kind |-> kind, beg |-> b.off, end |-> e.off])
<1>1. PICK t : t = [kind |-> kind, beg |-> b, end |-> e]
  OBVIOUS
<1>2. t.kind = kind /\ t.beg = b /\ t.end = e
  BY <1>1
<1>3. toks \in Seq(Token) /\ Len(toks) \in Nat
  BY DEF TypeOK
<1>4. /\ Len(toks') = Len(toks) + 1 /\ toks'[Len(toks) + 1] = t
      /\ \A i \in 1 .. Len(toks) : toks'[i] = toks[i]
  BY <1>1, <1>3
<1> DEFINE Of(s) == [i \in 1 .. Len(s) |-> [kind |-> s[i].kind,
                                           beg |-> s[i].beg.off,
                                           end |-> s[i].end.off]]
<1>5. PICK new : new = [kind |-> kind, beg |-> b.off, end |-> e.off]
  OBVIOUS
<1>6. Of(toks') = [i \in 1 .. Len(toks) + 1 |->
                     IF i = Len(toks) + 1 THEN new ELSE Of(toks)[i]]
  BY <1>2, <1>3, <1>4, <1>5
<1>7. Append(Of(toks), new) = [i \in 1 .. Len(toks) + 1 |->
                                 IF i = Len(toks) + 1 THEN new ELSE Of(toks)[i]]
  <2>1. Len(Of(toks)) = Len(toks)
    BY <1>3
  <2>2. QED
    BY <1>3, <2>1
<1>8. QED
  BY <1>5, <1>6, <1>7 DEF LexOut

\* What the lexer pushes is what Tokenizer takes.
LEMMA Takes ==
    ASSUME CutInv, UNCHANGED src, pc # "done", pc' # "done", UNCHANGED result,
           NEW kind \in TokKind, NEW b \in Position, NEW e \in Position,
           toks' = Append(toks, [kind |-> kind, beg |-> b, end |-> e]),
           b.off = LexAt, e.off = LexAt',
           b.off < e.off, e.off <= Size(src) + Slack,
           Lexemes!Lexeme(kind, b.off, e.off)
    PROVE  Lexemes!AbsNext
<1>1. LexOut' = Append(LexOut, [kind |-> kind, beg |-> LexAt, end |-> e.off])
  BY OutAppends DEF CutInv, IInv
<1>2. e.off \in LexAt + 1 .. Size(src) + Slack
  <2>1. /\ b.off \in Nat /\ e.off \in Nat /\ Size(src) + Slack \in Nat
    <3>1. b.off \in Nat /\ e.off \in Nat
      BY DEF Position
    <3>2. QED
      BY <3>1, LexerAssumption DEF CutInv, IInv, TypeOK, Slack
  <2>2. PICK x, y, top : x = b.off /\ y = e.off /\ top = Size(src) + Slack
    OBVIOUS
  <2>3. x \in Nat /\ y \in Nat /\ top \in Int /\ x < y /\ y <= top
    BY <2>1, <2>2
  <2>4. y \in x + 1 .. top
    BY <2>3
  <2>5. QED
    BY <2>2, <2>4
<1>3. LexVerdict = "running" /\ LexVerdict' = "running"
  BY DEF LexVerdict
<1>4. kind \in Lexemes!LexemeKind
  BY DEF TokKind, Lexemes!LexemeKind
<1>5. e.off \in Lexemes!Ends
  BY <1>2 DEF Lexemes!Ends, Lexemes!Size, Size, Lexemes!Slack, Slack, LexAt
<1>6. /\ Lexemes!Lexeme(kind, LexAt, e.off)
      /\ LexAt' = e.off
      /\ LexVerdict' = LexVerdict
  BY <1>3
<1>7. Lexemes!TakeLexeme
  <2>1. \E k \in Lexemes!LexemeKind, z \in Lexemes!Ends :
           /\ Lexemes!Lexeme(k, LexAt, z)
           /\ LexOut' = Append(LexOut, [kind |-> k, beg |-> LexAt, end |-> z])
           /\ LexAt' = z
           /\ LexVerdict' = LexVerdict
    BY <1>1, <1>4, <1>5, <1>6
  <2>2. QED
    BY <2>1 DEF Lexemes!TakeLexeme, LexAt, LexOut, LexVerdict
<1>8. QED
  BY <1>3, <1>7 DEF Lexemes!AbsNext, LexVerdict

\* What pushes nothing and takes nothing is not seen.
LEMMA Unseen ==
    ASSUME UNCHANGED <<src, toks>>, LexAt' = LexAt, LexVerdict' = LexVerdict
    PROVE  UNCHANGED Lexemes!absVars
BY DEF Lexemes!absVars, LexAt, LexVerdict

\* The place of the next lexeme, while the lexer runs.
LEMMA LexAtIs ==
    ASSUME CutInv, pc # "done"
    PROVE  /\ result = "kLexNoErr"
           /\ pc \in Scanning => LexAt = beg.off
           /\ pc \notin Scanning => LexAt = pos.off
           /\ LexVerdict = "running"
BY DEF CutInv, IInv, Tiling, LexAt, LexVerdict

\* The end of a loop.
LEMMA EndCuts ==
    ASSUME CutInv, UNCHANGED <<src, pos, beg, result>>, pc \in Scanning,
           pc' \notin Scanning \cup {"done"}, NEW kind \in TokKind,
           TokListPush(kind, pos), beg.off < pos.off,
           Lexemes!Lexeme(kind, beg.off, pos.off)
    PROVE  Lexemes!AbsNext
<1>1. /\ pc # "done" /\ pc' # "done"
      /\ toks' = Append(toks, [kind |-> kind, beg |-> beg, end |-> pos])
  BY DEF TokListPush, Scanning
<1>2. LexAt = beg.off /\ LexAt' = pos.off
  BY <1>1, LexAtIs DEF LexAt
<1>3. beg \in Position /\ pos \in Position /\ pos.off <= Size(src) + Slack
  BY DEF CutInv, IInv, TypeOK
<1>4. QED
  BY <1>1, <1>2, <1>3, Takes

\* A handler that skips, begins or goes on.
LEMMA QuietCuts ==
    ASSUME CutInv, UNCHANGED <<src, toks, result>>, pc # "done", pc' # "done",
           \/ pc \notin Scanning /\ pc' \notin Scanning /\ pos' = pos
           \/ pc \notin Scanning /\ pc' \in Scanning /\ beg' = pos
           \/ pc \in Scanning /\ pc' \in Scanning /\ beg' = beg
           \/ pc \in Scanning /\ pc' \notin Scanning /\ beg.off = pos.off /\ pos' = pos
    PROVE  UNCHANGED Lexemes!absVars
<1>1. LexAt' = LexAt /\ LexVerdict' = LexVerdict
  BY LexAtIs DEF LexAt, LexVerdict
<1>2. QED
  BY <1>1, Unseen

\* The text is refused.
LEMMA Refuses ==
    ASSUME CutInv, UNCHANGED src, pc # "done", NEW err, Fail(err), LexAt' = LexAt,
           \/ /\ err = "kLexNonTermStr" /\ StrIterPeek(src, LexAt) = Quote
              /\ \A c \in Nat : ~ Lexemes!StringLexeme(LexAt, c)
           \/ /\ err = "kLexUnexpectedSym" /\ LexIsSpecial(StrIterPeek(src, LexAt))
              /\ \A c \in Nat : ~ Lexemes!Lexeme("Sym", LexAt, c)
           \/ err = "kLexUnexpectedSym" /\ Lexemes!Stray(StrIterPeek(src, LexAt))
    PROVE  Lexemes!AbsNext
<1>1. LexVerdict = "running" /\ LexVerdict' = err /\ toks' = <<>>
  BY LexAtIs DEF LexVerdict, Fail
<1>2. LexOut' = <<>>
  BY <1>1 DEF LexOut
<1>3. LexAt \in Nat
  BY LexAtIs, Offsets DEF CutInv
<1>4. \A c \in LexAt + 1 .. Lexemes!Size(src) + Lexemes!Slack : c \in Nat
  BY <1>3
<1>5. Lexemes!Refuse
  BY <1>1, <1>2, <1>4, SameText
     DEF Lexemes!Refuse, Lexemes!Ends, LexAt, LexVerdict, LexOut
<1>6. QED
  BY <1>1, <1>5 DEF Lexemes!AbsNext, LexVerdict

\* What tok_list_lex does around the handlers.
LEMMA LoopCuts ==
    ASSUME CutInv, UNCHANGED src, Loop
    PROVE  [Lexemes!AbsNext]_(Lexemes!absVars)
<1>1. CASE LoopBegin
  BY <1>1, QuietCuts DEF LoopBegin, TokListSame, Scanning
<1>2. CASE LoopEnd
  <2>1. /\ pc = "loop" /\ pc' = "done" /\ UNCHANGED <<pos, toks, result>>
        /\ LexPeek = kInvalidCodepoint
    BY <1>2 DEF LoopEnd, TokListSame
  <2>2. /\ result = "kLexNoErr" /\ LexAt = pos.off /\ LexVerdict = "running"
        /\ LexAt' = pos.off /\ LexVerdict' = "kLexNoErr"
    BY <2>1, LexAtIs DEF LexAt, LexVerdict, Scanning
  <2>3. Lexemes!Accept
    BY <2>1, <2>2, SameText DEF Lexemes!Accept, LexAt, LexVerdict, LexPeek
  <2>4. QED
    BY <2>2, <2>3 DEF Lexemes!AbsNext, LexVerdict
<1>3. CASE CheckStuck
  <2>1. /\ pc = "check" /\ iter = pos.off /\ UNCHANGED <<pos, beg>>
        /\ Fail("kLexUnexpectedSym") /\ pc # "done"
    BY <1>3 DEF CheckStuck
  <2>2. beg.off = pos.off
    BY <2>1, Offsets DEF CutInv, BegunHere
  <2>3. LexAt = pos.off /\ LexAt' = LexAt
    BY <2>1, <2>2, LexAtIs DEF LexAt, Fail, Scanning
  <2>4. Lexemes!Stray(LexPeek)
    BY <2>1, SameText DEF CutInv, Offered, Lexemes!Stray
  <2>5. QED
    BY <2>1, <2>3, <2>4, Refuses DEF LexPeek
<1>4. CASE CheckMoved
  BY <1>4, QuietCuts DEF CheckMoved, Skip, TokListSame, Scanning
<1>5. QED
  BY <1>1, <1>2, <1>3, <1>4 DEF Loop

\* lex_handle_whitespace, lex_handle_ident and lex_handle_num.
LEMMA RunCuts ==
    ASSUME CutInv, UNCHANGED src, Whitespace \/ Ident \/ Num
    PROVE  [Lexemes!AbsNext]_(Lexemes!absVars)
<1>1. CASE WhitespaceBegin \/ IdentBegin \/ NumBegin
  BY <1>1, QuietCuts DEF WhitespaceBegin, IdentBegin, NumBegin, Begin, TokListSame, Scanning
<1>2. CASE WhitespaceScan \/ IdentScan \/ NumScan
  BY <1>2, QuietCuts DEF WhitespaceScan, IdentScan, NumScan, Scan, TokListSame, Scanning
<1>3. CASE IdentSkip \/ NumSkip
  BY <1>3, QuietCuts DEF IdentSkip, NumSkip, Skip, TokListSame, Scanning
<1>4. CASE WhitespaceEnd
  <2>1. CASE beg.off = pos.off
    BY <1>4, <2>1, QuietCuts DEF WhitespaceEnd, Skip, TokListSame, Scanning
  <2>2. CASE beg.off # pos.off
    <3>1. /\ pc = "whitespace_loop" /\ pc' = "newline" /\ ~ LexIsWhitespace(LexPeek)
          /\ UNCHANGED <<pos, beg, result>> /\ TokListPush("Whitespace", pos)
      BY <1>4, <2>2 DEF WhitespaceEnd, End
    <3>2. PICK S : /\ MayPath(src, S, beg.off, pos.off)
                   /\ \A u \in S : LexIsWhitespace(StrIterPeek(src, u))
      BY <3>1 DEF CutInv, Scanned
    <3>3. Path(src, S, beg.off, pos.off) /\ beg.off < pos.off
      BY <2>2, <3>2, Offsets DEF MayPath, CutInv
    <3>4. Lexemes!Lexeme("Whitespace", beg.off, pos.off)
      BY <3>1, <3>2, <3>3, RunLexeme DEF LexPeek
    <3>5. QED
      BY <3>1, <3>3, <3>4, EndCuts DEF Scanning, TokKind
  <2>3. QED
    BY <2>1, <2>2
<1>5. CASE IdentEnd
  <2>1. PICK kind \in TokKind :
           kind = IF SpanSlice(beg.off, pos.off) \in Keywords THEN "Keyword" ELSE "Ident"
    BY DEF TokKind
  <2>2. /\ pc = "ident_loop" /\ pc' = "num" /\ ~ IdentPart(LexPeek)
        /\ UNCHANGED <<pos, beg, result>> /\ TokListPush(kind, pos)
    BY <1>5, <2>1 DEF IdentEnd, End
  <2>3. PICK S : /\ MayPath(src, S, beg.off, pos.off)
                 /\ \A u \in S : IdentPart(StrIterPeek(src, u))
    BY <2>2 DEF CutInv, Scanned
  <2>4. beg.off < pos.off /\ IdentStart(StrIterPeek(src, beg.off))
    BY <2>2 DEF CutInv, IInv, LexemeBegun, Scanned
  <2>5. Path(src, S, beg.off, pos.off)
    BY <2>3, <2>4, Offsets DEF MayPath, CutInv
  <2>6. Lexemes!Lexeme(kind, beg.off, pos.off)
    BY <2>1, <2>2, <2>3, <2>4, <2>5, RunLexeme DEF LexPeek
  <2>7. QED
    BY <2>2, <2>4, <2>6, EndCuts DEF Scanning
<1>6. CASE NumEnd
  <2>1. /\ pc = "num_loop" /\ pc' = "str" /\ ~ LexIsNumSym(LexPeek)
        /\ UNCHANGED <<pos, beg, result>> /\ TokListPush("Int", pos)
    BY <1>6 DEF NumEnd, End
  <2>2. PICK S : /\ MayPath(src, S, beg.off, pos.off)
                 /\ \A u \in S : LexIsNumSym(StrIterPeek(src, u))
    BY <2>1 DEF CutInv, Scanned
  <2>3. beg.off < pos.off /\ LexIsNum(StrIterPeek(src, beg.off))
    BY <2>1 DEF CutInv, IInv, LexemeBegun, Scanned
  <2>4. Path(src, S, beg.off, pos.off)
    BY <2>2, <2>3, Offsets DEF MayPath, CutInv
  <2>5. Lexemes!Lexeme("Int", beg.off, pos.off)
    BY <2>1, <2>2, <2>3, <2>4, RunLexeme DEF LexPeek
  <2>6. QED
    BY <2>1, <2>3, <2>5, EndCuts DEF Scanning, TokKind
<1>7. QED
  BY <1>1, <1>2, <1>3, <1>4, <1>5, <1>6 DEF Whitespace, Ident, Num

\* lex_handle_newline.
LEMMA NewlineCuts ==
    ASSUME CutInv, UNCHANGED src, Newline
    PROVE  [Lexemes!AbsNext]_(Lexemes!absVars)
<1>1. CASE NewlineTake
  <2>1. /\ pc = "newline" /\ pc' = "ident" /\ UNCHANGED <<beg, toks, result>>
        /\ LexPeek = LineFeed /\ pos'.off = After(src, pos.off)
    BY <1>1 DEF NewlineTake, TokListSame, LexNext, MakePos, After
  <2>2. LexAt = pos.off /\ LexAt' = After(src, pos.off)
    BY <2>1, LexAtIs DEF LexAt, Scanning
  <2>3. LexVerdict = "running" /\ LexVerdict' = "running"
    BY <2>1, LexAtIs DEF LexVerdict
  <2>4. Lexemes!DropNewline
    BY <2>1, <2>2, <2>3, SameText
       DEF Lexemes!DropNewline, LexAt, LexVerdict, LexPeek
  <2>5. QED
    BY <2>3, <2>4 DEF Lexemes!AbsNext, LexVerdict
<1>2. CASE NewlineSkip
  BY <1>2, QuietCuts DEF NewlineSkip, Skip, TokListSame, Scanning
<1>3. QED
  BY <1>1, <1>2 DEF Newline

\* lex_handle_str.
LEMMA StrCuts ==
    ASSUME CutInv, TypeOK', UNCHANGED src, Str
    PROVE  [Lexemes!AbsNext]_(Lexemes!absVars)
<1>1. CASE StrSkip
  BY <1>1, QuietCuts DEF StrSkip, Skip, TokListSame, Scanning
<1>2. CASE StrBegin \/ StrChar
  BY <1>2, QuietCuts DEF StrBegin, StrChar, TokListSame, Scanning
<1>3. CASE StrClose
  <2>1. /\ pc = "str_loop" /\ pc' = "special" /\ LexPeek = Quote /\ ~ escaped
        /\ pos' = LexNext(pos) /\ UNCHANGED <<beg, result>>
        /\ toks' = Append(toks, [kind |-> "Str", beg |-> beg, end |-> pos'])
    BY <1>3 DEF StrClose, TokListPush
  <2>2. PICK S : StringOf(src, S, beg.off, pos.off, escaped)
    BY <2>1 DEF CutInv, Scanned
  <2>3. /\ pos'.off = After(src, pos.off) /\ pos.off < pos'.off
        /\ pos.off \in Nat /\ beg.off \in Nat /\ beg.off <= pos.off
        /\ pos' \in Position /\ beg \in Position /\ pos'.off \in Nat
        /\ pos'.off <= Size(src) + Slack /\ escaped = FALSE
    BY <2>1, Moved, Offsets, NothingTakesInvalid DEF CutInv, IInv, TypeOK, Position
  <2>4. Lexemes!Lexeme("Str", beg.off, pos'.off)
    BY <2>1, <2>2, <2>3, StringLexeme DEF LexPeek
  <2>5. LexAt = beg.off /\ LexAt' = pos'.off
    BY <2>1, LexAtIs DEF LexAt, Scanning
  <2>6. beg.off < pos'.off
    BY <2>3
  <2>7. Lexemes!AbsNext
    BY <2>1, <2>3, <2>4, <2>5, <2>6, Takes DEF TokKind
  <2>8. QED
    BY <2>7
<1>4. CASE StrUnterminated
  <2>1. /\ pc = "str_loop" /\ LexPeek = kInvalidCodepoint /\ UNCHANGED <<pos, beg>>
        /\ Fail("kLexNonTermStr")
    BY <1>4 DEF StrUnterminated
  <2>2. PICK S : StringOf(src, S, beg.off, pos.off, escaped)
    BY <2>1 DEF CutInv, Scanned
  <2>3. LexAt = beg.off /\ LexAt' = beg.off
    BY <2>1, LexAtIs DEF LexAt, Scanning, Fail
  <2>4. StrIterPeek(src, beg.off) = Quote
    BY <2>2 DEF StringOf
  <2>5. \A c \in Nat : ~ Lexemes!StringLexeme(beg.off, c)
    BY <2>1, <2>2, Offsets, NoStringLexeme DEF LexPeek, CutInv
  <2>6. QED
    BY <2>1, <2>3, <2>4, <2>5, Refuses DEF LexErr
<1>5. QED
  BY <1>1, <1>2, <1>3, <1>4 DEF Str

\* lex_handle_special.
LEMMA SpecialCuts ==
    ASSUME CutInv, TypeOK', UNCHANGED src, Special
    PROVE  [Lexemes!AbsNext]_(Lexemes!absVars)
<1>1. CASE SpecialSkip
  BY <1>1, QuietCuts DEF SpecialSkip, Skip, TokListSame, Scanning
<1>2. CASE SpecialTake
  <2>1. /\ pc = "special" /\ LexIsSpecial(LexPeek) /\ LexPeek # kInvalidCodepoint
        /\ pos' = LexNext(pos) /\ beg' = pos
    BY <1>2, NothingTakesInvalid DEF SpecialTake
  <2>2. /\ pos'.off = After(src, pos.off) /\ pos.off < pos'.off
        /\ pos \in Position /\ pos' \in Position /\ pos.off \in Nat
        /\ pos'.off <= Size(src) + Slack
    BY <2>1, Moved, Offsets DEF CutInv, IInv, TypeOK
  <2>3. LexAt = pos.off
    BY <2>1, LexAtIs DEF Scanning
  <2>4. CASE TokSymKindGet(SpanSlice(pos.off, pos'.off))
    <3>1. Lexemes!Lexeme("Sym", pos.off, pos'.off)
      BY <2>1, <2>2, <2>4, SymLexeme DEF LexPeek
    <3>2. /\ pc' = "check" /\ UNCHANGED result
          /\ toks' = Append(toks, [kind |-> "Sym", beg |-> pos, end |-> pos'])
      BY <1>2, <2>4 DEF SpecialTake
    <3>3. LexAt' = pos'.off
      BY <2>1, <3>2, LexAtIs DEF LexAt, Scanning
    <3>4. Lexemes!AbsNext
      BY <2>1, <2>2, <2>3, <3>1, <3>2, <3>3, Takes DEF TokKind
    <3>5. QED
      BY <3>4
  <2>5. CASE ~ TokSymKindGet(SpanSlice(pos.off, pos'.off))
    <3>1. Fail("kLexUnexpectedSym")
      BY <1>2, <2>5 DEF SpecialTake
    <3>2. LexAt' = LexAt
      BY <2>1, <2>3, <3>1 DEF LexAt, Fail
    <3>3. \A c \in Nat : ~ Lexemes!Lexeme("Sym", LexAt, c)
      BY <2>1, <2>2, <2>3, <2>5, SymLexeme DEF LexPeek
    <3>4. QED
      BY <2>1, <2>3, <3>1, <3>2, <3>3, Refuses DEF LexPeek
  <2>6. QED
    BY <2>4, <2>5
<1>3. QED
  BY <1>1, <1>2 DEF Special

\* Every step is a step of Tokenizer, or leaves what it sees as it is.
LEMMA NextCuts == CutInv /\ [Next]_vars => [Lexemes!AbsNext]_(Lexemes!absVars)
<1> SUFFICES ASSUME CutInv, [Next]_vars PROVE [Lexemes!AbsNext]_(Lexemes!absVars)
  OBVIOUS
<1>1. TypeOK' /\ UNCHANGED src
  BY TypeStep, PositionsMove DEF CutInv, IInv
<1>2. CASE UNCHANGED vars
  BY <1>2 DEF vars, Lexemes!absVars
<1>3. CASE Next
  BY <1>1, <1>3, LoopCuts, RunCuts, NewlineCuts, StrCuts, SpecialCuts DEF Next
<1>4. QED
  BY <1>2, <1>3

\* The six handlers, their order and their lookahead of one code point cut
\* every source as Tokenizer says, whatever its size and the keywords, and
\* refuse what it refuses.
THEOREM LexerImplements == Spec => ImplementsTokenizer
<1>1. Spec => []CutInv
  BY CutInit, CutStep, PTL DEF Spec
<1>2. QED
  BY <1>1, InitCuts, NextCuts, PTL DEF Spec, ImplementsTokenizer, Lexemes!AbsSpec
-----------------------------------------------------------------------------
(***************************************************************************)
(* The lexer comes to its end: StepsLeft bounds the steps to come.         *)
(***************************************************************************)

\* The bound falls when the rest of the iteration gets shorter, when a code
\* point is taken without going back in it, and when the next iteration
\* begins further on than this one did.
LEMMA BoundFalls ==
    ASSUME TypeOK, TypeOK', UNCHANGED src,
           pos.off <= pos'.off, Began <= Began',
           \/ Rank' < Rank
           \/ Rank' <= Rank /\ pos.off < pos'.off
           \/ Rank' <= Rank + 11 /\ Began < Began'
    PROVE  StepsLeft' \in Nat /\ StepsLeft' < StepsLeft
<1> DEFINE end == Size(src) + Slack
<1>1. /\ end \in Int /\ pos.off \in Nat /\ iter \in Nat
      /\ pos.off <= end /\ iter <= pos.off
  <2>1. Size(src) \in Int
    BY LexerAssumption DEF TypeOK
  <2>2. /\ pos \in Position /\ pos.off <= end
        /\ iter \in Nat /\ iter <= pos.off
    BY Zenon DEF TypeOK
  <2>3. pos.off \in Nat
    BY <2>2 DEF Position
  <2>4. end \in Int
    BY <2>1 DEF Slack
  <2>5. QED
    BY <2>2, <2>3, <2>4
<1>2. /\ pos'.off \in Nat /\ iter' \in Nat
      /\ pos'.off <= end /\ iter' <= pos'.off
  <2>1. Size(src') = Size(src)
    OBVIOUS
  <2>2. /\ pos' \in Position /\ pos'.off <= Size(src') + Slack
        /\ iter' \in Nat /\ iter' <= pos'.off
    BY Zenon DEF TypeOK
  <2>3. pos'.off \in Nat
    BY <2>2 DEF Position
  <2>4. pos'.off <= end
    BY <2>1, <2>2, Zenon
  <2>5. QED
    BY <2>2, <2>3, <2>4
<1>3. Began \in Nat /\ Began' \in Nat /\ Began' <= end
  BY <1>1, <1>2 DEF Began
<1>4. Rank \in Nat /\ Rank' \in Nat
  BY DEF TypeOK, Label, Scanning, Rank
<1>5. /\ StepsLeft = (end - pos.off) + 12 * (end - Began) + Rank
      /\ StepsLeft' = (end - pos'.off) + 12 * (end - Began') + Rank'
  BY DEF StepsLeft
<1> HIDE DEF end
<1>6. QED
  BY <1>1, <1>2, <1>3, <1>4, <1>5

\* Within an iteration the place it began at stays, or the lexer stops and
\* begins no other, ...
LEMMA BeganStays ==
    ASSUME TypeOK, TypeOK', UNCHANGED iter, pc \notin {"loop", "done"}, pc' # "loop"
    PROVE  Began <= Began'
<1>1. Began = iter /\ Began' \in {iter, pos'.off}
  BY DEF Began
<1>2. iter \in Nat /\ iter <= pos'.off
  BY DEF TypeOK, Position
<1>3. QED
  BY <1>1, <1>2

\* ... so that a step of a handler lowers the bound when it takes nothing and
\* leaves less of the iteration, ...
LEMMA LeavesLess ==
    ASSUME TypeOK, TypeOK', UNCHANGED <<src, pos, iter>>,
           pc \notin {"loop", "done"}, pc' # "loop", Rank' < Rank
    PROVE  StepsLeft' \in Nat /\ StepsLeft' < StepsLeft
<1>1. pos.off \in Nat /\ pos.off <= pos'.off
  BY DEF TypeOK, Position
<1>2. QED
  BY <1>1, BeganStays, BoundFalls

\* ... and when it takes a code point.
LEMMA TakesCodepoint ==
    ASSUME TypeOK, TypeOK', UNCHANGED <<src, iter>>,
           LexPeek # kInvalidCodepoint, pos' = LexNext(pos),
           pc \notin {"loop", "done"}, pc' # "loop", Rank' <= Rank
    PROVE  StepsLeft' \in Nat /\ StepsLeft' < StepsLeft
<1>1. pos.off \in Nat /\ pos'.off \in Nat /\ pos.off < pos'.off
  BY NextPosition DEF TypeOK, Position
<1>2. pos.off <= pos'.off
  BY <1>1
<1>3. QED
  BY <1>1, <1>2, BeganStays, BoundFalls

\* The outer loop: an iteration begins where the last one stopped, beyond the
\* place where that one began.
LEMMA LoopFalls ==
    ASSUME TypeOK, TypeOK', UNCHANGED src, Loop
    PROVE  StepsLeft' \in Nat /\ StepsLeft' < StepsLeft
<1>1. /\ pos.off \in Nat /\ iter \in Nat /\ iter <= pos.off
      /\ Began \in Nat
  BY DEF TypeOK, Position, Began
<1>2. CASE LoopBegin
  <2>1. /\ pc = "loop" /\ pc' = "whitespace"
        /\ pos' = pos /\ iter' = pos.off
    BY <1>2 DEF LoopBegin
  <2>2. Rank' < Rank /\ Began' = Began
    BY <2>1 DEF Rank, Began
  <2>3. pos.off <= pos'.off /\ Began <= Began'
    BY <1>1, <2>1, <2>2
  <2>4. QED
    BY <2>2, <2>3, BoundFalls
<1>3. CASE LoopEnd
  <2>1. /\ pc = "loop" /\ pc' = "done" /\ pos' = pos
    BY <1>3 DEF LoopEnd
  <2>2. Rank' < Rank /\ Began' = Began
    BY <2>1 DEF Rank, Began
  <2>3. pos.off <= pos'.off /\ Began <= Began'
    BY <1>1, <2>1, <2>2
  <2>4. QED
    BY <2>2, <2>3, BoundFalls
<1>4. CASE CheckMoved
  <2>1. /\ pc = "check" /\ pc' = "loop" /\ pos' = pos
        /\ iter # pos.off
    BY <1>4 DEF CheckMoved, Skip
  <2>2. Began < Began' /\ Began <= Began' /\ pos.off <= pos'.off
    BY <1>1, <2>1 DEF Began
  <2>3. Rank' <= Rank + 11
    BY <2>1 DEF Rank
  <2>4. QED
    BY <2>2, <2>3, BoundFalls
<1>5. CASE CheckStuck
  <2>1. pc = "check" /\ pc' = "done" /\ UNCHANGED <<pos, iter>>
    BY <1>5 DEF CheckStuck, Fail
  <2>2. Rank' < Rank
    BY <2>1 DEF Rank
  <2>3. QED
    BY <2>1, <2>2, LeavesLess
<1>6. QED
  BY <1>2, <1>3, <1>4, <1>5 DEF Loop

\* Every step of a handler.
LEMMA HandlerFalls ==
    ASSUME TypeOK, TypeOK', UNCHANGED src,
           Whitespace \/ Newline \/ Ident \/ Num \/ Str \/ Special
    PROVE  StepsLeft' \in Nat /\ StepsLeft' < StepsLeft
<1>1. CASE Whitespace
  <2>1. CASE WhitespaceBegin
    <3>1. /\ UNCHANGED <<pos, iter>> /\ Rank' < Rank
          /\ pc \notin {"loop", "done"} /\ pc' # "loop"
      BY <2>1 DEF WhitespaceBegin, Begin, Rank
    <3>2. QED
      BY <3>1, LeavesLess
  <2>2. CASE WhitespaceScan
    <3>1. /\ LexPeek # kInvalidCodepoint /\ pos' = LexNext(pos)
          /\ iter' = iter /\ Rank' <= Rank
          /\ pc \notin {"loop", "done"} /\ pc' # "loop"
      BY <2>2, NothingTakesInvalid DEF WhitespaceScan, Scan, Rank
    <3>2. QED
      BY <3>1, TakesCodepoint
  <2>3. CASE WhitespaceEnd
    <3>1. /\ UNCHANGED <<pos, iter>> /\ Rank' < Rank
          /\ pc \notin {"loop", "done"} /\ pc' # "loop"
      BY <2>3 DEF WhitespaceEnd, End, Skip, Rank
    <3>2. QED
      BY <3>1, LeavesLess
  <2>4. QED
    BY <1>1, <2>1, <2>2, <2>3 DEF Whitespace
<1>2. CASE Newline
  <2>1. CASE NewlineTake
    <3>1. /\ LexPeek # kInvalidCodepoint /\ pos' = LexNext(pos)
          /\ iter' = iter /\ Rank' <= Rank
          /\ pc \notin {"loop", "done"} /\ pc' # "loop"
      BY <2>1, NothingTakesInvalid DEF NewlineTake, Rank
    <3>2. QED
      BY <3>1, TakesCodepoint
  <2>2. CASE NewlineSkip
    <3>1. /\ UNCHANGED <<pos, iter>> /\ Rank' < Rank
          /\ pc \notin {"loop", "done"} /\ pc' # "loop"
      BY <2>2 DEF NewlineSkip, Skip, Rank
    <3>2. QED
      BY <3>1, LeavesLess
  <2>3. QED
    BY <1>2, <2>1, <2>2 DEF Newline
<1>3. CASE Ident
  <2>1. CASE IdentSkip
    <3>1. /\ UNCHANGED <<pos, iter>> /\ Rank' < Rank
          /\ pc \notin {"loop", "done"} /\ pc' # "loop"
      BY <2>1 DEF IdentSkip, Skip, Rank
    <3>2. QED
      BY <3>1, LeavesLess
  <2>2. CASE IdentBegin
    <3>1. /\ UNCHANGED <<pos, iter>> /\ Rank' < Rank
          /\ pc \notin {"loop", "done"} /\ pc' # "loop"
      BY <2>2 DEF IdentBegin, Begin, Rank
    <3>2. QED
      BY <3>1, LeavesLess
  <2>3. CASE IdentScan
    <3>1. /\ LexPeek # kInvalidCodepoint /\ pos' = LexNext(pos)
          /\ iter' = iter /\ Rank' <= Rank
          /\ pc \notin {"loop", "done"} /\ pc' # "loop"
      BY <2>3, NothingTakesInvalid DEF IdentScan, Scan, Rank
    <3>2. QED
      BY <3>1, TakesCodepoint
  <2>4. CASE IdentEnd
    <3>1. /\ UNCHANGED <<pos, iter>> /\ Rank' < Rank
          /\ pc \notin {"loop", "done"} /\ pc' # "loop"
      BY <2>4 DEF IdentEnd, End, Rank
    <3>2. QED
      BY <3>1, LeavesLess
  <2>5. QED
    BY <1>3, <2>1, <2>2, <2>3, <2>4 DEF Ident
<1>4. CASE Num
  <2>1. CASE NumSkip
    <3>1. /\ UNCHANGED <<pos, iter>> /\ Rank' < Rank
          /\ pc \notin {"loop", "done"} /\ pc' # "loop"
      BY <2>1 DEF NumSkip, Skip, Rank
    <3>2. QED
      BY <3>1, LeavesLess
  <2>2. CASE NumBegin
    <3>1. /\ UNCHANGED <<pos, iter>> /\ Rank' < Rank
          /\ pc \notin {"loop", "done"} /\ pc' # "loop"
      BY <2>2 DEF NumBegin, Begin, Rank
    <3>2. QED
      BY <3>1, LeavesLess
  <2>3. CASE NumScan
    <3>1. /\ LexPeek # kInvalidCodepoint /\ pos' = LexNext(pos)
          /\ iter' = iter /\ Rank' <= Rank
          /\ pc \notin {"loop", "done"} /\ pc' # "loop"
      BY <2>3, NothingTakesInvalid DEF NumScan, Scan, Rank
    <3>2. QED
      BY <3>1, TakesCodepoint
  <2>4. CASE NumEnd
    <3>1. /\ UNCHANGED <<pos, iter>> /\ Rank' < Rank
          /\ pc \notin {"loop", "done"} /\ pc' # "loop"
      BY <2>4 DEF NumEnd, End, Rank
    <3>2. QED
      BY <3>1, LeavesLess
  <2>5. QED
    BY <1>4, <2>1, <2>2, <2>3, <2>4 DEF Num
<1>5. CASE Str
  <2>1. CASE StrSkip
    <3>1. /\ UNCHANGED <<pos, iter>> /\ Rank' < Rank
          /\ pc \notin {"loop", "done"} /\ pc' # "loop"
      BY <2>1 DEF StrSkip, Skip, Rank
    <3>2. QED
      BY <3>1, LeavesLess
  <2>2. CASE StrBegin
    <3>1. /\ LexPeek # kInvalidCodepoint /\ pos' = LexNext(pos)
          /\ iter' = iter /\ Rank' <= Rank
          /\ pc \notin {"loop", "done"} /\ pc' # "loop"
      BY <2>2, NothingTakesInvalid DEF StrBegin, Rank
    <3>2. QED
      BY <3>1, TakesCodepoint
  <2>3. CASE StrChar
    <3>1. /\ LexPeek # kInvalidCodepoint /\ pos' = LexNext(pos)
          /\ iter' = iter /\ Rank' <= Rank
          /\ pc \notin {"loop", "done"} /\ pc' # "loop"
      BY <2>3, NothingTakesInvalid DEF StrChar, Rank
    <3>2. QED
      BY <3>1, TakesCodepoint
  <2>4. CASE StrClose
    <3>1. /\ LexPeek # kInvalidCodepoint /\ pos' = LexNext(pos)
          /\ iter' = iter /\ Rank' <= Rank
          /\ pc \notin {"loop", "done"} /\ pc' # "loop"
      BY <2>4, NothingTakesInvalid DEF StrClose, Rank
    <3>2. QED
      BY <3>1, TakesCodepoint
  <2>5. CASE StrUnterminated
    <3>1. /\ UNCHANGED <<pos, iter>> /\ Rank' < Rank
          /\ pc \notin {"loop", "done"} /\ pc' # "loop"
      BY <2>5 DEF StrUnterminated, Fail, Rank
    <3>2. QED
      BY <3>1, LeavesLess
  <2>6. QED
    BY <1>5, <2>1, <2>2, <2>3, <2>4, <2>5 DEF Str
<1>6. CASE Special
  <2>1. CASE SpecialSkip
    <3>1. /\ UNCHANGED <<pos, iter>> /\ Rank' < Rank
          /\ pc \notin {"loop", "done"} /\ pc' # "loop"
      BY <2>1 DEF SpecialSkip, Skip, Rank
    <3>2. QED
      BY <3>1, LeavesLess
  <2>2. CASE SpecialTake
    <3>1. /\ LexPeek # kInvalidCodepoint /\ pos' = LexNext(pos)
          /\ iter' = iter /\ Rank' <= Rank
          /\ pc \notin {"loop", "done"} /\ pc' # "loop"
      BY <2>2, NothingTakesInvalid DEF SpecialTake, Fail, Rank
    <3>2. QED
      BY <3>1, TakesCodepoint
  <2>3. QED
    BY <1>6, <2>1, <2>2 DEF Special
<1>7. QED
  BY <1>1, <1>2, <1>3, <1>4, <1>5, <1>6

\* Every source, whatever its size, is lexed in a number of steps linear in
\* it: no step leaves as much to do as there was before it.
THEOREM LexerAlwaysProgresses == Spec => AlwaysProgress
<1>1. TypeOK /\ TypeOK' /\ [Next]_vars
          => [StepsLeft' \in Nat /\ StepsLeft' < StepsLeft]_vars
  BY LoopFalls, HandlerFalls DEF Next
<1>2. QED
  BY <1>1, TypeInit, TypeStep, PTL DEF Spec, AlwaysProgress
=============================================================================
