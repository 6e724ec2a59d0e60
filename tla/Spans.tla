------------------------------- MODULE Spans --------------------------------
(***************************************************************************)
(* Positions, spans and the lines of a text they are on: span.c, and the   *)
(* part of str.c that turns offsets into lines and columns.                *)
(*                                                                         *)
(* A text is a sequence of bytes of which only "newline" is told apart;    *)
(* offsets count from 0.  The searches of the code, one byte at a time     *)
(* from an offset on, are written as what they find.  A slice is the       *)
(* half-open range of offsets it covers.                                   *)
(***************************************************************************)
EXTENDS Integers, Sequences, FiniteSetsExt

\* The offsets of the newlines between two offsets.
NewlinesIn(text, from, to) == { k \in from .. to : text[k + 1] = "newline" }

\* The member of S that has n others below it, or above it.
HasBelow(S, n, k) == k \in S /\ Cardinality({ j \in S : j < k }) = n
HasAbove(S, n, k) == k \in S /\ Cardinality({ j \in S : j > k }) = n
-----------------------------------------------------------------------------
MakePos(off, line, col) == [off |-> off, line |-> line, col |-> col]

\* The position of an offset, line and column counted from 0: what
\* str_off_to_line_col has counted when it gets there.
PosAt(text, off) ==
    LET newlines == NewlinesIn(text, 0, off - 1)
    IN  MakePos(off, Cardinality(newlines),
                off - (Max(newlines \cup {-1}) + 1))

\* The result of the functions that may fail.
NoPos == [found |-> FALSE, pos |-> MakePos(0, 0, 0)]
FoundPos(p) == [found |-> TRUE, pos |-> p]

\* make_pos_off.  The loop tests the offset before it takes the byte there:
\* the end of the text is an offset it never gets to.
MakePosOff(text, off) ==
    IF off < Len(text) THEN FoundPos(PosAt(text, off)) ELSE NoPos

\* Mutated form: a byte is counted before it is compared.
MakePosLineColNext(text, line, col) ==
    LET at == { p \in { PosAt(text, off) : off \in 1 .. Len(text) } :
                  p.line = line /\ p.col = col }
    IN  IF at = {} THEN NoPos
        ELSE FoundPos(MakePos(Min({ p.off : p \in at }) - 1, line, col))

\* make_pos_line_col.
MakePosLineCol(text, line, col) ==
    LET at == { p \in { PosAt(text, off) : off \in 0 .. Len(text) - 1 } :
                  p.line = line /\ p.col = col }
    IN  IF at = {} THEN NoPos
        ELSE FoundPos(MakePos(Min({ p.off : p \in at }), line, col))

MakeSpan(from, to) == [beg |-> from, end |-> to]
-----------------------------------------------------------------------------
(***************************************************************************)
(* Slices.                                                                 *)
(***************************************************************************)
MakeStrSlice(from, to) == [beg |-> from, end |-> to]

StrSliceNull == [beg |-> -1, end |-> -1]

SpanSlice(span) == MakeStrSlice(span.beg.off, span.end.off)

\* span_line.  The search for the beginning tests the byte the span begins
\* with; offset 0 is tested after the loop.
SpanLine(span, text) ==
    IF span.beg.line # span.end.line THEN StrSliceNull
    ELSE MakeStrSlice(Max(NewlinesIn(text, 0, span.beg.off) \cup {-1}) + 1,
                      Min(NewlinesIn(text, span.end.off, Len(text) - 1)
                            \cup {Len(text)}))

\* Mutated form: the newline that ends the line before is taken for its beginning.
SpanLineBeforeEmpty(span, text, n) ==
    LET newlines == NewlinesIn(text, 1, span.beg.off)
        ends == { k \in newlines : HasAbove(newlines, n, k) }
        end == Max(ends)
    IN  IF span.beg.line = 0 THEN StrSliceNull
        ELSE IF ends = {} THEN MakeStrSlice(0, 0)
        ELSE MakeStrSlice(Max({ k + 1 : k \in NewlinesIn(text, 1, end) }
                                \cup {0}), end)

\* span_line_before.  Neither search tests offset 0: a newline there is part
\* of the line that begins after it.
SpanLineBefore(span, text, n) ==
    LET newlines == NewlinesIn(text, 1, span.beg.off)
        ends == { k \in newlines : HasAbove(newlines, n, k) }
        end == Max(ends)
    IN  IF span.beg.line = 0 THEN StrSliceNull
        ELSE IF ends = {} THEN MakeStrSlice(0, 0)
        ELSE MakeStrSlice(Max({ k + 1 : k \in NewlinesIn(text, 1, end - 1) }
                                \cup {0}), end)

\* Mutated form: the newlines are counted from 1.
SpanLineAfterNext(span, text, n) ==
    LET newlines == NewlinesIn(text, span.end.off, Len(text) - 1)
        begs == { k + 1 : k \in { j \in newlines : HasBelow(newlines, n + 1, j) } }
        beg == Max(begs)
    IN  IF begs = {} \/ Len(text) \in begs THEN StrSliceNull
        ELSE MakeStrSlice(beg, Min(NewlinesIn(text, beg + 1, Len(text) - 1)
                                     \cup {Len(text)}))

\* Mutated form: the end of the text is not tested for.
SpanLineAfterPastEnd(span, text, n) ==
    LET newlines == NewlinesIn(text, span.end.off, Len(text) - 1)
        begs == { k + 1 : k \in { j \in newlines : HasBelow(newlines, n, j) } }
        beg == Max(begs)
    IN  IF begs = {} THEN StrSliceNull
        ELSE MakeStrSlice(beg, Min(NewlinesIn(text, beg + 1, Len(text) - 1)
                                     \cup {Max({Len(text), beg + 1})}))

\* span_line_after.  The search for the end of the line begins one byte
\* after its beginning: an empty line is returned with the one after it.
SpanLineAfter(span, text, n) ==
    LET newlines == NewlinesIn(text, span.end.off, Len(text) - 1)
        begs == { k + 1 : k \in { j \in newlines : HasBelow(newlines, n, j) } }
        beg == Max(begs)
    IN  IF begs = {} \/ Len(text) \in begs THEN StrSliceNull
        ELSE MakeStrSlice(beg, Min(NewlinesIn(text, beg + 1, Len(text) - 1)
                                     \cup {Len(text)}))
=============================================================================
