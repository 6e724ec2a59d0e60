----------------------------- MODULE ErrPrinter -----------------------------
(***************************************************************************)
(* The error printer: an ErrBuilder (err.c) is given what to print, one    *)
(* setter at a time and in any order, and then emits the line its span is  *)
(* on with a gutter of line numbers, the lines around it, and dashes under *)
(* the span.  parse_err (parser.c) is its client.                          *)
(*                                                                         *)
(* The span is one of a token: not empty, and neither its first nor its    *)
(* last byte is a newline, because the lexer makes no token of one.  A     *)
(* string may have newlines inside.  A column is a byte.  A row of the     *)
(* output is a record; the wording of the first and of the last row is     *)
(* left out.                                                               *)
(***************************************************************************)
EXTENDS Spans

CONSTANTS
    MaxSize,    \* bytes in a text
    MaxLines,   \* lines asked for before and after, at most
    MaxPads,    \* padding rows asked for before and after, at most
    PadCap,     \* padding rows where no line is shown, at most (99)
    Base        \* of the numbers in the gutter: ten

ASSUME ErrPrinterAssumption ==
    /\ MaxSize \in Nat \ {0}
    /\ MaxLines \in Nat
    /\ MaxPads \in Nat
    /\ PadCap \in Nat \ {0}
    /\ Base \in Nat \ {0, 1}

VARIABLES
    text,       \* the source
    span,       \* the span of the error
    builder,    \* ErrBuilder
    out,        \* the rows printed
    outcome     \* "building", "printed", "panic" or "crash"

vars == <<text, span, builder, out, outcome>>

\* ErrBuilder.  Of what is NULL until it is set, only that is kept.
MakeErrBuilder ==
    [err_msg |-> FALSE, err_sugg |-> FALSE, span |-> FALSE,
     line_before |-> 0, line_after |-> 0,
     pad_line_before |-> 0, pad_line_after |-> 0]

Texts == UNION { [1 .. n -> {"x", "newline"}] : n \in 1 .. MaxSize }

TokenSpans(str) ==
    LET shown == { i \in 1 .. Len(str) : str[i] # "newline" }
    IN  { MakeSpan(PosAt(str, ends[1] - 1), PosAt(str, ends[2])) :
            ends \in { e \in shown \X shown : e[1] <= e[2] } }
-----------------------------------------------------------------------------
(***************************************************************************)
(* The rows.                                                               *)
(***************************************************************************)
Power[w \in Nat] == IF w = 0 THEN 1 ELSE Base * Power[w - 1]

\* err_util_int_width.
IntWidth(val) == Min({ w \in 1 .. val : Power[w] > val })

\* "%*s |": no number.
PadRow(width) == [kind |-> "pad", gutter |-> width]

\* "%-.*u | %.*s" and "%-*u | %.*s": a longer number makes the gutter wider.
LineRow(width, num, slice) ==
    [kind |-> "line", gutter |-> Max({width, IntWidth(num)}),
     num |-> num, slice |-> slice]

UnderRow(width, blanks, dashes) ==
    [kind |-> "under", gutter |-> width, blanks |-> blanks, dashes |-> dashes]

\* Mutated form: the width of the number of the line itself.
LineNumWidthOfLine == IntWidth(span.beg.line + 1)

\* The largest number there may be.
LineNumWidth == IntWidth(span.beg.line + 1 + builder.line_after)

LinesBefore == Min({builder.line_before, span.beg.line})

\* The rows of those lines that there are, in their order.
Printed(rows) ==
    LET lines == { k \in 1 .. Len(rows) : rows[k].slice # StrSliceNull }
    IN  [i \in 1 .. Cardinality(lines) |->
            rows[CHOOSE k \in lines : HasBelow(lines, i - 1, k)]]

\* LN_CLAMP of the padding on a side where no line is shown.
ClampPad(pad) == Min({Max({pad, 1}), PadCap})

RowsBefore ==
    LET line(k) == LineRow(LineNumWidth, span.beg.line - (LinesBefore - k),
                           SpanLineBefore(span, text, LinesBefore - k))
        count == IF LinesBefore = 0 THEN ClampPad(builder.pad_line_before)
                                    ELSE builder.pad_line_before
    IN  [k \in 1 .. count |-> PadRow(LineNumWidth)]
          \o Printed([k \in 1 .. LinesBefore |-> line(k)])

\* Mutated form: the dashes begin where the line does.
TargetRowsAtMargin ==
    << LineRow(LineNumWidth, span.beg.line + 1, SpanLine(span, text)),
       UnderRow(LineNumWidth, 0, span.end.col - span.beg.col) >>

TargetRows ==
    << LineRow(LineNumWidth, span.beg.line + 1, SpanLine(span, text)),
       UnderRow(LineNumWidth, span.beg.col, span.end.col - span.beg.col) >>

RowsAfter ==
    LET line(k) == LineRow(LineNumWidth, span.beg.line + 1 + k,
                           SpanLineAfter(span, text, k - 1))
        lines == Printed([k \in 1 .. builder.line_after |-> line(k)])
        count == IF lines = <<>> THEN ClampPad(builder.pad_line_after)
                                 ELSE builder.pad_line_after
    IN  lines \o [k \in 1 .. count |-> PadRow(LineNumWidth)]
-----------------------------------------------------------------------------
Init ==
    /\ text \in Texts
    /\ span \in TokenSpans(text)
    /\ builder = MakeErrBuilder
    /\ out = <<>>
    /\ outcome = "building"

Set(field, value) ==
    /\ outcome = "building"
    /\ builder' = [builder EXCEPT ![field] = value]
    /\ UNCHANGED <<text, span, out, outcome>>

SetMsg == Set("err_msg", TRUE)
SetSugg == Set("err_sugg", TRUE)
SetSpan == Set("span", TRUE)
SetLinesBefore == \E n \in 0 .. MaxLines : Set("line_before", n)
SetLinesAfter == \E n \in 0 .. MaxLines : Set("line_after", n)
SetPadLinesBefore == \E n \in 0 .. MaxPads : Set("pad_line_before", n)
SetPadLinesAfter == \E n \in 0 .. MaxPads : Set("pad_line_after", n)

\* The assertions of err_builder_emit: there is a span, and it has a line.
EmitPanics ==
    /\ outcome = "building"
    /\ ~builder.span \/ SpanLine(span, text) = StrSliceNull
    /\ outcome' = "panic"
    /\ UNCHANGED <<text, span, builder, out>>

CanEmit == /\ outcome = "building"
           /\ builder.span
           /\ SpanLine(span, text) # StrSliceNull

\* str_cstr reads through the message, which is NULL, for the row of dashes.
EmitNoMsg ==
    /\ CanEmit
    /\ ~builder.err_msg
    /\ out' = RowsBefore
    /\ outcome' = "crash"
    /\ UNCHANGED <<text, span, builder>>

\* The same for the suggestion, when all rows are out.
EmitNoSugg ==
    /\ CanEmit
    /\ builder.err_msg
    /\ ~builder.err_sugg
    /\ out' = RowsBefore \o TargetRows \o RowsAfter
    /\ outcome' = "crash"
    /\ UNCHANGED <<text, span, builder>>

Emit ==
    /\ CanEmit
    /\ builder.err_msg
    /\ builder.err_sugg
    /\ out' = RowsBefore \o TargetRows \o RowsAfter
    /\ outcome' = "printed"
    /\ UNCHANGED <<text, span, builder>>

Next ==
    \/ SetMsg \/ SetSugg \/ SetSpan
    \/ SetLinesBefore \/ SetLinesAfter
    \/ SetPadLinesBefore \/ SetPadLinesAfter
    \/ EmitPanics \/ EmitNoMsg \/ EmitNoSugg \/ Emit

Spec == Init /\ [][Next]_vars
-----------------------------------------------------------------------------
(***************************************************************************)
(* The lines of a text, by where they begin: at its beginning and after    *)
(* each newline.                                                           *)
(***************************************************************************)
LineBegs == {0} \cup { i \in 1 .. Len(text) : text[i] = "newline" }

LineNumbered(num) ==
    LET beg == CHOOSE k \in LineBegs : HasBelow(LineBegs, num - 1, k)
    IN  MakeStrSlice(beg, Min({ k \in beg .. Len(text) :
                                  k = Len(text) \/ text[k + 1] = "newline" }))

\* What follows the last newline counts as a line if it is not empty.
LineCount == Cardinality(LineBegs \ {Len(text)})

\* The rows that show a line.
LineRows == { i \in 1 .. Len(out) : out[i].kind = "line" }

Target == span.beg.line + 1

Row == [kind : {"pad"}, gutter : Nat]
         \cup [kind : {"under"}, gutter : Nat, blanks : Nat, dashes : Nat]
         \cup [kind : {"line"}, gutter : Nat, num : Nat,
               slice : [beg : 0 .. MaxSize, end : 0 .. MaxSize]]

\* Rows with numbers and slices that lie in the text.
TypeOK ==
    /\ text \in Texts
    /\ span \in TokenSpans(text)
    /\ builder \in [err_msg : BOOLEAN, err_sugg : BOOLEAN, span : BOOLEAN,
                    line_before : 0 .. MaxLines, line_after : 0 .. MaxLines,
                    pad_line_before : 0 .. MaxPads, pad_line_after : 0 .. MaxPads]
    /\ \A i \in 1 .. Len(out) :
          /\ out[i] \in Row
          /\ out[i].kind = "line" =>
                 out[i].slice.beg <= out[i].slice.end /\ out[i].slice.end <= Len(text)
    /\ outcome \in {"building", "printed", "panic", "crash"}

\* Each numbered row shows the whole line of that number (span_line,
\* span_line_before, span_line_after), and nothing but that line unless the
\* line is empty and after the error, or is line 2, before the error, and
\* line 1 is empty.  Those two rows are judged by the next property.
LinesAsNumbered ==
    \A i \in LineRows :
        LET row == out[i]
            line == LineNumbered(row.num)
        IN  /\ row.slice.beg <= line.beg /\ line.end <= row.slice.end
            /\ \/ row.slice = line
               \/ row.num > Target /\ line.beg = line.end
               \/ row.num = 2 /\ row.num < Target /\ text[1] = "newline"

\* span.h:127 "Return the n:th line after the one represented by the slice",
\* and span.h:121 the same of the lines before: what span_line_after and
\* span_line_before return is that line and no other.
LinesExact ==
    \A i \in LineRows : out[i].slice = LineNumbered(out[i].num)

\* The rows are numbered one by one from the first line asked for, or the
\* first of the text, to the last: err_builder_emit leaves out no line and
\* shows none twice, and shows none that the text does not have.
ContextComplete ==
    outcome = "printed" =>
        LET first == Max({Target - builder.line_before, 1})
            last == Min({Target + builder.line_after, LineCount})
        IN  /\ { out[i].num : i \in LineRows } = first .. last
            /\ \A i, j \in LineRows : i < j => out[i].num < out[j].num

\* The dashes err_builder_emit prints are in the row after that of the line
\* the span is on, under the bytes of the span and no others, all of which
\* that row shows.
UnderlineMatches ==
    outcome = "printed" =>
        \E i \in 2 .. Len(out) :
            /\ \A j \in 1 .. Len(out) : out[j].kind = "under" <=> j = i
            /\ out[i - 1].kind = "line"
            /\ out[i - 1].num = Target
            /\ LET shown == out[i - 1].slice
                   under == MakeStrSlice(shown.beg + out[i].blanks,
                                shown.beg + out[i].blanks + out[i].dashes)
               IN  under = SpanSlice(span) /\ under.end <= shown.end

\* The width computed before any row is printed (err_util_int_width) is
\* enough for the number of every row: the bars are below each other.
GutterAligned ==
    \A i, j \in 1 .. Len(out) : out[i].gutter = out[j].gutter

\* Offsets and lines with columns name the same positions (make_pos_off,
\* make_pos_line_col), one for each byte; the end of the text has none.
PositionsInvert ==
    /\ \A off \in 0 .. Len(text) :
          LET p == MakePosOff(text, off)
          IN  IF off = Len(text) THEN p = NoPos
              ELSE p = MakePosLineCol(text, p.pos.line, p.pos.col) /\ p.found
    /\ \A line, col \in 0 .. Len(text) :
          LET p == MakePosLineCol(text, line, col)
          IN  p.found => p = MakePosOff(text, p.pos.off)
=============================================================================
