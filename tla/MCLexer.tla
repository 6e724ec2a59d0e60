------------------------------ MODULE MCLexer -------------------------------
(***************************************************************************)
(* The instance of Lexer for TLC.                                          *)
(***************************************************************************)
EXTENDS Lexer, SequencesExt

\* The two-letter keyword "fn".
MCKeywords == { <<102, 110>> }

\* A byte of every class the handlers tell apart: space, newline, '_', a
\* digit, '.', a quote, a backslash, '(', '^', tab, the letters of "fn" (one
\* of them a digit of a number), first bytes of code points of two and four
\* bytes, two continuation bytes and a byte nothing starts with.  After C0
\* and C1 the bytes of the set spell newlines, quotes, digits, symbols and
\* letters in two bytes; after C3, other letters.
MCBytes == {32, 10, 95, 48, 46, 34, 92, 40, 94, 9, 102, 110,
            192, 193, 195, 240, 138, 162, 255}

\* What ends a truncated code point: nothing, a newline or a quote.
MCBehind == { <<0, 0, 0>>, <<138, 0, 0>>, <<128, 128, 162>> }

\* What tells strings apart, with line ends, and with code points of three
\* and four bytes, E0 80 A2 and F0 80 80 A2 being quotes among them.
StringBytes == {34, 92, 10, 224, 240, 128, 162}

StringBehind == <<128, 162, 0>>

\* All short texts of the first bytes, and those of the second that begin
\* with a string.
MCSources ==
    { text \o rest : text \in SeqOf(MCBytes, 3), rest \in MCBehind } \cup
    { <<34>> \o text \o StringBehind : text \in SeqOf(StringBytes, 5) }
=============================================================================
