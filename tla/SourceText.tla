----------------------------- MODULE SourceText -----------------------------
(***************************************************************************)
(* A source text as the front end sees it: the bytes of a Str (str.h),     *)
(* read through a StrIter that decodes one UTF-8 code point at a time      *)
(* (alf_unicode.c).                                                        *)
(*                                                                         *)
(* The decoder takes the width of a code point from its first byte, and    *)
(* its bits from all of them without a look at what they are, so that a    *)
(* code point at the end of the text takes in bytes behind it.  "buf" is   *)
(* therefore the text with the Slack bytes that follow it in memory.       *)
(***************************************************************************)
EXTENDS Integers, Sequences

Byte == 0 .. 255

\* How many bytes behind the text the last code point of a text can reach.
Slack == 3

\* Str.size.
Size(buf) == Len(buf) - Slack

\* 0xFFFFFFFF in the code; here the least number of more than the 21 bits of
\* the longest code point.
kInvalidCodepoint == 2097152

LineFeed == 10
Quote == 34
Backslash == 92
Underscore == 95

\* Mutated form: code points of more than two bytes are one byte too wide.
WidthTooWide(buf, off) ==
    LET first == buf[off + 1]
    IN  IF first < 192 THEN 1 ELSE IF first < 224 THEN 2
        ELSE IF first < 240 THEN 4 ELSE 5

\* The bytes alfUTF8Decode reports for the code point at an offset.
Width(buf, off) ==
    LET first == buf[off + 1]
    IN  IF first < 192 THEN 1 ELSE IF first < 224 THEN 2
        ELSE IF first < 240 THEN 3 ELSE 4

\* The code point alfUTF8Decode reports, which fails for the first bytes 80
\* to BF and F8 to FF.  Of a byte that follows, the low six bits count.
Decode(buf, off) ==
    LET first == buf[off + 1]
        Cont(k) == buf[off + 1 + k] % 64
    IN  IF first < 128 THEN first
        ELSE IF first \in 192 .. 223 THEN (first % 32) * 64 + Cont(1)
        ELSE IF first \in 224 .. 239
             THEN ((first % 16) * 64 + Cont(1)) * 64 + Cont(2)
        ELSE IF first \in 240 .. 247
             THEN (((first % 8) * 64 + Cont(1)) * 64 + Cont(2)) * 64 + Cont(3)
        ELSE kInvalidCodepoint

\* str_iter_peek.
StrIterPeek(buf, off) ==
    IF off >= Size(buf) THEN kInvalidCodepoint ELSE Decode(buf, off)
-----------------------------------------------------------------------------
(***************************************************************************)
(* The classes of code points the handlers of the lexer ask about.         *)
(***************************************************************************)
LexIsWhitespace(cp) == cp = 32

LexIsNum(cp) == cp \in 48 .. 57

\* The hexadecimal digits, x, o, h, u and the period.
LexIsNumSym(cp) ==
    LexIsNum(cp) \/ cp \in (97 .. 102) \cup (65 .. 70)
                           \cup {120, 88, 111, 79, 104, 72, 117, 85, 46}

LexIsAlfa(cp) == cp \in (97 .. 122) \cup (65 .. 90)

LexIsUnicode(cp) == cp > 127 /\ cp # kInvalidCodepoint

\* % & ( ) * + , - . /   : ;   < = > ? !   [ ]   { | } ~
SymbolByte == {37, 38} \cup (40 .. 47) \cup {58, 59} \cup (60 .. 63) \cup {33}
                  \cup {91, 93} \cup (123 .. 126)

LexIsSpecial(cp) == cp \in SymbolByte

\* The spellings tok_sym_kind_get knows: of one byte, also ^ and '.
TokSymKindGet(slice) == slice \in { <<byte>> : byte \in SymbolByte \cup {94, 39} }

\* The test at the top of lex_handle_ident, and the one in its loop.
IdentStart(cp) == LexIsAlfa(cp) \/ cp = Underscore \/ LexIsUnicode(cp)

IdentPart(cp) == IdentStart(cp) \/ LexIsNum(cp)
=============================================================================
