----------------------------- MODULE Tokenizer ------------------------------
(***************************************************************************)
(* What lexical analysis promises, without its handlers, their order or    *)
(* their loops: a source is cut from left to right into lexemes, each the  *)
(* longest of its kind that starts where the one before ended, newlines    *)
(* between lexemes are dropped, and a source is refused exactly at a code  *)
(* point no lexeme starts with, at a symbol spelled with more bytes than   *)
(* one or at a string that never closes.                                   *)
(***************************************************************************)
EXTENDS SourceText

CONSTANT Keywords       \* the spellings tok_kw_kind_get knows

VARIABLES
    text,               \* the source, with what lies behind it
    at,                 \* where the next lexeme starts
    out,                \* the lexemes cut so far
    verdict             \* "running", or what the analysis answered

absVars == <<text, at, out, verdict>>

CodePoint(off) == StrIterPeek(text, off)

Follows(u, v) == v = u + Width(text, u)

(***************************************************************************)
(* units is the set of offsets at which the code points from a to b begin: *)
(* each is followed by another one or by b, and each but a follows one.    *)
(***************************************************************************)
Units(units, a, b) ==
    /\ a \in units
    /\ \A u \in units :
        /\ CodePoint(u) # kInvalidCodepoint
        /\ u + Width(text, u) \in units \cup {b}
        /\ u # a => \E v \in units : Follows(v, u)

Cut(a, b) == { units \in SUBSET (a .. b-1) : Units(units, a, b) }

\* A run of code points that all satisfy P, and that no longer run extends.
Run(P(_), a, b) ==
    /\ \E units \in Cut(a, b) : \A u \in units : P(CodePoint(u))
    /\ ~ P(CodePoint(b))

\* A quote closes a string unless a backslash stands right before it.
Closes(units, q) ==
    /\ CodePoint(q) = Quote
    /\ \A u \in units : Follows(u, q) => CodePoint(u) # Backslash

StringLexeme(a, b) ==
    /\ CodePoint(a) = Quote
    /\ \E units \in Cut(a, b) :
        /\ \E q \in units \ {a} : Closes(units, q) /\ Follows(q, b)
        /\ \A q \in units \ {a} : Closes(units, q) => Follows(q, b)

Word(a, b) == SubSeq(text, a + 1, b)

Lexeme(kind, a, b) ==
    CASE kind = "Whitespace" -> Run(LexIsWhitespace, a, b)
      [] kind = "Ident"   -> /\ IdentStart(CodePoint(a))
                             /\ Run(IdentPart, a, b)
                             /\ Word(a, b) \notin Keywords
      [] kind = "Keyword" -> /\ IdentStart(CodePoint(a))
                             /\ Run(IdentPart, a, b)
                             /\ Word(a, b) \in Keywords
      [] kind = "Int"     -> LexIsNum(CodePoint(a)) /\ Run(LexIsNumSym, a, b)
      [] kind = "Str"     -> StringLexeme(a, b)
      [] kind = "Sym"     -> /\ LexIsSpecial(CodePoint(a))
                             /\ Follows(a, b)
                             /\ TokSymKindGet(Word(a, b))

LexemeKind == {"Whitespace", "Ident", "Keyword", "Int", "Str", "Sym"}

\* Where a lexeme can end: a truncated code point ends behind the text.
Ends == at + 1 .. Size(text) + Slack

\* Neither a lexeme nor a newline starts with the code point.
Stray(cp) ==
    ~ \/ LexIsWhitespace(cp) \/ IdentStart(cp) \/ LexIsNum(cp)
      \/ LexIsSpecial(cp) \/ cp \in {Quote, LineFeed, kInvalidCodepoint}
-----------------------------------------------------------------------------
AbsInit ==
    /\ text \in Seq(Byte) /\ Len(text) >= Slack
    /\ at = 0
    /\ out = <<>>
    /\ verdict = "running"

TakeLexeme ==
    \E kind \in LexemeKind, b \in Ends :
        /\ at' = b
        /\ out' = Append(out, [kind |-> kind, beg |-> at, end |-> b])
        /\ Lexeme(kind, at, b)
        /\ UNCHANGED verdict

DropNewline ==
    /\ CodePoint(at) = LineFeed
    /\ Follows(at, at')
    /\ UNCHANGED <<out, verdict>>

\* The end of the source, or a byte that does not decode: what follows such
\* a byte is silently left out, and the answer is still "no error".
Accept ==
    /\ CodePoint(at) = kInvalidCodepoint
    /\ verdict' = "kLexNoErr"
    /\ UNCHANGED <<at, out>>

\* A string that never closes; a symbol in another spelling than its byte; a
\* code point nothing starts with.
Refuse ==
    /\ \/ /\ verdict' = "kLexNonTermStr"
          /\ CodePoint(at) = Quote
          /\ ~ \E b \in Ends : StringLexeme(at, b)
       \/ /\ verdict' = "kLexUnexpectedSym"
          /\ LexIsSpecial(CodePoint(at))
          /\ ~ \E b \in Ends : Lexeme("Sym", at, b)
       \/ verdict' = "kLexUnexpectedSym" /\ Stray(CodePoint(at))
    /\ out' = <<>>
    /\ UNCHANGED at

AbsNext ==
    /\ verdict = "running"
    /\ TakeLexeme \/ DropNewline \/ Accept \/ Refuse
    /\ UNCHANGED text

AbsSpec == AbsInit /\ [][AbsNext]_absVars
=============================================================================
