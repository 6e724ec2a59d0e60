---------------------------- MODULE ParserGrammar ----------------------------
(***************************************************************************)
(* The programs parser.c is a parser for, as a grammar, and the promise    *)
(* that it reports no error for those and for no others.                   *)
(*                                                                         *)
(* A phrase is a function from every place of the program ts, one of its   *)
(* tokens or its end, to the places where the phrase may end when it       *)
(* begins there.  No phrase knows of frames, of one token of lookahead or  *)
(* of the order in which the parser tries things.                          *)
(***************************************************************************)
EXTENDS Parser

Places(ts) == 1 .. Len(ts) + 1

Nothing(ts) == [i \in Places(ts) |-> {i}]

\* One of the symbols at the place itself.
Glued(ts, symbols) ==
    [i \in Places(ts) |-> { j \in {i + 1} : i <= Len(ts) /\ ts[i] \in symbols }]

\* One phrase after another, one phrase or another, and a phrase any number
\* of times.
p ** q == [i \in DOMAIN p |-> UNION { q[j] : j \in p[i] }]

p ++ q == [i \in DOMAIN p |-> p[i] \cup q[i]]

Star(ts, p) ==
    [i \in Places(ts) |->
        LET ends[j \in 0 .. Len(ts) + 1] ==
                IF j = 0 THEN {i}
                ELSE LET before == ends[j - 1]
                     IN  before \cup UNION { p[k] : k \in before \cap {j} }
        IN  ends[Len(ts) + 1]]

\* Whitespace, none included, and one of the symbols after it.
Blank(ts) ==
    [i \in Places(ts) |->
        { j \in i .. Len(ts) + 1 : \A k \in i .. j - 1 : ts[k] = "ws" }]

Sym(ts, symbols) == Blank(ts) ** Glued(ts, symbols)

\* What follows the first operand, operators and operands in turn.
More(ts, operators, operand) == Star(ts, Sym(ts, operators) ** operand)

Const(ts) == Sym(ts, {"int"})

Factors(ts) == Const(ts) ** More(ts, {"*", "/"}, Const(ts))

Expr(ts) == Factors(ts) ** More(ts, {"+", "-"}, Factors(ts))

Stars(ts) == Star(ts, Sym(ts, {"*"}))

\* What follows the element type of an array, and what follows it when the
\* parser then looks for a length and finds another token.
ArrayTail(ts) ==
    (Nothing(ts) ++ Sym(ts, {";"}) ** Const(ts)) ** Sym(ts, {"]"}) ** Stars(ts)

NoLength(ts) ==
    [i \in Places(ts) |->
        { j \in Blank(ts)[i] : j <= Len(ts) /\ ts[j] \notin {"int", "ws"} }]

\* Where a type that begins at a place may end.  The element type of an array
\* follows the '[' at once.  It may also be none, for which parse_type_aux
\* returns NULL: one token that names no type, or an array up to where its
\* length should be.
TypeEnds(ts) ==
    LET stars == Stars(ts)
        tail == ArrayTail(ts)
        noLength == Sym(ts, {";"}) ** NoLength(ts)
        ends[left \in 0 .. Len(ts)] ==
            LET i == Len(ts) + 1 - left
                elem == ends[left - 1].type \cup ends[left - 1].null
            IN  IF left = 0 THEN [type |-> {}, null |-> {}]
                ELSE IF ts[i] = "["
                THEN [type |-> UNION { tail[j] : j \in elem },
                      null |-> UNION { noLength[j] : j \in elem }]
                ELSE IF ts[i] = "prim"
                THEN [type |-> stars[i + 1], null |-> {}]
                ELSE [type |-> {}, null |-> {i + 1}]
    IN  [i \in Places(ts) |-> ends[Len(ts) + 1 - i]]

TypeIn(ts) == Blank(ts) ** [i \in Places(ts) |-> TypeEnds(ts)[i].type]

Name(ts) == Sym(ts, {"ident", "prim"})

\* A let-statement with a value has no semicolon.
LetEnds(ts) == Sym(ts, {";"}) ++ Sym(ts, {"="}) ** Expr(ts)

Let(ts) ==
    Sym(ts, {"let"}) ** Name(ts) ** (Nothing(ts) ++ Sym(ts, {":"}) ** TypeIn(ts))
        ** LetEnds(ts)

Ret(ts) == Sym(ts, {"ret"}) ** Expr(ts) ** Sym(ts, {";"})

Body(ts) == Sym(ts, {"{"}) ** Star(ts, Let(ts) ++ Ret(ts)) ** Sym(ts, {"}"})

Arrow(ts) == Sym(ts, {"-"}) ** Glued(ts, {">"}) ** TypeIn(ts)

Fn(ts) ==
    Sym(ts, {"fn"}) ** Name(ts) ** Sym(ts, {"("}) ** Sym(ts, {")"})
        ** (Nothing(ts) ++ Arrow(ts)) ** Body(ts)

InGrammar(ts) == Len(ts) + 1 \in (Star(ts, Fn(ts)) ** Blank(ts))[1]

-----------------------------------------------------------------------------
\* The parser gets through a program without an error if and only if the
\* program is one of the grammar; it neither panics in nor runs past the end
\* of one that is.
AcceptsGrammar ==
    /\ out = "parsed" => (errs = <<>> <=> InGrammar(toks))
    /\ closed /\ (out = "panic" \/ (out = "crash" /\ Top.at # "prog"))
          => ~ InGrammar(toks)
=============================================================================
