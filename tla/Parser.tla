------------------------------- MODULE Parser --------------------------------
(***************************************************************************)
(* The recursive-descent parser (parser.c) over the token list, with the   *)
(* nodes it makes, hands on and releases (ast.c), until main_compile_files *)
(* releases the tree.                                                      *)
(*                                                                         *)
(* The C call stack is explicit: a frame says where its function goes on,  *)
(* which node it holds and which token it remembers.  A label is the code  *)
(* from one look at the next token to the next one, so that every place    *)
(* where the parser looks, consumes, gives up or dies is a step.  The      *)
(* parser only ever looks at one token: a token is chosen when it is first *)
(* looked at, which gives the same runs as a list chosen in advance.       *)
(***************************************************************************)
EXTENDS Integers, Sequences, FiniteSets

CONSTANTS
    Tokens,         \* the tokens programs are made of
    MaxToks,        \* bound: the longest program
    MaxErrs         \* bound: a program with more errors ends there

\* "decl" is a keyword parse_prog has no code for yet, "if" stands for 'match'
\* too, "prim" is an identifier that names a primitive type, "lines" a string
\* that goes over more than one line, and "other" any other token.
Tok == {"ws", "fn", "let", "ret", "decl", "if", "ident", "prim", "int", "str",
        "lines", "(", ")", "{", "}", "[", "]", ";", ":", ",", "=", "-", "+",
        "*", "/", ">", "other"}

ASSUME ParserAssumption ==
    /\ Tokens \subseteq Tok
    /\ MaxToks \in Nat
    /\ MaxErrs \in Nat

VARIABLES
    toks,       \* the tokens seen so far
    closed,     \* whether that is the whole list
    idx,        \* the TokIter
    stack,      \* the frames of the parse functions, the running one last
    val,        \* what the function that returned last returned; 0 is NULL
    nodes,      \* every node ever made
    freed,      \* those released
    errs,       \* the token each parse_err pointed at
    out         \* how far the program is

vars == <<toks, closed, idx, stack, val, nodes, freed, errs, out>>

\* A node: its kind, the token it was made for, its children (0 is NULL).
MakeAst(kind, tok, kids) == [kind |-> kind, tok |-> tok, kids |-> kids]

MakeFrame(at, node, tok) == [at |-> at, node |-> node, tok |-> tok]

Known == idx <= Len(toks) \/ closed

\* parser_peek, NULL at the end of the list.
Peek == IF idx <= Len(toks) THEN toks[idx] ELSE "NULL"

Top == stack[Len(stack)]

\* Where the code skips whitespace before it looks at the token.
SkipsWhitespace ==
    {"fn_name", "fn_lparen", "fn_params", "fn_comma", "fn_rparen", "fn_ret",
     "fn_body", "block_loop", "block_end", "stmt", "let_name", "let_colon",
     "let_semi", "ret_semi", "expr", "bottom", "factor_op", "term_op", "type",
     "array_semi", "array_len", "array_end", "ptr"}

\* The running function is at label and looks at a token that is there.
On(label) ==
    /\ out = "running"
    /\ Known
    /\ Top.at = label
    /\ Peek # "NULL"
    /\ ~ (Peek = "ws" /\ label \in SkipsWhitespace)

\* The running function goes on at label with what a call has returned.
Back(label) == out = "running" /\ Top.at = label

TopGoes(frame) == stack' = [stack EXCEPT ![Len(stack)] = frame]

Goto(label) == TopGoes([Top EXCEPT !.at = label])

Call(back, callee) ==
    stack' = Append([stack EXCEPT ![Len(stack)].at = back],
                    MakeFrame(callee, 0, idx))

Return(v) ==
    /\ stack' = SubSeq(stack, 1, Len(stack) - 1)
    /\ val' = v

\* Mutated form: the token an error points at is not looked at again.
ExpectSilently(good, at) == UNCHANGED <<errs, out>>

\* A token that is not in good is reported by parse_err at token at, and the
\* parser goes on.  err_builder_emit panics when the span has no line of its
\* own, which is when it goes over several.
Expect(good, at) ==
    /\ errs' = IF Peek \in good THEN errs ELSE Append(errs, at)
    /\ out' = IF Peek \notin good /\ toks[at] = "lines" THEN "panic" ELSE out

Panic ==
    /\ out' = "panic"
    /\ UNCHANGED <<idx, stack, val, nodes, freed, errs>>

NewNode(node) == nodes' = Append(nodes, node)

AddKid(n, kid) == nodes' = [nodes EXCEPT ![n].kids = Append(@, kid)]

SetKid(n, i, kid) == nodes' = [nodes EXCEPT ![n].kids[i] = kid]

KindOf(n) == IF n = 0 THEN "NULL" ELSE nodes[n].kind

AstIsExpr(n) == KindOf(n) \in {"binop", "const"}

AstIsStmt(n) == KindOf(n) \in {"let", "ret"}

Quiet == UNCHANGED <<errs, out>>
Heap == <<nodes, freed>>
-----------------------------------------------------------------------------
(***************************************************************************)
(* release_ast                                                             *)
(***************************************************************************)

\* Mutated form: the right-hand side of an operator is forgotten.
ReleasedKidsLhs(n) ==
    LET kids == nodes[n].kids
    IN  IF nodes[n].kind = "let" THEN {kids[2]}
        ELSE IF nodes[n].kind = "binop" THEN {kids[1]}
        ELSE { kids[i] : i \in 1 .. Len(kids) }

\* The children the release function of a node's kind releases: that of a
\* let-statement releases the expression and not the type.
ReleasedKids(n) ==
    LET kids == nodes[n].kids
    IN  IF nodes[n].kind = "let" THEN {kids[2]}
        ELSE { kids[i] : i \in 1 .. Len(kids) }

\* All that is found from n on, NULL included, when kids has what follows a
\* node: one step more for every node there is finds the last of it.
Reached(n, kids, steps) ==
    LET reach[step \in 0 .. steps] ==
            IF step = 0 THEN {n}
            ELSE LET before == reach[step - 1]
                 IN  before \cup UNION { kids[m] : m \in before \ {0} }
    IN  reach[steps]

\* All that release_ast(n) comes to, NULL included.
Released(n) ==
    Reached(n, [m \in 1 .. Len(nodes) |-> ReleasedKids(m)], Len(nodes))

\* Releasing NULL, or a node again, is undefined: it ends the program.
ReleaseAst(n, next) ==
    IF 0 \in Released(n) \/ Released(n) \cap freed # {}
    THEN /\ out' = "crash"
         /\ UNCHANGED freed
    ELSE /\ freed' = freed \cup Released(n)
         /\ out' = next
-----------------------------------------------------------------------------
Init ==
    /\ toks = <<>>
    /\ closed = FALSE
    /\ idx = 1
    /\ stack = << MakeFrame("prog", 1, 1) >>
    /\ val = 0
    /\ nodes = << MakeAst("prog", 0, <<>>) >>
    /\ freed = {}
    /\ errs = <<>>
    /\ out = "running"

\* The token list turns out to have one token more, or to end here.
Feed ==
    /\ out = "running"
    /\ ~ Known
    /\ \/ /\ Len(toks) < MaxToks /\ Len(errs) <= MaxErrs
          /\ \E tok \in Tokens : toks' = Append(toks, tok)
          /\ UNCHANGED closed
       \/ /\ closed' = TRUE
          /\ UNCHANGED toks
    /\ UNCHANGED <<idx, stack, val, nodes, freed, errs, out>>

\* Mutated forms: the token is not consumed, or the one after it is as well.
ConsumeWhitespaceStays == out = "running" /\ Peek = "ws" /\ UNCHANGED vars

ConsumeWhitespaceTwice ==
    /\ out = "running"
    /\ Peek = "ws"
    /\ Top.at \in SkipsWhitespace \cup {"prog"}
    /\ idx' = idx + 2
    /\ Quiet /\ UNCHANGED <<stack, val, Heap>>

\* parser_consume_whitespace, one token of it.
ConsumeWhitespace ==
    /\ out = "running"
    /\ Peek = "ws"
    /\ Top.at \in SkipsWhitespace \cup {"prog"}
    /\ idx' = idx + 1
    /\ Quiet /\ UNCHANGED <<stack, val, Heap>>

\* Every look at the token but that of parse_prog goes through the pointer
\* that parser_peek returned, which is NULL at the end of the list.
LookAtNull ==
    /\ out = "running"
    /\ Known
    /\ Peek = "NULL"
    /\ Top.at \in SkipsWhitespace \cup {"ret_arrow", "block", "aux"}
    /\ out' = "crash"
    /\ UNCHANGED <<idx, stack, val, Heap, errs>>
-----------------------------------------------------------------------------
(***************************************************************************)
(* parse_prog                                                              *)
(***************************************************************************)

ProgFn ==
    /\ On("prog") /\ Peek = "fn"
    /\ Call("prog_fn", "fn_name")
    /\ idx' = idx + 1
    /\ Quiet /\ UNCHANGED <<val, Heap>>

ProgFnDone ==
    /\ Back("prog_fn")
    /\ IF val = 0 THEN UNCHANGED nodes ELSE AddKid(Top.node, val)
    /\ Goto("prog")
    /\ Quiet /\ UNCHANGED <<idx, val, freed>>

ProgDecl == On("prog") /\ Peek = "decl" /\ Panic

\* Mutated form: the token that was reported is not consumed.
ProgUnknownStays ==
    /\ On("prog") /\ Peek \notin {"fn", "decl", "ws"}
    /\ Expect({}, idx)
    /\ UNCHANGED <<idx, stack, val, Heap>>

ProgUnknown ==
    /\ On("prog") /\ Peek \notin {"fn", "decl", "ws"}
    /\ Expect({}, idx)
    /\ idx' = idx + 1
    /\ UNCHANGED <<stack, val, Heap>>

ProgEnd ==
    /\ out = "running" /\ Top.at = "prog"
    /\ Known /\ Peek = "NULL"
    /\ out' = "parsed"
    /\ UNCHANGED <<idx, stack, val, Heap, errs>>
-----------------------------------------------------------------------------
(***************************************************************************)
(* parse_fn, parse_fn_param and parse_fn_ret                               *)
(***************************************************************************)

FnName ==
    /\ On("fn_name")
    /\ Expect({"ident", "prim"}, idx)
    /\ IF Peek \in {"ident", "prim"}
       THEN /\ NewNode(MakeAst("fn", idx, <<0, 0>>))
            /\ TopGoes(MakeFrame("fn_lparen", Len(nodes'), idx + 1))
            /\ idx' = idx + 1
            /\ UNCHANGED val
       ELSE Return(0) /\ UNCHANGED <<nodes, idx>>
    /\ UNCHANGED freed

\* The error points at the token after the name, which was looked at before
\* whitespace was skipped.
FnLparen ==
    /\ On("fn_lparen")
    /\ Expect({"("}, Top.tok)
    /\ idx' = idx + 1
    /\ Goto("fn_params")
    /\ UNCHANGED <<val, Heap>>

FnNoParams ==
    /\ On("fn_params") /\ Peek = ")"
    /\ Goto("fn_rparen")
    /\ Quiet /\ UNCHANGED <<idx, val, Heap>>

\* parse_fn_param returns NULL and consumes nothing.
FnParam ==
    /\ \/ On("fn_params") /\ Peek # ")"
       \/ Back("fn_param")
    /\ Goto("fn_comma")
    /\ Quiet /\ UNCHANGED <<idx, val, Heap>>

\* The loop over the parameters ends at a comma.
FnComma ==
    /\ On("fn_comma")
    /\ Goto(IF Peek = "," THEN "fn_rparen" ELSE "fn_param")
    /\ Quiet /\ UNCHANGED <<idx, val, Heap>>

FnRparen ==
    /\ On("fn_rparen")
    /\ Expect({")"}, idx)
    /\ idx' = idx + 1
    /\ Goto("fn_ret")
    /\ UNCHANGED <<val, Heap>>

FnRet ==
    /\ On("fn_ret")
    /\ Goto(IF Peek = "-" THEN "ret_arrow" ELSE "fn_body")
    /\ idx' = IF Peek = "-" THEN idx + 1 ELSE idx
    /\ Quiet /\ UNCHANGED <<val, Heap>>

\* The error for an arrow that lacks its '>' points at the '-'.
FnRetArrow ==
    /\ On("ret_arrow")
    /\ Expect({">"}, idx - 1)
    /\ idx' = idx + 1
    /\ Call("fn_ret_type", "type")
    /\ UNCHANGED <<val, Heap>>

FnRetType ==
    /\ Back("fn_ret_type")
    /\ SetKid(Top.node, 1, val)
    /\ Goto("fn_body")
    /\ Quiet /\ UNCHANGED <<idx, val, freed>>

FnBody ==
    /\ On("fn_body")
    /\ Expect({"{"}, idx)
    /\ Call("fn_end", "block")
    /\ UNCHANGED <<idx, val, Heap>>

FnEnd ==
    /\ Back("fn_end")
    /\ SetKid(Top.node, 2, val)
    /\ Return(Top.node)
    /\ Quiet /\ UNCHANGED <<idx, freed>>
-----------------------------------------------------------------------------
(***************************************************************************)
(* parse_block and parse_stmt                                              *)
(***************************************************************************)

Block ==
    /\ On("block")
    /\ IF Peek = "{"
       THEN /\ NewNode(MakeAst("block", idx, <<>>))
            /\ TopGoes(MakeFrame("block_loop", Len(nodes'), 0))
            /\ idx' = idx + 1
            /\ Quiet /\ UNCHANGED <<val, freed>>
       ELSE Panic

\* The frame remembers where the statement begins (span_stmt_before).
BlockStmt ==
    /\ On("block_loop") /\ Peek # "}"
    /\ stack' = Append([stack EXCEPT ![Len(stack)] =
                            MakeFrame("block_stmt", Top.node, idx)],
                       MakeFrame("stmt", 0, 0))
    /\ Quiet /\ UNCHANGED <<idx, val, Heap>>

BlockStmtDone ==
    /\ Back("block_stmt")
    /\ IF Top.tok = idx \/ ~ AstIsStmt(val)
       THEN Panic
       ELSE /\ AddKid(Top.node, val)
            /\ Goto("block_loop")
            /\ Quiet /\ UNCHANGED <<idx, val, freed>>

BlockLoopEnd ==
    /\ On("block_loop") /\ Peek = "}"
    /\ Goto("block_end")
    /\ Quiet /\ UNCHANGED <<idx, val, Heap>>

BlockEnd ==
    /\ On("block_end")
    /\ Expect({"}"}, idx)
    /\ idx' = idx + 1
    /\ Return(Top.node)
    /\ UNCHANGED Heap

StmtLet ==
    /\ On("stmt") /\ Peek = "let"
    /\ NewNode(MakeAst("let", idx, <<0, 0>>))
    /\ TopGoes(MakeFrame("let_name", Len(nodes'), 0))
    /\ idx' = idx + 1
    /\ Quiet /\ UNCHANGED <<val, freed>>

\* Whatever is found becomes the name.
LetName ==
    /\ On("let_name")
    /\ Expect({"ident", "prim"}, idx)
    /\ idx' = idx + 1
    /\ Goto("let_colon")
    /\ UNCHANGED <<val, Heap>>

LetColon ==
    /\ On("let_colon")
    /\ IF Peek = ":"
       THEN idx' = idx + 1 /\ Call("let_type", "type")
       ELSE Goto("let_semi") /\ UNCHANGED idx
    /\ Quiet /\ UNCHANGED <<val, Heap>>

LetType ==
    /\ Back("let_type")
    /\ SetKid(Top.node, 1, val)
    /\ Goto("let_semi")
    /\ Quiet /\ UNCHANGED <<idx, val, freed>>

LetEnd ==
    /\ On("let_semi") /\ Peek = ";"
    /\ idx' = idx + 1
    /\ Return(Top.node)
    /\ Quiet /\ UNCHANGED Heap

LetAssign ==
    /\ On("let_semi") /\ Peek # ";"
    /\ Expect({"="}, idx)
    /\ idx' = idx + 1
    /\ Call("let_expr", "expr")
    /\ UNCHANGED <<val, Heap>>

\* Mutated form: the value is returned in place of the statement.
LetExprReturnsValue ==
    /\ Back("let_expr")
    /\ IF AstIsExpr(val)
       THEN /\ SetKid(Top.node, 2, val)
            /\ Return(val)
            /\ Quiet /\ UNCHANGED <<idx, freed>>
       ELSE Panic

\* A let-statement with a value ends at the value.
LetExpr ==
    /\ Back("let_expr")
    /\ IF AstIsExpr(val)
       THEN /\ SetKid(Top.node, 2, val)
            /\ Return(Top.node)
            /\ Quiet /\ UNCHANGED <<idx, freed>>
       ELSE Panic

StmtRet ==
    /\ On("stmt") /\ Peek = "ret"
    /\ Call("ret_expr", "expr")
    /\ idx' = idx + 1
    /\ Quiet /\ UNCHANGED <<val, Heap>>

\* make_ast_ret takes operators and constants only.
RetExpr ==
    /\ Back("ret_expr")
    /\ IF AstIsExpr(val)
       THEN /\ NewNode(MakeAst("ret", 0, <<val>>))
            /\ TopGoes(MakeFrame("ret_semi", Len(nodes'), 0))
            /\ Quiet /\ UNCHANGED <<idx, val, freed>>
       ELSE Panic

RetSemi ==
    /\ On("ret_semi")
    /\ Expect({";"}, idx)
    /\ idx' = idx + 1
    /\ Return(Top.node)
    /\ UNCHANGED Heap

\* Any other statement is parsed as an expression, and then panics.
StmtExpr ==
    /\ On("stmt") /\ Peek \notin {"let", "ret"}
    /\ Call("stmt_expr", "expr")
    /\ Quiet /\ UNCHANGED <<idx, val, Heap>>

StmtExprDone == Back("stmt_expr") /\ Panic
-----------------------------------------------------------------------------
(***************************************************************************)
(* parse_expr and the functions below it.  The functions between           *)
(* parse_expr_prefix and parse_expr_bottom only call the next one.         *)
(***************************************************************************)

\* The frames of a call of parse_expr_factor, down to its first operand.
FactorFrames == << MakeFrame("factor_lhs", 0, 0), MakeFrame("bottom", 0, 0) >>

ExprIf == On("expr") /\ Peek = "if" /\ Panic

ExprBlock ==
    /\ On("expr") /\ Peek = "{"
    /\ TopGoes(MakeFrame("block", 0, 0))
    /\ Quiet /\ UNCHANGED <<idx, val, Heap>>

ExprTerm ==
    /\ On("expr") /\ Peek \notin {"if", "{"}
    /\ stack' = [stack EXCEPT ![Len(stack)] = MakeFrame("term_lhs", 0, 0)]
                \o FactorFrames
    /\ Quiet /\ UNCHANGED <<idx, val, Heap>>

BottomConst ==
    /\ On("bottom") /\ Peek = "int"
    /\ NewNode(MakeAst("const", idx, <<>>))
    /\ Return(Len(nodes'))
    /\ idx' = idx + 1
    /\ Quiet /\ UNCHANGED freed

\* parse_expr_const compares with kTokFloat twice and never with kTokStr.
BottomStr == On("bottom") /\ Peek \in {"str", "lines"} /\ Panic

\* parse_expr_var and parse_expr_paren return NULL and consume nothing, and
\* so does parse_expr_bottom after it has reported any other token.
BottomNull ==
    /\ On("bottom") /\ Peek \notin {"int", "str", "lines"}
    /\ Expect({"ident", "prim", "("}, idx)
    /\ Return(0)
    /\ UNCHANGED <<idx, Heap>>

\* A left operand has been parsed, or could not be.
Lhs(back, op) ==
    /\ Back(back)
    /\ IF val = 0 THEN Return(0)
       ELSE TopGoes(MakeFrame(op, val, 0)) /\ UNCHANGED val
    /\ Quiet /\ UNCHANGED <<idx, Heap>>

\* One of the operators: its right operand is next.  Otherwise the node the
\* loop has built so far is returned.
Operator(op, operators, rhs, callee) ==
    /\ On(op)
    /\ IF Peek \in operators
       THEN /\ stack' = [stack EXCEPT ![Len(stack)] =
                            MakeFrame(rhs, Top.node, idx)] \o callee
            /\ idx' = idx + 1
            /\ UNCHANGED val
       ELSE Return(Top.node) /\ UNCHANGED idx
    /\ Quiet /\ UNCHANGED Heap

\* Mutated form: the operands change places.
BinopSwapped(tok, lhs, rhs) == MakeAst("binop", tok, <<rhs, lhs>>)

Binop(tok, lhs, rhs) == MakeAst("binop", tok, <<lhs, rhs>>)

\* A right operand: the operator takes the node built so far as its left one.
Rhs(back, op) ==
    /\ Back(back)
    /\ val # 0
    /\ NewNode(Binop(Top.tok, Top.node, val))
    /\ TopGoes(MakeFrame(op, Len(nodes'), 0))
    /\ Quiet /\ UNCHANGED <<idx, val, freed>>

\* Mutated form: the left operand is not released.
RhsMissingKeepsLhs(back) ==
    /\ Back(back)
    /\ val = 0
    /\ Return(0)
    /\ UNCHANGED <<idx, nodes, freed, out, errs>>

\* No right operand: the left one is released.
RhsMissing(back) ==
    /\ Back(back)
    /\ val = 0
    /\ ReleaseAst(Top.node, "running")
    /\ Return(0)
    /\ UNCHANGED <<idx, nodes, errs>>

Factor ==
    \/ Lhs("factor_lhs", "factor_op")
    \/ Operator("factor_op", {"*", "/"}, "factor_rhs",
                << MakeFrame("bottom", 0, 0) >>)
    \/ Rhs("factor_rhs", "factor_op")
    \/ RhsMissing("factor_rhs")

Term ==
    \/ Lhs("term_lhs", "term_op")
    \/ Operator("term_op", {"+", "-"}, "term_rhs", FactorFrames)
    \/ Rhs("term_rhs", "term_op")
    \/ RhsMissing("term_rhs")
-----------------------------------------------------------------------------
(***************************************************************************)
(* parse_type, parse_type_aux and parse_type_array.  A Type* is TypeRef or *)
(* NULL here; TypeTable has the table it points into.                      *)
(***************************************************************************)

TypeRef == 1

Type ==
    /\ On("type")
    /\ Call("type_done", "aux")
    /\ Quiet /\ UNCHANGED <<idx, val, Heap>>

TypeDone ==
    /\ Back("type_done")
    /\ IF val = 0 THEN Panic
       ELSE /\ NewNode(MakeAst("type", 0, <<>>))
            /\ Return(Len(nodes'))
            /\ Quiet /\ UNCHANGED <<idx, freed>>

\* get_type_from_name: whatever token it is, it is consumed.
AuxName ==
    /\ On("aux") /\ Peek # "["
    /\ idx' = idx + 1
    /\ IF Peek = "prim" THEN Goto("ptr") /\ UNCHANGED val
                        ELSE Return(0)
    /\ Quiet /\ UNCHANGED Heap

AuxArray ==
    /\ On("aux") /\ Peek = "["
    /\ idx' = idx + 1
    /\ Call("array_elem", "aux")
    /\ Quiet /\ UNCHANGED <<val, Heap>>

\* Nothing checks that the element type is one.
ArrayElem ==
    /\ Back("array_elem")
    /\ Goto("array_semi")
    /\ Quiet /\ UNCHANGED <<idx, val, Heap>>

ArraySemi ==
    /\ On("array_semi")
    /\ idx' = IF Peek = ";" THEN idx + 1 ELSE idx
    /\ Goto(IF Peek = ";" THEN "array_len" ELSE "array_end")
    /\ Quiet /\ UNCHANGED <<val, Heap>>

\* Mutated form: the node made for the length is not released.
ArrayLenKept ==
    /\ On("array_len")
    /\ IF Peek = "int"
       THEN /\ NewNode(MakeAst("const", idx, <<>>))
            /\ idx' = idx + 1
            /\ Goto("array_end")
            /\ UNCHANGED <<val, freed>>
       ELSE Return(0) /\ UNCHANGED <<idx, Heap>>
    /\ Quiet

\* A node is made for the length, read and released.
ArrayLen ==
    /\ On("array_len")
    /\ IF Peek = "int"
       THEN /\ NewNode(MakeAst("const", idx, <<>>))
            /\ freed' = freed \cup {Len(nodes')}
            /\ idx' = idx + 1
            /\ Goto("array_end")
            /\ UNCHANGED val
       ELSE Return(0) /\ UNCHANGED <<idx, Heap>>
    /\ Quiet

ArrayEnd ==
    /\ On("array_end")
    /\ Expect({"]"}, idx)
    /\ idx' = idx + 1
    /\ Goto("ptr")
    /\ UNCHANGED <<val, Heap>>

Ptr ==
    /\ On("ptr")
    /\ IF Peek = "*" THEN idx' = idx + 1 /\ UNCHANGED <<stack, val>>
                     ELSE Return(TypeRef) /\ UNCHANGED idx
    /\ Quiet /\ UNCHANGED Heap
-----------------------------------------------------------------------------
(***************************************************************************)
(* main_compile_files after parser_parse, and LN_CHECK_LEAK at the end.    *)
(***************************************************************************)

ReleaseTree ==
    /\ out = "parsed"
    /\ ReleaseAst(1, "released")
    /\ UNCHANGED <<idx, stack, val, nodes, errs>>

Live == (1 .. Len(nodes)) \ freed

CheckLeak ==
    /\ out = "released"
    /\ out' = IF Live = {} THEN "exited" ELSE "leak"
    /\ UNCHANGED <<idx, stack, val, Heap, errs>>
-----------------------------------------------------------------------------
ParseProg == ProgFn \/ ProgFnDone \/ ProgDecl \/ ProgUnknown \/ ProgEnd

ParseFn ==
    \/ FnName \/ FnLparen \/ FnNoParams \/ FnParam \/ FnComma \/ FnRparen
    \/ FnRet \/ FnRetArrow \/ FnRetType \/ FnBody \/ FnEnd

ParseBlock == Block \/ BlockStmt \/ BlockStmtDone \/ BlockLoopEnd \/ BlockEnd

ParseStmt ==
    \/ StmtLet \/ LetName \/ LetColon \/ LetType \/ LetEnd \/ LetAssign
    \/ LetExpr \/ StmtRet \/ RetExpr \/ RetSemi \/ StmtExpr \/ StmtExprDone

ParseExpr ==
    \/ ExprIf \/ ExprBlock \/ ExprTerm
    \/ BottomConst \/ BottomStr \/ BottomNull
    \/ Factor \/ Term

ParseType ==
    \/ Type \/ TypeDone \/ AuxName \/ AuxArray
    \/ ArrayElem \/ ArraySemi \/ ArrayLen \/ ArrayEnd \/ Ptr

Parse ==
    \/ ConsumeWhitespace \/ LookAtNull
    \/ ParseProg \/ ParseFn \/ ParseBlock \/ ParseStmt \/ ParseExpr \/ ParseType
    \/ ReleaseTree \/ CheckLeak

Next ==
    \/ Feed
    \/ Parse /\ UNCHANGED <<toks, closed>>

Spec == Init /\ [][Next]_vars

\* One thread runs the parser to its end; the token list is there.
FairSpec == Spec /\ WF_vars(Next)
-----------------------------------------------------------------------------
(***************************************************************************)
(* Properties                                                              *)
(***************************************************************************)

\* What a frame is at: where its function looks at a token, ...
Looking == SkipsWhitespace \cup {"prog", "ret_arrow", "block", "aux"}

\* ... or the call it waits for: for a node or NULL, or for a Type*.
WaitsForNode ==
    {"prog_fn", "fn_ret_type", "fn_end", "block_stmt", "let_type", "let_expr",
     "ret_expr", "stmt_expr", "factor_lhs", "factor_rhs", "term_lhs",
     "term_rhs"}

WaitsForType == {"type_done", "array_elem"}

Waiting == WaitsForNode \cup WaitsForType

Outcome == {"running", "parsed", "released", "exited", "leak", "panic", "crash"}

AstKind == {"prog", "fn", "block", "let", "ret", "binop", "const", "type"}

\* The number of children a node of a kind has; the functions of a program
\* and the statements of a block are any number.
Arity(kind, n) ==
    CASE kind \in {"fn", "let", "binop"} -> n = 2
      [] kind = "ret"                   -> n = 1
      [] kind \in {"const", "type"}     -> n = 0
      [] kind \in {"prog", "block"}     -> n >= 0

\* The tokens, the frames and the tree are what the C types say, children are
\* nodes made before the program ended, and only the running function looks
\* at tokens: the ones below it wait for a call.
TypeOK ==
    /\ toks \in Seq(Tokens) /\ Len(toks) <= MaxToks
    /\ closed \in BOOLEAN
    /\ idx \in 1 .. Len(toks) + 1
    /\ out \in Outcome
    /\ val \in 0 .. Len(nodes)
    /\ \A n \in 1 .. Len(nodes) :
          /\ nodes[n].kind \in AstKind
          /\ nodes[n].tok \in 0 .. Len(toks)
          /\ Arity(nodes[n].kind, Len(nodes[n].kids))
          /\ \A i \in 1 .. Len(nodes[n].kids) :
                nodes[n].kids[i] \in 0 .. Len(nodes)
    /\ freed \subseteq 1 .. Len(nodes)
    /\ stack # <<>>
    /\ \A d \in 1 .. Len(stack) :
          /\ stack[d].at \in (IF d = Len(stack) THEN Looking ELSE {}) \cup Waiting
                             \cup {"fn_param"}
          /\ stack[d].node \in 0 .. Len(nodes)
          /\ stack[d].tok \in 0 .. Len(toks) + 1
    /\ \A i \in 1 .. Len(errs) : errs[i] \in 1 .. Len(toks)

\* What holds a node, with the node (or NULL): a place for a child in a node
\* that is not released, a frame, or the value that was just returned.
Holders ==
    (UNION { { <<n, i, nodes[n].kids[i]>> : i \in DOMAIN nodes[n].kids } : n \in Live })
        \cup { <<0, d, stack[d].node>> : d \in DOMAIN stack }
        \cup (IF Top.at \in WaitsForNode THEN { <<0, 0, val>> } ELSE {})

\* Until the tree is given up, every node that is not released is held in
\* exactly one place, and nothing holds a released one: the parser neither
\* loses a node nor has two owners for it, also where it releases a left
\* operand whose right one is missing.
HeapOwned ==
    out \in {"running", "parsed"} =>
        LET holders == { h \in Holders : h[3] # 0 }
        IN  /\ { h[3] : h \in holders } = Live
            /\ Cardinality(holders) = Cardinality(Live)

\* The tokens of the operators and constants at and below a node.
SubTokens(n) ==
    LET kids == [m \in 1 .. Len(nodes) |->
                    { nodes[m].kids[i] : i \in 1 .. Len(nodes[m].kids) }]
    IN  { nodes[m].tok : m \in Reached(n, kids, Len(nodes)) \ {0} }

Level(n) ==
    IF nodes[n].kind = "const" THEN 2
    ELSE IF toks[nodes[n].tok] \in {"*", "/"} THEN 1 ELSE 0

\* An operator stands between its operands, '*' and '/' bind tighter than '+'
\* and '-', and operators of one level associate to the left
\* (parse_expr_term and parse_expr_factor).
ExprShape ==
    \A n \in 1 .. Len(nodes) : nodes[n].kind = "binop" =>
        LET lhs == nodes[n].kids[1]
            rhs == nodes[n].kids[2]
        IN  /\ \A t \in SubTokens(lhs) : t < nodes[n].tok
            /\ \A t \in SubTokens(rhs) : t > nodes[n].tok
            /\ Level(lhs) >= Level(n)
            /\ Level(rhs) > Level(n)

\* Every statement consumes a token and is one: the panic of parse_block for a
\* statement that made no progress, and the check in ast_block_add_stmt, never
\* stop the program.
StatementsAdvance ==
    out = "running" /\ Top.at = "block_stmt" => Top.tok < idx /\ AstIsStmt(val)

\* What is not released at the end are types of let-statements, which
\* release_ast_let forgets, and nothing else.
OnlyLetTypesLeak ==
    out \in {"released", "exited", "leak"} =>
        \A n \in Live : \E m \in freed :
            nodes[m].kind = "let" /\ nodes[m].kids[1] = n

\* The loop over the parameters of a function, which consumes nothing.
InParams == Top.at \in {"fn_param", "fn_comma"}

\* The program ends, unless it is caught in the loop over the parameters.
Terminates == <>(out \notin {"running", "parsed", "released"}) \/ <>[]InParams

\* What a function at a label may still do before it consumes a token or
\* returns, weighed against twelve for each token and two for each frame; one
\* that was given NULL does not go on.
Effort(at, given) ==
    CASE at \in {"prog_fn", "fn_param", "fn_comma", "let_type", "let_colon",
                 "array_semi", "array_len"} -> 1
      [] at \in {"fn_params", "array_elem", "ptr"} -> 2
      [] at \in {"fn_body", "type"} -> 3
      [] at \in {"fn_ret", "fn_ret_type"} -> 4
      [] at = "expr" -> 5
      [] at = "stmt" -> 8
      [] at \in {"factor_op", "term_op"} -> 10
      [] at = "block_loop" -> 11
      [] at = "block_stmt" -> 12
      [] at = "ret_expr" /\ given # 0 -> 1
      [] at = "type_done" /\ given # 0 -> 3
      [] at \in {"let_expr", "factor_lhs", "factor_rhs", "term_lhs",
                 "term_rhs"} /\ given # 0 -> 11
      [] OTHER -> 0

\* What main_compile_files still does.
Remains ==
    CASE out = "running" -> 3 [] out = "parsed" -> 2 [] out = "released" -> 1
      [] OTHER -> 0

\* A bound on the steps the program still takes.
StepsLeft ==
    12 * (MaxToks + 1 - idx) + (MaxToks - Len(toks)) + (IF closed THEN 0 ELSE 1)
        + 2 * Len(stack) + Effort(Top.at, val) + Remains

\* Parsing takes time linear in the tokens and needs no more stack than that:
\* no function calls another, or goes round a loop, over and over without
\* consuming a token, but for the loop over the parameters.
AlwaysProgress ==
    [][ /\ StepsLeft' \in Nat
        /\ \/ StepsLeft' < StepsLeft
           \/ StepsLeft' = StepsLeft /\ InParams /\ InParams' ]_vars
-----------------------------------------------------------------------------
(***************************************************************************)
(* What the repository says of the parser, and the code does not keep.     *)
(***************************************************************************)

\* "Recursively release ast": release_ast gets through what the parser built.
TreeReleased == out = "crash" => Top.at # "prog"

\* "Expected right parenthesis ')' at the end of the parameter list": a list
\* that does not end there is reported, and parse_fn goes on.
ParamsEnd ==
    (out = "running" /\ Top.at = "fn_params") ~>
        (out # "running" \/ Top.at = "fn_rparen")
=============================================================================
