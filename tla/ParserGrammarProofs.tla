------------------------- MODULE ParserGrammarProofs -------------------------
(***************************************************************************)
(* The parser gets through exactly the programs of the grammar, whatever   *)
(* the tokens and however many.                                            *)
(*                                                                         *)
(* Each frame is at a label, and from a label a function takes a phrase    *)
(* of its own to its end: Rest.  Ahead holds of a program when the phrases *)
(* of all frames, one after another, get from the token the parser is at   *)
(* to the end, and GInv says that the program is of the grammar if and     *)
(* only if Ahead holds and there has been no error.  It does so for every  *)
(* program that begins with the tokens seen so far, not for one of them:   *)
(* the parser sees one token at a time.                                    *)
(***************************************************************************)
EXTENDS ParserProofs, ParserGrammar

(***************************************************************************)
(* What is left of the program                                             *)
(***************************************************************************)

\* The phrase there is none of, and the two ways in which a type ends.
None(ts) == [i \in Places(ts) |-> {}]

TypeOf(ts) == [i \in Places(ts) |-> TypeEnds(ts)[i].type]

NullOf(ts) == [i \in Places(ts) |-> TypeEnds(ts)[i].null]

\* What functions of the parser take from a label to their end.
ProgTail(ts) == Star(ts, Fn(ts)) ** Blank(ts)

Stmt(ts) == Let(ts) ++ Ret(ts)

BlockTail(ts) == Star(ts, Stmt(ts)) ** Sym(ts, {"}"})

FnRetTail(ts) == (Nothing(ts) ++ Arrow(ts)) ** Body(ts)

FnRparenTail(ts) == Sym(ts, {")"}) ** FnRetTail(ts)

FnLparenTail(ts) == Sym(ts, {"("}) ** FnRparenTail(ts)

LetColonTail(ts) == (Nothing(ts) ++ Sym(ts, {":"}) ** TypeIn(ts)) ** LetEnds(ts)

\* The operators of parse_expr_factor and of parse_expr_term, and their right
\* operands.
MoreConsts(ts) == More(ts, {"*", "/"}, Const(ts))

MoreFactors(ts) == More(ts, {"+", "-"}, Factors(ts))

ArrayEndTail(ts) == Sym(ts, {"]"}) ** Stars(ts)

\* What an array type may end with and what it may end with as none.
AuxRest(ts, at) ==
    CASE at = "aux" -> TypeOf(ts)
      [] at \in {"array_elem", "array_semi"} -> ArrayTail(ts)
      [] at = "array_len" -> Const(ts) ** ArrayEndTail(ts)
      [] at = "array_end" -> ArrayEndTail(ts)
      [] at = "ptr" -> Stars(ts)

AuxNull(ts, at) ==
    CASE at = "aux" -> NullOf(ts)
      [] at \in {"array_elem", "array_semi"} -> Sym(ts, {";"}) ** NoLength(ts)
      [] at = "array_len" -> NoLength(ts)
      [] at \in {"array_end", "ptr"} -> None(ts)

\* What parse_fn, parse_block, the statements and the expressions take from a
\* label.  A parameter and an expression that stands alone end in an error.
FnRest(ts, at) ==
    CASE at = "fn_name" -> Name(ts) ** FnLparenTail(ts)
      [] at = "fn_lparen" -> FnLparenTail(ts)
      [] at \in {"fn_params", "fn_rparen"} -> FnRparenTail(ts)
      [] at \in {"fn_param", "fn_comma"} -> None(ts)
      [] at = "fn_ret" -> FnRetTail(ts)
      [] at = "ret_arrow" -> Glued(ts, {">"}) ** (TypeIn(ts) ** Body(ts))
      [] at \in {"fn_ret_type", "fn_body"} -> Body(ts)
      [] at = "fn_end" -> Nothing(ts)

BlockRest(ts, at) ==
    CASE at = "block" -> Glued(ts, {"{"}) ** BlockTail(ts)
      [] at \in {"block_loop", "block_stmt"} -> BlockTail(ts)
      [] at = "block_end" -> Sym(ts, {"}"})

StmtRest(ts, at) ==
    CASE at = "stmt" -> Stmt(ts)
      [] at = "let_name" -> Name(ts) ** LetColonTail(ts)
      [] at = "let_colon" -> LetColonTail(ts)
      [] at \in {"let_type", "let_semi"} -> LetEnds(ts)
      [] at = "let_expr" -> Nothing(ts)
      [] at \in {"ret_expr", "ret_semi"} -> Sym(ts, {";"})
      [] at = "stmt_expr" -> None(ts)

ExprRest(ts, at) ==
    CASE at = "expr" -> Expr(ts)
      [] at \in TermAt -> MoreFactors(ts)
      [] at \in FactorAt -> MoreConsts(ts)
      [] at = "bottom" -> Const(ts)

\* A block that is a value is never one that can be used; an element type may
\* be none.
Rest(ts, caller, at) ==
    IF at \in {"prog", "prog_fn"} THEN ProgTail(ts)
    ELSE IF at \in FnAt THEN FnRest(ts, at)
    ELSE IF at \in BlockAt
    THEN IF caller \in ExprCaller THEN None(ts) ELSE BlockRest(ts, at)
    ELSE IF at \in StmtAt THEN StmtRest(ts, at)
    ELSE IF at \in AuxAt
    THEN IF caller = "array_elem" THEN AuxRest(ts, at) ++ AuxNull(ts, at)
                                  ELSE AuxRest(ts, at)
    ELSE IF at = "type" THEN TypeIn(ts)
    ELSE IF at = "type_done" THEN Nothing(ts)
    ELSE ExprRest(ts, at)

\* Where the function below the frame d waits for it.
Caller(st, d) == IF d = 1 THEN "main" ELSE st[d - 1].at

\* The frames up to the d-th, going on at place i, get to the end.
Good(ts, st, d, i) ==
    \E p \in [0 .. d -> Places(ts)] :
        /\ p[d] = i
        /\ p[0] = Len(ts) + 1
        /\ \A e \in 1 .. d : p[e - 1] \in Rest(ts, Caller(st, e), st[e].at)[p[e]]

\* The function that goes on can use what the last call has returned.
Usable ==
    /\ Top.at \in ExprCaller => AstIsExpr(val)
    /\ Top.at \in {"factor_lhs", "factor_rhs", "term_lhs", "term_rhs", "type_done"}
          => val # 0

\* The rest of ts is what the frames still have to take.
Ahead(ts) == Good(ts, stack, Len(stack), idx) /\ Usable

\* The tokens seen so far are the first ones of ts, and all if there are no
\* more.
Completes(ts) ==
    /\ Len(toks) <= Len(ts)
    /\ \A i \in 1 .. Len(toks) : ts[i] = toks[i]
    /\ closed => ts = toks

\* What the parser has found out of every program that may be the one it
\* parses.
GInv ==
    \A ts \in Seq(Tok) : Completes(ts) =>
        /\ out = "running" => (InGrammar(ts) <=> errs = <<>> /\ Ahead(ts))
        /\ out = "parsed" => closed /\ (InGrammar(ts) <=> errs = <<>>)
        /\ out = "panic" \/ (out = "crash" /\ Top.at # "prog") => ~ InGrammar(ts)
-----------------------------------------------------------------------------
(***************************************************************************)
(* Phrases                                                                 *)
(***************************************************************************)

Phrases(ts) == [Places(ts) -> SUBSET Places(ts)]

\* Those that never end before they begin, and those that consume a token.
Forward(ts) ==
    { p \in Phrases(ts) : \A i \in Places(ts) : \A j \in p[i] : i <= j }

Strict(ts) ==
    { p \in Phrases(ts) : \A i \in Places(ts) : \A j \in p[i] : i < j }

\* What a phrase after another one and a choice of two come to.
LEMMA ThenIs ==
    ASSUME NEW ts, NEW p \in Phrases(ts), NEW q \in Phrases(ts)
    PROVE  /\ p ** q \in Phrases(ts)
           /\ \A i \in Places(ts) : (p ** q)[i] = UNION { q[j] : j \in p[i] }
  BY DEF **, Phrases

\* One phrase or another ends where either of them does.
LEMMA EitherIs ==
    ASSUME NEW ts, NEW p \in Phrases(ts), NEW q \in Phrases(ts)
    PROVE  /\ p ++ q \in Phrases(ts)
           /\ \A i \in Places(ts) : (p ++ q)[i] = p[i] \cup q[i]
  BY DEF ++, Phrases

\* Two phrases that end at the same places are the same.
LEMMA SamePhrase ==
    ASSUME NEW ts, NEW p \in Phrases(ts), NEW q \in Phrases(ts),
           \A i \in Places(ts) : p[i] = q[i]
    PROVE  p = q
  BY DEF Phrases

\* One phrase after another is associative.
LEMMA ThenAssoc ==
    ASSUME NEW ts, NEW p \in Phrases(ts), NEW q \in Phrases(ts),
           NEW r \in Phrases(ts)
    PROVE  (p ** q) ** r = p ** (q ** r)
<1>1. p ** q \in Phrases(ts) /\ q ** r \in Phrases(ts)
  BY ThenIs
<1>2. (p ** q) ** r \in Phrases(ts) /\ p ** (q ** r) \in Phrases(ts)
  BY <1>1, ThenIs
<1>3. ASSUME NEW i \in Places(ts)
      PROVE  ((p ** q) ** r)[i] = (p ** (q ** r))[i]
  <2>1. ((p ** q) ** r)[i] = UNION { r[j] : j \in (p ** q)[i] }
    BY <1>1, ThenIs
  <2>2. (p ** (q ** r))[i] = UNION { (q ** r)[j] : j \in p[i] }
    BY <1>1, ThenIs
  <2>3. \A j \in p[i] : (q ** r)[j] = UNION { r[k] : k \in q[j] }
    BY ThenIs DEF Phrases
  <2>4. (p ** q)[i] = UNION { q[j] : j \in p[i] }
    BY ThenIs
  <2>5. QED
    BY <2>1, <2>2, <2>3, <2>4
<1>4. QED
  BY <1>2, <1>3, SamePhrase

\* What follows a choice follows both.
LEMMA EitherThen ==
    ASSUME NEW ts, NEW p \in Phrases(ts), NEW q \in Phrases(ts),
           NEW r \in Phrases(ts)
    PROVE  (p ++ q) ** r = (p ** r) ++ (q ** r)
<1>1. p ++ q \in Phrases(ts) /\ p ** r \in Phrases(ts) /\ q ** r \in Phrases(ts)
  BY ThenIs, EitherIs
<1>2. (p ++ q) ** r \in Phrases(ts) /\ (p ** r) ++ (q ** r) \in Phrases(ts)
  BY <1>1, ThenIs, EitherIs
<1>3. ASSUME NEW i \in Places(ts)
      PROVE  ((p ++ q) ** r)[i] = ((p ** r) ++ (q ** r))[i]
  <2>1. ((p ++ q) ** r)[i] = UNION { r[j] : j \in (p ++ q)[i] }
    BY <1>1, ThenIs
  <2>2. (p ++ q)[i] = p[i] \cup q[i]
    BY EitherIs
  <2>3. ((p ** r) ++ (q ** r))[i] = (p ** r)[i] \cup (q ** r)[i]
    BY <1>1, EitherIs
  <2>4. /\ (p ** r)[i] = UNION { r[j] : j \in p[i] }
        /\ (q ** r)[i] = UNION { r[j] : j \in q[i] }
    BY ThenIs
  <2>5. QED
    BY <2>1, <2>2, <2>3, <2>4
<1>4. QED
  BY <1>2, <1>3, SamePhrase

\* Nothing consumes nothing.
LEMMA NothingIs ==
    ASSUME NEW ts
    PROVE  /\ Nothing(ts) \in Phrases(ts)
           /\ \A i \in Places(ts) : Nothing(ts)[i] = {i}
  BY DEF Nothing, Phrases

\* Nothing before a phrase changes nothing.
LEMMA NothingThen ==
    ASSUME NEW ts, NEW q \in Phrases(ts)
    PROVE  Nothing(ts) ** q = q
<1>1. Nothing(ts) ** q \in Phrases(ts)
  BY NothingIs, ThenIs
<1>2. ASSUME NEW i \in Places(ts)
      PROVE  (Nothing(ts) ** q)[i] = q[i]
  <2>1. (Nothing(ts) ** q)[i] = UNION { q[j] : j \in Nothing(ts)[i] }
    BY NothingIs, ThenIs
  <2>2. QED
    BY <2>1, NothingIs
<1>3. QED
  BY <1>1, <1>2, SamePhrase

\* What may be left out before a phrase.
LEMMA OptionThen ==
    ASSUME NEW ts, NEW p \in Phrases(ts), NEW q \in Phrases(ts)
    PROVE  (Nothing(ts) ++ p) ** q = q ++ (p ** q)
<1>1. Nothing(ts) \in Phrases(ts)
  BY NothingIs
<1>2. (Nothing(ts) ++ p) ** q = (Nothing(ts) ** q) ++ (p ** q)
  BY <1>1, EitherThen
<1>3. QED
  BY <1>2, NothingThen

\* Which phrases consume a token.
LEMMA Advance ==
    ASSUME NEW ts \in Seq(Tok)
    PROVE  /\ Strict(ts) \subseteq Forward(ts) /\ Forward(ts) \subseteq Phrases(ts)
           /\ Nothing(ts) \in Forward(ts)
           /\ \A p \in Forward(ts) : \A q \in Forward(ts) :
                 p ** q \in Forward(ts) /\ p ++ q \in Forward(ts)
           /\ \A p \in Strict(ts) : \A q \in Forward(ts) : p ** q \in Strict(ts)
           /\ \A p \in Forward(ts) : \A q \in Strict(ts) : p ** q \in Strict(ts)
           /\ \A p \in Strict(ts) : \A q \in Strict(ts) : p ++ q \in Strict(ts)
<1>1. Places(ts) \subseteq Nat
  BY DEF Places
<1>2. Strict(ts) \subseteq Forward(ts) /\ Forward(ts) \subseteq Phrases(ts)
  <2>1. \A p \in Phrases(ts) : \A i \in Places(ts) : \A j \in p[i] : j \in Nat
    BY <1>1 DEF Phrases
  <2>2. \A i, j \in Nat : i < j => i <= j
    OBVIOUS
  <2>3. QED
    BY <1>1, <2>1, <2>2 DEF Strict, Forward
<1>3. Nothing(ts) \in Forward(ts)
  BY <1>1, NothingIs DEF Forward
<1>4. ASSUME NEW p \in Forward(ts), NEW q \in Forward(ts)
      PROVE  /\ p ** q \in Forward(ts) /\ p ++ q \in Forward(ts)
             /\ p \in Strict(ts) \/ q \in Strict(ts) => p ** q \in Strict(ts)
             /\ p \in Strict(ts) /\ q \in Strict(ts) => p ++ q \in Strict(ts)
  <2>1. p \in Phrases(ts) /\ q \in Phrases(ts)
    BY <1>2
  <2>2. p ** q \in Phrases(ts) /\ p ++ q \in Phrases(ts)
    BY <2>1, ThenIs, EitherIs
  <2>3. ASSUME NEW i \in Places(ts), NEW k \in (p ** q)[i]
        PROVE  i <= k /\ (p \in Strict(ts) \/ q \in Strict(ts) => i < k)
    <3>1. PICK j \in p[i] : k \in q[j]
      BY <2>1, ThenIs
    <3>2. j \in Places(ts) /\ k \in Places(ts)
      BY <2>1, <3>1 DEF Phrases
    <3>3. i <= j /\ j <= k
      BY <3>1, <3>2 DEF Forward
    <3>4. (p \in Strict(ts) => i < j) /\ (q \in Strict(ts) => j < k)
      BY <3>1, <3>2 DEF Strict
    <3>5. i \in Nat /\ j \in Nat /\ k \in Nat
      BY <1>1, <3>2
    <3>6. QED
      BY <3>3, <3>4, <3>5
  <2>4. \A i \in Places(ts) : \A k \in (p ++ q)[i] : k \in p[i] \/ k \in q[i]
    BY <2>1, EitherIs
  <2>5. QED
    BY <2>2, <2>3, <2>4 DEF Forward, Strict
<1>5. QED
  BY <1>2, <1>3, <1>4
-----------------------------------------------------------------------------
(***************************************************************************)
(* Recursive definitions                                                   *)
(***************************************************************************)

\* Steps from one value of S to the next one.
Steps(N, S) == [1 .. N -> [S -> S]]

\* What they make when they are taken in turn.
Made(N, S, a, step, f) ==
    /\ f \in [0 .. N -> S]
    /\ f[0] = a
    /\ \A d \in 1 .. N : f[d] = step[d][f[d - 1]]

\* They make a function.
LEMMA Recursion ==
    ASSUME NEW N \in Nat, NEW S, NEW a \in S,
           NEW step \in Steps(N, S)
    PROVE  \E f : Made(N, S, a, step, f)
<1> DEFINE Upto(k, f) == /\ f[0] = a
                         /\ \A d \in 1 .. k : f[d] = step[d][f[d - 1]]
           T == { k \in 0 .. N : \E f \in [0 .. k -> S] : Upto(k, f) }
<1>1. 0 \in T
  <2> DEFINE g == [d \in 0 .. 0 |-> a]
  <2>1. g \in [0 .. 0 -> S] /\ g[0] = a /\ 1 .. 0 = {} /\ 0 \in 0 .. N
    OBVIOUS
  <2> HIDE DEF g
  <2>2. QED
    BY <2>1
<1>2. ASSUME NEW k \in 0 .. N - 1, k \in T
      PROVE  k + 1 \in T
  <2>1. PICK f \in [0 .. k -> S] : Upto(k, f)
    BY <1>2
  <2> DEFINE g == [d \in 0 .. k + 1 |-> IF d <= k THEN f[d] ELSE step[d][f[k]]]
  <2>2. \A d \in 0 .. k + 1 : d <= k => d \in 0 .. k
    OBVIOUS
  <2>3. k \in 0 .. k /\ k + 1 \in 1 .. N
    OBVIOUS
  <2>4. \A d \in 0 .. k + 1 : ~ (d <= k) => d = k + 1
    OBVIOUS
  <2>5. step[k + 1][f[k]] \in S
    BY <2>3 DEF Steps
  <2>6. g \in [0 .. k + 1 -> S]
    <3>1. \A d \in 0 .. k + 1 : (IF d <= k THEN f[d] ELSE step[d][f[k]]) \in S
      BY <2>2, <2>4, <2>5
    <3>2. QED
      BY <3>1
  <2>7. \A d \in 0 .. k : g[d] = f[d]
    <3>1. \A d \in 0 .. k : d \in 0 .. k + 1 /\ d <= k
      OBVIOUS
    <3>2. QED
      BY <3>1
  <2>8. g[k + 1] = step[k + 1][f[k]]
    <3>1. k + 1 \in 0 .. k + 1 /\ ~ (k + 1 <= k)
      OBVIOUS
    <3>2. QED
      BY <3>1
  <2> HIDE DEF g
  <2>9. ASSUME NEW d \in 1 .. k + 1
        PROVE  g[d] = step[d][g[d - 1]]
    <3>1. CASE d <= k
      <4>1. d \in 0 .. k /\ d - 1 \in 0 .. k /\ d \in 1 .. k
        BY <3>1
      <4>2. g[d] = f[d] /\ g[d - 1] = f[d - 1]
        BY <2>7, <4>1
      <4>3. QED
        BY <2>1, <4>1, <4>2
    <3>2. CASE ~ (d <= k)
      <4>1. d = k + 1 /\ d - 1 = k
        BY <3>2
      <4>2. g[k] = f[k]
        BY <2>3, <2>7
      <4>3. QED
        BY <2>8, <4>1, <4>2
    <3>3. QED
      BY <3>1, <3>2
  <2>10. g[0] = a
    <3>1. 0 \in 0 .. k
      OBVIOUS
    <3>2. QED
      BY <2>1, <2>7, <3>1
  <2>11. Upto(k + 1, g)
    BY <2>9, <2>10
  <2>12. k + 1 \in 0 .. N
    OBVIOUS
  <2>13. QED
    BY <2>6, <2>11, <2>12
<1>3. N \in T
  <2> HIDE DEF T
  <2>1. 0 .. N \subseteq T
    BY <1>1, <1>2, Inductive
  <2>2. QED
    BY <2>1
<1>4. QED
  BY <1>3 DEF Made

\* What the definition of Star says of one place.
Scan(p, i, f, j) ==
    IF j = 0 THEN {i}
    ELSE f[j - 1] \cup UNION { p[k] : k \in f[j - 1] \cap {j} }

\* A function that gives what the definition gives is the one it is about.
LEMMA ScanExists ==
    ASSUME NEW ts \in Seq(Tok), NEW p \in Phrases(ts), NEW i \in Places(ts)
    PROVE  \E f : f = [j \in 0 .. Len(ts) + 1 |-> Scan(p, i, f, j)]
<1> DEFINE N == Len(ts) + 1
           S == SUBSET Places(ts)
           step == [j \in 1 .. N |->
                      [s \in S |-> s \cup UNION { p[k] : k \in s \cap {j} }]]
<1>1. N \in Nat
  OBVIOUS
<1>2. {i} \in S
  OBVIOUS
<1>3. step \in Steps(N, S)
  BY DEF Phrases, Steps
<1>4. PICK f \in [0 .. N -> S] :
          f[0] = {i} /\ \A j \in 1 .. N : f[j] = step[j][f[j - 1]]
  <2> DEFINE a == {i}
  <2>1. a \in S
    BY <1>2
  <2> HIDE DEF N, S, step, a
  <2>2. \E f : Made(N, S, a, step, f)
    BY <1>1, <1>3, <2>1, Recursion
  <2>3. QED
    BY <2>2 DEF a, Made
<1>5. ASSUME NEW j \in 0 .. N
      PROVE  f[j] = Scan(p, i, f, j)
  <2>1. CASE j = 0
    BY <1>4, <2>1 DEF Scan
  <2>2. CASE j # 0
    <3>1. j \in 1 .. N /\ j - 1 \in 0 .. N
      BY <1>1, <2>2
    <3>2. f[j - 1] \in S
      BY <1>4, <3>1
    <3>3. f[j] = step[j][f[j - 1]]
      BY <1>4, <3>1
    <3>4. step[j][f[j - 1]] = f[j - 1] \cup UNION { p[k] : k \in f[j - 1] \cap {j} }
      BY <3>1, <3>2
    <3>5. QED
      BY <2>2, <3>3, <3>4 DEF Scan
  <2>3. QED
    BY <2>1, <2>2
<1>6. f = [j \in 0 .. N |-> f[j]]
  <2> HIDE DEF N, S
  <2>1. QED
    BY <1>4
<1>7. [j \in 0 .. N |-> f[j]] = [j \in 0 .. N |-> Scan(p, i, f, j)]
  BY <1>5
<1>8. f = [j \in 0 .. N |-> Scan(p, i, f, j)]
  BY <1>6, <1>7, Zenon
<1>9. QED
  BY <1>8, Zenon

\* Star is the last value of one.
LEMMA StarScans ==
    ASSUME NEW ts \in Seq(Tok), NEW p \in Phrases(ts), NEW i \in Places(ts)
    PROVE  \E f : /\ f = [j \in 0 .. Len(ts) + 1 |-> Scan(p, i, f, j)]
                  /\ Star(ts, p)[i] = f[Len(ts) + 1]
<1> DEFINE Fits0(f) == f = [j \in 0 .. Len(ts) + 1 |-> Scan(p, i, f, j)]
           f == CHOOSE ends : Fits0(ends)
<1>1. Fits0(f)
  <2>1. \E ends : Fits0(ends)
    BY ScanExists
  <2> HIDE DEF Fits0
  <2>2. QED
    BY <2>1
<1>2. Star(ts, p)[i] = f[Len(ts) + 1]
  BY DEF Star, Scan
<1>3. QED
  BY <1>1, <1>2

\* When a phrase consumes a token, Star finds the smallest set of places that
\* has the first one and, with every place, where the phrase may end.
LEMMA StarLeast ==
    ASSUME NEW ts \in Seq(Tok), NEW p \in Strict(ts), NEW i \in Places(ts)
    PROVE  /\ Star(ts, p)[i] \subseteq Places(ts)
           /\ i \in Star(ts, p)[i]
           /\ \A j \in Star(ts, p)[i] : p[j] \subseteq Star(ts, p)[i]
           /\ \A S : i \in S /\ (\A j \in S \cap Places(ts) : p[j] \subseteq S)
                        => Star(ts, p)[i] \subseteq S
<1> DEFINE N == Len(ts) + 1
<1>1. p \in Phrases(ts) /\ Places(ts) = 1 .. N /\ N \in Nat
  BY Advance DEF Places
<1>2. PICK f : /\ f = [j \in 0 .. N |-> Scan(p, i, f, j)]
               /\ Star(ts, p)[i] = f[N]
  BY <1>1, StarScans
<1> HIDE DEF N
<1>3. \A j \in 0 .. N : f[j] = Scan(p, i, f, j)
  BY <1>2, Zenon
<1>4. f[0] = {i}
  <2>1. 0 \in 0 .. N
    BY <1>1
  <2>2. QED
    BY <1>3, <2>1 DEF Scan
<1>5. \A j \in 0 .. N - 1 :
        f[j + 1] = f[j] \cup UNION { p[k] : k \in f[j] \cap {j + 1} }
  <2> TAKE j \in 0 .. N - 1
  <2>1. j + 1 \in 0 .. N /\ j + 1 # 0 /\ (j + 1) - 1 = j
    BY <1>1
  <2>2. QED
    BY <1>3, <2>1 DEF Scan
<1>6. ASSUME NEW S, i \in S, \A j \in S \cap Places(ts) : p[j] \subseteq S
      PROVE  f[N] \subseteq S
  <2> DEFINE T == { j \in 0 .. N : f[j] \subseteq S \cap Places(ts) }
  <2>1. 0 \in T
    BY <1>1, <1>4, <1>6
  <2>2. ASSUME NEW j \in 0 .. N - 1, j \in T
        PROVE  j + 1 \in T
    <3>1. \A k \in f[j] : p[k] \subseteq S \cap Places(ts)
      BY <1>1, <1>6, <2>2 DEF Phrases
    <3>2. f[j + 1] \subseteq S \cap Places(ts)
      BY <1>5, <2>2, <3>1
    <3>3. j + 1 \in 0 .. N
      BY <1>1
    <3>4. QED
      BY <3>2, <3>3
  <2>3. N \in T
    <3> HIDE DEF T
    <3>1. 0 .. N \subseteq T
      BY <1>1, <2>1, <2>2, Inductive
    <3>2. N \in 0 .. N
      BY <1>1
    <3>3. QED
      BY <3>1, <3>2
  <2>4. QED
    BY <2>3
<1>7. f[N] \subseteq Places(ts)
  <2>1. \A j \in Places(ts) \cap Places(ts) : p[j] \subseteq Places(ts)
    BY <1>1 DEF Phrases
  <2>2. QED
    BY <1>6, <2>1
\* Everything a layer has stays in the later ones.
<1>8. ASSUME NEW x, NEW b \in 0 .. N, x \in f[b]
      PROVE  \A j \in 0 .. N : b <= j => x \in f[j]
  <2> DEFINE T == { j \in 0 .. N : b <= j => x \in f[j] }
  <2>1. 0 \in T
    <3>1. b <= 0 => b = 0
      BY <1>1
    <3>2. QED
      BY <1>1, <1>8, <3>1
  <2>2. ASSUME NEW j \in 0 .. N - 1, j \in T
        PROVE  j + 1 \in T
    <3>1. j + 1 \in 0 .. N /\ (b <= j + 1 => b <= j \/ b = j + 1)
      BY <1>1
    <3>2. f[j] \subseteq f[j + 1]
      BY <1>5
    <3>3. QED
      BY <1>8, <2>2, <3>1, <3>2
  <2>3. 0 .. N \subseteq T
    <3> HIDE DEF T
    <3>1. QED
      BY <1>1, <2>1, <2>2, Inductive
  <2>4. QED
    BY <2>3
\* A place is found before its turn.
<1>9. ASSUME NEW x \in f[N]
      PROVE  x - 1 \in 0 .. N - 1 /\ x \in f[x - 1]
  <2>1. x \in 1 .. N
    BY <1>1, <1>7, <1>9
  <2>2. x - 1 \in 0 .. N - 1 /\ x - 1 \in 0 .. N /\ x \in 0 .. N
    BY <1>1, <2>1
  <2> DEFINE U == { j \in 0 .. N : x \in f[j] => x \in f[x - 1] }
  <2>3. 0 \in U
    <3>1. x \in f[0] => x = i
      BY <1>4
    <3>2. i \in f[0] /\ 0 \in 0 .. N /\ 0 <= x - 1 /\ x - 1 \in 0 .. N
      BY <1>1, <1>4, <2>1, <2>2
    <3> HIDE DEF U
    <3>4. x = i => x \in f[x - 1]
      BY <1>8, <3>2
    <3> USE DEF U
    <3>3. QED
      BY <1>1, <3>1, <3>4
  <2>4. ASSUME NEW j \in 0 .. N - 1, j \in U
        PROVE  j + 1 \in U
    <3>1. SUFFICES ASSUME x \in f[j + 1], x \notin f[j] PROVE x \in f[x - 1]
      BY <1>1, <2>4
    <3>2. j + 1 \in f[j] /\ x \in p[j + 1]
      BY <1>5, <3>1
    <3>3. j + 1 \in Places(ts)
      BY <1>1
    <3>4. j + 1 < x
      BY <3>2, <3>3 DEF Strict
    <3>5. x \in f[j + 1] /\ j + 1 \in 0 .. N /\ j + 1 <= x - 1
      BY <1>1, <2>1, <3>1, <3>4
    <3>6. QED
      BY <1>8, <2>2, <3>5
  <2>5. N \in U
    <3> HIDE DEF U
    <3>1. 0 .. N \subseteq U
      BY <1>1, <2>3, <2>4, Inductive
    <3>2. QED
      BY <1>1, <3>1
  <2>6. QED
    BY <1>9, <2>2, <2>5
<1>10. ASSUME NEW x \in f[N]
       PROVE  p[x] \subseteq f[N]
  <2>1. x - 1 \in 0 .. N - 1 /\ x \in f[x - 1]
    BY <1>9
  <2>2. x \in 1 .. N
    BY <1>1, <1>7
  <2>3. (x - 1) + 1 = x
    BY <2>2
  <2>4. p[x] \subseteq f[x]
    BY <1>5, <2>1, <2>3
  <2>5. x \in 0 .. N /\ N \in 0 .. N /\ x <= N
    BY <1>1, <2>2
  <2>6. QED
    BY <1>8, <2>4, <2>5
<1>11. i \in f[N]
  <2>1. i \in f[0] /\ 0 \in 0 .. N /\ N \in 0 .. N /\ 0 <= N
    BY <1>1, <1>4
  <2>2. QED
    BY <1>8, <2>1
<1>12. QED
  BY <1>2, <1>6, <1>7, <1>10, <1>11

\* A phrase any number of times is nothing, or the phrase and then the phrase
\* any number of times.
LEMMA StarIs ==
    ASSUME NEW ts \in Seq(Tok), NEW p \in Strict(ts)
    PROVE  /\ Star(ts, p) \in Forward(ts)
           /\ Star(ts, p) = Nothing(ts) ++ (p ** Star(ts, p))
<1>1. p \in Phrases(ts)
  BY Advance
<1>2. Star(ts, p) \in Phrases(ts)
  <2>1. \A i \in Places(ts) : Star(ts, p)[i] \subseteq Places(ts)
    BY StarLeast
  <2>2. Star(ts, p) = [i \in Places(ts) |-> Star(ts, p)[i]]
    BY DEF Star
  <2>3. QED
    BY <2>1, <2>2 DEF Phrases
<1>3. ASSUME NEW i \in Places(ts), NEW j \in Star(ts, p)[i]
      PROVE  i <= j
  <2> DEFINE S == { k \in Places(ts) : i <= k }
  <2>1. i \in S
    BY DEF Places
  <2>2. \A k \in S \cap Places(ts) : p[k] \subseteq S
    <3> TAKE k \in S \cap Places(ts)
    <3>1. \A l \in p[k] : l \in Places(ts) /\ k < l
      BY <1>1 DEF Strict, Phrases
    <3>2. \A l \in Places(ts) : k < l => i <= l
      BY DEF Places
    <3>3. QED
      BY <3>1, <3>2
  <2>3. Star(ts, p)[i] \subseteq S
    <3> HIDE DEF S
    <3>1. QED
      BY <2>1, <2>2, StarLeast
  <2>4. QED
    BY <2>3
<1>4. p ** Star(ts, p) \in Phrases(ts)
  BY <1>1, <1>2, ThenIs
<1>5. Nothing(ts) ++ (p ** Star(ts, p)) \in Phrases(ts)
  BY <1>4, NothingIs, EitherIs
<1>6. ASSUME NEW i \in Places(ts)
      PROVE  Star(ts, p)[i] = (Nothing(ts) ++ (p ** Star(ts, p)))[i]
  <2> DEFINE S == {i} \cup UNION { Star(ts, p)[j] : j \in p[i] }
  <2>1. (Nothing(ts) ++ (p ** Star(ts, p)))[i] = S
    <3>1. (Nothing(ts) ++ (p ** Star(ts, p)))[i]
            = Nothing(ts)[i] \cup (p ** Star(ts, p))[i]
      BY <1>4, NothingIs, EitherIs
    <3>2. (p ** Star(ts, p))[i] = UNION { Star(ts, p)[j] : j \in p[i] }
      BY <1>1, <1>2, ThenIs
    <3>3. QED
      BY <3>1, <3>2, NothingIs
  <2>2. p[i] \subseteq Places(ts)
    BY <1>1 DEF Phrases
  <2>3. Star(ts, p)[i] \subseteq S
    <3>1. \A k \in S \cap Places(ts) : p[k] \subseteq S
      <4> TAKE k \in S \cap Places(ts)
      <4>1. CASE k = i
        <5>1. \A j \in p[i] : j \in Star(ts, p)[j]
          BY <2>2, StarLeast
        <5>2. QED
          BY <4>1, <5>1
      <4>2. CASE k # i
        <5>1. PICK j \in p[i] : k \in Star(ts, p)[j]
          BY <4>2
        <5>2. p[k] \subseteq Star(ts, p)[j]
          BY <2>2, <5>1, StarLeast
        <5>3. QED
          BY <5>2
      <4>3. QED
        BY <4>1, <4>2
    <3>2. i \in S
      OBVIOUS
    <3> HIDE DEF S
    <3>3. QED
      BY <3>1, <3>2, StarLeast
  <2>4. S \subseteq Star(ts, p)[i]
    <3>1. i \in Star(ts, p)[i]
      BY StarLeast
    <3>2. ASSUME NEW j \in p[i]
          PROVE  Star(ts, p)[j] \subseteq Star(ts, p)[i]
      <4>1. j \in Star(ts, p)[i]
        BY <3>1, StarLeast
      <4>2. \A k \in Star(ts, p)[i] : p[k] \subseteq Star(ts, p)[i]
        BY StarLeast
      <4>3. QED
        BY <2>2, <4>1, <4>2, StarLeast
    <3>3. QED
      BY <3>1, <3>2
  <2>5. QED
    BY <2>1, <2>3, <2>4
<1>7. Star(ts, p) = Nothing(ts) ++ (p ** Star(ts, p))
  BY <1>2, <1>5, <1>6, SamePhrase
<1>8. QED
  BY <1>2, <1>3, <1>7 DEF Forward
-----------------------------------------------------------------------------
(***************************************************************************)
(* The next token                                                          *)
(***************************************************************************)

\* What the parser would see at a place of the program.
Look(ts, i) == IF i <= Len(ts) THEN ts[i] ELSE "NULL"

\* What can be asked for: not whitespace.
Symbols == SUBSET (Tok \ {"ws"})

\* The phrases that skip whitespace before they do anything else, and those
\* of them that begin with one of the symbols.
Blind(ts) ==
    { p \in Forward(ts) :
        \A i \in Places(ts) : Look(ts, i) = "ws" => p[i] = p[i + 1] }

Begin(ts, symbols) ==
    { p \in Blind(ts) :
        \A i \in Places(ts) : Look(ts, i) \notin symbols \cup {"ws"} => p[i] = {} }

\* There is a place after one that has a token.
LEMMA LookIs ==
    ASSUME NEW ts \in Seq(Tok), NEW i \in Places(ts)
    PROVE  /\ i \in Nat /\ i + 1 \in Nat
           /\ Look(ts, i) \in Tok => i <= Len(ts) /\ i + 1 \in Places(ts)
           /\ Look(ts, i) \notin Tok => Look(ts, i) = "NULL" /\ i = Len(ts) + 1
           /\ Look(ts, i) = "ws" => i <= Len(ts) /\ i + 1 \in Places(ts)
           /\ i <= Len(ts) => Look(ts, i) = ts[i] /\ ts[i] \in Tok
<1>1. i <= Len(ts) => ts[i] \in Tok /\ i + 1 \in Places(ts)
  BY DEF Places
<1>2. i \in Nat /\ (~ (i <= Len(ts)) => i = Len(ts) + 1)
  BY DEF Places
<1>3. "NULL" \notin Tok /\ "NULL" # "ws"
  BY DEF Tok
<1>4. QED
  BY <1>1, <1>2, <1>3 DEF Look

\* One symbol at the place itself.
LEMMA GluedIs ==
    ASSUME NEW ts \in Seq(Tok), NEW symbols \in Symbols
    PROVE  /\ Glued(ts, symbols) \in Strict(ts)
           /\ \A i \in Places(ts) :
                 Glued(ts, symbols)[i] = IF Look(ts, i) \in symbols THEN {i + 1} ELSE {}
<1>1. ASSUME NEW i \in Places(ts)
      PROVE  /\ Glued(ts, symbols)[i] = IF Look(ts, i) \in symbols THEN {i + 1} ELSE {}
             /\ Glued(ts, symbols)[i] \subseteq Places(ts)
             /\ \A j \in Glued(ts, symbols)[i] : i < j
  <2>1. Glued(ts, symbols)[i] = { j \in {i + 1} : i <= Len(ts) /\ ts[i] \in symbols }
    BY DEF Glued
  <2>2. Look(ts, i) \in symbols <=> i <= Len(ts) /\ ts[i] \in symbols
    <3>1. "NULL" \notin symbols
      BY DEF Symbols, Tok
    <3>2. QED
      BY <3>1 DEF Look
  <2>3. Look(ts, i) \in symbols => i + 1 \in Places(ts)
    BY LookIs DEF Symbols
  <2>4. i < i + 1
    BY LookIs
  <2>5. QED
    BY <2>1, <2>2, <2>3, <2>4
<1>2. Glued(ts, symbols) = [i \in Places(ts) |-> Glued(ts, symbols)[i]]
  BY DEF Glued
<1>3. Glued(ts, symbols) \in Phrases(ts)
  BY <1>1, <1>2 DEF Phrases
<1>4. QED
  BY <1>1, <1>3 DEF Strict

\* Whitespace.
LEMMA BlankIs ==
    ASSUME NEW ts \in Seq(Tok)
    PROVE  /\ Blank(ts) \in Forward(ts)
           /\ \A i \in Places(ts) :
                 Blank(ts)[i] = IF Look(ts, i) = "ws" THEN {i} \cup Blank(ts)[i + 1] ELSE {i}
<1>1. \A i \in Places(ts) :
         Blank(ts)[i] = { j \in i .. Len(ts) + 1 : \A k \in i .. j - 1 : ts[k] = "ws" }
  BY DEF Blank
<1>2. \A i \in Places(ts) : \A j \in Blank(ts)[i] : i <= j /\ j \in Places(ts)
  BY <1>1 DEF Places
<1>3. Blank(ts) = [i \in Places(ts) |-> Blank(ts)[i]]
  BY DEF Blank
<1>4. Blank(ts) \in Forward(ts)
  BY <1>2, <1>3 DEF Forward, Phrases
<1>5. ASSUME NEW i \in Places(ts), Look(ts, i) = "ws"
      PROVE  Blank(ts)[i] = {i} \cup Blank(ts)[i + 1]
  <2>1. i + 1 \in Places(ts) /\ i <= Len(ts) /\ ts[i] = "ws" /\ i \in Nat
    BY <1>5, LookIs
  <2>2. ASSUME NEW j \in Blank(ts)[i], j # i
        PROVE  j \in Blank(ts)[i + 1]
    <3>1. j \in i + 1 .. Len(ts) + 1
      BY <1>1, <2>1, <2>2
    <3>2. \A k \in i + 1 .. j - 1 : k \in i .. j - 1
      BY <2>1, <3>1
    <3>3. \A k \in i + 1 .. j - 1 : ts[k] = "ws"
      BY <1>1, <2>2, <3>2
    <3>4. QED
      BY <1>1, <2>1, <3>1, <3>3
  <2>3. ASSUME NEW j \in Blank(ts)[i + 1]
        PROVE  j \in Blank(ts)[i]
    <3>1. j \in i + 1 .. Len(ts) + 1
      BY <1>1, <2>1, <2>3
    <3>2. \A k \in i .. j - 1 : k = i \/ k \in i + 1 .. j - 1
      BY <2>1, <3>1
    <3>3. \A k \in i + 1 .. j - 1 : ts[k] = "ws"
      BY <1>1, <2>1, <2>3
    <3>4. \A k \in i .. j - 1 : ts[k] = "ws"
      BY <2>1, <3>2, <3>3
    <3>5. j \in i .. Len(ts) + 1
      BY <2>1, <3>1
    <3>6. QED
      BY <1>1, <3>4, <3>5
  <2>4. i \in Blank(ts)[i]
    <3>1. i \in i .. Len(ts) + 1 /\ i .. i - 1 = {}
      BY <2>1
    <3>2. QED
      BY <1>1, <3>1
  <2>5. QED
    BY <2>2, <2>3, <2>4
<1>6. ASSUME NEW i \in Places(ts), Look(ts, i) # "ws"
      PROVE  Blank(ts)[i] = {i}
  <2>1. i \in i .. Len(ts) + 1 /\ i .. i - 1 = {} /\ i \in Nat
    BY DEF Places
  <2>2. i \in Blank(ts)[i]
    BY <1>1, <2>1
  <2>3. ASSUME NEW j \in Blank(ts)[i], j # i
        PROVE  FALSE
    <3>1. j \in i .. Len(ts) + 1
      BY <1>1, <2>3
    <3>2. i \in i .. j - 1 /\ i <= Len(ts)
      BY <2>1, <2>3, <3>1
    <3>3. ts[i] = "ws"
      BY <1>1, <2>3, <3>2
    <3>4. QED
      BY <1>6, <3>2, <3>3 DEF Look
  <2>4. QED
    BY <2>2, <2>3
<1>7. QED
  BY <1>4, <1>5, <1>6

\* One symbol after whitespace.
LEMMA SymIs ==
    ASSUME NEW ts \in Seq(Tok), NEW symbols \in Symbols
    PROVE  /\ Sym(ts, symbols) \in Strict(ts)
           /\ Sym(ts, symbols) \in Begin(ts, symbols)
           /\ \A i \in Places(ts) : Look(ts, i) # "ws" =>
                 Sym(ts, symbols)[i] = IF Look(ts, i) \in symbols THEN {i + 1} ELSE {}
<1>1. /\ Blank(ts) \in Phrases(ts) /\ Blank(ts) \in Forward(ts)
      /\ Glued(ts, symbols) \in Phrases(ts) /\ Glued(ts, symbols) \in Strict(ts)
  BY BlankIs, GluedIs, Advance
<1>2. Sym(ts, symbols) \in Strict(ts)
  BY <1>1, Advance DEF Sym
<1>3. \A i \in Places(ts) :
        Sym(ts, symbols)[i] = UNION { Glued(ts, symbols)[j] : j \in Blank(ts)[i] }
  BY <1>1, ThenIs DEF Sym
<1>4. ASSUME NEW i \in Places(ts), Look(ts, i) # "ws"
      PROVE  Sym(ts, symbols)[i] = IF Look(ts, i) \in symbols THEN {i + 1} ELSE {}
  <2>1. Blank(ts)[i] = {i}
    BY <1>4, BlankIs
  <2>2. Sym(ts, symbols)[i] = Glued(ts, symbols)[i]
    <3>1. Sym(ts, symbols)[i] = UNION { Glued(ts, symbols)[j] : j \in Blank(ts)[i] }
      BY <1>3
    <3>2. QED
      BY <2>1, <3>1
  <2>3. QED
    BY <2>2, GluedIs
<1>5. ASSUME NEW i \in Places(ts), Look(ts, i) = "ws"
      PROVE  Sym(ts, symbols)[i] = Sym(ts, symbols)[i + 1]
  <2>1. i + 1 \in Places(ts)
    BY <1>5, LookIs
  <2>2. Blank(ts)[i] = {i} \cup Blank(ts)[i + 1]
    BY <1>5, BlankIs
  <2>3. Glued(ts, symbols)[i] = {}
    <3>1. "ws" \notin symbols
      BY DEF Symbols
    <3>2. QED
      BY <1>5, <3>1, GluedIs
  <2>4. /\ Sym(ts, symbols)[i] = UNION { Glued(ts, symbols)[j] : j \in Blank(ts)[i] }
        /\ Sym(ts, symbols)[i + 1]
             = UNION { Glued(ts, symbols)[j] : j \in Blank(ts)[i + 1] }
    BY <1>3, <2>1
  <2>5. QED
    BY <2>2, <2>3, <2>4
<1>6. Sym(ts, symbols) \in Begin(ts, symbols)
  BY <1>2, <1>4, <1>5, Advance DEF Begin, Blind
<1>7. QED
  BY <1>2, <1>4, <1>6

\* What a phrase begins with, when it is made of others.
LEMMA BeginIs ==
    ASSUME NEW ts \in Seq(Tok)
    PROVE  /\ \A p \in Blind(ts) : \A q \in Forward(ts) : p ** q \in Blind(ts)
           /\ \A p \in Blind(ts) : \A q \in Blind(ts) : p ++ q \in Blind(ts)
           /\ \A X \in Symbols : \A p \in Begin(ts, X) : \A q \in Forward(ts) :
                 p ** q \in Begin(ts, X)
           /\ \A X \in Symbols : \A Y \in Symbols :
                 \A p \in Begin(ts, X) : \A q \in Begin(ts, Y) :
                    p ++ q \in Begin(ts, X \cup Y)
<1>1. \A X : Begin(ts, X) \subseteq Blind(ts) /\ Blind(ts) \subseteq Forward(ts)
  BY DEF Begin, Blind
<1>2. ASSUME NEW p \in Blind(ts), NEW q \in Forward(ts)
      PROVE  p ** q \in Blind(ts)
  <2>1. p ** q \in Forward(ts) /\ p \in Phrases(ts) /\ q \in Phrases(ts)
    BY <1>1, Advance
  <2>2. \A i \in Places(ts) : (p ** q)[i] = UNION { q[j] : j \in p[i] }
    BY <2>1, ThenIs
  <2>3. ASSUME NEW i \in Places(ts), Look(ts, i) = "ws"
        PROVE  (p ** q)[i] = (p ** q)[i + 1]
    <3>1. i + 1 \in Places(ts) /\ p[i] = p[i + 1]
      BY <2>3, LookIs DEF Blind
    <3>2. QED
      BY <2>2, <3>1
  <2>4. QED
    BY <2>1, <2>3 DEF Blind
<1>3. ASSUME NEW p \in Blind(ts), NEW q \in Blind(ts)
      PROVE  p ++ q \in Blind(ts)
  <2>1. p ++ q \in Forward(ts) /\ p \in Phrases(ts) /\ q \in Phrases(ts)
    BY <1>1, Advance
  <2>2. \A i \in Places(ts) : (p ++ q)[i] = p[i] \cup q[i]
    BY <2>1, EitherIs
  <2>3. ASSUME NEW i \in Places(ts), Look(ts, i) = "ws"
        PROVE  (p ++ q)[i] = (p ++ q)[i + 1]
    <3>1. i + 1 \in Places(ts) /\ p[i] = p[i + 1] /\ q[i] = q[i + 1]
      BY <2>3, LookIs DEF Blind
    <3>2. QED
      BY <2>2, <3>1
  <2>4. QED
    BY <2>1, <2>3 DEF Blind
<1>4. ASSUME NEW X \in Symbols, NEW p \in Begin(ts, X), NEW q \in Forward(ts)
      PROVE  p ** q \in Begin(ts, X)
  <2>1. p ** q \in Blind(ts)
    BY <1>1, <1>2
  <2>2. ASSUME NEW i \in Places(ts), Look(ts, i) \notin X \cup {"ws"}
        PROVE  (p ** q)[i] = {}
    <3>1. p[i] = {}
      BY <2>2 DEF Begin
    <3>2. (p ** q)[i] = UNION { q[j] : j \in p[i] }
      BY <1>1, Advance, ThenIs
    <3>3. QED
      BY <3>1, <3>2
  <2>3. QED
    BY <2>1, <2>2 DEF Begin
<1>5. ASSUME NEW X \in Symbols, NEW Y \in Symbols,
             NEW p \in Begin(ts, X), NEW q \in Begin(ts, Y)
      PROVE  p ++ q \in Begin(ts, X \cup Y)
  <2>1. p ++ q \in Blind(ts)
    BY <1>1, <1>3
  <2>2. ASSUME NEW i \in Places(ts), Look(ts, i) \notin (X \cup Y) \cup {"ws"}
        PROVE  (p ++ q)[i] = {}
    <3>1. p[i] = {} /\ q[i] = {}
      BY <2>2 DEF Begin
    <3>2. (p ++ q)[i] = p[i] \cup q[i]
      BY <1>1, Advance, EitherIs
    <3>3. QED
      BY <3>1, <3>2
  <2>3. QED
    BY <2>1, <2>2 DEF Begin
<1>6. QED
  BY <1>2, <1>3, <1>4, <1>5

\* A phrase that advances asks for its first token.
LEMMA ThenBegin ==
    ASSUME NEW ts \in Seq(Tok), NEW X \in Symbols,
           NEW p \in Begin(ts, X), NEW q \in Forward(ts)
    PROVE  p ** q \in Begin(ts, X)
  BY BeginIs

\* One phrase or another asks for the first token of either.
LEMMA EitherBegin ==
    ASSUME NEW ts \in Seq(Tok), NEW X \in Symbols, NEW Y \in Symbols,
           NEW p \in Begin(ts, X), NEW q \in Begin(ts, Y)
    PROVE  p ++ q \in Begin(ts, X \cup Y)
  BY BeginIs
-----------------------------------------------------------------------------
(***************************************************************************)
(* The phrases of the grammar                                              *)
(***************************************************************************)

\* Nowhere.
LEMMA NoneIs ==
    ASSUME NEW ts \in Seq(Tok)
    PROVE  /\ None(ts) \in Strict(ts)
           /\ \A X : None(ts) \in Begin(ts, X)
           /\ \A i \in Places(ts) : None(ts)[i] = {}
<1>1. \A i \in Places(ts) : None(ts)[i] = {}
  BY DEF None
<1>2. None(ts) \in Phrases(ts)
  BY DEF None, Phrases
<1>3. None(ts) \in Strict(ts) /\ None(ts) \in Forward(ts)
  BY <1>1, <1>2 DEF Strict, Forward
<1>4. \A i \in Places(ts) : Look(ts, i) = "ws" => i + 1 \in Places(ts)
  BY LookIs
<1>5. QED
  BY <1>1, <1>3, <1>4 DEF Begin, Blind

\* A phrase or none at all.
LEMMA EitherNone ==
    ASSUME NEW ts \in Seq(Tok), NEW p \in Phrases(ts)
    PROVE  p ++ None(ts) = p
<1>1. None(ts) \in Phrases(ts)
  BY NoneIs, Advance
<1>2. p ++ None(ts) \in Phrases(ts)
  BY <1>1, EitherIs
<1>3. ASSUME NEW i \in Places(ts)
      PROVE  (p ++ None(ts))[i] = p[i]
  <2>1. None(ts)[i] = {} /\ (p ++ None(ts))[i] = p[i] \cup None(ts)[i]
    BY <1>1, EitherIs, NoneIs
  <2>2. QED
    BY <2>1
<1>4. QED
  BY <1>2, <1>3, SamePhrase

\* Operators and operands.
LEMMA MoreIs ==
    ASSUME NEW ts \in Seq(Tok), NEW X \in Symbols, NEW p \in Forward(ts)
    PROVE  /\ More(ts, X, p) \in Forward(ts)
           /\ More(ts, X, p) = Nothing(ts) ++ ((Sym(ts, X) ** p) ** More(ts, X, p))
           /\ More(ts, X, p) = Nothing(ts) ++ (Sym(ts, X) ** (p ** More(ts, X, p)))
<1>1. Sym(ts, X) ** p \in Strict(ts) /\ Sym(ts, X) \in Phrases(ts) /\ p \in Phrases(ts)
  BY SymIs, Advance
<1>2. /\ More(ts, X, p) \in Forward(ts)
      /\ More(ts, X, p) = Nothing(ts) ++ ((Sym(ts, X) ** p) ** More(ts, X, p))
  BY <1>1, StarIs DEF More
<1>3. More(ts, X, p) \in Phrases(ts)
  BY <1>2, Advance
<1>4. (Sym(ts, X) ** p) ** More(ts, X, p) = Sym(ts, X) ** (p ** More(ts, X, p))
  BY <1>1, <1>3, ThenAssoc
<1>5. QED
  BY <1>2, <1>4

\* The sets of symbols the grammar asks for.
LEMMA AskedFor ==
    /\ {"int"} \in Symbols /\ {"*"} \in Symbols /\ {";"} \in Symbols
    /\ {"]"} \in Symbols /\ {":"} \in Symbols /\ {"="} \in Symbols
    /\ {"let"} \in Symbols /\ {"ret"} \in Symbols /\ {"{"} \in Symbols
    /\ {"}"} \in Symbols /\ {"-"} \in Symbols /\ {">"} \in Symbols
    /\ {"fn"} \in Symbols /\ {"("} \in Symbols /\ {")"} \in Symbols
    /\ {"ident", "prim"} \in Symbols /\ {"*", "/"} \in Symbols
    /\ {"+", "-"} \in Symbols
  BY DEF Symbols, Tok

\* Expressions.
LEMMA ExprIs ==
    ASSUME NEW ts \in Seq(Tok)
    PROVE  /\ Const(ts) \in Strict(ts) /\ Const(ts) \in Begin(ts, {"int"})
           /\ MoreConsts(ts) \in Forward(ts)
           /\ Factors(ts) \in Strict(ts) /\ Factors(ts) \in Begin(ts, {"int"})
           /\ Factors(ts) = Const(ts) ** MoreConsts(ts)
           /\ MoreFactors(ts) \in Forward(ts)
           /\ Expr(ts) \in Strict(ts) /\ Expr(ts) \in Begin(ts, {"int"})
           /\ Expr(ts) = Factors(ts) ** MoreFactors(ts)
<1>0. {"int"} \in Symbols
  BY AskedFor
<1>1. Const(ts) \in Strict(ts) /\ Const(ts) \in Begin(ts, {"int"})
  BY SymIs, AskedFor DEF Const
<1>2. MoreConsts(ts) \in Forward(ts)
  BY <1>1, MoreIs, AskedFor, Advance DEF MoreConsts
<1>3. Factors(ts) = Const(ts) ** MoreConsts(ts)
  BY DEF Factors, MoreConsts
<1>4. Factors(ts) \in Strict(ts) /\ Factors(ts) \in Begin(ts, {"int"})
  <2>1. Factors(ts) \in Strict(ts)
    BY <1>1, <1>2, <1>3, Advance
  <2>2. Factors(ts) \in Begin(ts, {"int"})
    BY <1>0, <1>1, <1>2, <1>3, ThenBegin
  <2>3. QED
    BY <2>1, <2>2
<1>5. MoreFactors(ts) \in Forward(ts)
  BY <1>4, MoreIs, AskedFor, Advance DEF MoreFactors
<1>6. Expr(ts) = Factors(ts) ** MoreFactors(ts)
  BY DEF Expr, MoreFactors
<1>7. Expr(ts) \in Strict(ts) /\ Expr(ts) \in Begin(ts, {"int"})
  <2>1. Expr(ts) \in Strict(ts)
    BY <1>4, <1>5, <1>6, Advance
  <2>2. Expr(ts) \in Begin(ts, {"int"})
    BY <1>0, <1>4, <1>5, <1>6, ThenBegin
  <2>3. QED
    BY <2>1, <2>2
<1>8. QED
  BY <1>1, <1>2, <1>3, <1>4, <1>5, <1>6, <1>7

\* Where a length is missing.
LEMMA NoLengthIs ==
    ASSUME NEW ts \in Seq(Tok)
    PROVE  /\ NoLength(ts) \in Blind(ts)
           /\ \A i \in Places(ts) : Look(ts, i) # "ws" =>
                 NoLength(ts)[i] = IF Look(ts, i) \in {"int", "NULL"} THEN {} ELSE {i}
<1>1. \A i \in Places(ts) :
         NoLength(ts)[i] = { j \in Blank(ts)[i] : j <= Len(ts) /\ ts[j] \notin {"int", "ws"} }
  BY DEF NoLength
<1>2. NoLength(ts) = [i \in Places(ts) |-> NoLength(ts)[i]]
  BY DEF NoLength
<1>3. NoLength(ts) \in Forward(ts)
  BY <1>1, <1>2, BlankIs DEF Forward, Phrases
<1>4. ASSUME NEW i \in Places(ts), Look(ts, i) # "ws"
      PROVE  NoLength(ts)[i] = IF Look(ts, i) \in {"int", "NULL"} THEN {} ELSE {i}
  <2>1. NoLength(ts)[i] = { j \in {i} : j <= Len(ts) /\ ts[j] \notin {"int", "ws"} }
    BY <1>1, <1>4, BlankIs
  <2>2. CASE i <= Len(ts)
    <3>1. Look(ts, i) = ts[i] /\ ts[i] \in Tok
      BY <2>2, LookIs
    <3>2. ts[i] # "NULL"
      BY <3>1 DEF Tok
    <3>3. QED
      BY <1>4, <2>1, <2>2, <3>1, <3>2
  <2>3. CASE ~ (i <= Len(ts))
    BY <2>1, <2>3 DEF Look
  <2>4. QED
    BY <2>2, <2>3
<1>5. ASSUME NEW i \in Places(ts), Look(ts, i) = "ws"
      PROVE  NoLength(ts)[i] = NoLength(ts)[i + 1]
  <2>1. i + 1 \in Places(ts) /\ i <= Len(ts) /\ ts[i] = "ws"
    BY <1>5, LookIs
  <2>2. Blank(ts)[i] = {i} \cup Blank(ts)[i + 1]
    BY <1>5, BlankIs
  <2>3. /\ NoLength(ts)[i] = { j \in Blank(ts)[i] : j <= Len(ts) /\ ts[j] \notin {"int", "ws"} }
        /\ NoLength(ts)[i + 1]
             = { j \in Blank(ts)[i + 1] : j <= Len(ts) /\ ts[j] \notin {"int", "ws"} }
    BY <1>1, <2>1
  <2>4. QED
    BY <2>1, <2>2, <2>3
<1>6. QED
  BY <1>3, <1>4, <1>5 DEF Blind

\* The parts of an array type.
LEMMA ArrayIs ==
    ASSUME NEW ts \in Seq(Tok)
    PROVE  /\ Stars(ts) \in Forward(ts)
           /\ Stars(ts) = Nothing(ts) ++ (Sym(ts, {"*"}) ** Stars(ts))
           /\ ArrayEndTail(ts) \in Forward(ts) /\ ArrayEndTail(ts) \in Begin(ts, {"]"})
           /\ Const(ts) ** ArrayEndTail(ts) \in Begin(ts, {"int"})
           /\ Const(ts) ** ArrayEndTail(ts) \in Forward(ts)
           /\ ArrayTail(ts) \in Forward(ts) /\ ArrayTail(ts) \in Begin(ts, {";", "]"})
           /\ ArrayTail(ts)
                = ArrayEndTail(ts) ++ (Sym(ts, {";"}) ** (Const(ts) ** ArrayEndTail(ts)))
           /\ Sym(ts, {";"}) ** NoLength(ts) \in Forward(ts)
           /\ Sym(ts, {";"}) ** NoLength(ts) \in Begin(ts, {";"})
<1>1. Stars(ts) \in Forward(ts) /\ Stars(ts) = Nothing(ts) ++ (Sym(ts, {"*"}) ** Stars(ts))
  BY SymIs, AskedFor, StarIs DEF Stars
<1>2. ArrayEndTail(ts) \in Forward(ts) /\ ArrayEndTail(ts) \in Begin(ts, {"]"})
  <2>1. Sym(ts, {"]"}) \in Strict(ts) /\ Sym(ts, {"]"}) \in Begin(ts, {"]"})
    BY SymIs, AskedFor
  <2>2. ArrayEndTail(ts) \in Strict(ts)
    BY <1>1, <2>1, Advance DEF ArrayEndTail
  <2>3. ArrayEndTail(ts) \in Begin(ts, {"]"})
    BY <1>1, <2>1, BeginIs, AskedFor DEF ArrayEndTail
  <2>4. QED
    BY <2>2, <2>3, Advance
<1> DEFINE q == Const(ts) ** ArrayEndTail(ts)
<1>3. q \in Forward(ts) /\ q \in Begin(ts, {"int"})
  <2>1. q \in Strict(ts)
    BY <1>2, ExprIs, Advance
  <2>2. q \in Begin(ts, {"int"})
    BY <1>2, ExprIs, BeginIs, AskedFor
  <2>3. QED
    BY <2>1, <2>2, Advance
<1>4. Sym(ts, {";"}) \in Strict(ts) /\ Sym(ts, {";"}) \in Begin(ts, {";"})
  BY SymIs, AskedFor
<1>5. ArrayTail(ts) = ArrayEndTail(ts) ++ (Sym(ts, {";"}) ** q)
  <2> DEFINE s == Sym(ts, {";"})
             c == Const(ts)
             b == Sym(ts, {"]"})
             w == Stars(ts)
             n == Nothing(ts)
  <2>1. /\ s \in Phrases(ts) /\ c \in Phrases(ts) /\ b \in Phrases(ts)
        /\ w \in Phrases(ts) /\ n \in Phrases(ts)
    BY <1>1, ExprIs, SymIs, AskedFor, Advance
  <2>2. ArrayTail(ts) = ((n ++ (s ** c)) ** b) ** w
    BY DEF ArrayTail
  <2>3. ArrayEndTail(ts) = b ** w
    BY DEF ArrayEndTail
  <2> HIDE DEF s, c, b, w
  <2>4. b ** w \in Phrases(ts) /\ s ** c \in Phrases(ts) /\ n ++ (s ** c) \in Phrases(ts)
    BY <2>1, ThenIs, EitherIs
  <2>5. ((n ++ (s ** c)) ** b) ** w = (n ++ (s ** c)) ** (b ** w)
    BY <2>1, <2>4, ThenAssoc
  <2>6. (n ++ (s ** c)) ** (b ** w) = (b ** w) ++ ((s ** c) ** (b ** w))
    BY <2>1, <2>4, OptionThen
  <2>7. (s ** c) ** (b ** w) = s ** (c ** (b ** w))
    BY <2>1, <2>4, ThenAssoc
  <2>8. QED
    BY <2>2, <2>3, <2>5, <2>6, <2>7 DEF s, c
<1> HIDE DEF q
<1>6. Sym(ts, {";"}) ** q \in Forward(ts) /\ Sym(ts, {";"}) ** q \in Begin(ts, {";"})
  <2>1. Sym(ts, {";"}) ** q \in Strict(ts)
    BY <1>3, <1>4, Advance
  <2>2. Sym(ts, {";"}) ** q \in Begin(ts, {";"})
    BY <1>3, <1>4, BeginIs, AskedFor
  <2>3. QED
    BY <2>1, <2>2, Advance
<1>7. ArrayTail(ts) \in Forward(ts) /\ ArrayTail(ts) \in Begin(ts, {";", "]"})
  <2>1. ArrayTail(ts) \in Forward(ts)
    BY <1>2, <1>5, <1>6, Advance
  <2>2. {"]"} \in Symbols /\ {";"} \in Symbols
    BY AskedFor
  <2>3. ArrayTail(ts) \in Begin(ts, {"]"} \cup {";"})
    <3> DEFINE X == {"]"}
               Y == {";"}
               p == ArrayEndTail(ts)
               r == Sym(ts, {";"}) ** q
    <3>1. /\ X \in Symbols /\ Y \in Symbols
          /\ p \in Begin(ts, X) /\ r \in Begin(ts, Y) /\ ArrayTail(ts) = p ++ r
      BY <1>2, <1>5, <1>6, <2>2
    <3> HIDE DEF X, Y, p, r
    <3>2. ArrayTail(ts) \in Begin(ts, X \cup Y)
      BY <3>1, EitherBegin
    <3>3. QED
      BY <3>2 DEF X, Y
  <2>4. {"]"} \cup {";"} = {";", "]"}
    OBVIOUS
  <2>5. QED
    BY <2>1, <2>3, <2>4
<1>8. /\ Sym(ts, {";"}) ** NoLength(ts) \in Forward(ts)
      /\ Sym(ts, {";"}) ** NoLength(ts) \in Begin(ts, {";"})
  <2>1. NoLength(ts) \in Forward(ts)
    BY NoLengthIs DEF Blind
  <2>2. Sym(ts, {";"}) ** NoLength(ts) \in Strict(ts)
    BY <1>4, <2>1, Advance
  <2>3. Sym(ts, {";"}) ** NoLength(ts) \in Begin(ts, {";"})
    BY <1>4, <2>1, BeginIs, AskedFor
  <2>4. QED
    BY <2>2, <2>3, Advance
<1>9. QED
  BY <1>1, <1>2, <1>3, <1>5, <1>7, <1>8 DEF q
-----------------------------------------------------------------------------
(***************************************************************************)
(* Types                                                                   *)
(***************************************************************************)

\* What the definition of TypeEnds says when left tokens are left.
Inner(ts, stars, tail, noLength, f, left) ==
    LET i == Len(ts) + 1 - left
        elem == f[left - 1].type \cup f[left - 1].null
    IN  IF left = 0 THEN [type |-> {}, null |-> {}]
        ELSE IF ts[i] = "["
        THEN [type |-> UNION { tail[j] : j \in elem },
              null |-> UNION { noLength[j] : j \in elem }]
        ELSE IF ts[i] = "prim"
        THEN [type |-> stars[i + 1], null |-> {}]
        ELSE [type |-> {}, null |-> {i + 1}]

\* There is a function that the definition is about.
LEMMA InnerExists ==
    ASSUME NEW ts \in Seq(Tok), NEW stars \in Phrases(ts),
           NEW tail \in Phrases(ts), NEW noLength \in Phrases(ts)
    PROVE  \E f : f = [left \in 0 .. Len(ts) |->
                          Inner(ts, stars, tail, noLength, f, left)]
<1> DEFINE N == Len(ts)
           S == [type : SUBSET Places(ts), null : SUBSET Places(ts)]
           a == [type |-> {}, null |-> {}]
           Go(i, s) ==
              IF ts[i] = "["
              THEN [type |-> UNION { tail[j] : j \in s.type \cup s.null },
                    null |-> UNION { noLength[j] : j \in s.type \cup s.null }]
              ELSE IF ts[i] = "prim"
              THEN [type |-> stars[i + 1], null |-> {}]
              ELSE [type |-> {}, null |-> {i + 1}]
           step == [left \in 1 .. N |-> [s \in S |-> Go(N + 1 - left, s)]]
<1>1. N \in Nat /\ a \in S
  OBVIOUS
<1>2. ASSUME NEW left \in 1 .. N, NEW s \in S
      PROVE  Go(N + 1 - left, s) \in S
  <2> DEFINE i == N + 1 - left
  <2>1. i + 1 \in Places(ts)
    BY DEF Places
  <2>2. stars[i + 1] \in SUBSET Places(ts)
    BY <2>1 DEF Phrases
  <2>3. UNION { tail[j] : j \in s.type \cup s.null } \in SUBSET Places(ts)
    BY DEF Phrases
  <2>4. UNION { noLength[j] : j \in s.type \cup s.null } \in SUBSET Places(ts)
    BY DEF Phrases
  <2> HIDE DEF i, N
  <2>5. QED
    BY <2>1, <2>2, <2>3, <2>4 DEF i
<1>3. step \in Steps(N, S)
  <2> HIDE DEF Go, N, S
  <2>1. QED
    BY <1>2 DEF Steps
<1>4. PICK f : Made(N, S, a, step, f)
  <2> HIDE DEF N, S, a, step
  <2>1. QED
    BY <1>1, <1>3, Recursion
<1>5. ASSUME NEW left \in 0 .. N
      PROVE  f[left] = Inner(ts, stars, tail, noLength, f, left)
  <2>1. CASE left = 0
    BY <1>4, <2>1 DEF Inner, Made
  <2>2. CASE left # 0
    <3>1. left \in 1 .. N /\ left - 1 \in 0 .. N
      BY <1>1, <2>2
    <3>2. f[left - 1] \in S
      BY <1>4, <3>1 DEF Made
    <3>3. f[left] = step[left][f[left - 1]]
      BY <1>4, <3>1 DEF Made
    <3>4. step[left][f[left - 1]] = Go(N + 1 - left, f[left - 1])
      <4> HIDE DEF Go, N, S
      <4>1. QED
        BY <3>1, <3>2
    <3>5. QED
      BY <2>2, <3>3, <3>4 DEF Inner
  <2>3. QED
    BY <2>1, <2>2
<1>6. f = [left \in 0 .. N |-> f[left]]
  <2> HIDE DEF N, S
  <2>1. QED
    BY <1>4 DEF Made
<1>7. [left \in 0 .. N |-> f[left]]
        = [left \in 0 .. N |-> Inner(ts, stars, tail, noLength, f, left)]
  BY <1>5
<1>8. f = [left \in 0 .. N |-> Inner(ts, stars, tail, noLength, f, left)]
  BY <1>6, <1>7, Zenon
<1>9. QED
  BY <1>8, Zenon

\* TypeEnds counts the other way around.
LEMMA TypeEndsCounts ==
    ASSUME NEW ts \in Seq(Tok)
    PROVE  \E f : /\ f = [left \in 0 .. Len(ts) |->
                            Inner(ts, Stars(ts), ArrayTail(ts),
                                  Sym(ts, {";"}) ** NoLength(ts), f, left)]
                  /\ TypeEnds(ts) = [i \in Places(ts) |-> f[Len(ts) + 1 - i]]
<1> DEFINE Good0(f) == f = [left \in 0 .. Len(ts) |->
                              Inner(ts, Stars(ts), ArrayTail(ts),
                                    Sym(ts, {";"}) ** NoLength(ts), f, left)]
           f == CHOOSE ends : Good0(ends)
<1>1. Good0(f)
  <2>1. /\ Stars(ts) \in Phrases(ts) /\ ArrayTail(ts) \in Phrases(ts)
        /\ Sym(ts, {";"}) ** NoLength(ts) \in Phrases(ts)
    BY ArrayIs, Advance
  <2>2. \E ends : Good0(ends)
    BY <2>1, InnerExists
  <2> HIDE DEF Good0
  <2>3. QED
    BY <2>2
<1>2. TypeEnds(ts) = [i \in Places(ts) |-> f[Len(ts) + 1 - i]]
  BY DEF TypeEnds, Inner
<1>3. QED
  BY <1>1, <1>2

\* Where a type, and what is none, may end.
LEMMA TypeOfIs ==
    ASSUME NEW ts \in Seq(Tok), NEW i \in Places(ts)
    PROVE  /\ Look(ts, i) = "NULL" => TypeOf(ts)[i] = {} /\ NullOf(ts)[i] = {}
           /\ Look(ts, i) = "[" =>
                 LET elem == TypeOf(ts)[i + 1] \cup NullOf(ts)[i + 1]
                 IN  /\ TypeOf(ts)[i] = UNION { ArrayTail(ts)[j] : j \in elem }
                     /\ NullOf(ts)[i]
                          = UNION { (Sym(ts, {";"}) ** NoLength(ts))[j] : j \in elem }
           /\ Look(ts, i) = "prim" =>
                 TypeOf(ts)[i] = Stars(ts)[i + 1] /\ NullOf(ts)[i] = {}
           /\ Look(ts, i) \notin {"NULL", "[", "prim"} =>
                 TypeOf(ts)[i] = {} /\ NullOf(ts)[i] = {i + 1}
<1> DEFINE stars == Stars(ts)
           tail == ArrayTail(ts)
           noLength == Sym(ts, {";"}) ** NoLength(ts)
<1>1. PICK f : /\ f = [left \in 0 .. Len(ts) |->
                         Inner(ts, stars, tail, noLength, f, left)]
               /\ TypeEnds(ts) = [j \in Places(ts) |-> f[Len(ts) + 1 - j]]
  BY TypeEndsCounts
<1> HIDE DEF stars, tail, noLength
<1>2. \A left \in 0 .. Len(ts) : f[left] = Inner(ts, stars, tail, noLength, f, left)
  BY <1>1, Zenon
<1>3. \A j \in Places(ts) : /\ TypeOf(ts)[j] = f[Len(ts) + 1 - j].type
                            /\ NullOf(ts)[j] = f[Len(ts) + 1 - j].null
  BY <1>1 DEF TypeOf, NullOf
<1> DEFINE left == Len(ts) + 1 - i
<1>4. left \in 0 .. Len(ts) /\ Len(ts) + 1 - left = i /\ i \in Nat /\ Len(ts) \in Nat
  BY DEF Places
<1>5. f[left] = Inner(ts, stars, tail, noLength, f, left)
  BY <1>2, <1>4
<1>6. TypeOf(ts)[i] = f[left].type /\ NullOf(ts)[i] = f[left].null
  BY <1>3
<1>7. CASE Look(ts, i) = "NULL"
  <2>1. Look(ts, i) \notin Tok
    BY <1>7 DEF Tok
  <2>2. left = 0
    BY <1>4, <2>1, LookIs
  <2>3. f[left] = [type |-> {}, null |-> {}]
    BY <1>5, <2>2 DEF Inner
  <2>4. QED
    BY <1>6, <1>7, <2>3
<1>8. CASE Look(ts, i) # "NULL"
  <2>1. i <= Len(ts) /\ ts[i] = Look(ts, i) /\ i + 1 \in Places(ts)
    BY <1>8, LookIs DEF Look
  <2>2. left # 0 /\ left - 1 = Len(ts) + 1 - (i + 1)
    BY <1>4, <2>1
  <2>3. /\ f[left - 1].type = TypeOf(ts)[i + 1]
        /\ f[left - 1].null = NullOf(ts)[i + 1]
    BY <1>3, <2>1, <2>2
  <2> DEFINE elem == TypeOf(ts)[i + 1] \cup NullOf(ts)[i + 1]
  <2> HIDE DEF left
  <2>4. f[left] = IF ts[i] = "["
                  THEN [type |-> UNION { tail[j] : j \in elem },
                        null |-> UNION { noLength[j] : j \in elem }]
                  ELSE IF ts[i] = "prim"
                  THEN [type |-> stars[i + 1], null |-> {}]
                  ELSE [type |-> {}, null |-> {i + 1}]
    BY <1>4, <1>5, <2>2, <2>3 DEF Inner
  <2> HIDE DEF elem
  <2>5. CASE ts[i] = "["
    <3>1. /\ TypeOf(ts)[i] = UNION { tail[j] : j \in elem }
          /\ NullOf(ts)[i] = UNION { noLength[j] : j \in elem }
      BY <1>6, <2>4, <2>5
    <3>2. QED
      BY <2>1, <2>5, <3>1 DEF elem, tail, noLength
  <2>6. CASE ts[i] = "prim"
    <3>1. TypeOf(ts)[i] = stars[i + 1] /\ NullOf(ts)[i] = {}
      BY <1>6, <2>4, <2>6
    <3>2. QED
      BY <2>1, <2>6, <3>1 DEF stars
  <2>7. CASE ts[i] \notin {"[", "prim"}
    <3>1. TypeOf(ts)[i] = {} /\ NullOf(ts)[i] = {i + 1}
      BY <1>6, <2>4, <2>7
    <3>2. QED
      BY <1>8, <2>1, <2>7, <3>1
  <2>8. QED
    BY <2>5, <2>6, <2>7
<1>9. QED
  BY <1>7, <1>8

\* Neither ends before it begins.
LEMMA TypeForward ==
    ASSUME NEW ts \in Seq(Tok)
    PROVE  TypeOf(ts) \in Forward(ts) /\ NullOf(ts) \in Forward(ts)
<1> DEFINE Ahead0(i) ==
              /\ TypeOf(ts)[i] \subseteq { j \in Places(ts) : i <= j }
              /\ NullOf(ts)[i] \subseteq { j \in Places(ts) : i <= j }
           N == Len(ts)
           T == { left \in 0 .. N : Ahead0(N + 1 - left) }
<1>0. N \in Nat /\ Places(ts) = 1 .. N + 1
  BY DEF Places
<1>1. 0 \in T
  <2>1. N + 1 \in Places(ts) /\ Look(ts, N + 1) = "NULL" /\ N + 1 - 0 = N + 1
    BY <1>0 DEF Look
  <2>2. TypeOf(ts)[N + 1] = {} /\ NullOf(ts)[N + 1] = {}
    BY <2>1, TypeOfIs
  <2>3. QED
    BY <1>0, <2>1, <2>2
<1>2. ASSUME NEW left \in 0 .. N - 1, left \in T
      PROVE  left + 1 \in T
  <2> DEFINE i == N + 1 - (left + 1)
  <2>1. /\ i \in Places(ts) /\ i + 1 \in Places(ts) /\ i + 1 = N + 1 - left
        /\ i \in Nat /\ i <= N
    BY <1>0
  <2>2. Ahead0(i + 1)
    BY <1>2, <2>1
  <2> HIDE DEF i
  <2>3. Look(ts, i) # "NULL"
    BY <1>0, <2>1, LookIs DEF Tok
  <2>4. /\ Stars(ts) \in Forward(ts) /\ ArrayTail(ts) \in Forward(ts)
        /\ Sym(ts, {";"}) ** NoLength(ts) \in Forward(ts)
    BY ArrayIs
  <2>5. ASSUME NEW p \in Forward(ts), NEW k \in Places(ts), i + 1 <= k, NEW j \in p[k]
        PROVE  j \in Places(ts) /\ i <= j
    <3>1. j \in Places(ts) /\ k <= j
      BY <2>5 DEF Forward, Phrases
    <3>2. QED
      BY <1>0, <2>1, <2>5, <3>1
  <2>6. CASE Look(ts, i) = "["
    <3> DEFINE elem == TypeOf(ts)[i + 1] \cup NullOf(ts)[i + 1]
    <3>1. \A k \in elem : k \in Places(ts) /\ i + 1 <= k
      BY <2>2
    <3>2. /\ TypeOf(ts)[i] = UNION { ArrayTail(ts)[k] : k \in elem }
          /\ NullOf(ts)[i] = UNION { (Sym(ts, {";"}) ** NoLength(ts))[k] : k \in elem }
      BY <2>1, <2>6, TypeOfIs
    <3> HIDE DEF elem
    <3>3. \A k \in elem : \A j \in ArrayTail(ts)[k] : j \in Places(ts) /\ i <= j
      BY <2>4, <2>5, <3>1
    <3>4. \A k \in elem : \A j \in (Sym(ts, {";"}) ** NoLength(ts))[k] :
             j \in Places(ts) /\ i <= j
      BY <2>4, <2>5, <3>1
    <3>5. Ahead0(i)
      BY <3>2, <3>3, <3>4
    <3>6. QED
      BY <1>0, <3>5 DEF i
  <2>7. CASE Look(ts, i) = "prim"
    <3>1. TypeOf(ts)[i] = Stars(ts)[i + 1] /\ NullOf(ts)[i] = {}
      BY <2>1, <2>7, TypeOfIs
    <3> DEFINE k == i + 1
    <3>0. k \in Places(ts) /\ i + 1 <= k
      BY <2>1
    <3> HIDE DEF k
    <3>2. \A j \in Stars(ts)[i + 1] : j \in Places(ts) /\ i <= j
      <4>1. \A j \in Stars(ts)[k] : j \in Places(ts) /\ i <= j
        BY <2>4, <2>5, <3>0
      <4>2. QED
        BY <4>1 DEF k
    <3>3. Ahead0(i)
      BY <3>1, <3>2
    <3>4. QED
      BY <1>0, <3>3 DEF i
  <2>8. CASE Look(ts, i) \notin {"[", "prim"}
    <3>1. TypeOf(ts)[i] = {} /\ NullOf(ts)[i] = {i + 1}
      BY <2>1, <2>3, <2>8, TypeOfIs
    <3>2. i <= i + 1
      BY <2>1
    <3>3. Ahead0(i)
      BY <2>1, <3>1, <3>2
    <3>4. QED
      BY <1>0, <3>3 DEF i
  <2>9. QED
    BY <2>6, <2>7, <2>8
<1>3. \A i \in Places(ts) : Ahead0(i)
  <2> TAKE i \in Places(ts)
  <2>1. N + 1 - i \in 0 .. N /\ N + 1 - (N + 1 - i) = i
    BY <1>0
  <2>2. N + 1 - i \in T
    <3> HIDE DEF T
    <3>1. QED
      BY <1>0, <1>1, <1>2, <2>1, Inductive
  <2>3. QED
    BY <2>1, <2>2
<1>4. \A p : p = [i \in Places(ts) |-> p[i]]
             /\ (\A i \in Places(ts) : p[i] \subseteq { j \in Places(ts) : i <= j })
             => p \in Forward(ts)
  BY DEF Forward, Phrases
<1>5. /\ TypeOf(ts) = [i \in Places(ts) |-> TypeOf(ts)[i]]
      /\ NullOf(ts) = [i \in Places(ts) |-> NullOf(ts)[i]]
  BY DEF TypeOf, NullOf
<1>6. QED
  BY <1>3, <1>4, <1>5
-----------------------------------------------------------------------------
(***************************************************************************)
(* Statements and functions                                                *)
(***************************************************************************)

\* Where a type stands, whitespace before it or not.
LEMMA TypeInIs ==
    ASSUME NEW ts \in Seq(Tok)
    PROVE  /\ TypeIn(ts) \in Blind(ts)
           /\ TypeIn(ts) \in Forward(ts)
           /\ \A i \in Places(ts) : Look(ts, i) # "ws" => TypeIn(ts)[i] = TypeOf(ts)[i]
<1>1. /\ Blank(ts) \in Forward(ts) /\ TypeOf(ts) \in Forward(ts)
      /\ Blank(ts) \in Phrases(ts) /\ TypeOf(ts) \in Phrases(ts)
  BY BlankIs, TypeForward, Advance
<1>2. TypeIn(ts) = Blank(ts) ** TypeOf(ts)
  BY DEF TypeIn, TypeOf
<1>3. TypeIn(ts) \in Forward(ts)
  BY <1>1, <1>2, Advance
<1>4. \A i \in Places(ts) : TypeIn(ts)[i] = UNION { TypeOf(ts)[j] : j \in Blank(ts)[i] }
  BY <1>1, <1>2, ThenIs
<1>5. ASSUME NEW i \in Places(ts), Look(ts, i) # "ws"
      PROVE  TypeIn(ts)[i] = TypeOf(ts)[i]
  <2>1. Blank(ts)[i] = {i}
    BY <1>5, BlankIs
  <2>2. TypeIn(ts)[i] = UNION { TypeOf(ts)[j] : j \in Blank(ts)[i] }
    BY <1>4
  <2>3. QED
    BY <2>1, <2>2
<1>6. ASSUME NEW i \in Places(ts), Look(ts, i) = "ws"
      PROVE  TypeIn(ts)[i] = TypeIn(ts)[i + 1]
  <2>1. i + 1 \in Places(ts)
    BY <1>6, LookIs
  <2>2. Blank(ts)[i] = {i} \cup Blank(ts)[i + 1]
    BY <1>6, BlankIs
  <2>3. TypeOf(ts)[i] = {}
    BY <1>6, TypeOfIs
  <2>4. /\ TypeIn(ts)[i] = UNION { TypeOf(ts)[j] : j \in Blank(ts)[i] }
        /\ TypeIn(ts)[i + 1] = UNION { TypeOf(ts)[j] : j \in Blank(ts)[i + 1] }
    BY <1>4, <2>1
  <2>5. QED
    BY <2>2, <2>3, <2>4
<1>7. QED
  BY <1>3, <1>5, <1>6 DEF Blind

\* A symbol and what follows it.
LEMMA SymThen ==
    ASSUME NEW ts \in Seq(Tok), NEW X \in Symbols, NEW q \in Forward(ts)
    PROVE  /\ Sym(ts, X) ** q \in Strict(ts)
           /\ Sym(ts, X) ** q \in Forward(ts)
           /\ Sym(ts, X) ** q \in Begin(ts, X)
           /\ \A i \in Places(ts) : Look(ts, i) # "ws" =>
                 (Sym(ts, X) ** q)[i] = IF Look(ts, i) \in X THEN q[i + 1] ELSE {}
<1>1. /\ Sym(ts, X) \in Strict(ts) /\ Sym(ts, X) \in Begin(ts, X)
      /\ Sym(ts, X) \in Phrases(ts) /\ q \in Phrases(ts)
  BY SymIs, Advance
<1>2. Sym(ts, X) ** q \in Strict(ts) /\ Sym(ts, X) ** q \in Forward(ts)
  BY <1>1, Advance
<1>3. Sym(ts, X) ** q \in Begin(ts, X)
  BY <1>1, ThenBegin
<1>4. ASSUME NEW i \in Places(ts), Look(ts, i) # "ws"
      PROVE  (Sym(ts, X) ** q)[i] = IF Look(ts, i) \in X THEN q[i + 1] ELSE {}
  <2>1. (Sym(ts, X) ** q)[i] = UNION { q[j] : j \in Sym(ts, X)[i] }
    BY <1>1, ThenIs
  <2>2. Sym(ts, X)[i] = IF Look(ts, i) \in X THEN {i + 1} ELSE {}
    BY <1>4, SymIs
  <2>3. QED
    BY <2>1, <2>2
<1>5. QED
  BY <1>2, <1>3, <1>4

\* A symbol at the place itself and what follows it.
LEMMA GluedThen ==
    ASSUME NEW ts \in Seq(Tok), NEW X \in Symbols, NEW q \in Forward(ts)
    PROVE  /\ Glued(ts, X) ** q \in Forward(ts)
           /\ \A i \in Places(ts) :
                 (Glued(ts, X) ** q)[i] = IF Look(ts, i) \in X THEN q[i + 1] ELSE {}
<1>1. Glued(ts, X) \in Strict(ts) /\ Glued(ts, X) \in Phrases(ts) /\ q \in Phrases(ts)
  BY GluedIs, Advance
<1>2. Glued(ts, X) ** q \in Forward(ts)
  BY <1>1, Advance
<1>3. ASSUME NEW i \in Places(ts)
      PROVE  (Glued(ts, X) ** q)[i] = IF Look(ts, i) \in X THEN q[i + 1] ELSE {}
  <2>1. (Glued(ts, X) ** q)[i] = UNION { q[j] : j \in Glued(ts, X)[i] }
    BY <1>1, ThenIs
  <2>2. Glued(ts, X)[i] = IF Look(ts, i) \in X THEN {i + 1} ELSE {}
    BY GluedIs
  <2>3. QED
    BY <2>1, <2>2
<1>4. QED
  BY <1>2, <1>3

\* What may be left out.
LEMMA OptionForward ==
    ASSUME NEW ts \in Seq(Tok), NEW p \in Forward(ts), NEW q \in Forward(ts)
    PROVE  (Nothing(ts) ++ p) ** q = q ++ (p ** q)
<1>1. p \in Phrases(ts) /\ q \in Phrases(ts)
  BY Advance
<1>2. QED
  BY <1>1, OptionThen

\* It does not matter how three phrases are put together.
LEMMA ForwardAssoc ==
    ASSUME NEW ts \in Seq(Tok), NEW p \in Forward(ts), NEW q \in Forward(ts),
           NEW r \in Forward(ts)
    PROVE  (p ** q) ** r = p ** (q ** r)
<1>1. p \in Phrases(ts) /\ q \in Phrases(ts) /\ r \in Phrases(ts)
  BY Advance
<1>2. QED
  BY <1>1, ThenAssoc

\* Let-statements.
LEMMA LetIs ==
    ASSUME NEW ts \in Seq(Tok)
    PROVE  /\ LetEnds(ts) \in Forward(ts) /\ LetEnds(ts) \in Begin(ts, {";", "="})
           /\ LetColonTail(ts) \in Forward(ts)
           /\ LetColonTail(ts) \in Begin(ts, {";", "=", ":"})
           /\ LetColonTail(ts) = LetEnds(ts) ++ (Sym(ts, {":"}) ** (TypeIn(ts) ** LetEnds(ts)))
           /\ TypeIn(ts) ** LetEnds(ts) \in Forward(ts)
           /\ Name(ts) ** LetColonTail(ts) \in Forward(ts)
           /\ Name(ts) ** LetColonTail(ts) \in Begin(ts, {"ident", "prim"})
           /\ Let(ts) \in Strict(ts) /\ Let(ts) \in Begin(ts, {"let"})
           /\ Let(ts) = Sym(ts, {"let"}) ** (Name(ts) ** LetColonTail(ts))
<1> DEFINE semi == Sym(ts, {";"})
           value == Sym(ts, {"="}) ** Expr(ts)
           colon == Sym(ts, {":"})
           let == Sym(ts, {"let"})
           ends == LetEnds(ts)
           in == TypeIn(ts)
           X == {";"}
           Y == {"="}
           Z == {":"}
<1>1. /\ X \in Symbols /\ Y \in Symbols /\ Z \in Symbols /\ X \cup Y \in Symbols
      /\ {"let"} \in Symbols /\ {"ident", "prim"} \in Symbols
  BY DEF Symbols, Tok
<1>2. /\ semi \in Strict(ts) /\ semi \in Begin(ts, X)
      /\ colon \in Strict(ts) /\ colon \in Begin(ts, Z)
      /\ let \in Strict(ts) /\ let \in Begin(ts, {"let"})
      /\ Name(ts) \in Strict(ts) /\ Name(ts) \in Begin(ts, {"ident", "prim"})
  BY <1>1, SymIs DEF Name
<1>3. value \in Forward(ts) /\ value \in Begin(ts, Y)
  <2>1. Expr(ts) \in Forward(ts)
    BY ExprIs, Advance
  <2>2. QED
    BY <1>1, <2>1, SymThen
<1>4. ends = semi ++ value
  BY DEF LetEnds
<1>5. in \in Forward(ts)
  BY TypeInIs
<1>6. semi \in Forward(ts) /\ colon \in Forward(ts) /\ let \in Forward(ts)
      /\ Name(ts) \in Forward(ts)
  BY <1>2, Advance
<1> HIDE DEF semi, value, colon, let, in, ends, X, Y, Z
<1>7. ends \in Forward(ts) /\ ends \in Begin(ts, X \cup Y)
  <2>1. ends \in Forward(ts)
    BY <1>3, <1>4, <1>6, Advance
  <2>2. semi ++ value \in Begin(ts, X \cup Y)
    BY <1>1, <1>2, <1>3, EitherBegin
  <2>3. QED
    BY <1>4, <2>1, <2>2
<1>8. colon ** in \in Forward(ts) /\ in ** ends \in Forward(ts)
  BY <1>5, <1>6, <1>7, Advance
<1>9. colon ** (in ** ends) \in Forward(ts) /\ colon ** (in ** ends) \in Begin(ts, Z)
  <2>1. colon ** (in ** ends) \in Forward(ts)
    BY <1>6, <1>8, Advance
  <2>2. colon ** (in ** ends) \in Begin(ts, Z)
    BY <1>1, <1>2, <1>8, ThenBegin
  <2>3. QED
    BY <2>1, <2>2
<1>10. (Nothing(ts) ++ (colon ** in)) ** ends = ends ++ (colon ** (in ** ends))
  <2>1. (Nothing(ts) ++ (colon ** in)) ** ends = ends ++ ((colon ** in) ** ends)
    BY <1>7, <1>8, OptionForward
  <2>2. (colon ** in) ** ends = colon ** (in ** ends)
    BY <1>5, <1>6, <1>7, ForwardAssoc
  <2>3. QED
    BY <2>1, <2>2
<1>11. LetColonTail(ts) = (Nothing(ts) ++ (colon ** in)) ** ends
  BY DEF LetColonTail, colon, in, ends
<1> DEFINE all == LetColonTail(ts)
<1>12. all = ends ++ (colon ** (in ** ends))
  BY <1>10, <1>11
<1>13. all \in Forward(ts) /\ all \in Begin(ts, (X \cup Y) \cup Z)
  <2> HIDE DEF all
  <2>1. all \in Forward(ts)
    BY <1>7, <1>9, <1>12, Advance
  <2>2. all \in Begin(ts, (X \cup Y) \cup Z)
    BY <1>1, <1>7, <1>9, <1>12, EitherBegin
  <2>3. QED
    BY <2>1, <2>2
<1>14. Name(ts) ** all \in Forward(ts) /\ Name(ts) ** all \in Begin(ts, {"ident", "prim"})
  <2> HIDE DEF all
  <2>1. Name(ts) ** all \in Forward(ts)
    BY <1>6, <1>13, Advance
  <2>2. Name(ts) ** all \in Begin(ts, {"ident", "prim"})
    BY <1>1, <1>2, <1>13, ThenBegin
  <2>3. QED
    BY <2>1, <2>2
<1>15. Let(ts) = let ** (Name(ts) ** all)
  <2> DEFINE opt == Nothing(ts) ++ (colon ** in)
  <2>1. Let(ts) = ((let ** Name(ts)) ** opt) ** ends
    BY DEF Let, let, colon, in, ends
  <2>2. opt \in Forward(ts)
    BY <1>8, Advance
  <2>3. all = opt ** ends
    BY <1>11
  <2> HIDE DEF opt, all
  <2>4. let ** Name(ts) \in Forward(ts) /\ opt ** ends \in Forward(ts)
    BY <1>6, <1>7, <2>2, Advance
  <2>5. ((let ** Name(ts)) ** opt) ** ends = (let ** Name(ts)) ** (opt ** ends)
    BY <1>7, <2>2, <2>4, ForwardAssoc
  <2>6. (let ** Name(ts)) ** (opt ** ends) = let ** (Name(ts) ** (opt ** ends))
    BY <1>6, <2>4, ForwardAssoc
  <2>7. QED
    BY <2>1, <2>3, <2>5, <2>6
<1>16. Let(ts) \in Strict(ts) /\ Let(ts) \in Begin(ts, {"let"})
  <2> HIDE DEF all
  <2>1. Let(ts) \in Strict(ts)
    BY <1>2, <1>14, <1>15, Advance
  <2>2. Let(ts) \in Begin(ts, {"let"})
    BY <1>1, <1>2, <1>14, <1>15, ThenBegin
  <2>3. QED
    BY <2>1, <2>2
<1>17. X \cup Y = {";", "="} /\ (X \cup Y) \cup Z = {";", "=", ":"}
  BY DEF X, Y, Z
<1>18. /\ LetEnds(ts) \in Forward(ts) /\ LetEnds(ts) \in Begin(ts, {";", "="})
       /\ TypeIn(ts) ** LetEnds(ts) \in Forward(ts)
       /\ LetColonTail(ts) = LetEnds(ts) ++ (Sym(ts, {":"}) ** (TypeIn(ts) ** LetEnds(ts)))
  BY <1>7, <1>8, <1>12, <1>17 DEF ends, in, colon
<1>19. LetColonTail(ts) \in Forward(ts) /\ LetColonTail(ts) \in Begin(ts, {";", "=", ":"})
  BY <1>13, <1>17
<1>20. Let(ts) = Sym(ts, {"let"}) ** (Name(ts) ** LetColonTail(ts))
  BY <1>15 DEF let
<1>21. QED
  BY <1>14, <1>16, <1>18, <1>19, <1>20

\* Blocks.
LEMMA BlockIs ==
    ASSUME NEW ts \in Seq(Tok)
    PROVE  /\ Expr(ts) ** Sym(ts, {";"}) \in Forward(ts)
           /\ Expr(ts) ** Sym(ts, {";"}) \in Begin(ts, {"int"})
           /\ Ret(ts) \in Begin(ts, {"ret"}) /\ Ret(ts) \in Forward(ts)
           /\ Ret(ts) = Sym(ts, {"ret"}) ** (Expr(ts) ** Sym(ts, {";"}))
           /\ Stmt(ts) \in Strict(ts) /\ Stmt(ts) \in Forward(ts)
           /\ Stmt(ts) \in Begin(ts, {"let", "ret"})
           /\ BlockTail(ts) \in Forward(ts)
           /\ BlockTail(ts) \in Begin(ts, {"}", "let", "ret"})
           /\ BlockTail(ts) = Sym(ts, {"}"}) ++ (Stmt(ts) ** BlockTail(ts))
           /\ Body(ts) \in Strict(ts) /\ Body(ts) \in Begin(ts, {"{"})
           /\ Body(ts) = Sym(ts, {"{"}) ** BlockTail(ts)
<1> DEFINE ret == Sym(ts, {"ret"})
           expr == Expr(ts)
           semi == Sym(ts, {";"})
           end == Sym(ts, {"}"})
           begin == Sym(ts, {"{"})
           let == Let(ts)
           stmt == Stmt(ts)
           stmts == Star(ts, stmt)
           L == {"let"}
           R == {"ret"}
           E == {"}"}
<1>1. /\ L \in Symbols /\ R \in Symbols /\ E \in Symbols /\ L \cup R \in Symbols
      /\ {"{"} \in Symbols /\ {";"} \in Symbols /\ {"int"} \in Symbols
  BY DEF Symbols, Tok
<1>2. /\ ret \in Strict(ts) /\ ret \in Begin(ts, R)
      /\ semi \in Strict(ts) /\ begin \in Strict(ts) /\ begin \in Begin(ts, {"{"})
      /\ end \in Strict(ts) /\ end \in Begin(ts, E)
  BY <1>1, SymIs
<1>3. /\ expr \in Strict(ts) /\ expr \in Begin(ts, {"int"})
      /\ let \in Strict(ts) /\ let \in Begin(ts, L)
  BY ExprIs, LetIs
<1> HIDE DEF ret, expr, semi, end, begin, let, L, R, E
<1>4. /\ ret \in Forward(ts) /\ expr \in Forward(ts) /\ semi \in Forward(ts)
      /\ end \in Forward(ts) /\ begin \in Forward(ts) /\ let \in Forward(ts)
  BY <1>2, <1>3, Advance
<1>5. expr ** semi \in Forward(ts) /\ expr ** semi \in Begin(ts, {"int"})
  <2>1. expr ** semi \in Forward(ts)
    BY <1>4, Advance
  <2>2. QED
    BY <1>1, <1>3, <1>4, <2>1, ThenBegin
<1>6. Ret(ts) = ret ** (expr ** semi)
  <2>1. Ret(ts) = (ret ** expr) ** semi
    BY DEF Ret, ret, expr, semi
  <2>2. QED
    BY <1>4, <2>1, ForwardAssoc
<1>7. Ret(ts) \in Strict(ts) /\ Ret(ts) \in Begin(ts, R)
  <2>1. ret ** (expr ** semi) \in Strict(ts)
    BY <1>2, <1>5, Advance
  <2>2. ret ** (expr ** semi) \in Begin(ts, R)
    BY <1>1, <1>2, <1>5, ThenBegin
  <2>3. QED
    BY <1>6, <2>1, <2>2
<1>8. stmt \in Strict(ts) /\ stmt \in Begin(ts, L \cup R)
  <2> DEFINE r == Ret(ts)
  <2>1. stmt = let ++ r
    BY DEF Stmt, let
  <2>2. r \in Strict(ts) /\ r \in Begin(ts, R)
    BY <1>7
  <2> HIDE DEF r, stmt
  <2>3. let ++ r \in Strict(ts)
    BY <1>3, <2>2, Advance
  <2>4. let ++ r \in Begin(ts, L \cup R)
    BY <1>1, <1>3, <2>2, EitherBegin
  <2>5. QED
    BY <2>1, <2>3, <2>4
<1> HIDE DEF stmt
<1>9. stmts \in Forward(ts) /\ stmts = Nothing(ts) ++ (stmt ** stmts)
  BY <1>8, StarIs
<1> HIDE DEF stmts
<1>10. stmt \in Forward(ts)
  BY <1>8, Advance
<1> DEFINE block == BlockTail(ts)
<1>11. block = stmts ** end
  BY DEF BlockTail, stmts, stmt, end
<1> HIDE DEF block
<1>12. block \in Forward(ts) /\ stmt ** stmts \in Forward(ts)
  BY <1>4, <1>9, <1>10, <1>11, Advance
<1>13. block = end ++ (stmt ** block)
  <2>1. stmts ** end = (Nothing(ts) ++ (stmt ** stmts)) ** end
    BY <1>9
  <2>2. (Nothing(ts) ++ (stmt ** stmts)) ** end = end ++ ((stmt ** stmts) ** end)
    BY <1>4, <1>12, OptionForward
  <2>3. (stmt ** stmts) ** end = stmt ** (stmts ** end)
    BY <1>4, <1>9, <1>10, ForwardAssoc
  <2>4. QED
    BY <1>11, <2>1, <2>2, <2>3
<1>14. block \in Begin(ts, E \cup (L \cup R))
  <2>1. stmt ** block \in Begin(ts, L \cup R)
    BY <1>1, <1>8, <1>12, ThenBegin
  <2>2. end ++ (stmt ** block) \in Begin(ts, E \cup (L \cup R))
    BY <1>1, <1>2, <2>1, EitherBegin
  <2>3. QED
    BY <1>13, <2>2
<1>15. Body(ts) = begin ** block
  <2>1. Body(ts) = (begin ** stmts) ** end
    BY DEF Body, begin, stmts, stmt, end, Stmt
  <2>2. (begin ** stmts) ** end = begin ** (stmts ** end)
    BY <1>4, <1>9, ForwardAssoc
  <2>3. QED
    BY <1>11, <2>1, <2>2
<1>16. Body(ts) \in Strict(ts) /\ Body(ts) \in Begin(ts, {"{"})
  <2>1. begin ** block \in Strict(ts)
    BY <1>2, <1>12, Advance
  <2>2. begin ** block \in Begin(ts, {"{"})
    BY <1>1, <1>2, <1>12, ThenBegin
  <2>3. QED
    BY <1>15, <2>1, <2>2
<1>17. L \cup R = {"let", "ret"} /\ E \cup (L \cup R) = {"}", "let", "ret"} /\ R = {"ret"}
  BY DEF L, R, E
<1>18. Ret(ts) \in Begin(ts, {"ret"}) /\ Ret(ts) \in Forward(ts)
       /\ Ret(ts) = Sym(ts, {"ret"}) ** (Expr(ts) ** Sym(ts, {";"}))
  BY <1>6, <1>7, <1>17, Advance DEF ret, expr, semi
<1>19. /\ Stmt(ts) \in Strict(ts) /\ Stmt(ts) \in Forward(ts)
       /\ Stmt(ts) \in Begin(ts, {"let", "ret"})
  BY <1>8, <1>10, <1>17 DEF stmt
<1>20. /\ BlockTail(ts) \in Forward(ts)
       /\ BlockTail(ts) \in Begin(ts, {"}", "let", "ret"})
       /\ BlockTail(ts) = Sym(ts, {"}"}) ++ (Stmt(ts) ** BlockTail(ts))
  BY <1>12, <1>13, <1>14, <1>17 DEF block, end, stmt
<1>21. Body(ts) = Sym(ts, {"{"}) ** BlockTail(ts)
  BY <1>15 DEF begin, block
<1>22. /\ Expr(ts) ** Sym(ts, {";"}) \in Forward(ts)
       /\ Expr(ts) ** Sym(ts, {";"}) \in Begin(ts, {"int"})
  BY <1>5 DEF expr, semi
<1>23. QED
  BY <1>16, <1>18, <1>19, <1>20, <1>21, <1>22

\* Functions.
LEMMA FnIs ==
    ASSUME NEW ts \in Seq(Tok)
    PROVE  /\ TypeIn(ts) ** Body(ts) \in Forward(ts)
           /\ Glued(ts, {">"}) ** (TypeIn(ts) ** Body(ts)) \in Forward(ts)
           /\ FnRetTail(ts) \in Forward(ts) /\ FnRetTail(ts) \in Begin(ts, {"{", "-"})
           /\ FnRetTail(ts) = Body(ts) ++
                (Sym(ts, {"-"}) ** (Glued(ts, {">"}) ** (TypeIn(ts) ** Body(ts))))
           /\ FnRparenTail(ts) \in Forward(ts) /\ FnRparenTail(ts) \in Begin(ts, {")"})
           /\ FnLparenTail(ts) \in Forward(ts) /\ FnLparenTail(ts) \in Begin(ts, {"("})
           /\ Name(ts) ** FnLparenTail(ts) \in Forward(ts)
           /\ Name(ts) ** FnLparenTail(ts) \in Begin(ts, {"ident", "prim"})
           /\ Fn(ts) \in Strict(ts) /\ Fn(ts) \in Begin(ts, {"fn"})
           /\ Fn(ts) = Sym(ts, {"fn"}) ** (Name(ts) ** FnLparenTail(ts))
<1> DEFINE fn == Sym(ts, {"fn"})
           name == Name(ts)
           lparen == Sym(ts, {"("})
           rparen == Sym(ts, {")"})
           minus == Sym(ts, {"-"})
           gt == Glued(ts, {">"})
           in == TypeIn(ts)
           body == Body(ts)
           opt == Nothing(ts) ++ Arrow(ts)
           ret == FnRetTail(ts)
<1>1. /\ {"fn"} \in Symbols /\ {"("} \in Symbols /\ {")"} \in Symbols
      /\ {"-"} \in Symbols /\ {">"} \in Symbols /\ {"ident", "prim"} \in Symbols
      /\ {"{"} \in Symbols
  BY DEF Symbols, Tok
<1>2. /\ fn \in Strict(ts) /\ name \in Strict(ts) /\ lparen \in Strict(ts)
      /\ rparen \in Strict(ts) /\ minus \in Strict(ts) /\ gt \in Strict(ts)
      /\ in \in Forward(ts) /\ body \in Strict(ts)
  BY <1>1, SymIs, GluedIs, TypeInIs, BlockIs DEF Name
<1>3. /\ fn \in Begin(ts, {"fn"}) /\ name \in Begin(ts, {"ident", "prim"})
      /\ lparen \in Begin(ts, {"("}) /\ rparen \in Begin(ts, {")"})
      /\ minus \in Begin(ts, {"-"}) /\ body \in Begin(ts, {"{"})
  BY <1>1, SymIs, BlockIs DEF Name
<1>4. opt = Nothing(ts) ++ ((minus ** gt) ** in) /\ ret = opt ** body
  BY DEF Arrow, FnRetTail
<1>5. FnRparenTail(ts) = rparen ** ret /\ FnLparenTail(ts) = lparen ** (rparen ** ret)
  BY DEF FnRparenTail, FnLparenTail
<1>6. Fn(ts) = ((((fn ** name) ** lparen) ** rparen) ** opt) ** body
  BY DEF Fn
<1> HIDE DEF fn, name, lparen, rparen, minus, gt, in, body, opt, ret
<1>7. /\ fn \in Forward(ts) /\ name \in Forward(ts) /\ lparen \in Forward(ts)
      /\ rparen \in Forward(ts) /\ minus \in Forward(ts) /\ gt \in Forward(ts)
      /\ body \in Forward(ts)
  BY <1>2, Advance
<1>8. in ** body \in Forward(ts) /\ minus ** gt \in Forward(ts)
      /\ gt ** (in ** body) \in Forward(ts)
      /\ (minus ** gt) ** in \in Forward(ts)
  <2>1. in ** body \in Forward(ts) /\ minus ** gt \in Forward(ts)
    BY <1>2, <1>7, Advance
  <2>2. gt ** (in ** body) \in Forward(ts) /\ (minus ** gt) ** in \in Forward(ts)
    BY <1>2, <1>7, <2>1, Advance
  <2>3. QED
    BY <2>1, <2>2
<1>9. ret = body ++ (minus ** (gt ** (in ** body)))
  <2>1. (Nothing(ts) ++ ((minus ** gt) ** in)) ** body = body ++ (((minus ** gt) ** in) ** body)
    BY <1>7, <1>8, OptionForward
  <2>2. ((minus ** gt) ** in) ** body = (minus ** gt) ** (in ** body)
    BY <1>2, <1>7, <1>8, ForwardAssoc
  <2>3. (minus ** gt) ** (in ** body) = minus ** (gt ** (in ** body))
    BY <1>7, <1>8, ForwardAssoc
  <2>4. QED
    BY <1>4, <2>1, <2>2, <2>3
<1>10. opt \in Forward(ts) /\ ret \in Forward(ts)
  <2>1. opt \in Forward(ts)
    BY <1>4, <1>8, Advance
  <2>2. QED
    BY <1>4, <1>7, <2>1, Advance
<1>11. ret \in Begin(ts, {"{", "-"})
  <2> DEFINE p == minus ** (gt ** (in ** body))
             X == {"{"}
             Y == {"-"}
  <2>1. p \in Begin(ts, Y)
    BY <1>1, <1>3, <1>8, ThenBegin
  <2>2. body \in Begin(ts, X) /\ X \in Symbols /\ Y \in Symbols
    BY <1>1, <1>3
  <2>3. X \cup Y = {"{", "-"} /\ ret = body ++ p
    BY <1>9
  <2> HIDE DEF p, X, Y
  <2>4. body ++ p \in Begin(ts, X \cup Y)
    BY <2>1, <2>2, EitherBegin
  <2>5. QED
    BY <2>3, <2>4
<1>12. rparen ** ret \in Forward(ts) /\ rparen ** ret \in Begin(ts, {")"})
  <2>1. rparen ** ret \in Forward(ts)
    BY <1>7, <1>10, Advance
  <2>2. rparen ** ret \in Begin(ts, {")"})
    BY <1>1, <1>3, <1>10, ThenBegin
  <2>3. QED
    BY <2>1, <2>2
<1>13. /\ lparen ** (rparen ** ret) \in Forward(ts)
       /\ lparen ** (rparen ** ret) \in Begin(ts, {"("})
  <2>1. lparen ** (rparen ** ret) \in Forward(ts)
    BY <1>7, <1>12, Advance
  <2>2. lparen ** (rparen ** ret) \in Begin(ts, {"("})
    BY <1>1, <1>3, <1>12, ThenBegin
  <2>3. QED
    BY <2>1, <2>2
<1> DEFINE tail == lparen ** (rparen ** ret)
<1>14. name ** tail \in Forward(ts) /\ name ** tail \in Begin(ts, {"ident", "prim"})
  <2> HIDE DEF tail
  <2>0. tail \in Forward(ts)
    BY <1>13 DEF tail
  <2>1. name ** tail \in Forward(ts)
    BY <1>7, <2>0, Advance
  <2>2. name ** tail \in Begin(ts, {"ident", "prim"})
    BY <1>1, <1>3, <2>0, ThenBegin
  <2>3. QED
    BY <2>1, <2>2
<1>15. Fn(ts) = fn ** (name ** tail)
  <2>1. /\ fn ** name \in Forward(ts) /\ (fn ** name) ** lparen \in Forward(ts)
        /\ ((fn ** name) ** lparen) ** rparen \in Forward(ts)
    <3>1. fn ** name \in Forward(ts)
      BY <1>7, Advance
    <3>2. (fn ** name) ** lparen \in Forward(ts)
      BY <1>7, <3>1, Advance
    <3>3. QED
      BY <1>7, <3>1, <3>2, Advance
  <2>2. Fn(ts) = (((fn ** name) ** lparen) ** rparen) ** ret
    BY <1>4, <1>6, <1>7, <1>10, <2>1, ForwardAssoc
  <2>3. (((fn ** name) ** lparen) ** rparen) ** ret
          = ((fn ** name) ** lparen) ** (rparen ** ret)
    BY <1>7, <1>10, <2>1, ForwardAssoc
  <2>4. ((fn ** name) ** lparen) ** (rparen ** ret)
          = (fn ** name) ** (lparen ** (rparen ** ret))
    BY <1>7, <1>12, <2>1, ForwardAssoc
  <2>5. (fn ** name) ** (lparen ** (rparen ** ret)) = fn ** (name ** tail)
    BY <1>7, <1>13, <2>1, ForwardAssoc
  <2>6. QED
    BY <2>2, <2>3, <2>4, <2>5
<1>16. Fn(ts) \in Strict(ts) /\ Fn(ts) \in Begin(ts, {"fn"})
  <2> DEFINE all == name ** tail
  <2>1. all \in Forward(ts) /\ Fn(ts) = fn ** all
    BY <1>14, <1>15
  <2> HIDE DEF all
  <2>2. fn ** all \in Strict(ts)
    BY <1>2, <2>1, Advance
  <2>3. fn ** all \in Begin(ts, {"fn"})
    BY <1>1, <1>3, <2>1, ThenBegin
  <2>4. QED
    BY <2>1, <2>2, <2>3
<1>17. /\ TypeIn(ts) ** Body(ts) \in Forward(ts)
       /\ Glued(ts, {">"}) ** (TypeIn(ts) ** Body(ts)) \in Forward(ts)
  BY <1>8 DEF in, body, gt
<1>18. /\ FnRetTail(ts) \in Forward(ts) /\ FnRetTail(ts) \in Begin(ts, {"{", "-"})
       /\ FnRetTail(ts) = Body(ts) ++
                (Sym(ts, {"-"}) ** (Glued(ts, {">"}) ** (TypeIn(ts) ** Body(ts))))
  BY <1>9, <1>10, <1>11 DEF ret, body, minus, gt, in
<1>19. /\ FnRparenTail(ts) \in Forward(ts) /\ FnRparenTail(ts) \in Begin(ts, {")"})
       /\ FnLparenTail(ts) \in Forward(ts) /\ FnLparenTail(ts) \in Begin(ts, {"("})
  BY <1>5, <1>12, <1>13
<1>20. /\ Name(ts) ** FnLparenTail(ts) \in Forward(ts)
       /\ Name(ts) ** FnLparenTail(ts) \in Begin(ts, {"ident", "prim"})
       /\ Fn(ts) = Sym(ts, {"fn"}) ** (Name(ts) ** FnLparenTail(ts))
  BY <1>5, <1>14, <1>15 DEF name, fn
<1>21. QED
  BY <1>16, <1>17, <1>18, <1>19, <1>20

\* Programs.
LEMMA ProgIs ==
    ASSUME NEW ts \in Seq(Tok)
    PROVE  /\ ProgTail(ts) \in Forward(ts)
           /\ ProgTail(ts) = Blank(ts) ++ (Fn(ts) ** ProgTail(ts))
           /\ Fn(ts) ** ProgTail(ts) \in Forward(ts)
           /\ Fn(ts) ** ProgTail(ts) \in Begin(ts, {"fn"})
<1> DEFINE fn == Fn(ts)
           fns == Star(ts, fn)
           blank == Blank(ts)
           prog == ProgTail(ts)
<1>1. /\ fn \in Strict(ts) /\ fn \in Begin(ts, {"fn"}) /\ fn \in Forward(ts)
      /\ blank \in Forward(ts) /\ {"fn"} \in Symbols
  BY FnIs, BlankIs, Advance, AskedFor
<1>2. prog = fns ** blank
  BY DEF ProgTail
<1>3. fns \in Forward(ts) /\ fns = Nothing(ts) ++ (fn ** fns)
  BY <1>1, StarIs
<1> HIDE DEF fn, fns, blank, prog
<1>4. prog \in Forward(ts) /\ fn ** fns \in Forward(ts)
  BY <1>1, <1>2, <1>3, Advance
<1>5. prog = blank ++ (fn ** prog)
  <2>1. fns ** blank = (Nothing(ts) ++ (fn ** fns)) ** blank
    BY <1>3
  <2>2. (Nothing(ts) ++ (fn ** fns)) ** blank = blank ++ ((fn ** fns) ** blank)
    BY <1>1, <1>4, OptionForward
  <2>3. (fn ** fns) ** blank = fn ** (fns ** blank)
    BY <1>1, <1>3, ForwardAssoc
  <2>4. QED
    BY <1>2, <2>1, <2>2, <2>3
<1>6. fn ** prog \in Forward(ts) /\ fn ** prog \in Begin(ts, {"fn"})
  <2>1. fn ** prog \in Forward(ts)
    BY <1>1, <1>4, Advance
  <2>2. fn ** prog \in Begin(ts, {"fn"})
    BY <1>1, <1>4, ThenBegin
  <2>3. QED
    BY <2>1, <2>2
<1>7. QED
  BY <1>4, <1>5, <1>6 DEF fn, prog, blank
-----------------------------------------------------------------------------
(***************************************************************************)
(* What is left, by label                                                  *)
(***************************************************************************)

\* The functions of parse_prog and parse_fn.
LEMMA RestFn ==
    ASSUME NEW ts, NEW c
    PROVE  /\ \A at \in {"prog", "prog_fn"} : Rest(ts, c, at) = ProgTail(ts)
           /\ Rest(ts, c, "fn_name") = Name(ts) ** FnLparenTail(ts)
           /\ Rest(ts, c, "fn_lparen") = FnLparenTail(ts)
           /\ \A at \in {"fn_params", "fn_rparen"} : Rest(ts, c, at) = FnRparenTail(ts)
           /\ \A at \in {"fn_param", "fn_comma"} : Rest(ts, c, at) = None(ts)
           /\ Rest(ts, c, "fn_ret") = FnRetTail(ts)
           /\ Rest(ts, c, "ret_arrow") = Glued(ts, {">"}) ** (TypeIn(ts) ** Body(ts))
           /\ \A at \in {"fn_ret_type", "fn_body"} : Rest(ts, c, at) = Body(ts)
           /\ Rest(ts, c, "fn_end") = Nothing(ts)
  BY DEF Rest, FnRest, FnAt

\* Those of parse_block and parse_stmt.
LEMMA RestStmt ==
    ASSUME NEW ts, NEW c
    PROVE  /\ c \in ExprCaller => \A at \in BlockAt : Rest(ts, c, at) = None(ts)
           /\ c \notin ExprCaller =>
                 /\ Rest(ts, c, "block") = Glued(ts, {"{"}) ** BlockTail(ts)
                 /\ \A at \in {"block_loop", "block_stmt"} : Rest(ts, c, at) = BlockTail(ts)
                 /\ Rest(ts, c, "block_end") = Sym(ts, {"}"})
           /\ Rest(ts, c, "stmt") = Stmt(ts)
           /\ Rest(ts, c, "let_name") = Name(ts) ** LetColonTail(ts)
           /\ Rest(ts, c, "let_colon") = LetColonTail(ts)
           /\ \A at \in {"let_type", "let_semi"} : Rest(ts, c, at) = LetEnds(ts)
           /\ Rest(ts, c, "let_expr") = Nothing(ts)
           /\ \A at \in {"ret_expr", "ret_semi"} : Rest(ts, c, at) = Sym(ts, {";"})
           /\ Rest(ts, c, "stmt_expr") = None(ts)
  BY DEF Rest, BlockRest, StmtRest, FnAt, BlockAt, StmtAt, LetAt

\* Those of parse_expr and parse_type.
LEMMA RestExpr ==
    ASSUME NEW ts, NEW c
    PROVE  /\ Rest(ts, c, "expr") = Expr(ts)
           /\ \A at \in TermAt : Rest(ts, c, at) = MoreFactors(ts)
           /\ \A at \in FactorAt : Rest(ts, c, at) = MoreConsts(ts)
           /\ Rest(ts, c, "bottom") = Const(ts)
           /\ Rest(ts, c, "type") = TypeIn(ts)
           /\ Rest(ts, c, "type_done") = Nothing(ts)
           /\ \A at \in AuxAt :
                 Rest(ts, c, at) = IF c = "array_elem"
                                   THEN AuxRest(ts, at) ++ AuxNull(ts, at)
                                   ELSE AuxRest(ts, at)
  BY DEF Rest, ExprRest, FnAt, BlockAt, StmtAt, LetAt, AuxAt, TermAt, FactorAt

\* What is left of an array type, label by label.
LEMMA RestAux ==
    ASSUME NEW ts
    PROVE  /\ AuxRest(ts, "aux") = TypeOf(ts) /\ AuxNull(ts, "aux") = NullOf(ts)
           /\ \A at \in {"array_elem", "array_semi"} :
                 /\ AuxRest(ts, at) = ArrayTail(ts)
                 /\ AuxNull(ts, at) = Sym(ts, {";"}) ** NoLength(ts)
           /\ AuxRest(ts, "array_len") = Const(ts) ** ArrayEndTail(ts)
           /\ AuxNull(ts, "array_len") = NoLength(ts)
           /\ AuxRest(ts, "array_end") = ArrayEndTail(ts)
           /\ AuxRest(ts, "ptr") = Stars(ts)
           /\ \A at \in {"array_end", "ptr"} : AuxNull(ts, at) = None(ts)
  BY DEF AuxRest, AuxNull

\* What is left of a type, or of none, never lies before the place it begins at.
LEMMA AuxForward ==
    ASSUME NEW ts \in Seq(Tok), NEW at \in AuxAt
    PROVE  AuxRest(ts, at) \in Forward(ts) /\ AuxNull(ts, at) \in Forward(ts)
<1>1. AuxRest(ts, at) \in Forward(ts)
  <2>1. TypeOf(ts) \in Forward(ts) /\ ArrayTail(ts) \in Forward(ts)
        /\ Const(ts) ** ArrayEndTail(ts) \in Forward(ts)
        /\ ArrayEndTail(ts) \in Forward(ts) /\ Stars(ts) \in Forward(ts)
    BY TypeForward, ArrayIs
  <2>2. QED
    BY <2>1, RestAux DEF AuxAt
<1>2. AuxNull(ts, at) \in Forward(ts)
  <2>1. {";"} \in Symbols
    BY DEF Symbols, Tok
  <2>2. NoLength(ts) \in Forward(ts)
    BY NoLengthIs DEF Blind
  <2>3. Sym(ts, {";"}) ** NoLength(ts) \in Forward(ts)
    BY <2>1, <2>2, SymThen
  <2>4. NullOf(ts) \in Forward(ts) /\ None(ts) \in Forward(ts)
    BY TypeForward, NoneIs, Advance
  <2>5. QED
    BY <2>2, <2>3, <2>4, RestAux DEF AuxAt
<1>3. QED
  BY <1>1, <1>2

\* Behind the last token of an array or a primitive type, none is none.
LEMMA AuxSame ==
    ASSUME NEW ts \in Seq(Tok), NEW c, NEW at \in {"array_end", "ptr"}
    PROVE  Rest(ts, c, at) = AuxRest(ts, at)
<1>1. at \in AuxAt
  BY DEF AuxAt
<1>2. AuxRest(ts, at) \in Phrases(ts) /\ AuxNull(ts, at) = None(ts)
  BY <1>1, AuxForward, RestAux, Advance
<1>3. AuxRest(ts, at) ++ None(ts) = AuxRest(ts, at)
  BY <1>2, EitherNone
<1>4. QED
  BY <1>1, <1>2, <1>3, RestExpr

\* What is left never lies before the place it begins at.
LEMMA RestForward ==
    ASSUME NEW ts \in Seq(Tok), NEW c, NEW at \in Label
    PROVE  Rest(ts, c, at) \in Forward(ts)
<1>1. CASE at \in FnAt \cup {"prog", "prog_fn"}
  <2>1. Name(ts) ** FnLparenTail(ts) \in Forward(ts) /\ FnLparenTail(ts) \in Forward(ts)
        /\ FnRparenTail(ts) \in Forward(ts) /\ FnRetTail(ts) \in Forward(ts)
        /\ Glued(ts, {">"}) ** (TypeIn(ts) ** Body(ts)) \in Forward(ts)
    BY FnIs
  <2>2. Body(ts) \in Forward(ts) /\ Nothing(ts) \in Forward(ts)
        /\ None(ts) \in Forward(ts) /\ ProgTail(ts) \in Forward(ts)
    BY BlockIs, NoneIs, ProgIs, Advance
  <2>3. QED
    BY <1>1, <2>1, <2>2, RestFn DEF FnAt
<1>2. CASE at \in BlockAt
  <2>1. BlockTail(ts) \in Forward(ts) /\ None(ts) \in Forward(ts)
    BY BlockIs, NoneIs, Advance
  <2>2. {"{"} \in Symbols /\ {"}"} \in Symbols
    BY DEF Symbols, Tok
  <2>3. Glued(ts, {"{"}) ** BlockTail(ts) \in Forward(ts)
    BY <2>1, <2>2, GluedThen
  <2>4. Sym(ts, {"}"}) \in Forward(ts)
    BY <2>2, SymIs, Advance
  <2>5. QED
    BY <1>2, <2>1, <2>3, <2>4, RestStmt DEF BlockAt
<1>3. CASE at \in StmtAt
  <2>1. Stmt(ts) \in Forward(ts) /\ Name(ts) ** LetColonTail(ts) \in Forward(ts)
        /\ LetColonTail(ts) \in Forward(ts) /\ LetEnds(ts) \in Forward(ts)
    BY BlockIs, LetIs
  <2>2. {";"} \in Symbols
    BY DEF Symbols, Tok
  <2>3. Nothing(ts) \in Forward(ts) /\ None(ts) \in Forward(ts)
        /\ Sym(ts, {";"}) \in Forward(ts)
    BY <2>2, SymIs, NoneIs, Advance
  <2>4. QED
    BY <1>3, <2>1, <2>3, RestStmt DEF StmtAt, LetAt
<1>4. CASE at \in AuxAt
  <2>1. AuxRest(ts, at) \in Forward(ts) /\ AuxNull(ts, at) \in Forward(ts)
    BY <1>4, AuxForward
  <2>2. AuxRest(ts, at) ++ AuxNull(ts, at) \in Forward(ts)
    BY <2>1, Advance
  <2>3. QED
    BY <1>4, <2>1, <2>2, RestExpr
<1>5. CASE at \in {"expr", "bottom", "type", "type_done"} \cup TermAt \cup FactorAt
  <2>1. Expr(ts) \in Forward(ts) /\ Const(ts) \in Forward(ts)
        /\ MoreFactors(ts) \in Forward(ts) /\ MoreConsts(ts) \in Forward(ts)
        /\ TypeIn(ts) \in Forward(ts) /\ Nothing(ts) \in Forward(ts)
    BY ExprIs, TypeInIs, Advance
  <2>2. QED
    BY <1>5, <2>1, RestExpr
<1>6. at \in (FnAt \cup {"prog", "prog_fn"}) \cup BlockAt \cup StmtAt \cup AuxAt
             \cup ({"expr", "bottom", "type", "type_done"} \cup TermAt \cup FactorAt)
  BY DEF Label, Looking, SkipsWhitespace, Waiting, WaitsForNode, WaitsForType, FnAt,
         BlockAt, StmtAt, LetAt, AuxAt, TermAt, FactorAt
<1>7. QED
  BY <1>1, <1>2, <1>3, <1>4, <1>5, <1>6
-----------------------------------------------------------------------------
(***************************************************************************)
(* What the frames can still get to                                        *)
(***************************************************************************)

\* A way to the end, from place p[d] down to p[0].
Way(ts, st, d, p) ==
    /\ p \in [0 .. d -> Places(ts)]
    /\ p[0] = Len(ts) + 1
    /\ \A e \in 1 .. d : p[e - 1] \in Rest(ts, Caller(st, e), st[e].at)[p[e]]

\* Good finds a way through the frames.
LEMMA GoodWay ==
    ASSUME NEW ts, NEW st, NEW d, NEW i
    PROVE  Good(ts, st, d, i) <=> \E p : Way(ts, st, d, p) /\ p[d] = i
  BY DEF Good, Way

\* Below the first frame is the end of the program.
LEMMA GoodEnd ==
    ASSUME NEW ts \in Seq(Tok), NEW st, NEW i
    PROVE  Good(ts, st, 0, i) <=> i = Len(ts) + 1
<1>1. ASSUME i = Len(ts) + 1
      PROVE  Good(ts, st, 0, i)
  <2> DEFINE p == [e \in 0 .. 0 |-> i]
  <2>1. i \in Places(ts)
    BY <1>1 DEF Places
  <2>2. p[0] = i /\ p \in [0 .. 0 -> Places(ts)]
    BY <2>1
  <2>3. Way(ts, st, 0, p)
    BY <1>1, <2>2 DEF Way
  <2> HIDE DEF p
  <2>4. QED
    BY <2>2, <2>3, GoodWay
<1>2. QED
  BY <1>1, GoodWay DEF Way

\* The frames up to the d-th get to the end from place i if what is left of
\* the d-th ends where those below it get to the end from.
LEMMA GoodIs ==
    ASSUME NEW ts \in Seq(Tok), NEW st, NEW d \in Nat \ {0}, NEW i \in Places(ts),
           NEW R \in Phrases(ts), R = Rest(ts, Caller(st, d), st[d].at)
    PROVE  Good(ts, st, d, i) <=> \E j \in R[i] : Good(ts, st, d - 1, j)
<1>1. d - 1 \in Nat /\ d \in 1 .. d
  OBVIOUS
<1>2. ASSUME NEW p, Way(ts, st, d, p), p[d] = i
      PROVE  p[d - 1] \in R[i] /\ Good(ts, st, d - 1, p[d - 1])
  <2> DEFINE q == [e \in 0 .. d - 1 |-> p[e]]
  <2>1. p[d - 1] \in R[i]
    BY <1>1, <1>2 DEF Way
  <2>2. \A e \in 0 .. d - 1 : q[e] = p[e] /\ p[e] \in Places(ts)
    BY <1>2 DEF Way
  <2>3. q \in [0 .. d - 1 -> Places(ts)]
    BY <2>2
  <2> HIDE DEF q
  <2>4. \A e \in 1 .. d - 1 : e \in 0 .. d - 1 /\ e - 1 \in 0 .. d - 1 /\ e \in 1 .. d
    BY <1>1
  <2>5. \A e \in 1 .. d - 1 : q[e - 1] \in Rest(ts, Caller(st, e), st[e].at)[q[e]]
    <3> TAKE e \in 1 .. d - 1
    <3>1. q[e] = p[e] /\ q[e - 1] = p[e - 1] /\ e \in 1 .. d
      BY <2>2, <2>4
    <3>2. p[e - 1] \in Rest(ts, Caller(st, e), st[e].at)[p[e]]
      BY <1>2, <3>1 DEF Way
    <3>3. QED
      BY <3>1, <3>2
  <2>6. q[0] = Len(ts) + 1 /\ q[d - 1] = p[d - 1]
    BY <1>1, <1>2, <2>2 DEF Way
  <2>7. Way(ts, st, d - 1, q)
    BY <2>3, <2>5, <2>6 DEF Way
  <2>8. QED
    BY <2>1, <2>6, <2>7, GoodWay
<1>3. ASSUME NEW j \in R[i], NEW p, Way(ts, st, d - 1, p), p[d - 1] = j
      PROVE  Good(ts, st, d, i)
  <2> DEFINE q == [e \in 0 .. d |-> IF e = d THEN i ELSE p[e]]
  <2>1. \A e \in 0 .. d - 1 : q[e] = p[e] /\ p[e] \in Places(ts)
    BY <1>3 DEF Way
  <2>2. q[d] = i
    BY <1>1
  <2>3. \A e \in 0 .. d : q[e] \in Places(ts)
    <3> HIDE DEF q
    <3>1. \A e \in 0 .. d : e = d \/ e \in 0 .. d - 1
      OBVIOUS
    <3>2. QED
      BY <2>1, <2>2, <3>1
  <2>4. q \in [0 .. d -> Places(ts)]
    BY <2>3
  <2> HIDE DEF q
  <2>5. \A e \in 1 .. d : q[e - 1] \in Rest(ts, Caller(st, e), st[e].at)[q[e]]
    <3> TAKE e \in 1 .. d
    <3>1. CASE e = d
      <4>1. q[d - 1] = j
        BY <1>1, <1>3, <2>1
      <4>2. QED
        BY <2>2, <3>1, <4>1
    <3>2. CASE e # d
      <4>1. e \in 1 .. d - 1 /\ e \in 0 .. d - 1 /\ e - 1 \in 0 .. d - 1
        BY <3>2
      <4>2. q[e] = p[e] /\ q[e - 1] = p[e - 1]
        BY <2>1, <4>1
      <4>3. p[e - 1] \in Rest(ts, Caller(st, e), st[e].at)[p[e]]
        BY <1>3, <4>1 DEF Way
      <4>4. QED
        BY <4>2, <4>3
    <3>3. QED
      BY <3>1, <3>2
  <2>6. q[0] = Len(ts) + 1
    BY <1>1, <1>3, <2>1 DEF Way
  <2>7. Way(ts, st, d, q)
    BY <2>4, <2>5, <2>6 DEF Way
  <2>8. QED
    BY <2>2, <2>7, GoodWay
<1>4. ASSUME Good(ts, st, d, i)
      PROVE  \E j \in R[i] : Good(ts, st, d - 1, j)
  BY <1>2, <1>4, GoodWay
<1>5. ASSUME NEW j \in R[i], Good(ts, st, d - 1, j)
      PROVE  Good(ts, st, d, i)
  BY <1>3, <1>5, GoodWay
<1>6. QED
  BY <1>4, <1>5

\* Only the labels of the frames up to the d-th count.
LEMMA GoodSame ==
    ASSUME NEW ts, NEW st, NEW st2, NEW d \in Nat, NEW i,
           \A e \in 1 .. d : st2[e].at = st[e].at
    PROVE  Good(ts, st2, d, i) <=> Good(ts, st, d, i)
<1>1. \A e \in 1 .. d : Caller(st2, e) = Caller(st, e)
  <2> TAKE e \in 1 .. d
  <2>1. e = 1 \/ e - 1 \in 1 .. d
    OBVIOUS
  <2>2. QED
    BY <2>1 DEF Caller
<1>2. \A p : Way(ts, st2, d, p) <=> Way(ts, st, d, p)
  BY <1>1 DEF Way
<1>3. QED
  BY <1>2, GoodWay
-----------------------------------------------------------------------------
(***************************************************************************)
(* What may follow                                                         *)
(***************************************************************************)

\* The frames up to the d-th, going on at a place, first skip whitespace and
\* then need one of the symbols.
Follows(ts, st, d, symbols) ==
    \A i \in Places(ts) :
        /\ Look(ts, i) = "ws" => (Good(ts, st, d, i) <=> Good(ts, st, d, i + 1))
        /\ Look(ts, i) \notin symbols \cup {"ws"} => ~ Good(ts, st, d, i)

\* What a phrase asks for first is what may stand there.
LEMMA FollowsBegin ==
    ASSUME NEW ts \in Seq(Tok), NEW st, NEW d \in Nat \ {0}, NEW X,
           NEW R \in Begin(ts, X), R = Rest(ts, Caller(st, d), st[d].at)
    PROVE  Follows(ts, st, d, X)
<1>1. R \in Phrases(ts) /\ R \in Blind(ts)
  BY Advance DEF Begin, Blind
<1>2. \A i \in Places(ts) : Good(ts, st, d, i) <=> \E j \in R[i] : Good(ts, st, d - 1, j)
  BY <1>1, GoodIs
<1>3. ASSUME NEW i \in Places(ts), Look(ts, i) = "ws"
      PROVE  Good(ts, st, d, i) <=> Good(ts, st, d, i + 1)
  <2>1. i + 1 \in Places(ts) /\ R[i] = R[i + 1]
    BY <1>1, <1>3, LookIs DEF Blind
  <2>2. QED
    BY <1>2, <2>1
<1>4. ASSUME NEW i \in Places(ts), Look(ts, i) \notin X \cup {"ws"}
      PROVE  ~ Good(ts, st, d, i)
  <2>1. R[i] = {}
    BY <1>4 DEF Begin
  <2>2. QED
    BY <1>2, <2>1
<1>5. QED
  BY <1>3, <1>4 DEF Follows

\* A frame that may be done already.
LEMMA FollowsMore ==
    ASSUME NEW ts \in Seq(Tok), NEW st, NEW d \in Nat \ {0}, NEW X, NEW Y,
           NEW p \in Begin(ts, Y), Follows(ts, st, d - 1, X),
           Rest(ts, Caller(st, d), st[d].at) = Nothing(ts) ++ p
    PROVE  Follows(ts, st, d, X \cup Y)
<1> DEFINE R == Nothing(ts) ++ p
<1>1. p \in Phrases(ts) /\ p \in Blind(ts) /\ Nothing(ts) \in Phrases(ts)
  BY Advance DEF Begin, Blind
<1>2. R \in Phrases(ts) /\ \A i \in Places(ts) : R[i] = {i} \cup p[i]
  BY <1>1, EitherIs, NothingIs
<1>3. R = Rest(ts, Caller(st, d), st[d].at)
  OBVIOUS
<1> HIDE DEF R
<1>4. ASSUME NEW i \in Places(ts)
      PROVE  Good(ts, st, d, i)
                <=> Good(ts, st, d - 1, i) \/ \E j \in p[i] : Good(ts, st, d - 1, j)
  <2>1. Good(ts, st, d, i) <=> \E j \in R[i] : Good(ts, st, d - 1, j)
    BY <1>2, <1>3, GoodIs
  <2>2. QED
    BY <1>2, <2>1
<1>5. ASSUME NEW i \in Places(ts), Look(ts, i) = "ws"
      PROVE  Good(ts, st, d, i) <=> Good(ts, st, d, i + 1)
  <2>1. i + 1 \in Places(ts) /\ p[i] = p[i + 1]
    BY <1>1, <1>5, LookIs DEF Blind
  <2>2. Good(ts, st, d - 1, i) <=> Good(ts, st, d - 1, i + 1)
    BY <1>5 DEF Follows
  <2>3. QED
    BY <1>4, <2>1, <2>2
<1>6. ASSUME NEW i \in Places(ts), Look(ts, i) \notin (X \cup Y) \cup {"ws"}
      PROVE  ~ Good(ts, st, d, i)
  <2>1. p[i] = {}
    BY <1>6 DEF Begin
  <2>2. ~ Good(ts, st, d - 1, i)
    BY <1>6 DEF Follows
  <2>3. QED
    BY <1>4, <2>1, <2>2
<1>7. QED
  BY <1>5, <1>6 DEF Follows

\* More symbols than are needed.
LEMMA FollowsWider ==
    ASSUME NEW ts, NEW st, NEW d, NEW X, NEW Y, X \subseteq Y, Follows(ts, st, d, X)
    PROVE  Follows(ts, st, d, Y)
  BY DEF Follows

\* Who may call a function.
LEMMA WhoCalls ==
    ASSUME NEW lower, NEW upper, Calls(lower, upper)
    PROVE  /\ upper \notin {"prog", "prog_fn"}
           /\ upper \in FnAt => lower = "prog_fn"
           /\ upper \in BlockAt => lower \in {"fn_end"} \cup ExprCaller
           /\ upper \in StmtAt => lower = "block_stmt"
           /\ upper \in {"expr"} \cup TermAt => lower \in ExprCaller
           /\ upper \in FactorAt => lower \in {"term_lhs", "term_rhs"}
           /\ upper = "bottom" => lower \in {"factor_lhs", "factor_rhs"}
           /\ upper \in TypeAt => lower \in TypeCaller
           /\ upper \in AuxAt => lower \in WaitsForType
  BY SMTT(30) DEF Calls, FnAt, BlockAt, StmtAt, LetAt, TermAt, FactorAt, TypeAt, AuxAt

\* The caller of a function, by the labels of the function.
LEMMA CallerIs ==
    ASSUME IInv, NEW d \in 1 .. Len(stack)
    PROVE  /\ stack[d].at \in Label /\ Len(stack) \in Nat
           /\ stack[d].at \notin {"prog", "prog_fn"} =>
                 /\ d # 1 /\ d - 1 \in 1 .. Len(stack)
                 /\ Caller(stack, d) = stack[d - 1].at
                 /\ Calls(Caller(stack, d), stack[d].at)
           /\ stack[d].at \in {"prog", "prog_fn"} => d = 1
<1>1. /\ stack \in Seq(Frame) /\ stack[1].at \in {"prog", "prog_fn"}
      /\ \A e \in 1 .. Len(stack) - 1 : Calls(stack[e].at, stack[e + 1].at)
  BY DEF IInv, Frames
<1>2. stack[d].at \in Label /\ Len(stack) \in Nat
  <2>1. stack[d] \in Frame /\ Len(stack) \in Nat
    BY <1>1
  <2>2. QED
    BY <2>1 DEF Frame
<1>3. ASSUME d # 1
      PROVE  d - 1 \in 1 .. Len(stack) /\ Calls(stack[d - 1].at, stack[d].at)
  <2>1. d - 1 \in 1 .. Len(stack) - 1 /\ (d - 1) + 1 = d /\ d - 1 \in 1 .. Len(stack)
    BY <1>2, <1>3
  <2>2. Calls(stack[d - 1].at, stack[(d - 1) + 1].at)
    BY <1>1, <2>1
  <2>3. QED
    BY <2>1, <2>2
<1>4. \A at : ~ Calls(at, "prog") /\ ~ Calls(at, "prog_fn")
  BY WhoCalls
<1>5. QED
  BY <1>1, <1>2, <1>3, <1>4 DEF Caller

\* After a statement.
LEMMA AfterStmt ==
    ASSUME IInv, NEW ts \in Seq(Tok), NEW d \in 1 .. Len(stack),
           stack[d].at \in {"block_loop", "block_stmt"}
    PROVE  Follows(ts, stack, d, {"}", "let", "ret"})
<1> DEFINE X == {"}", "let", "ret"}
           c == Caller(stack, d)
           R == Rest(ts, c, stack[d].at)
<1>1. None(ts) \in Begin(ts, X) /\ BlockTail(ts) \in Begin(ts, X)
  BY NoneIs, BlockIs
<1>2. R \in {None(ts), BlockTail(ts)}
  BY RestStmt DEF BlockAt
<1>3. d \in Nat \ {0}
  BY CallerIs
<1> HIDE DEF X, c
<1>4. R \in Begin(ts, X)
  BY <1>1, <1>2
<1>5. R = Rest(ts, Caller(stack, d), stack[d].at)
  BY DEF c
<1> HIDE DEF R
<1>6. QED
  BY <1>3, <1>4, <1>5, FollowsBegin DEF X

\* After an expression.
LEMMA AfterExpr ==
    ASSUME IInv, NEW ts \in Seq(Tok), NEW d \in 1 .. Len(stack),
           stack[d].at \in ExprCaller
    PROVE  Follows(ts, stack, d, {";", "}", "let", "ret"})
<1> DEFINE X == {"}", "let", "ret"}
           Y == {";"}
           c == Caller(stack, d)
<1>1. /\ d \in Nat \ {0} /\ d - 1 \in 1 .. Len(stack)
      /\ stack[d - 1].at = "block_stmt"
  BY CallerIs, WhoCalls DEF ExprCaller, StmtAt, LetAt
<1>2. {";"} \in Symbols
  BY DEF Symbols, Tok
<1>3. Sym(ts, {";"}) \in Begin(ts, Y) /\ None(ts) \in Begin(ts, Y)
  BY <1>2, SymIs, NoneIs
<1>4. Follows(ts, stack, d - 1, X)
  BY <1>1, AfterStmt
<1>5. X \cup Y = {";", "}", "let", "ret"}
  OBVIOUS
<1> HIDE DEF X, Y
<1>6. CASE stack[d].at = "let_expr"
  <2> DEFINE p == None(ts)
  <2>1. Rest(ts, Caller(stack, d), stack[d].at) = Nothing(ts)
    BY <1>6, RestStmt
  <2>2. Nothing(ts) = Nothing(ts) ++ p
    <3>1. p \in Phrases(ts) /\ Nothing(ts) \in Phrases(ts)
      BY NoneIs, Advance
    <3>2. Nothing(ts) ++ p \in Phrases(ts)
      BY <3>1, EitherIs
    <3>3. ASSUME NEW i \in Places(ts)
          PROVE  Nothing(ts)[i] = (Nothing(ts) ++ p)[i]
      <4>1. p[i] = {} /\ (Nothing(ts) ++ p)[i] = Nothing(ts)[i] \cup p[i]
        BY <3>1, EitherIs, NoneIs
      <4>2. QED
        BY <4>1
    <3>4. QED
      BY <3>1, <3>2, <3>3, SamePhrase
  <2>3. p \in Begin(ts, Y)
    BY <1>3
  <2> HIDE DEF p
  <2>4. Rest(ts, Caller(stack, d), stack[d].at) = Nothing(ts) ++ p
    BY <2>1, <2>2
  <2>5. Follows(ts, stack, d, X \cup Y)
    BY <1>1, <1>4, <2>3, <2>4, FollowsMore
  <2>6. QED
    BY <1>5, <2>5
<1>7. CASE stack[d].at # "let_expr"
  <2> DEFINE R == Rest(ts, Caller(stack, d), stack[d].at)
  <2>1. R \in {Sym(ts, {";"}), None(ts)}
    BY <1>7, RestStmt DEF ExprCaller
  <2>2. R \in Begin(ts, Y) /\ R = Rest(ts, Caller(stack, d), stack[d].at)
    BY <1>3, <2>1
  <2> HIDE DEF R
  <2>3. Follows(ts, stack, d, Y)
    BY <1>1, <2>2, FollowsBegin
  <2>4. Y \subseteq {";", "}", "let", "ret"}
    BY DEF Y
  <2>5. QED
    BY <2>3, <2>4, FollowsWider
<1>8. QED
  BY <1>6, <1>7

\* After an operand of '+' or '-'.
LEMMA AfterTerm ==
    ASSUME IInv, NEW ts \in Seq(Tok), NEW d \in 1 .. Len(stack), stack[d].at \in TermAt
    PROVE  Follows(ts, stack, d, {";", "}", "let", "ret", "+", "-"})
<1> DEFINE X == {";", "}", "let", "ret"}
           Y == {"+", "-"}
           p == Sym(ts, Y) ** (Factors(ts) ** MoreFactors(ts))
<1>1. /\ d \in Nat \ {0} /\ d - 1 \in 1 .. Len(stack)
      /\ stack[d - 1].at \in ExprCaller
  <2>1. stack[d].at \notin {"prog", "prog_fn"}
    BY DEF TermAt
  <2>2. QED
    BY <2>1, CallerIs, WhoCalls
<1>2. Follows(ts, stack, d - 1, X)
  BY <1>1, AfterExpr
<1>3. Factors(ts) \in Forward(ts) /\ MoreFactors(ts) \in Forward(ts)
  BY ExprIs, Advance
<1>4. Factors(ts) ** MoreFactors(ts) \in Forward(ts) /\ Y \in Symbols
  BY <1>3, Advance DEF Symbols, Tok
<1>5. p \in Begin(ts, Y)
  <2> HIDE DEF Y
  <2>1. QED
    BY <1>4, SymThen
<1>6. MoreFactors(ts) = Nothing(ts) ++ p
  <2> HIDE DEF Y
  <2>1. MoreFactors(ts) = More(ts, Y, Factors(ts))
    BY DEF MoreFactors, Y
  <2>2. QED
    BY <1>3, <1>4, <2>1, MoreIs
<1>7. Rest(ts, Caller(stack, d), stack[d].at) = MoreFactors(ts)
  BY RestExpr
<1>8. X \cup Y = {";", "}", "let", "ret", "+", "-"}
  OBVIOUS
<1> HIDE DEF X, Y, p
<1>9. Follows(ts, stack, d, X \cup Y)
  BY <1>1, <1>2, <1>5, <1>6, <1>7, FollowsMore
<1>10. QED
  BY <1>8, <1>9

\* After an operand of '*' or '/'.
LEMMA AfterFactor ==
    ASSUME IInv, NEW ts \in Seq(Tok), NEW d \in 1 .. Len(stack), stack[d].at \in FactorAt
    PROVE  Follows(ts, stack, d, {";", "}", "let", "ret", "+", "-", "*", "/"})
<1> DEFINE X == {";", "}", "let", "ret", "+", "-"}
           Y == {"*", "/"}
           p == Sym(ts, Y) ** (Const(ts) ** MoreConsts(ts))
<1>1. /\ d \in Nat \ {0} /\ d - 1 \in 1 .. Len(stack)
      /\ stack[d - 1].at \in TermAt
  <2>1. stack[d].at \notin {"prog", "prog_fn"} /\ {"term_lhs", "term_rhs"} \subseteq TermAt
    BY DEF FactorAt, TermAt
  <2>2. QED
    BY <2>1, CallerIs, WhoCalls
<1>2. Follows(ts, stack, d - 1, X)
  BY <1>1, AfterTerm
<1>3. Const(ts) \in Forward(ts) /\ MoreConsts(ts) \in Forward(ts)
  BY ExprIs, Advance
<1>4. Const(ts) ** MoreConsts(ts) \in Forward(ts) /\ Y \in Symbols
  BY <1>3, Advance DEF Symbols, Tok
<1>5. p \in Begin(ts, Y)
  <2> HIDE DEF Y
  <2>1. QED
    BY <1>4, SymThen
<1>6. MoreConsts(ts) = Nothing(ts) ++ p
  <2> HIDE DEF Y
  <2>1. MoreConsts(ts) = More(ts, Y, Const(ts))
    BY DEF MoreConsts, Y
  <2>2. QED
    BY <1>3, <1>4, <2>1, MoreIs
<1>7. Rest(ts, Caller(stack, d), stack[d].at) = MoreConsts(ts)
  BY RestExpr
<1>8. X \cup Y = {";", "}", "let", "ret", "+", "-", "*", "/"}
  OBVIOUS
<1> HIDE DEF X, Y, p
<1>9. Follows(ts, stack, d, X \cup Y)
  BY <1>1, <1>2, <1>5, <1>6, <1>7, FollowsMore
<1>10. QED
  BY <1>8, <1>9

\* More symbols than are needed.
LEMMA BeginWider ==
    ASSUME NEW ts, NEW X, NEW Y, X \subseteq Y, NEW p \in Begin(ts, X)
    PROVE  p \in Begin(ts, Y)
  BY DEF Begin

\* After a type.
LEMMA AfterType ==
    ASSUME IInv, NEW ts \in Seq(Tok), NEW d \in 1 .. Len(stack),
           stack[d].at \in WaitsForType
    PROVE  Follows(ts, stack, d, {";", "=", "{", "]"})
<1> DEFINE X == {";", "=", "{", "]"}
           Y == {";", "]"}
<1>1. /\ d \in Nat \ {0} /\ d - 1 \in 1 .. Len(stack)
      /\ Caller(stack, d) = stack[d - 1].at
      /\ Calls(stack[d - 1].at, stack[d].at)
  BY CallerIs DEF WaitsForType
<1>2. CASE stack[d].at = "type_done"
  <2>1. stack[d - 1].at \in TypeCaller
    BY <1>1, <1>2, WhoCalls DEF TypeAt
  <2>2. Rest(ts, Caller(stack, d - 1), stack[d - 1].at) \in {Body(ts), LetEnds(ts)}
    BY <2>1, RestFn, RestStmt DEF TypeCaller
  <2>3. Body(ts) \in Begin(ts, {"{"}) /\ LetEnds(ts) \in Begin(ts, {";", "="})
    BY BlockIs, LetIs
  <2>4. {"{"} \subseteq X /\ {";", "="} \subseteq X
    OBVIOUS
  <2>5. Nothing(ts) \in Phrases(ts) /\ None(ts) \in Begin(ts, {})
    BY NoneIs, Advance
  <2>6. X \cup {} = X
    OBVIOUS
  <2> HIDE DEF X
  <2>7. Body(ts) \in Begin(ts, X) /\ LetEnds(ts) \in Begin(ts, X)
    BY <2>3, <2>4, BeginWider
  <2>8. d - 1 \in Nat \ {0}
    BY <1>1
  <2>9. Follows(ts, stack, d - 1, X)
    BY <2>2, <2>7, <2>8, FollowsBegin
  <2>10. Rest(ts, Caller(stack, d), stack[d].at) = Nothing(ts) ++ None(ts)
    BY <1>2, <2>5, RestExpr, EitherNone
  <2>11. Follows(ts, stack, d, X \cup {})
    BY <1>1, <2>5, <2>9, <2>10, FollowsMore
  <2>12. QED
    BY <2>6, <2>11 DEF X
<1>3. CASE stack[d].at = "array_elem"
  <2>1. ArrayTail(ts) \in Begin(ts, Y)
    BY ArrayIs
  <2>2. Sym(ts, {";"}) ** NoLength(ts) \in Begin(ts, {";"})
    <3>1. {";"} \in Symbols
      BY DEF Symbols, Tok
    <3>2. NoLength(ts) \in Forward(ts)
      BY NoLengthIs DEF Blind
    <3>3. QED
      BY <3>1, <3>2, SymThen
  <2>3. Y \in Symbols /\ {";"} \subseteq Y /\ Y \subseteq X /\ Y \cup Y = Y
    BY DEF Symbols, Tok
  <2> DEFINE tail == ArrayTail(ts)
             none == Sym(ts, {";"}) ** NoLength(ts)
             R == Rest(ts, Caller(stack, d), stack[d].at)
  <2>4. R \in {tail, tail ++ none}
    <3>1. /\ "array_elem" \in AuxAt
          /\ AuxRest(ts, "array_elem") = tail /\ AuxNull(ts, "array_elem") = none
      BY RestAux DEF AuxAt
    <3>2. Rest(ts, Caller(stack, d), "array_elem")
            \in {AuxRest(ts, "array_elem"),
                 AuxRest(ts, "array_elem") ++ AuxNull(ts, "array_elem")}
      BY <3>1, RestExpr
    <3>3. QED
      BY <1>3, <3>1, <3>2
  <2> HIDE DEF X, Y, tail, none
  <2>5. tail \in Begin(ts, Y) /\ none \in Begin(ts, Y)
    BY <2>1, <2>2, <2>3, BeginWider DEF tail, none
  <2>6. tail ++ none \in Begin(ts, Y \cup Y)
    BY <2>3, <2>5, EitherBegin
  <2>7. R \in Begin(ts, Y)
    BY <2>3, <2>4, <2>5, <2>6
  <2>8. R = Rest(ts, Caller(stack, d), stack[d].at)
    OBVIOUS
  <2> HIDE DEF R
  <2>9. Follows(ts, stack, d, Y)
    BY <1>1, <2>7, <2>8, FollowsBegin
  <2>10. QED
    BY <2>3, <2>9, FollowsWider DEF X
<1>4. QED
  BY <1>2, <1>3 DEF WaitsForType

\* After a '*' of a type.
LEMMA AfterStar ==
    ASSUME IInv, NEW ts \in Seq(Tok), NEW d \in 1 .. Len(stack), stack[d].at = "ptr"
    PROVE  Follows(ts, stack, d, {";", "=", "{", "]", "*"})
<1> DEFINE X == {";", "=", "{", "]"}
           Y == {"*"}
           p == Sym(ts, Y) ** Stars(ts)
<1>1. /\ d \in Nat \ {0} /\ d - 1 \in 1 .. Len(stack)
      /\ stack[d - 1].at \in WaitsForType
  <2>1. "ptr" \in AuxAt
    BY DEF AuxAt
  <2>2. QED
    BY <2>1, CallerIs, WhoCalls
<1>2. Follows(ts, stack, d - 1, X)
  BY <1>1, AfterType
<1>3. Y \in Symbols /\ Stars(ts) \in Forward(ts) /\ Stars(ts) \in Phrases(ts)
  BY ArrayIs, Advance DEF Symbols, Tok
<1>4. p \in Begin(ts, Y)
  <2> HIDE DEF Y
  <2>1. QED
    BY <1>3, SymThen
<1>5. Stars(ts) = Nothing(ts) ++ p
  BY ArrayIs
<1>6. Rest(ts, Caller(stack, d), "ptr") = AuxRest(ts, "ptr") /\ AuxRest(ts, "ptr") = Stars(ts)
  BY AuxSame, RestAux
<1>7. Rest(ts, Caller(stack, d), stack[d].at) = Stars(ts)
  BY <1>6
<1>8. X \cup Y = {";", "=", "{", "]", "*"}
  OBVIOUS
<1> HIDE DEF X, Y, p
<1>9. Follows(ts, stack, d, X \cup Y)
  BY <1>1, <1>2, <1>4, <1>5, <1>7, FollowsMore
<1>10. QED
  BY <1>8, <1>9

\* Where whitespace is skipped a token must follow, but where an operand or a
\* type may be done.
LEMMA RestBegins ==
    ASSUME NEW ts \in Seq(Tok), NEW c,
           NEW at \in SkipsWhitespace \ {"factor_op", "term_op", "ptr"}
    PROVE  Rest(ts, c, at) \in Begin(ts, Tok)
<1>1. /\ {"ident", "prim"} \subseteq Tok /\ {"("} \subseteq Tok /\ {")"} \subseteq Tok
      /\ {"{", "-"} \subseteq Tok /\ {"{"} \subseteq Tok /\ {"}"} \subseteq Tok
      /\ {"let", "ret"} \subseteq Tok /\ {";", "=", ":"} \subseteq Tok
      /\ {";", "="} \subseteq Tok /\ {";"} \subseteq Tok /\ {"int"} \subseteq Tok
      /\ {";", "]"} \subseteq Tok /\ {"]"} \subseteq Tok
      /\ {"}", "let", "ret"} \subseteq Tok
  BY DEF Tok
<1>2. None(ts) \in Begin(ts, Tok)
  BY NoneIs
<1>3. CASE at \in FnAt
  <2>1. /\ Name(ts) ** FnLparenTail(ts) \in Begin(ts, {"ident", "prim"})
        /\ FnLparenTail(ts) \in Begin(ts, {"("}) /\ FnRparenTail(ts) \in Begin(ts, {")"})
        /\ FnRetTail(ts) \in Begin(ts, {"{", "-"}) /\ Body(ts) \in Begin(ts, {"{"})
    BY FnIs, BlockIs
  <2>2. /\ Name(ts) ** FnLparenTail(ts) \in Begin(ts, Tok)
        /\ FnLparenTail(ts) \in Begin(ts, Tok) /\ FnRparenTail(ts) \in Begin(ts, Tok)
        /\ FnRetTail(ts) \in Begin(ts, Tok) /\ Body(ts) \in Begin(ts, Tok)
    BY <1>1, <2>1, BeginWider
  <2>3. QED
    BY <1>2, <1>3, <2>2, RestFn DEF FnAt, SkipsWhitespace
<1>4. CASE at \in BlockAt
  <2>1. {"}"} \in Symbols
    BY DEF Symbols, Tok
  <2>2. BlockTail(ts) \in Begin(ts, {"}", "let", "ret"}) /\ Sym(ts, {"}"}) \in Begin(ts, {"}"})
    BY <2>1, BlockIs, SymIs
  <2>3. BlockTail(ts) \in Begin(ts, Tok) /\ Sym(ts, {"}"}) \in Begin(ts, Tok)
    BY <1>1, <2>2, BeginWider
  <2>4. QED
    BY <1>2, <1>4, <2>3, RestStmt DEF BlockAt, SkipsWhitespace
<1>5. CASE at \in StmtAt
  <2>1. {";"} \in Symbols
    BY DEF Symbols, Tok
  <2>2. /\ Stmt(ts) \in Begin(ts, {"let", "ret"})
        /\ Name(ts) ** LetColonTail(ts) \in Begin(ts, {"ident", "prim"})
        /\ LetColonTail(ts) \in Begin(ts, {";", "=", ":"})
        /\ LetEnds(ts) \in Begin(ts, {";", "="})
        /\ Sym(ts, {";"}) \in Begin(ts, {";"})
    BY <2>1, BlockIs, LetIs, SymIs
  <2>3. /\ Stmt(ts) \in Begin(ts, Tok)
        /\ Name(ts) ** LetColonTail(ts) \in Begin(ts, Tok)
        /\ LetColonTail(ts) \in Begin(ts, Tok)
        /\ LetEnds(ts) \in Begin(ts, Tok)
        /\ Sym(ts, {";"}) \in Begin(ts, Tok)
    BY <1>1, <2>2, BeginWider
  <2>4. at \in {"stmt", "let_name", "let_colon", "let_semi", "ret_semi"}
    BY <1>5 DEF StmtAt, LetAt, SkipsWhitespace
  <2>5. QED
    BY <2>3, <2>4, RestStmt
<1>6. CASE at \in AuxAt
  <2>1. {";"} \in Symbols
    BY DEF Symbols, Tok
  <2>2. NoLength(ts) \in Forward(ts) /\ NoLength(ts) \in Blind(ts)
    BY NoLengthIs DEF Blind
  <2>3. /\ ArrayTail(ts) \in Begin(ts, {";", "]"})
        /\ Const(ts) ** ArrayEndTail(ts) \in Begin(ts, {"int"})
        /\ ArrayEndTail(ts) \in Begin(ts, {"]"})
        /\ Sym(ts, {";"}) ** NoLength(ts) \in Begin(ts, {";"})
    BY <2>1, <2>2, ArrayIs, SymThen
  <2>4. NoLength(ts) \in Begin(ts, Tok)
    <3>1. ASSUME NEW i \in Places(ts), Look(ts, i) \notin Tok
          PROVE  NoLength(ts)[i] = {}
      <4>1. Look(ts, i) = "NULL" /\ "NULL" # "ws"
        BY <3>1, LookIs
      <4>2. NoLength(ts)[i] = IF Look(ts, i) \in {"int", "NULL"} THEN {} ELSE {i}
        BY <4>1, NoLengthIs
      <4>3. QED
        BY <4>1, <4>2
    <3>2. QED
      BY <2>2, <3>1 DEF Begin
  <2>5. /\ ArrayTail(ts) \in Begin(ts, Tok)
        /\ Const(ts) ** ArrayEndTail(ts) \in Begin(ts, Tok)
        /\ ArrayEndTail(ts) \in Begin(ts, Tok)
        /\ Sym(ts, {";"}) ** NoLength(ts) \in Begin(ts, Tok)
    BY <1>1, <2>3, BeginWider
  <2>6. at \in {"array_semi", "array_len", "array_end"}
    BY <1>6 DEF AuxAt, SkipsWhitespace
  <2>7. AuxRest(ts, at) \in Begin(ts, Tok)
    BY <2>5, <2>6, RestAux
  <2>8. AuxNull(ts, at) \in Begin(ts, Tok)
    BY <1>2, <2>4, <2>5, <2>6, RestAux
  <2>9. AuxRest(ts, at) ++ AuxNull(ts, at) \in Begin(ts, Tok)
    <3> DEFINE p == AuxRest(ts, at)
               q == AuxNull(ts, at)
    <3>1. p \in Begin(ts, Tok) /\ q \in Begin(ts, Tok)
      BY <2>7, <2>8
    <3> HIDE DEF p, q
    <3>2. p \in Blind(ts) /\ q \in Blind(ts)
      BY <3>1 DEF Begin
    <3>3. p ++ q \in Blind(ts) /\ p \in Phrases(ts) /\ q \in Phrases(ts)
      BY <3>2, BeginIs, Advance DEF Blind
    <3>4. ASSUME NEW i \in Places(ts), Look(ts, i) \notin Tok \cup {"ws"}
          PROVE  (p ++ q)[i] = {}
      <4>1. p[i] = {} /\ q[i] = {}
        BY <3>1, <3>4 DEF Begin
      <4>2. (p ++ q)[i] = p[i] \cup q[i]
        BY <3>3, EitherIs
      <4>3. QED
        BY <4>1, <4>2
    <3>5. p ++ q \in Begin(ts, Tok)
      BY <3>3, <3>4 DEF Begin
    <3>6. QED
      BY <3>5 DEF p, q
  <2>10. QED
    BY <1>6, <2>7, <2>9, RestExpr
<1>7. CASE at \in {"expr", "bottom", "type"}
  <2>1. Expr(ts) \in Begin(ts, {"int"}) /\ Const(ts) \in Begin(ts, {"int"})
    BY ExprIs
  <2>2. Expr(ts) \in Begin(ts, Tok) /\ Const(ts) \in Begin(ts, Tok)
    BY <1>1, <2>1, BeginWider
  <2>3. TypeIn(ts) \in Begin(ts, Tok)
    <3>1. ASSUME NEW i \in Places(ts), Look(ts, i) \notin Tok
          PROVE  TypeIn(ts)[i] = {}
      <4>1. Look(ts, i) = "NULL" /\ "NULL" # "ws"
        BY <3>1, LookIs
      <4>2. QED
        BY <4>1, TypeInIs, TypeOfIs
    <3>2. QED
      BY <3>1, TypeInIs DEF Begin
  <2>4. QED
    BY <1>7, <2>2, <2>3, RestExpr
<1>8. at \in FnAt \cup BlockAt \cup StmtAt \cup AuxAt \cup {"expr", "bottom", "type"}
  BY DEF SkipsWhitespace, FnAt, BlockAt, StmtAt, LetAt, AuxAt
<1>9. QED
  BY <1>3, <1>4, <1>5, <1>6, <1>7, <1>8

\* Where whitespace is skipped it makes no difference, and the end of the
\* program is too early.
LEMMA SkipFollows ==
    ASSUME IInv, NEW ts \in Seq(Tok), Top.at \in SkipsWhitespace
    PROVE  Follows(ts, stack, Len(stack), Tok)
<1> DEFINE d == Len(stack)
<1>1. d \in 1 .. Len(stack) /\ d \in Nat \ {0} /\ stack[d].at \in SkipsWhitespace
  BY CallerIs DEF IInv, Frames, Top
<1>2. CASE stack[d].at \notin {"factor_op", "term_op", "ptr"}
  <2> DEFINE R == Rest(ts, Caller(stack, d), stack[d].at)
  <2>1. R \in Begin(ts, Tok)
    BY <1>1, <1>2, RestBegins
  <2>2. R = Rest(ts, Caller(stack, d), stack[d].at)
    OBVIOUS
  <2> HIDE DEF R
  <2>3. QED
    BY <1>1, <2>1, <2>2, FollowsBegin
<1>3. CASE stack[d].at = "factor_op"
  <2>1. {";", "}", "let", "ret", "+", "-", "*", "/"} \subseteq Tok
    BY DEF Tok
  <2>2. QED
    BY <1>1, <1>3, <2>1, AfterFactor, FollowsWider DEF FactorAt
<1>4. CASE stack[d].at = "term_op"
  <2>1. {";", "}", "let", "ret", "+", "-"} \subseteq Tok
    BY DEF Tok
  <2>2. QED
    BY <1>1, <1>4, <2>1, AfterTerm, FollowsWider DEF TermAt
<1>5. CASE stack[d].at = "ptr"
  <2>1. {";", "=", "{", "]", "*"} \subseteq Tok
    BY DEF Tok
  <2>2. QED
    BY <1>1, <1>5, <2>1, AfterStar, FollowsWider
<1>6. QED
  BY <1>2, <1>3, <1>4, <1>5
-----------------------------------------------------------------------------
(***************************************************************************)
(* Steps that agree with the grammar                                       *)
(***************************************************************************)

\* Where the running function can use only some of what it is given.
Judges == ExprCaller \cup {"factor_lhs", "factor_rhs", "term_lhs", "term_rhs", "type_done"}

\* Where the running function may end, and where those below it may go on.
Left(ts) == Rest(ts, Caller(stack, Len(stack)), Top.at)[idx]

Below(ts) == { j \in Places(ts) : Good(ts, stack, Len(stack) - 1, j) }

\* The program still can be one of the grammar if and only if it could be, or
\* it could not and the parser says so.
Agrees(ts) ==
    \/ out' = "running" /\ errs' = errs /\ (Ahead(ts)' <=> Ahead(ts))
    \/ /\ ~ Ahead(ts)
       /\ out' \in {"panic", "crash"} \/ (out' = "running" /\ errs' # <<>>)

\* The parser is at a place of the program.
LEMMA PlaceIs ==
    ASSUME IInv, NEW ts \in Seq(Tok), Completes(ts)
    PROVE  /\ idx \in Places(ts) /\ Len(ts) \in Nat
           /\ idx <= Len(toks) => Look(ts, idx) = toks[idx] /\ idx + 1 \in Places(ts)
           /\ Known => Look(ts, idx) = Peek
           /\ errs \in Seq(Nat)
<1>1. /\ toks \in Seq(Tokens) /\ idx \in 1 .. Len(toks) + 1 /\ errs \in Seq(Nat)
  BY DEF IInv, TokensTyped
<1>2. /\ Len(toks) <= Len(ts) /\ \A i \in 1 .. Len(toks) : ts[i] = toks[i]
      /\ closed => ts = toks
  BY DEF Completes
<1>3. Len(ts) \in Nat /\ Len(toks) \in Nat
  BY <1>1
<1>4. idx \in Places(ts) /\ (idx <= Len(toks) => idx + 1 \in Places(ts))
  BY <1>1, <1>2, <1>3 DEF Places
<1>5. idx <= Len(toks) => Look(ts, idx) = toks[idx]
  BY <1>1, <1>2, <1>3 DEF Look
<1>6. Known => Look(ts, idx) = Peek
  <2>1. CASE idx <= Len(toks)
    BY <1>5, <2>1 DEF Peek
  <2>2. CASE ~ (idx <= Len(toks))
    BY <1>2, <2>2 DEF Peek, Look, Known
  <2>3. QED
    BY <2>1, <2>2
<1>7. QED
  BY <1>1, <1>3, <1>4, <1>5, <1>6

\* What a function sees when it looks at a token.
LEMMA OnIs ==
    ASSUME IInv, NEW ts \in Seq(Tok), Completes(ts), NEW label, On(label)
    PROVE  /\ out = "running" /\ Top.at = label
           /\ idx \in Places(ts) /\ idx + 1 \in Places(ts) /\ idx # Len(ts) + 1
           /\ Look(ts, idx) = Peek /\ Peek \in Tok
           /\ label \in SkipsWhitespace => Peek # "ws"
<1>1. /\ out = "running" /\ Top.at = label /\ Known /\ Peek # "NULL"
      /\ label \in SkipsWhitespace => Peek # "ws"
  BY DEF On
<1>2. idx <= Len(toks)
  BY <1>1 DEF Peek
<1>3. idx \in Places(ts) /\ idx + 1 \in Places(ts) /\ Look(ts, idx) = Peek
  BY <1>1, <1>2, PlaceIs
<1>4. Look(ts, idx) \in Tok /\ idx <= Len(ts)
  BY <1>1, <1>3, LookIs
<1>5. QED
  BY <1>1, <1>3, <1>4, PlaceIs

\* The frames get to the end if the running function may end where those below
\* it go on.
LEMMA AheadIs ==
    ASSUME IInv, NEW ts \in Seq(Tok), Completes(ts)
    PROVE  /\ Good(ts, stack, Len(stack), idx) <=> Left(ts) \cap Below(ts) # {}
           /\ Ahead(ts) <=> Left(ts) \cap Below(ts) # {} /\ Usable
           /\ Left(ts) \subseteq Places(ts)
<1> DEFINE R == Rest(ts, Caller(stack, Len(stack)), stack[Len(stack)].at)
<1>1. Len(stack) \in Nat \ {0} /\ Len(stack) \in 1 .. Len(stack)
  BY CallerIs DEF IInv, Frames
<1>2. R \in Phrases(ts)
  <2>1. R \in Forward(ts)
    BY <1>1, CallerIs, RestForward
  <2>2. QED
    BY <2>1, Advance
<1>3. R = Rest(ts, Caller(stack, Len(stack)), stack[Len(stack)].at) /\ Left(ts) = R[idx]
  BY DEF Left, Top
<1>4. idx \in Places(ts)
  BY PlaceIs
<1> HIDE DEF R
<1>5. Good(ts, stack, Len(stack), idx) <=> \E j \in R[idx] : Good(ts, stack, Len(stack) - 1, j)
  BY <1>1, <1>2, <1>3, <1>4, GoodIs
<1>6. R[idx] \subseteq Places(ts)
  BY <1>2, <1>4 DEF Phrases
<1>7. Good(ts, stack, Len(stack), idx) <=> Left(ts) \cap Below(ts) # {}
  BY <1>3, <1>5, <1>6 DEF Below
<1>8. QED
  BY <1>3, <1>6, <1>7 DEF Ahead

\* The stack after a step that calls, or does not.
LEMMA PushedLabels ==
    ASSUME IInv, NEW ts \in Seq(Tok), NEW S, Frame \subseteq S, NEW frame \in S,
           NEW above \in Seq(S), Pushes(frame, above)
    PROVE  /\ Len(stack) \in Nat \ {0} /\ Len(stack') = Len(stack) + Len(above)
           /\ stack'[Len(stack)] = frame
           /\ \A d \in 1 .. Len(above) : stack'[Len(stack) + d] = above[d]
           /\ Caller(stack', Len(stack)) = Caller(stack, Len(stack))
           /\ \A j : Good(ts, stack', Len(stack) - 1, j) <=> Good(ts, stack, Len(stack) - 1, j)
<1> DEFINE low == [stack EXCEPT ![Len(stack)] = frame]
           n == Len(stack)
<1>1. stack \in Seq(S) /\ n \in Nat \ {0} /\ n \in 1 .. n
  BY DEF IInv, Frames
<1>2. /\ low \in Seq(S) /\ Len(low) = n
      /\ \A d \in 1 .. n - 1 : low[d] = stack[d]
      /\ low[n] = frame
  BY <1>1
<1>3. stack' = low \o above
  BY DEF Pushes
<1> HIDE DEF low, n
<1>4. /\ Len(stack') = n + Len(above) /\ Len(above) \in Nat
      /\ \A d \in 1 .. n + Len(above) :
            stack'[d] = IF d <= n THEN low[d] ELSE above[d - n]
  <2>1. /\ Len(low \o above) = Len(low) + Len(above)
        /\ \A d \in 1 .. Len(low) + Len(above) :
              (low \o above)[d] = IF d <= Len(low) THEN low[d] ELSE above[d - Len(low)]
    BY <1>2, ConcatProperties
  <2>2. Len(above) \in Nat
    OBVIOUS
  <2>3. QED
    BY <1>2, <1>3, <2>1, <2>2
<1>5. stack'[n] = frame /\ \A d \in 1 .. n - 1 : stack'[d] = stack[d]
  BY <1>1, <1>2, <1>4
<1>6. \A d \in 1 .. Len(above) : stack'[n + d] = above[d]
  <2> TAKE d \in 1 .. Len(above)
  <2>1. n + d \in 1 .. n + Len(above) /\ ~ (n + d <= n) /\ (n + d) - n = d
    BY <1>1, <1>4
  <2>2. QED
    BY <1>4, <2>1
<1>7. Caller(stack', n) = Caller(stack, n)
  <2>1. n = 1 \/ n - 1 \in 1 .. n - 1
    BY <1>1
  <2>2. QED
    BY <1>5, <2>1 DEF Caller
<1>8. \A j : Good(ts, stack', n - 1, j) <=> Good(ts, stack, n - 1, j)
  <2>1. n - 1 \in Nat /\ \A d \in 1 .. n - 1 : stack'[d].at = stack[d].at
    BY <1>1, <1>5
  <2>2. QED
    BY <2>1, GoodSame
<1>9. QED
  BY <1>1, <1>4, <1>5, <1>6, <1>7, <1>8 DEF n

\* Where any value will do.
LEMMA AnyUsable ==
    /\ Top.at \notin Judges => Usable
    /\ Top'.at \notin Judges => Usable'
<1>1. Top.at \notin Judges => Usable
  BY DEF Usable, Judges
<1>2. Top'.at \notin Judges => Usable'
  BY DEF Usable, Judges
<1>3. QED
  BY <1>1, <1>2

\* What the frames get to after a step.
LEMMA AheadNext ==
    ASSUME NEW ts, (Good(ts, stack', Len(stack'), idx') <=> Good(ts, stack, Len(stack), idx)),
           Usable' <=> Usable, out' = "running", errs' = errs
    PROVE  Agrees(ts)
<1>1. Ahead(ts)' <=> Good(ts, stack', Len(stack'), idx') /\ Usable'
  BY DEF Ahead
<1>2. QED
  BY <1>1 DEF Agrees, Ahead

\* The function goes on.
LEMMA GoesAgrees ==
    ASSUME IInv, NEW ts \in Seq(Tok), Completes(ts), out' = "running", errs' = errs,
           NEW frame, TopGoes(frame), frame.at \in Label \ Judges, Usable,
           idx' \in Places(ts),
           Rest(ts, Caller(stack, Len(stack)), frame.at)[idx'] = Left(ts)
    PROVE  Agrees(ts)
<1> DEFINE S == Frame \cup {frame}
           n == Len(stack)
           R == Rest(ts, Caller(stack, n), frame.at)
<1>1. Pushes(frame, << >>)
  <2>1. [stack EXCEPT ![n] = frame] \in Seq(S)
    BY DEF IInv, Frames
  <2>2. [stack EXCEPT ![n] = frame] \o << >> = [stack EXCEPT ![n] = frame]
    BY <2>1
  <2>3. QED
    BY <2>2 DEF TopGoes, Pushes
<1>2. << >> \in Seq(S) /\ Len(<< >>) = 0 /\ Frame \subseteq S /\ frame \in S
  OBVIOUS
<1> HIDE DEF S
<1>3. /\ n \in Nat \ {0} /\ Len(stack') = n + 0
      /\ stack'[n] = frame /\ Caller(stack', n) = Caller(stack, n)
      /\ \A j : Good(ts, stack', n - 1, j) <=> Good(ts, stack, n - 1, j)
  BY <1>1, <1>2, PushedLabels
<1>4. Len(stack') = n
  BY <1>3
<1>5. R \in Phrases(ts) /\ R = Rest(ts, Caller(stack', n), stack'[n].at)
  <2>1. R \in Forward(ts)
    BY RestForward
  <2>2. QED
    BY <1>3, <2>1, Advance
<1> HIDE DEF R, n
<1>6. Good(ts, stack', n, idx') <=> \E j \in R[idx'] : Good(ts, stack', n - 1, j)
  BY <1>3, <1>5, GoodIs
<1>7. R[idx'] = Left(ts)
  BY DEF R, n
<1>8. Good(ts, stack', n, idx') <=> Good(ts, stack, Len(stack), idx)
  BY <1>3, <1>6, <1>7, AheadIs DEF Below, n
<1>9. Usable'
  BY <1>3, <1>4, AnyUsable DEF Top
<1>10. QED
  BY <1>4, <1>8, <1>9, AheadNext

\* The function calls another one.
LEMMA CallsAgrees ==
    ASSUME IInv, NEW ts \in Seq(Tok), Completes(ts), out' = "running", errs' = errs,
           NEW frame, NEW callee, Pushes(frame, << callee >>), Usable,
           frame.at \in Label, callee.at \in Label \ Judges, idx' \in Places(ts),
           (Rest(ts, frame.at, callee.at) ** Rest(ts, Caller(stack, Len(stack)), frame.at))
                [idx'] \cap Below(ts) = {} <=> Left(ts) \cap Below(ts) = {}
    PROVE  Agrees(ts)
<1> DEFINE S == Frame \cup {frame, callee}
           above == << callee >>
           n == Len(stack)
           R == Rest(ts, Caller(stack, n), frame.at)
           C == Rest(ts, frame.at, callee.at)
           B == Below(ts)
<1>2. above \in Seq(S) /\ Len(above) = 1 /\ Frame \subseteq S /\ frame \in S
      /\ above[1] = callee
  OBVIOUS
<1>0. Pushes(frame, above)
  OBVIOUS
<1> HIDE DEF S, above
<1>3. /\ n \in Nat \ {0} /\ Len(stack') = n + 1
      /\ stack'[n] = frame /\ Caller(stack', n) = Caller(stack, n)
      /\ \A d \in 1 .. 1 : stack'[n + d] = above[d]
      /\ \A j : Good(ts, stack', n - 1, j) <=> Good(ts, stack, n - 1, j)
  <2>1. /\ Len(stack) \in Nat \ {0} /\ Len(stack') = Len(stack) + Len(above)
        /\ stack'[Len(stack)] = frame
        /\ \A d \in 1 .. Len(above) : stack'[Len(stack) + d] = above[d]
        /\ Caller(stack', Len(stack)) = Caller(stack, Len(stack))
        /\ \A j : Good(ts, stack', Len(stack) - 1, j) <=> Good(ts, stack, Len(stack) - 1, j)
    BY <1>0, <1>2, PushedLabels
  <2>2. QED
    BY <1>2, <2>1
<1>4. stack'[n + 1] = callee /\ (n + 1) - 1 = n /\ n + 1 \in Nat \ {0} /\ n + 1 # 1
  BY <1>2, <1>3
<1>5. R \in Phrases(ts) /\ R = Rest(ts, Caller(stack', n), stack'[n].at)
  <2>1. R \in Forward(ts)
    BY RestForward
  <2>2. QED
    BY <1>3, <2>1, Advance
<1>6. C \in Phrases(ts) /\ C = Rest(ts, Caller(stack', n + 1), stack'[n + 1].at)
  <2>1. C \in Forward(ts)
    BY RestForward
  <2>2. Caller(stack', n + 1) = frame.at
    BY <1>3, <1>4 DEF Caller
  <2>3. QED
    BY <1>4, <2>1, <2>2, Advance
<1>7. (C ** R)[idx'] \cap B = {} <=> Left(ts) \cap B = {}
  OBVIOUS
<1>8. B = { j \in Places(ts) : Good(ts, stack, n - 1, j) }
  BY DEF Below
<1> HIDE DEF R, C, B, n
<1>9. \A i \in Places(ts) :
        Good(ts, stack', n, i) <=> \E j \in R[i] : Good(ts, stack', n - 1, j)
  BY <1>3, <1>5, GoodIs
<1>10. Good(ts, stack', n + 1, idx') <=> \E j \in C[idx'] : Good(ts, stack', n, j)
  <2> DEFINE m == n + 1
  <2>1. m \in Nat \ {0} /\ m - 1 = n
    BY <1>4
  <2>2. C = Rest(ts, Caller(stack', m), stack'[m].at)
    BY <1>6
  <2> HIDE DEF m
  <2>3. Good(ts, stack', m, idx') <=> \E j \in C[idx'] : Good(ts, stack', m - 1, j)
    BY <1>6, <2>1, <2>2, GoodIs
  <2>4. QED
    BY <2>1, <2>3 DEF m
<1>11. (C ** R)[idx'] = UNION { R[j] : j \in C[idx'] }
  BY <1>5, <1>6, ThenIs
<1>12. C[idx'] \subseteq Places(ts) /\ \A j \in C[idx'] : R[j] \subseteq Places(ts)
  BY <1>5, <1>6 DEF Phrases
<1>13. Good(ts, stack', n + 1, idx') <=> (C ** R)[idx'] \cap B # {}
  BY <1>3, <1>8, <1>9, <1>10, <1>11, <1>12
<1>14. Good(ts, stack', Len(stack'), idx') <=> Good(ts, stack, Len(stack), idx)
  BY <1>3, <1>7, <1>13, AheadIs DEF B
<1>15. Usable'
  BY <1>3, <1>4, AnyUsable DEF Top
<1>16. QED
  BY <1>14, <1>15, AheadNext

\* The function calls one that calls another one.
LEMMA CallsTwiceAgrees ==
    ASSUME IInv, NEW ts \in Seq(Tok), Completes(ts), out' = "running", errs' = errs,
           NEW frame, NEW callee, NEW inner, Pushes(frame, << callee, inner >>), Usable,
           frame.at \in Label, callee.at \in Label, inner.at \in Label \ Judges,
           idx' \in Places(ts),
           ((Rest(ts, callee.at, inner.at) ** Rest(ts, frame.at, callee.at))
                ** Rest(ts, Caller(stack, Len(stack)), frame.at))[idx'] \cap Below(ts) = {}
             <=> Left(ts) \cap Below(ts) = {}
    PROVE  Agrees(ts)
<1> DEFINE S == Frame \cup {frame, callee, inner}
           above == << callee, inner >>
           n == Len(stack)
           R == Rest(ts, Caller(stack, n), frame.at)
           C == Rest(ts, frame.at, callee.at)
           D == Rest(ts, callee.at, inner.at)
           B == Below(ts)
<1>2. /\ above \in Seq(S) /\ Len(above) = 2
      /\ Frame \subseteq S /\ frame \in S
      /\ above[1] = callee /\ above[2] = inner
  OBVIOUS
<1>0. Pushes(frame, above)
  OBVIOUS
<1> HIDE DEF S, above
<1>1. /\ Len(stack) \in Nat \ {0} /\ Len(stack') = Len(stack) + Len(above)
      /\ stack'[Len(stack)] = frame
      /\ \A d \in 1 .. Len(above) : stack'[Len(stack) + d] = above[d]
      /\ Caller(stack', Len(stack)) = Caller(stack, Len(stack))
      /\ \A j : Good(ts, stack', Len(stack) - 1, j) <=> Good(ts, stack, Len(stack) - 1, j)
  BY <1>0, <1>2, PushedLabels
<1>3. /\ n \in Nat \ {0} /\ Len(stack') = n + 2
      /\ stack'[n] = frame /\ Caller(stack', n) = Caller(stack, n)
      /\ \A d \in 1 .. 2 : stack'[n + d] = above[d]
      /\ \A j : Good(ts, stack', n - 1, j) <=> Good(ts, stack, n - 1, j)
  BY <1>1, <1>2
<1>4. /\ stack'[n + 1] = callee /\ (n + 1) - 1 = n /\ n + 1 \in Nat \ {0} /\ n + 1 # 1
      /\ stack'[n + 2] = inner /\ (n + 2) - 1 = n + 1 /\ n + 2 \in Nat \ {0} /\ n + 2 # 1
  BY <1>2, <1>3
<1>5. R \in Phrases(ts) /\ R = Rest(ts, Caller(stack', n), stack'[n].at)
  <2>1. R \in Forward(ts)
    BY RestForward
  <2>2. QED
    BY <1>3, <2>1, Advance
<1>6. C \in Phrases(ts) /\ C = Rest(ts, Caller(stack', n + 1), stack'[n + 1].at)
  <2>1. C \in Forward(ts)
    BY RestForward
  <2>2. Caller(stack', n + 1) = frame.at
    BY <1>3, <1>4 DEF Caller
  <2>3. QED
    BY <1>4, <2>1, <2>2, Advance
<1>7. D \in Phrases(ts) /\ D = Rest(ts, Caller(stack', n + 2), stack'[n + 2].at)
  <2>1. D \in Forward(ts)
    BY RestForward
  <2>2. Caller(stack', n + 2) = callee.at
    BY <1>3, <1>4 DEF Caller
  <2>3. QED
    BY <1>4, <2>1, <2>2, Advance
<1>8. ((D ** C) ** R)[idx'] \cap B = {} <=> Left(ts) \cap B = {}
  OBVIOUS
<1>9. B = { j \in Places(ts) : Good(ts, stack, n - 1, j) }
  BY DEF Below
<1> HIDE DEF R, C, D, B, n
<1>10. \A i \in Places(ts) :
        Good(ts, stack', n, i) <=> \E j \in R[i] : Good(ts, stack', n - 1, j)
  BY <1>3, <1>5, GoodIs
<1>11. \A i \in Places(ts) :
        Good(ts, stack', n + 1, i) <=> \E j \in C[i] : Good(ts, stack', n, j)
  BY <1>4, <1>6, GoodIs
<1>12. Good(ts, stack', n + 2, idx') <=> \E j \in D[idx'] : Good(ts, stack', n + 1, j)
  BY <1>4, <1>7, GoodIs
<1>13. D ** C \in Phrases(ts)
  BY <1>6, <1>7, ThenIs
<1>14. /\ ((D ** C) ** R)[idx'] = UNION { R[j] : j \in (D ** C)[idx'] }
       /\ (D ** C)[idx'] = UNION { C[j] : j \in D[idx'] }
  BY <1>5, <1>6, <1>7, <1>13, ThenIs
<1>15. /\ D[idx'] \subseteq Places(ts) /\ (D ** C)[idx'] \subseteq Places(ts)
       /\ \A j \in (D ** C)[idx'] : R[j] \subseteq Places(ts)
  BY <1>5, <1>7, <1>13 DEF Phrases
<1>16. Good(ts, stack', n + 2, idx') <=> \E j \in (D ** C)[idx'] : Good(ts, stack', n, j)
  BY <1>11, <1>12, <1>14, <1>15
<1>17. Good(ts, stack', n + 2, idx') <=> ((D ** C) ** R)[idx'] \cap B # {}
  <2> DEFINE E == (D ** C)[idx']
  <2>1. /\ ((D ** C) ** R)[idx'] = UNION { R[j] : j \in E } /\ E \subseteq Places(ts)
        /\ \A j \in E : R[j] \subseteq Places(ts)
        /\ Good(ts, stack', n + 2, idx') <=> \E j \in E : Good(ts, stack', n, j)
    BY <1>14, <1>15, <1>16
  <2> HIDE DEF E
  <2>2. QED
    BY <1>3, <1>9, <1>10, <2>1
<1>18. Good(ts, stack', Len(stack'), idx') <=> Good(ts, stack, Len(stack), idx)
  BY <1>3, <1>8, <1>17, AheadIs DEF B
<1>19. Usable'
  BY <1>3, <1>4, AnyUsable DEF Top
<1>20. QED
  BY <1>18, <1>19, AheadNext

\* The function returns: it may end here, and nowhere else that the frames
\* below it go on from.
LEMMA ReturnsAgrees ==
    ASSUME IInv, NEW ts \in Seq(Tok), Completes(ts), out' = "running", errs' = errs,
           Top.at \notin {"prog", "prog_fn"}, Pops, Usable, Usable', idx' \in Places(ts),
           Left(ts) = {idx'}
    PROVE  Agrees(ts)
<1> DEFINE n == Len(stack)
<1>1. /\ n \in Nat /\ n >= 2 /\ Len(stack') = n - 1
      /\ \A d \in 1 .. n - 1 : stack'[d] = stack[d]
  BY PoppedStack DEF IInv
<1> HIDE DEF n
<1>2. Good(ts, stack', n - 1, idx') <=> Good(ts, stack, n - 1, idx')
  <2>1. n - 1 \in Nat /\ \A d \in 1 .. n - 1 : stack'[d].at = stack[d].at
    BY <1>1
  <2>2. QED
    BY <2>1, GoodSame
<1>3. Good(ts, stack, Len(stack), idx) <=> Good(ts, stack, n - 1, idx')
  BY AheadIs DEF Below, n
<1>4. QED
  BY <1>1, <1>2, <1>3, AheadNext

\* The function returns what its caller cannot use.
LEMMA LostAgrees ==
    ASSUME NEW ts, out' = "running", errs' = errs, ~ Ahead(ts), ~ Usable'
    PROVE  Agrees(ts)
<1>1. ~ Ahead(ts)'
  BY DEF Ahead
<1>2. QED
  BY <1>1 DEF Agrees

\* The function cannot go on.
LEMMA StuckIs ==
    ASSUME IInv, NEW ts \in Seq(Tok), Completes(ts),
           Left(ts) \cap Below(ts) = {} \/ ~ Usable
    PROVE  ~ Ahead(ts)
BY AheadIs

\* It says so with an error, and what it looks for is all it can go on with.
LEMMA ExpectAgrees ==
    ASSUME IInv, NEW ts \in Seq(Tok), Completes(ts), out = "running",
           NEW good, NEW at, Expect(good, at)
    PROVE  /\ Peek \in good => out' = "running" /\ errs' = errs
           /\ Peek \notin good /\ Left(ts) \cap Below(ts) = {} => Agrees(ts)
<1>1. ASSUME Peek \notin good, Left(ts) \cap Below(ts) = {}
      PROVE  Agrees(ts)
  <2>1. errs' = Append(errs, at) /\ out' \in {"running", "panic"}
    BY <1>1 DEF Expect
  <2>2. errs' # << >>
    <3>1. errs \in Seq(Nat)
      BY PlaceIs
    <3>2. QED
      BY <2>1, <3>1
  <2>3. ~ Ahead(ts)
    BY <1>1, StuckIs
  <2>4. QED
    BY <2>1, <2>2, <2>3 DEF Agrees
<1>2. QED
  BY <1>1 DEF Expect

\* Goto and Call.
LEMMA GotoAgrees ==
    ASSUME IInv, NEW ts \in Seq(Tok), Completes(ts), out' = "running", errs' = errs,
           NEW label \in Label \ Judges, Goto(label), Usable, idx' \in Places(ts),
           Rest(ts, Caller(stack, Len(stack)), label)[idx'] = Left(ts)
    PROVE  Agrees(ts)
<1> DEFINE frame == [Top EXCEPT !.at = label]
<1>1. frame.at = label
  BY TopTyped DEF IInv, Frame
<1>2. TopGoes(frame)
  BY DEF Goto
<1> HIDE DEF frame
<1>3. QED
  BY <1>1, <1>2, GoesAgrees

\* A call that the function below can go on from.
LEMMA CallAgrees ==
    ASSUME IInv, NEW ts \in Seq(Tok), Completes(ts), out' = "running", errs' = errs,
           NEW back \in Label, NEW callee \in Label \ Judges, Call(back, callee), Usable,
           idx' \in Places(ts),
           (Rest(ts, back, callee) ** Rest(ts, Caller(stack, Len(stack)), back))[idx']
                \cap Below(ts) = {} <=> Left(ts) \cap Below(ts) = {}
    PROVE  Agrees(ts)
<1> DEFINE frame == [Top EXCEPT !.at = back]
           new == MakeFrame(callee, 0, idx)
           S == Frame \cup {frame, new}
<1>1. frame.at = back /\ new.at = callee
  BY TopTyped DEF IInv, Frame, MakeFrame
<1>2. Pushes(frame, << new >>)
  <2>1. stack \in Seq(S) /\ Len(stack) \in 1 .. Len(stack)
    BY DEF IInv, Frames
  <2>2. [stack EXCEPT ![Len(stack)] = frame] \in Seq(S)
    BY <2>1
  <2>3. stack' = Append([stack EXCEPT ![Len(stack)] = frame], new)
    BY DEF Call, Top
  <2> HIDE DEF frame, new
  <2>4. QED
    BY <2>2, <2>3 DEF Pushes
<1> HIDE DEF frame, new
<1>3. QED
  BY <1>1, <1>2, CallsAgrees
-----------------------------------------------------------------------------
(***************************************************************************)
(* Whitespace, and the end of the program                                  *)
(***************************************************************************)

\* Skipping whitespace.
LEMMA ConsumeWhitespaceAgrees ==
    ASSUME IInv, NEW ts \in Seq(Tok), Completes(ts), ConsumeWhitespace
    PROVE  Agrees(ts)
<1> DEFINE n == Len(stack)
<1>1. /\ out = "running" /\ Peek = "ws" /\ Top.at \in SkipsWhitespace \cup {"prog"}
      /\ idx' = idx + 1 /\ errs' = errs /\ out' = "running"
      /\ stack' = stack /\ val' = val /\ nodes' = nodes
  BY DEF ConsumeWhitespace, Quiet, Heap
<1>2. idx \in Places(ts) /\ Look(ts, idx) = "ws" /\ idx + 1 \in Places(ts)
  BY <1>1, PlaceIs DEF Peek
<1>3. Good(ts, stack, n, idx) <=> Good(ts, stack, n, idx + 1)
  <2>1. CASE Top.at \in SkipsWhitespace
    BY <1>2, <2>1, SkipFollows DEF Follows
  <2>2. CASE Top.at = "prog"
    <3>1. n = 1 /\ n \in Nat \ {0} /\ Top = stack[n] /\ n \in 1 .. Len(stack)
      <4>1. n \in 1 .. Len(stack) /\ Top = stack[n]
        BY DEF IInv, Frames, Top
      <4>2. stack[n].at = "prog"
        BY <2>2, <4>1
      <4> HIDE DEF n
      <4>3. n = 1 /\ n \in Nat \ {0}
        BY <4>1, <4>2, CallerIs
      <4>4. QED
        BY <4>1, <4>3
    <3> DEFINE p == Fn(ts) ** ProgTail(ts)
               R == ProgTail(ts)
    <3>2. R = Rest(ts, Caller(stack, n), stack[n].at) /\ R \in Phrases(ts)
      BY <2>2, <3>1, RestFn, ProgIs, Advance
    <3>3. /\ R[idx] = Blank(ts)[idx] \cup p[idx]
          /\ R[idx + 1] = Blank(ts)[idx + 1] \cup p[idx + 1]
      <4>1. Blank(ts) \in Phrases(ts) /\ p \in Phrases(ts) /\ R = Blank(ts) ++ p
        BY BlankIs, ProgIs, Advance
      <4> HIDE DEF p, R
      <4>2. QED
        BY <1>2, <4>1, EitherIs
    <3>4. p[idx] = p[idx + 1]
      <4>1. p \in Blind(ts)
        BY ProgIs DEF Begin
      <4>2. QED
        BY <1>2, <4>1 DEF Blind
    <3>5. Blank(ts)[idx] = {idx} \cup Blank(ts)[idx + 1]
      BY <1>2, BlankIs
    <3>6. idx # Len(ts) + 1
      BY <1>2, LookIs, PlaceIs
    <3> HIDE DEF p, R, n
    <3>7. \A i \in Places(ts) : Good(ts, stack, n, i) <=> \E j \in R[i] : Good(ts, stack, 0, j)
      BY <3>1, <3>2, GoodIs
    <3>8. \A i \in Places(ts) : Good(ts, stack, n, i) <=> Len(ts) + 1 \in R[i]
      BY <3>7, GoodEnd
    <3>9. QED
      BY <1>2, <3>3, <3>4, <3>5, <3>6, <3>8 DEF n
  <2>3. QED
    BY <1>1, <2>1, <2>2
<1>4. Usable' <=> Usable
  BY <1>1 DEF Usable, Top, AstIsExpr, KindOf
<1>5. Good(ts, stack', Len(stack'), idx') <=> Good(ts, stack, Len(stack), idx)
  BY <1>1, <1>3
<1>6. QED
  BY <1>1, <1>4, <1>5, AheadNext

\* Looking at a token past the end.
LEMMA LookAtNullAgrees ==
    ASSUME IInv, NEW ts \in Seq(Tok), Completes(ts), LookAtNull
    PROVE  ~ Ahead(ts)
<1>1. /\ Known /\ Peek = "NULL"
      /\ Top.at \in SkipsWhitespace \cup {"ret_arrow", "block", "aux"}
  BY DEF LookAtNull
<1>2. idx \in Places(ts) /\ Look(ts, idx) = "NULL"
  BY <1>1, PlaceIs
<1>3. "NULL" \notin Tok /\ "NULL" # "ws"
  BY DEF Tok
<1>4. CASE Top.at \in SkipsWhitespace
  <2>1. Follows(ts, stack, Len(stack), Tok)
    BY <1>4, SkipFollows
  <2>2. ~ Good(ts, stack, Len(stack), idx)
    BY <1>2, <1>3, <2>1 DEF Follows
  <2>3. QED
    BY <2>2 DEF Ahead
<1>5. CASE Top.at \in {"ret_arrow", "block", "aux"}
  <2> DEFINE c == Caller(stack, Len(stack))
  <2>1. {">"} \in Symbols /\ {"{"} \in Symbols
    BY DEF Symbols, Tok
  <2>2. Left(ts) = {}
    <3>1. CASE Top.at = "ret_arrow"
      <4>1. Left(ts) = (Glued(ts, {">"}) ** (TypeIn(ts) ** Body(ts)))[idx]
        BY <3>1, RestFn DEF Left
      <4>2. TypeIn(ts) ** Body(ts) \in Forward(ts)
        BY FnIs
      <4>3. QED
        BY <1>2, <2>1, <4>1, <4>2, GluedThen
    <3>2. CASE Top.at = "block"
      <4>1. (Glued(ts, {"{"}) ** BlockTail(ts))[idx] = {}
        BY <1>2, <2>1, BlockIs, GluedThen
      <4>2. None(ts)[idx] = {}
        BY <1>2, NoneIs
      <4>3. QED
        BY <3>2, <4>1, <4>2, RestStmt DEF Left, BlockAt
    <3>3. CASE Top.at = "aux"
      <4> DEFINE p == TypeOf(ts)
                 q == NullOf(ts)
      <4>1. p[idx] = {} /\ q[idx] = {} /\ p \in Phrases(ts) /\ q \in Phrases(ts)
        BY <1>2, TypeOfIs, TypeForward, Advance
      <4>2. Rest(ts, c, "aux") \in {p, p ++ q}
        BY RestExpr, RestAux DEF AuxAt
      <4> HIDE DEF p, q
      <4>3. (p ++ q)[idx] = {}
        BY <1>2, <4>1, EitherIs
      <4>4. QED
        BY <3>3, <4>1, <4>2, <4>3 DEF Left
    <3>4. QED
      BY <1>5, <3>1, <3>2, <3>3
  <2>3. QED
    BY <2>2, StuckIs
<1>6. QED
  BY <1>1, <1>4, <1>5
-----------------------------------------------------------------------------
(***************************************************************************)
(* parse_prog and parse_fn                                                 *)
(***************************************************************************)

\* parse_prog calls a function, or ends where the program does.
LEMMA ProgLeft ==
    ASSUME IInv, NEW ts \in Seq(Tok), Completes(ts), Top.at = "prog"
    PROVE  /\ Left(ts) = Blank(ts)[idx] \cup (Fn(ts) ** ProgTail(ts))[idx]
           /\ Below(ts) = {Len(ts) + 1}
<1> DEFINE p == Fn(ts) ** ProgTail(ts)
           n == Len(stack)
<1>1. idx \in Places(ts) /\ Len(ts) + 1 \in Places(ts)
  BY PlaceIs DEF Places
<1>2. Left(ts) = (Blank(ts) ++ p)[idx]
  BY RestFn, ProgIs DEF Left
<1>3. Blank(ts) \in Phrases(ts) /\ p \in Phrases(ts)
  BY BlankIs, ProgIs, Advance
<1>4. n = 1
  <2>1. n \in 1 .. Len(stack) /\ stack[n].at = "prog"
    BY DEF IInv, Frames, Top
  <2> HIDE DEF n
  <2>2. QED
    BY <2>1, CallerIs
<1>5. Below(ts) = {Len(ts) + 1}
  <2>1. Below(ts) = { j \in Places(ts) : Good(ts, stack, 0, j) }
    BY <1>4 DEF Below
  <2>2. QED
    BY <1>1, <2>1, GoodEnd
<1> HIDE DEF p
<1>6. QED
  BY <1>1, <1>2, <1>3, <1>5, EitherIs DEF p

\* parse_prog: a function begins.
LEMMA ProgFnAgrees ==
    ASSUME IInv, NEW ts \in Seq(Tok), Completes(ts), ProgFn
    PROVE  Agrees(ts)
<1> DEFINE name == Name(ts) ** FnLparenTail(ts)
           p == name ** ProgTail(ts)
           X == {"fn"}
<1>1. /\ Call("prog_fn", "fn_name") /\ idx' = idx + 1 /\ Peek \in X
      /\ out' = "running" /\ errs' = errs /\ On("prog")
  BY DEF ProgFn, Quiet, On
<1>2. /\ idx \in Places(ts) /\ idx + 1 \in Places(ts) /\ idx # Len(ts) + 1
      /\ Look(ts, idx) = Peek /\ Peek # "ws" /\ Top.at = "prog"
  BY <1>1, OnIs
<1>3. name \in Forward(ts) /\ ProgTail(ts) \in Forward(ts) /\ X \in Symbols
  BY FnIs, ProgIs DEF Symbols, Tok
<1>4. Fn(ts) ** ProgTail(ts) = Sym(ts, X) ** p
  <2>1. Fn(ts) = Sym(ts, X) ** name
    BY FnIs
  <2>2. Sym(ts, X) \in Forward(ts)
    BY <1>3, SymIs, Advance
  <2> HIDE DEF name, X
  <2>3. QED
    BY <1>3, <2>1, <2>2, ForwardAssoc
<1>5. p \in Forward(ts)
  <2> HIDE DEF name
  <2>1. QED
    BY <1>3, Advance
<1>6. (Fn(ts) ** ProgTail(ts))[idx] = p[idx + 1] /\ Blank(ts)[idx] = {idx}
  <2>1. Blank(ts)[idx] = {idx}
    BY <1>2, BlankIs
  <2> HIDE DEF p, X
  <2>2. (Sym(ts, X) ** p)[idx] = p[idx + 1]
    BY <1>1, <1>2, <1>3, <1>5, SymThen
  <2>3. QED
    BY <1>4, <2>1, <2>2
<1>7. Rest(ts, "prog_fn", "fn_name") ** Rest(ts, Caller(stack, Len(stack)), "prog_fn") = p
  BY RestFn
<1>8. /\ "prog_fn" \in Label /\ "fn_name" \in Label \ Judges /\ Usable
  BY <1>2, AnyUsable DEF Label, Looking, SkipsWhitespace, Waiting, WaitsForNode, Judges,
                         ExprCaller
<1>9. Left(ts) = {idx} \cup p[idx + 1] /\ Below(ts) = {Len(ts) + 1}
  BY <1>2, <1>6, ProgLeft
<1>10. p[idx'] \cap Below(ts) = {} <=> Left(ts) \cap Below(ts) = {}
  BY <1>1, <1>2, <1>9
<1> HIDE DEF p
<1>11. QED
  BY <1>1, <1>2, <1>7, <1>8, <1>10, CallAgrees

\* parse_prog: a function is parsed.
LEMMA ProgFnDoneAgrees ==
    ASSUME IInv, NEW ts \in Seq(Tok), Completes(ts), ProgFnDone
    PROVE  Agrees(ts)
<1>1. /\ Goto("prog") /\ idx' = idx /\ Top.at = "prog_fn"
      /\ out' = "running" /\ errs' = errs
  BY DEF ProgFnDone, Back, Quiet
<1>2. "prog" \in Label \ Judges /\ Usable
  BY <1>1, AnyUsable DEF Label, Looking, Judges, ExprCaller
<1>3. Left(ts) = Rest(ts, Caller(stack, Len(stack)), "prog")[idx]
  BY <1>1, RestFn DEF Left
<1>4. QED
  BY <1>1, <1>2, <1>3, PlaceIs, GotoAgrees

\* No other token may follow.
LEMMA ProgOther ==
    ASSUME IInv, NEW ts \in Seq(Tok), Completes(ts), On("prog"), Peek \notin {"fn", "ws"}
    PROVE  Left(ts) \cap Below(ts) = {}
<1>1. /\ idx \in Places(ts) /\ idx # Len(ts) + 1 /\ Look(ts, idx) = Peek /\ Top.at = "prog"
  BY OnIs
<1>2. Blank(ts)[idx] = {idx}
  BY <1>1, BlankIs
<1>3. (Fn(ts) ** ProgTail(ts))[idx] = {}
  BY <1>1, ProgIs DEF Begin
<1>4. QED
  BY <1>1, <1>2, <1>3, ProgLeft

\* parse_prog: a declaration, which it has no code for.
LEMMA ProgDeclAgrees ==
    ASSUME IInv, NEW ts \in Seq(Tok), Completes(ts), ProgDecl
    PROVE  Agrees(ts)
BY ProgOther, StuckIs DEF ProgDecl, Panic, Agrees

\* parse_prog: a token that begins nothing.
LEMMA ProgUnknownAgrees ==
    ASSUME IInv, NEW ts \in Seq(Tok), Completes(ts), ProgUnknown
    PROVE  Agrees(ts)
<1>1. Left(ts) \cap Below(ts) = {}
  BY ProgOther DEF ProgUnknown
<1>2. Expect({}, idx) /\ out = "running"
  BY DEF ProgUnknown, On
<1>3. QED
  BY <1>1, <1>2, ExpectAgrees

\* The program ends with whitespace.
LEMMA ProgEndAgrees ==
    ASSUME IInv, NEW ts \in Seq(Tok), Completes(ts), ProgEnd
    PROVE  Ahead(ts) /\ closed
<1>1. Known /\ Peek = "NULL" /\ Top.at = "prog"
  BY DEF ProgEnd
<1>2. Look(ts, idx) = "NULL" /\ idx \in Places(ts) /\ closed
  <2>1. idx \in Places(ts) /\ Look(ts, idx) = "NULL"
    BY <1>1, PlaceIs
  <2>2. CASE idx <= Len(toks)
    <3>1. Look(ts, idx) = toks[idx] /\ idx <= Len(ts)
      <4>1. idx <= Len(toks) /\ Len(toks) <= Len(ts) /\ Len(toks) \in Nat /\ idx \in Nat
            /\ Len(ts) \in Nat
        BY <2>1, <2>2 DEF Completes, IInv, TokensTyped, Places
      <4>2. QED
        BY <2>2, <4>1, PlaceIs
    <3>2. QED
      BY <2>1, <3>1, LookIs DEF Tok
  <2>3. QED
    BY <1>1, <2>1, <2>2 DEF Known
<1>3. idx = Len(ts) + 1 /\ Look(ts, idx) # "ws"
  BY <1>2, LookIs DEF Tok
<1>4. Blank(ts)[idx] = {idx}
  BY <1>2, <1>3, BlankIs
<1>5. Left(ts) \cap Below(ts) # {}
  BY <1>1, <1>3, <1>4, ProgLeft
<1>6. Usable
  BY <1>1, AnyUsable DEF Judges, ExprCaller
<1>7. QED
  BY <1>2, <1>5, <1>6, AheadIs

\* Nothing after a phrase.
LEMMA ThenNothing ==
    ASSUME NEW ts \in Seq(Tok), NEW p \in Forward(ts), NEW i \in Places(ts)
    PROVE  (p ** Nothing(ts))[i] = p[i]
<1>1. p \in Phrases(ts) /\ Nothing(ts) \in Phrases(ts)
  BY Advance
<1>2. (p ** Nothing(ts))[i] = UNION { Nothing(ts)[j] : j \in p[i] }
  BY <1>1, ThenIs
<1>3. p[i] \subseteq Places(ts)
  BY <1>1 DEF Phrases
<1>4. \A j \in p[i] : Nothing(ts)[j] = {j}
  BY <1>3, NothingIs
<1>5. QED
  BY <1>2, <1>4

\* A phrase that nothing may follow.
LEMMA ThenNone ==
    ASSUME NEW ts \in Seq(Tok), NEW p \in Forward(ts), NEW i \in Places(ts)
    PROVE  (p ** None(ts))[i] = {}
<1>1. p \in Phrases(ts) /\ None(ts) \in Phrases(ts)
  BY NoneIs, Advance
<1>2. (p ** None(ts))[i] = UNION { None(ts)[j] : j \in p[i] }
  BY <1>1, ThenIs
<1>3. p[i] \subseteq Places(ts)
  BY <1>1 DEF Phrases
<1>4. \A j \in p[i] : None(ts)[j] = {}
  BY <1>3, NoneIs
<1>5. QED
  BY <1>2, <1>4

\* parse_fn: the name.
LEMMA FnNameAgrees ==
    ASSUME IInv, NEW ts \in Seq(Tok), Completes(ts), FnName
    PROVE  Agrees(ts)
<1> DEFINE X == {"ident", "prim"}
<1>1. On("fn_name") /\ Expect(X, idx) /\ out = "running"
  BY DEF FnName, On
<1>2. /\ idx \in Places(ts) /\ idx + 1 \in Places(ts)
      /\ Look(ts, idx) = Peek /\ Peek # "ws" /\ Top.at = "fn_name"
  BY <1>1, OnIs DEF SkipsWhitespace
<1>3. Left(ts) = IF Peek \in X THEN FnLparenTail(ts)[idx + 1] ELSE {}
  <2>1. X \in Symbols /\ FnLparenTail(ts) \in Forward(ts)
    BY FnIs DEF Symbols, Tok
  <2>2. Left(ts) = (Sym(ts, X) ** FnLparenTail(ts))[idx]
    BY <1>2, RestFn DEF Left, Name
  <2> HIDE DEF X
  <2>3. QED
    BY <1>2, <2>1, <2>2, SymThen
<1>4. CASE Peek \in X
  <2> DEFINE frame == MakeFrame("fn_lparen", Len(nodes'), idx + 1)
  <2>1. /\ TopGoes(frame) /\ idx' = idx + 1 /\ frame.at = "fn_lparen"
    BY <1>4 DEF FnName, MakeFrame
  <2> HIDE DEF frame
  <2>2. "fn_lparen" \in Label \ Judges /\ Usable
    BY <1>2, AnyUsable DEF Label, Looking, SkipsWhitespace, Judges, ExprCaller
  <2>3. Rest(ts, Caller(stack, Len(stack)), frame.at)[idx'] = Left(ts)
    BY <1>3, <1>4, <2>1, RestFn
  <2>4. out' = "running" /\ errs' = errs
    BY <1>1, <1>4, ExpectAgrees
  <2>5. QED
    BY <1>2, <2>1, <2>2, <2>3, <2>4, GoesAgrees
<1>5. CASE Peek \notin X
  BY <1>1, <1>3, <1>5, ExpectAgrees
<1>6. QED
  BY <1>4, <1>5

\* A step that needs one symbol and goes on behind it.
LEMMA SymbolAgrees ==
    ASSUME IInv, NEW ts \in Seq(Tok), Completes(ts), NEW at, On(at),
           at \in SkipsWhitespace, at \notin Judges,
           NEW X \in Symbols, NEW q \in Forward(ts), NEW place, Expect(X, place),
           Rest(ts, Caller(stack, Len(stack)), at) = Sym(ts, X) ** q,
           NEW label \in Label \ Judges, Goto(label), idx' = idx + 1,
           Rest(ts, Caller(stack, Len(stack)), label) = q
    PROVE  Agrees(ts)
<1>1. /\ idx \in Places(ts) /\ idx + 1 \in Places(ts) /\ out = "running"
      /\ Look(ts, idx) = Peek /\ Peek # "ws" /\ Top.at = at
  BY OnIs
<1>2. Left(ts) = IF Peek \in X THEN q[idx + 1] ELSE {}
  BY <1>1, SymThen DEF Left
<1>3. CASE Peek \in X
  <2>1. out' = "running" /\ errs' = errs
    BY <1>1, <1>3, ExpectAgrees
  <2>2. Usable
    BY <1>1, AnyUsable
  <2>3. QED
    BY <1>1, <1>2, <1>3, <2>1, <2>2, GotoAgrees
<1>4. CASE Peek \notin X
  BY <1>1, <1>2, <1>4, ExpectAgrees
<1>5. QED
  BY <1>3, <1>4

\* parse_fn: the left parenthesis.
LEMMA FnLparenAgrees ==
    ASSUME IInv, NEW ts \in Seq(Tok), Completes(ts), FnLparen
    PROVE  Agrees(ts)
<1> DEFINE X == {"("}
<1>1. On("fn_lparen") /\ Expect(X, Top.tok) /\ Goto("fn_params") /\ idx' = idx + 1
  BY DEF FnLparen
<1>2. X \in Symbols /\ FnRparenTail(ts) \in Forward(ts)
  BY FnIs DEF Symbols, Tok
<1>3. \A c : /\ Rest(ts, c, "fn_lparen") = Sym(ts, X) ** FnRparenTail(ts)
             /\ Rest(ts, c, "fn_params") = FnRparenTail(ts)
  BY RestFn DEF FnLparenTail
<1>4. /\ "fn_lparen" \in SkipsWhitespace /\ "fn_lparen" \notin Judges
      /\ "fn_params" \in Label \ Judges
  BY DEF SkipsWhitespace, Judges, ExprCaller, Label, Looking
<1> HIDE DEF X
<1>5. QED
  BY <1>1, <1>2, <1>3, <1>4, SymbolAgrees

\* parse_fn: the right parenthesis.
LEMMA FnRparenAgrees ==
    ASSUME IInv, NEW ts \in Seq(Tok), Completes(ts), FnRparen
    PROVE  Agrees(ts)
<1> DEFINE X == {")"}
<1>1. On("fn_rparen") /\ Expect(X, idx) /\ Goto("fn_ret") /\ idx' = idx + 1
  BY DEF FnRparen
<1>2. X \in Symbols /\ FnRetTail(ts) \in Forward(ts)
  BY FnIs DEF Symbols, Tok
<1>3. \A c : /\ Rest(ts, c, "fn_rparen") = Sym(ts, X) ** FnRetTail(ts)
             /\ Rest(ts, c, "fn_ret") = FnRetTail(ts)
  BY RestFn DEF FnRparenTail
<1>4. /\ "fn_rparen" \in SkipsWhitespace /\ "fn_rparen" \notin Judges
      /\ "fn_ret" \in Label \ Judges
  BY DEF SkipsWhitespace, Judges, ExprCaller, Label, Looking
<1> HIDE DEF X
<1>5. QED
  BY <1>1, <1>2, <1>3, <1>4, SymbolAgrees

\* A step that only goes to another label, with as much left as before.
LEMMA StaysAgrees ==
    ASSUME IInv, NEW ts \in Seq(Tok), Completes(ts), Quiet, out = "running", idx' = idx,
           Usable, NEW label \in Label \ Judges, Goto(label),
           Rest(ts, Caller(stack, Len(stack)), label)[idx] = Left(ts)
    PROVE  Agrees(ts)
<1>1. out' = "running" /\ errs' = errs /\ idx \in Places(ts)
  BY PlaceIs DEF Quiet
<1>2. QED
  BY <1>1, GotoAgrees

\* parse_fn: no parameters.
LEMMA FnNoParamsAgrees ==
    ASSUME IInv, NEW ts \in Seq(Tok), Completes(ts), FnNoParams
    PROVE  Agrees(ts)
<1>1. /\ Quiet /\ out = "running" /\ idx' = idx /\ Goto("fn_rparen") /\ Top.at = "fn_params"
  BY DEF FnNoParams, On
<1>2. "fn_rparen" \in Label \ Judges /\ Usable
  BY <1>1, AnyUsable DEF Label, Looking, SkipsWhitespace, Judges, ExprCaller
<1>3. Rest(ts, Caller(stack, Len(stack)), "fn_rparen")[idx] = Left(ts)
  BY <1>1, RestFn DEF Left
<1>4. QED
  BY <1>1, <1>2, <1>3, StaysAgrees

\* parse_fn_param, which takes no token.
LEMMA FnParamAgrees ==
    ASSUME IInv, NEW ts \in Seq(Tok), Completes(ts), FnParam
    PROVE  Agrees(ts)
<1>1. /\ Quiet /\ out = "running" /\ idx' = idx /\ Goto("fn_comma")
      /\ (On("fn_params") /\ Peek # ")") \/ Top.at = "fn_param"
  BY DEF FnParam, On, Back
<1>2. /\ Top.at \in {"fn_params", "fn_param"} /\ idx \in Places(ts)
      /\ On("fn_params") => Look(ts, idx) = Peek /\ Peek # "ws"
  BY <1>1, OnIs, PlaceIs DEF SkipsWhitespace, On
<1>3. "fn_comma" \in Label \ Judges /\ Usable
  BY <1>2, AnyUsable DEF Label, Looking, SkipsWhitespace, Judges, ExprCaller
<1>4. None(ts)[idx] = {}
  BY <1>2, NoneIs
<1>5. Left(ts) = {}
  <2>1. CASE On("fn_params") /\ Peek # ")"
    <3>1. FnRparenTail(ts)[idx] = {}
      BY <1>2, <2>1, FnIs DEF Begin
    <3>2. QED
      BY <2>1, <3>1, RestFn DEF Left, On
  <2>2. CASE Top.at = "fn_param"
    BY <1>4, <2>2, RestFn DEF Left
  <2>3. QED
    BY <1>1, <2>1, <2>2
<1>6. Rest(ts, Caller(stack, Len(stack)), "fn_comma")[idx] = Left(ts)
  BY <1>4, <1>5, RestFn
<1>7. QED
  BY <1>1, <1>3, <1>6, StaysAgrees

\* parse_fn: the comma between parameters.
LEMMA FnCommaAgrees ==
    ASSUME IInv, NEW ts \in Seq(Tok), Completes(ts), FnComma
    PROVE  Agrees(ts)
<1> DEFINE label == IF Peek = "," THEN "fn_rparen" ELSE "fn_param"
<1>1. /\ On("fn_comma") /\ Quiet /\ idx' = idx /\ Goto(label)
  BY DEF FnComma
<1> HIDE DEF label
<1>2. /\ idx \in Places(ts) /\ Look(ts, idx) = Peek /\ Peek # "ws" /\ Top.at = "fn_comma"
      /\ out = "running"
  BY <1>1, OnIs DEF SkipsWhitespace
<1>3. {"fn_rparen", "fn_param"} \subseteq Label \ Judges /\ Usable
  BY <1>2, AnyUsable DEF Label, Looking, SkipsWhitespace, Judges, ExprCaller
<1>4. None(ts)[idx] = {}
  BY <1>2, NoneIs
<1>5. Left(ts) = {}
  BY <1>2, <1>4, RestFn DEF Left
<1>6. Peek = "," => FnRparenTail(ts)[idx] = {}
  BY <1>2, FnIs DEF Begin
<1>7. Rest(ts, Caller(stack, Len(stack)), label)[idx] = {}
  BY <1>4, <1>6, RestFn DEF label
<1>8. label \in Label \ Judges
  BY <1>3 DEF label
<1>9. QED
  BY <1>1, <1>2, <1>3, <1>5, <1>7, <1>8, StaysAgrees

\* parse_fn_ret: the arrow or none.
LEMMA FnRetAgrees ==
    ASSUME IInv, NEW ts \in Seq(Tok), Completes(ts), FnRet
    PROVE  Agrees(ts)
<1> DEFINE arrow == Glued(ts, {">"}) ** (TypeIn(ts) ** Body(ts))
           X == {"-"}
           p == Sym(ts, X) ** arrow
           label == IF Peek = "-" THEN "ret_arrow" ELSE "fn_body"
<1>1. /\ On("fn_ret") /\ errs' = errs /\ out' = out /\ Goto(label)
      /\ idx' = IF Peek = "-" THEN idx + 1 ELSE idx
  BY DEF FnRet, Quiet
<1>2. /\ idx \in Places(ts) /\ idx + 1 \in Places(ts) /\ out = "running"
      /\ Look(ts, idx) = Peek /\ Peek # "ws" /\ Top.at = "fn_ret"
  BY <1>1, OnIs DEF SkipsWhitespace
<1>3. X \in Symbols /\ arrow \in Forward(ts)
  BY FnIs DEF Symbols, Tok
<1>4. p[idx] = IF Peek = "-" THEN arrow[idx + 1] ELSE {}
  <2>1. p[idx] = IF Peek \in X THEN arrow[idx + 1] ELSE {}
    <3> HIDE DEF X, arrow
    <3>1. QED
      BY <1>2, <1>3, SymThen
  <2>2. QED
    BY <2>1
<1>5. Peek # "{" => Body(ts)[idx] = {}
  BY <1>2, BlockIs DEF Begin
<1>6. Left(ts) = Body(ts)[idx] \cup p[idx]
  <2>1. Left(ts) = (Body(ts) ++ p)[idx]
    BY <1>2, RestFn, FnIs DEF Left
  <2>2. Body(ts) \in Phrases(ts) /\ p \in Phrases(ts)
    <3>1. p \in Forward(ts)
      <4> HIDE DEF X, arrow
      <4>1. QED
        BY <1>3, SymThen
    <3>2. QED
      BY <3>1, BlockIs, Advance
  <2> HIDE DEF p
  <2>3. QED
    BY <1>2, <2>1, <2>2, EitherIs
<1>7. Rest(ts, Caller(stack, Len(stack)), label)[idx'] = Left(ts)
  <2>1. Rest(ts, Caller(stack, Len(stack)), "ret_arrow") = arrow
        /\ Rest(ts, Caller(stack, Len(stack)), "fn_body") = Body(ts)
    BY RestFn
  <2> HIDE DEF arrow, p
  <2>2. QED
    BY <1>1, <1>4, <1>5, <1>6, <2>1
<1>8. label \in Label \ Judges /\ Usable
  BY <1>2, AnyUsable DEF Label, Looking, SkipsWhitespace, Judges, ExprCaller
<1> HIDE DEF label
<1>9. idx' \in Places(ts)
  BY <1>1, <1>2
<1>10. QED
  BY <1>1, <1>2, <1>7, <1>8, <1>9, GotoAgrees

\* parse_fn_ret: the second half of the arrow.
LEMMA FnRetArrowAgrees ==
    ASSUME IInv, NEW ts \in Seq(Tok), Completes(ts), FnRetArrow
    PROVE  Agrees(ts)
<1> DEFINE p == TypeIn(ts) ** Body(ts)
           X == {">"}
<1>1. /\ On("ret_arrow") /\ Expect(X, idx - 1) /\ idx' = idx + 1
      /\ Call("fn_ret_type", "type") /\ out = "running"
  BY DEF FnRetArrow, On
<1>2. /\ idx \in Places(ts) /\ idx + 1 \in Places(ts)
      /\ Look(ts, idx) = Peek /\ Top.at = "ret_arrow"
  BY <1>1, OnIs
<1>3. Left(ts) = IF Peek \in X THEN p[idx + 1] ELSE {}
  <2>1. Left(ts) = (Glued(ts, X) ** p)[idx]
    BY <1>2, RestFn DEF Left
  <2>2. X \in Symbols /\ p \in Forward(ts)
    BY FnIs DEF Symbols, Tok
  <2> HIDE DEF X, p
  <2>3. QED
    BY <1>2, <2>1, <2>2, GluedThen
<1>4. CASE Peek \in X
  <2>1. Rest(ts, "fn_ret_type", "type") ** Rest(ts, Caller(stack, Len(stack)), "fn_ret_type")
          = p
    BY RestFn, RestExpr
  <2>2. "fn_ret_type" \in Label /\ "type" \in Label \ Judges /\ Usable
    BY <1>2, AnyUsable DEF Label, Looking, SkipsWhitespace, Waiting, WaitsForNode,
                           Judges, ExprCaller
  <2>3. out' = "running" /\ errs' = errs
    BY <1>1, <1>4, ExpectAgrees
  <2> HIDE DEF p
  <2>4. QED
    BY <1>1, <1>2, <1>3, <1>4, <2>1, <2>2, <2>3, CallAgrees
<1>5. CASE Peek \notin X
  BY <1>1, <1>3, <1>5, ExpectAgrees
<1>6. QED
  BY <1>4, <1>5

\* parse_fn_ret: the type is parsed.
LEMMA FnRetTypeAgrees ==
    ASSUME IInv, NEW ts \in Seq(Tok), Completes(ts), FnRetType
    PROVE  Agrees(ts)
<1>1. /\ Quiet /\ out = "running" /\ idx' = idx /\ Goto("fn_body") /\ Top.at = "fn_ret_type"
  BY DEF FnRetType, Back
<1>2. "fn_body" \in Label \ Judges /\ Usable
  BY <1>1, AnyUsable DEF Label, Looking, SkipsWhitespace, Judges, ExprCaller
<1>3. Rest(ts, Caller(stack, Len(stack)), "fn_body")[idx] = Left(ts)
  BY <1>1, RestFn DEF Left
<1>4. QED
  BY <1>1, <1>2, <1>3, StaysAgrees

\* parse_fn: the body begins.
LEMMA FnBodyAgrees ==
    ASSUME IInv, NEW ts \in Seq(Tok), Completes(ts), FnBody
    PROVE  Agrees(ts)
<1> DEFINE X == {"{"}
<1>1. /\ On("fn_body") /\ Expect(X, idx) /\ Call("fn_end", "block") /\ idx' = idx
      /\ out = "running"
  BY DEF FnBody, On
<1>2. /\ idx \in Places(ts) /\ idx + 1 \in Places(ts)
      /\ Look(ts, idx) = Peek /\ Peek # "ws" /\ Top.at = "fn_body"
  BY <1>1, OnIs DEF SkipsWhitespace
<1>3. X \in Symbols /\ BlockTail(ts) \in Forward(ts)
  BY BlockIs DEF Symbols, Tok
<1>4. Left(ts) = IF Peek \in X THEN BlockTail(ts)[idx + 1] ELSE {}
  <2>1. Left(ts) = (Sym(ts, X) ** BlockTail(ts))[idx]
    BY <1>2, RestFn, BlockIs DEF Left
  <2> HIDE DEF X
  <2>2. QED
    BY <1>2, <1>3, <2>1, SymThen
<1>5. CASE Peek \in X
  <2> DEFINE p == Glued(ts, X) ** BlockTail(ts)
  <2>1. Rest(ts, "fn_end", "block") = p
        /\ Rest(ts, Caller(stack, Len(stack)), "fn_end") = Nothing(ts)
    BY RestFn, RestStmt DEF ExprCaller
  <2>2. "fn_end" \in Label /\ "block" \in Label \ Judges /\ Usable
    BY <1>2, AnyUsable DEF Label, Looking, SkipsWhitespace, Waiting, WaitsForNode,
                           Judges, ExprCaller
  <2>3. out' = "running" /\ errs' = errs
    BY <1>1, <1>5, ExpectAgrees
  <2>4. p[idx] = Left(ts) /\ p \in Forward(ts)
    <3> HIDE DEF X
    <3>1. QED
      BY <1>2, <1>3, <1>4, <1>5, GluedThen
  <2> HIDE DEF p
  <2>5. (p ** Nothing(ts))[idx] = p[idx]
    BY <1>2, <2>4, ThenNothing
  <2>6. QED
    BY <1>1, <1>2, <2>1, <2>2, <2>3, <2>4, <2>5, CallAgrees
<1>6. CASE Peek \notin X
  BY <1>1, <1>4, <1>6, ExpectAgrees
<1>7. QED
  BY <1>5, <1>6

\* parse_fn: the body is parsed.
LEMMA FnEndAgrees ==
    ASSUME IInv, NEW ts \in Seq(Tok), Completes(ts), FnEnd
    PROVE  Agrees(ts)
<1>1. /\ Top.at = "fn_end" /\ Pops /\ idx' = idx /\ out' = "running" /\ errs' = errs
  BY DEF FnEnd, Back, Return, Pops, Quiet
<1>2. idx \in Places(ts) /\ Left(ts) = {idx}
  BY <1>1, PlaceIs, RestFn, NothingIs DEF Left
<1>3. Usable /\ Usable'
  <2>1. Top'.at = "prog_fn"
    BY <1>1, PoppedStack, WhoCalls DEF IInv, FnAt
  <2>2. QED
    BY <1>1, <2>1, AnyUsable DEF Judges, ExprCaller
<1>4. QED
  BY <1>1, <1>2, <1>3, ReturnsAgrees
-----------------------------------------------------------------------------
(***************************************************************************)
(* parse_block and parse_stmt                                              *)
(***************************************************************************)

\* The caller of the running function.
LEMMA TopCaller ==
    ASSUME IInv
    PROVE  /\ Top.at \in Label
           /\ Top.at \notin {"prog", "prog_fn"} => Calls(Caller(stack, Len(stack)), Top.at)
<1>1. Len(stack) \in 1 .. Len(stack) /\ Top = stack[Len(stack)]
  BY DEF IInv, Frames, Top
<1>2. QED
  BY <1>1, CallerIs

\* A function that returns does so to its caller.
LEMMA ReturnsTo ==
    ASSUME IInv, Pops, Top.at \notin {"prog", "prog_fn"}
    PROVE  Top'.at = Caller(stack, Len(stack))
<1>1. Len(stack) >= 2 /\ Len(stack) \in Nat /\ Top' = stack[Len(stack) - 1]
  BY PoppedStack DEF IInv
<1>2. \A n \in Nat : n >= 2 => n # 1
  OBVIOUS
<1>3. Len(stack) # 1
  BY <1>1, <1>2
<1>4. Caller(stack, Len(stack)) = stack[Len(stack) - 1].at
  BY <1>3, Zenon DEF Caller
<1>5. QED
  BY <1>1, <1>4

\* parse_block: the left brace.
LEMMA BlockAgrees ==
    ASSUME IInv, NEW ts \in Seq(Tok), Completes(ts), Block
    PROVE  Agrees(ts)
<1> DEFINE X == {"{"}
           c == Caller(stack, Len(stack))
<1>1. On("block") /\ out = "running"
  BY DEF Block, On
<1>2. /\ idx \in Places(ts) /\ idx + 1 \in Places(ts)
      /\ Look(ts, idx) = Peek /\ Top.at = "block"
  BY <1>1, OnIs
<1>3. (Glued(ts, X) ** BlockTail(ts))[idx] = IF Peek \in X THEN BlockTail(ts)[idx + 1] ELSE {}
  <2>1. X \in Symbols /\ BlockTail(ts) \in Forward(ts)
    BY BlockIs DEF Symbols, Tok
  <2> HIDE DEF X
  <2>2. QED
    BY <1>2, <2>1, GluedThen
<1>4. None(ts)[idx] = {} /\ None(ts)[idx + 1] = {}
  BY <1>2, NoneIs
<1>5. Left(ts) = IF c \in ExprCaller THEN {} ELSE (Glued(ts, X) ** BlockTail(ts))[idx]
  BY <1>2, <1>4, RestStmt DEF Left, BlockAt
<1>6. CASE Peek = "{"
  <2> DEFINE frame == MakeFrame("block_loop", Len(nodes'), 0)
  <2>1. /\ TopGoes(frame) /\ idx' = idx + 1 /\ frame.at = "block_loop"
        /\ out' = "running" /\ errs' = errs
    BY <1>1, <1>6 DEF Block, MakeFrame, Quiet
  <2> HIDE DEF frame
  <2>2. "block_loop" \in Label \ Judges /\ Usable
    BY <1>2, AnyUsable DEF Label, Looking, SkipsWhitespace, Judges, ExprCaller
  <2>3. Rest(ts, c, "block_loop") = IF c \in ExprCaller THEN None(ts) ELSE BlockTail(ts)
    BY RestStmt DEF BlockAt
  <2>4. Rest(ts, c, frame.at)[idx'] = Left(ts)
    BY <1>3, <1>4, <1>5, <1>6, <2>1, <2>3
  <2> HIDE DEF c
  <2>5. QED
    BY <1>2, <2>1, <2>2, <2>4, GoesAgrees DEF c
<1>7. CASE Peek # "{"
  <2>1. Left(ts) = {}
    BY <1>3, <1>5, <1>7
  <2>2. QED
    BY <1>7, <2>1, StuckIs DEF Block, Panic, Agrees
<1>8. QED
  BY <1>6, <1>7

\* parse_block: a statement begins.
LEMMA BlockStmtAgrees ==
    ASSUME IInv, NEW ts \in Seq(Tok), Completes(ts), BlockStmt
    PROVE  Agrees(ts)
<1> DEFINE c == Caller(stack, Len(stack))
           frame == MakeFrame("block_stmt", Top.node, idx)
           stmt == MakeFrame("stmt", 0, 0)
           p == Stmt(ts) ** BlockTail(ts)
           q == Stmt(ts) ** None(ts)
<1>1. /\ On("block_loop") /\ Peek # "}" /\ idx' = idx
      /\ out' = out /\ errs' = errs
      /\ stack' = Append([stack EXCEPT ![Len(stack)] = frame], stmt)
  BY DEF BlockStmt, Quiet
<1>2. frame.at = "block_stmt" /\ stmt.at = "stmt"
  BY DEF MakeFrame
<1>3. Pushes(frame, << stmt >>)
  <2> DEFINE S == Frame \cup {frame, stmt}
  <2> HIDE DEF frame, stmt
  <2>1. stack \in Seq(S) /\ Len(stack) \in 1 .. Len(stack)
    BY DEF IInv, Frames
  <2>2. [stack EXCEPT ![Len(stack)] = frame] \in Seq(S)
    BY <2>1
  <2>3. stack' = Append([stack EXCEPT ![Len(stack)] = frame], stmt)
    BY <1>1
  <2>4. QED
    BY <2>2, <2>3 DEF Pushes
<1> HIDE DEF frame, stmt
<1>4. /\ idx \in Places(ts) /\ out = "running"
      /\ Look(ts, idx) = Peek /\ Peek # "ws" /\ Top.at = "block_loop"
  BY <1>1, OnIs DEF SkipsWhitespace
<1>5. BlockTail(ts)[idx] = p[idx]
  <2> DEFINE end == Sym(ts, {"}"})
  <2>1. {"}"} \in Symbols /\ Stmt(ts) \in Forward(ts) /\ BlockTail(ts) \in Forward(ts)
    BY BlockIs DEF Symbols, Tok
  <2>2. end[idx] = {}
    BY <1>1, <1>4, <2>1, SymIs
  <2>3. end \in Phrases(ts) /\ p \in Phrases(ts)
    BY <2>1, SymIs, Advance
  <2>4. BlockTail(ts) = end ++ p
    BY BlockIs
  <2> HIDE DEF p, end, c, q
  <2>5. (end ++ p)[idx] = end[idx] \cup p[idx]
    BY <1>4, <2>3, EitherIs
  <2>6. QED
    BY <2>2, <2>4, <2>5
<1>6. q[idx] = {} /\ None(ts)[idx] = {}
  <2>1. Stmt(ts) \in Forward(ts)
    BY BlockIs
  <2>2. QED
    BY <1>4, <2>1, ThenNone, NoneIs
<1>7. /\ Rest(ts, "block_stmt", "stmt") = Stmt(ts)
      /\ \A at \in {"block_loop", "block_stmt"} :
            Rest(ts, c, at) = IF c \in ExprCaller THEN None(ts) ELSE BlockTail(ts)
  BY RestStmt DEF BlockAt
<1>8. Left(ts) = Rest(ts, c, "block_loop")[idx]
  BY <1>4 DEF Left
<1> HIDE DEF c
<1>9. (Rest(ts, "block_stmt", "stmt") ** Rest(ts, c, "block_stmt"))[idx] = Left(ts)
  <2>1. CASE c \in ExprCaller
    BY <1>6, <1>7, <1>8, <2>1
  <2>2. CASE c \notin ExprCaller
    BY <1>5, <1>7, <1>8, <2>2
  <2>3. QED
    BY <2>1, <2>2
<1>10. "block_stmt" \in Label /\ "stmt" \in Label \ Judges /\ Usable
  BY <1>4, AnyUsable DEF Label, Looking, SkipsWhitespace, Waiting, WaitsForNode, Judges,
                         ExprCaller
<1> HIDE DEF p, q
<1>11. QED
  BY <1>1, <1>2, <1>3, <1>4, <1>9, <1>10, CallsAgrees DEF c

\* parse_block: a statement is parsed, or none was.
LEMMA BlockStmtDoneAgrees ==
    ASSUME IInv, NEW ts \in Seq(Tok), Completes(ts), BlockStmtDone
    PROVE  Agrees(ts)
<1>1. out = "running" /\ Top.at = "block_stmt"
  BY DEF BlockStmtDone, Back
<1>2. ~ (Top.tok = idx \/ ~ AstIsStmt(val))
  <2>1. StatementsAdvance
    BY IInvAdvance
  <2>2. idx \in Nat
    BY DEF IInv, TokensTyped
  <2>3. QED
    BY <1>1, <2>1, <2>2 DEF StatementsAdvance
<1>3. Quiet /\ idx' = idx /\ Goto("block_loop")
  BY <1>2 DEF BlockStmtDone
<1>4. "block_loop" \in Label \ Judges /\ Usable
  BY <1>1, AnyUsable DEF Label, Looking, SkipsWhitespace, Judges, ExprCaller
<1>5. Rest(ts, Caller(stack, Len(stack)), "block_loop")[idx] = Left(ts)
  BY <1>1, RestStmt DEF Left, BlockAt
<1>6. QED
  BY <1>1, <1>3, <1>4, <1>5, StaysAgrees

\* parse_block: the right brace in place of a statement.
LEMMA BlockLoopEndAgrees ==
    ASSUME IInv, NEW ts \in Seq(Tok), Completes(ts), BlockLoopEnd
    PROVE  Agrees(ts)
<1>1. On("block_loop") /\ Peek = "}" /\ Quiet /\ idx' = idx /\ Goto("block_end")
  BY DEF BlockLoopEnd
<1>2. /\ idx \in Places(ts) /\ out = "running"
      /\ Look(ts, idx) = Peek /\ Peek # "ws" /\ Top.at = "block_loop"
  BY <1>1, OnIs DEF SkipsWhitespace
<1>3. BlockTail(ts)[idx] = Sym(ts, {"}"})[idx]
  <2> DEFINE p == Stmt(ts) ** BlockTail(ts)
             end == Sym(ts, {"}"})
  <2>1. {"}"} \in Symbols /\ {"let", "ret"} \in Symbols
    BY DEF Symbols, Tok
  <2>2. end \in Phrases(ts)
    BY <2>1, SymIs, Advance
  <2>3. p \in Begin(ts, {"let", "ret"}) /\ p \in Phrases(ts)
    <3>1. Stmt(ts) \in Begin(ts, {"let", "ret"}) /\ BlockTail(ts) \in Forward(ts)
          /\ Stmt(ts) \in Forward(ts)
      BY BlockIs
    <3>2. QED
      BY <2>1, <3>1, ThenBegin, Advance
  <2>4. BlockTail(ts) = end ++ p
    BY BlockIs
  <2> HIDE DEF p, end
  <2>5. p[idx] = {}
    BY <1>1, <1>2, <2>3 DEF Begin
  <2>6. (end ++ p)[idx] = end[idx] \cup p[idx]
    BY <1>2, <2>2, <2>3, EitherIs
  <2>7. QED
    BY <2>4, <2>5, <2>6 DEF end
<1>4. Rest(ts, Caller(stack, Len(stack)), "block_end")[idx] = Left(ts)
  BY <1>2, <1>3, RestStmt DEF Left, BlockAt
<1>5. "block_end" \in Label \ Judges /\ Usable
  BY <1>2, AnyUsable DEF Label, Looking, SkipsWhitespace, Judges, ExprCaller
<1>6. QED
  BY <1>1, <1>2, <1>4, <1>5, StaysAgrees

\* A step that needs one symbol and returns behind it.
LEMMA SymbolReturns ==
    ASSUME IInv, NEW ts \in Seq(Tok), Completes(ts), NEW at, On(at),
           at \in SkipsWhitespace, at \notin Judges \cup {"prog", "prog_fn"},
           NEW X \in Symbols, NEW place, Expect(X, place),
           Rest(ts, Caller(stack, Len(stack)), at) = Sym(ts, X), Pops, Usable',
           idx' = idx + 1
    PROVE  Agrees(ts)
<1>1. /\ idx \in Places(ts) /\ idx + 1 \in Places(ts) /\ out = "running"
      /\ Look(ts, idx) = Peek /\ Peek # "ws" /\ Top.at = at
  BY OnIs
<1>2. Left(ts) = IF Peek \in X THEN {idx + 1} ELSE {}
  BY <1>1, SymIs DEF Left
<1>3. CASE Peek \in X
  <2>1. out' = "running" /\ errs' = errs
    BY <1>1, <1>3, ExpectAgrees
  <2>2. Usable
    BY <1>1, AnyUsable
  <2>3. QED
    BY <1>1, <1>2, <1>3, <2>1, <2>2, ReturnsAgrees
<1>4. CASE Peek \notin X
  BY <1>1, <1>2, <1>4, ExpectAgrees
<1>5. QED
  BY <1>3, <1>4

\* parse_block: the right brace.
LEMMA BlockEndAgrees ==
    ASSUME IInv, NEW ts \in Seq(Tok), Completes(ts), BlockEnd
    PROVE  Agrees(ts)
<1> DEFINE X == {"}"}
           c == Caller(stack, Len(stack))
<1>1. /\ On("block_end") /\ Expect(X, idx) /\ idx' = idx + 1 /\ Return(Top.node)
      /\ nodes' = nodes /\ out = "running" /\ Pops
  BY DEF BlockEnd, Heap, On, Return, Pops
<1>2. Top.at = "block_end" /\ "block_end" \in BlockAt
  BY <1>1 DEF On, BlockAt
<1>3. Calls(c, "block_end") /\ Calls(Top'.at, "block_end")
  BY <1>1, <1>2, TopCaller, PoppedStack DEF IInv
<1>4. Top'.at = c
  BY <1>1, <1>2, ReturnsTo
<1>5. CASE c \in ExprCaller
  <2>1. Left(ts) = {}
    <3>1. Rest(ts, c, "block_end") = None(ts)
      BY <1>2, <1>5, RestStmt
    <3>2. Left(ts) = None(ts)[idx]
      BY <1>2, <3>1 DEF Left
    <3>3. QED
      BY <3>2, PlaceIs, NoneIs
  <2>2. CASE Peek \in X
    <3>1. out' = "running" /\ errs' = errs
      BY <1>1, <2>2, ExpectAgrees
    <3>2. KindOf(Top.node) = "block"
      BY <1>2, TopHolds DEF Holds, FnAt, BlockAt, LetAt, TypeAt, AuxAt
    <3>3. KindOf(val)' = "block"
      BY <1>1, <3>2 DEF KindOf, Return
    <3>4. ~ Usable'
      BY <1>4, <1>5, <3>3 DEF Usable, AstIsExpr
    <3>5. ~ Ahead(ts)
      BY <2>1, StuckIs
    <3>6. QED
      BY <3>1, <3>4, <3>5, LostAgrees
  <2>3. CASE Peek \notin X
    BY <1>1, <2>1, <2>3, ExpectAgrees
  <2>4. QED
    BY <2>2, <2>3
<1>6. CASE c \notin ExprCaller
  <2>1. c = "fn_end"
    BY <1>2, <1>3, <1>6, WhoCalls
  <2>2. Usable'
    BY <1>4, <2>1, AnyUsable DEF Judges, ExprCaller
  <2>3. X \in Symbols /\ Rest(ts, c, "block_end") = Sym(ts, X)
    BY <1>6, RestStmt DEF Symbols, Tok
  <2>4. "block_end" \in SkipsWhitespace /\ "block_end" \notin Judges \cup {"prog", "prog_fn"}
    BY DEF SkipsWhitespace, Judges, ExprCaller
  <2> HIDE DEF X
  <2>5. QED
    BY <1>1, <2>2, <2>3, <2>4, SymbolReturns
<1>7. QED
  BY <1>5, <1>6

\* A function gives up where it cannot go on.
LEMMA PanicAgrees ==
    ASSUME IInv, NEW ts \in Seq(Tok), Completes(ts), Panic,
           Left(ts) \cap Below(ts) = {} \/ ~ Usable
    PROVE  Agrees(ts)
<1>1. ~ Ahead(ts)
  BY StuckIs
<1>2. QED
  BY <1>1 DEF Agrees, Panic

\* What a statement is, by its first token.
LEMMA StmtIs ==
    ASSUME NEW ts \in Seq(Tok), NEW i \in Places(ts), Look(ts, i) # "ws"
    PROVE  /\ Look(ts, i) = "let" => Stmt(ts)[i] = (Name(ts) ** LetColonTail(ts))[i + 1]
           /\ Look(ts, i) = "ret" => Stmt(ts)[i] = (Expr(ts) ** Sym(ts, {";"}))[i + 1]
           /\ Look(ts, i) \notin {"let", "ret"} => Stmt(ts)[i] = {}
<1> DEFINE X == {"let"}
           Y == {"ret"}
           p == Name(ts) ** LetColonTail(ts)
           q == Expr(ts) ** Sym(ts, {";"})
           let == Let(ts)
           ret == Ret(ts)
<1>1. X \in Symbols /\ Y \in Symbols
  BY DEF Symbols, Tok
<1>2. p \in Forward(ts) /\ q \in Forward(ts)
  BY LetIs, BlockIs
<1>3. let = Sym(ts, X) ** p /\ ret = Sym(ts, Y) ** q
  BY LetIs, BlockIs
<1>4. let \in Phrases(ts) /\ ret \in Phrases(ts)
  BY LetIs, BlockIs, Advance
<1>5. Stmt(ts) = let ++ ret
  BY DEF Stmt
<1> HIDE DEF X, Y, p, q, let, ret
<1>6. Stmt(ts)[i] = let[i] \cup ret[i]
  BY <1>4, <1>5, EitherIs
<1>7. let[i] = IF Look(ts, i) \in X THEN p[i + 1] ELSE {}
  BY <1>1, <1>2, <1>3, SymThen
<1>8. ret[i] = IF Look(ts, i) \in Y THEN q[i + 1] ELSE {}
  BY <1>1, <1>2, <1>3, SymThen
<1>9. QED
  BY <1>6, <1>7, <1>8 DEF X, Y, p, q

\* How a let-statement may end, by the next token.
LEMMA LetEndsIs ==
    ASSUME NEW ts \in Seq(Tok), NEW i \in Places(ts), Look(ts, i) # "ws"
    PROVE  /\ Look(ts, i) = ";" => LetEnds(ts)[i] = {i + 1}
           /\ Look(ts, i) = "=" => LetEnds(ts)[i] = Expr(ts)[i + 1]
           /\ Look(ts, i) \notin {";", "="} => LetEnds(ts)[i] = {}
<1> DEFINE X == {";"}
           Y == {"="}
           p == Sym(ts, X)
           q == Sym(ts, Y) ** Expr(ts)
<1>1. X \in Symbols /\ Y \in Symbols
  BY DEF Symbols, Tok
<1>2. Expr(ts) \in Forward(ts)
  BY ExprIs, Advance
<1>3. LetEnds(ts) = p ++ q
  BY DEF LetEnds
<1> HIDE DEF X, Y
<1>4. p \in Phrases(ts) /\ q \in Phrases(ts)
  BY <1>1, <1>2, SymIs, SymThen, Advance
<1>5. p[i] = IF Look(ts, i) \in X THEN {i + 1} ELSE {}
  BY <1>1, SymIs
<1>6. q[i] = IF Look(ts, i) \in Y THEN Expr(ts)[i + 1] ELSE {}
  BY <1>1, <1>2, SymThen
<1> HIDE DEF p, q
<1>7. LetEnds(ts)[i] = p[i] \cup q[i]
  BY <1>3, <1>4, EitherIs
<1>8. QED
  BY <1>5, <1>6, <1>7 DEF X, Y

\* parse_block can use whatever statement it is given.
LEMMA StmtReturns ==
    ASSUME IInv, Pops, Top.at \in StmtAt
    PROVE  Usable' /\ Top.at \notin {"prog", "prog_fn"}
<1>1. Top.at \notin {"prog", "prog_fn"}
  BY DEF StmtAt, LetAt
<1>2. Top'.at = "block_stmt"
  BY <1>1, PoppedStack, WhoCalls DEF IInv
<1>3. QED
  BY <1>1, <1>2, AnyUsable DEF Judges, ExprCaller

\* parse_stmt: a let-statement.
LEMMA StmtLetAgrees ==
    ASSUME IInv, NEW ts \in Seq(Tok), Completes(ts), StmtLet
    PROVE  Agrees(ts)
<1> DEFINE frame == MakeFrame("let_name", Len(nodes'), 0)
<1>1. /\ On("stmt") /\ Peek = "let" /\ TopGoes(frame) /\ idx' = idx + 1
      /\ frame.at = "let_name" /\ errs' = errs /\ out' = out
  BY DEF StmtLet, MakeFrame, Quiet
<1> HIDE DEF frame
<1>2. /\ idx \in Places(ts) /\ idx + 1 \in Places(ts) /\ out = "running"
      /\ Look(ts, idx) = Peek /\ Peek # "ws" /\ Top.at = "stmt"
  BY <1>1, OnIs DEF SkipsWhitespace
<1>3. Stmt(ts)[idx] = (Name(ts) ** LetColonTail(ts))[idx + 1]
  BY <1>1, <1>2, StmtIs
<1>4. Rest(ts, Caller(stack, Len(stack)), frame.at)[idx'] = Left(ts)
  BY <1>1, <1>2, <1>3, RestStmt DEF Left
<1>5. "let_name" \in Label \ Judges /\ Usable
  BY <1>2, AnyUsable DEF Label, Looking, SkipsWhitespace, Judges, ExprCaller
<1>6. QED
  BY <1>1, <1>2, <1>4, <1>5, GoesAgrees

\* parse_stmt: the name.
LEMMA LetNameAgrees ==
    ASSUME IInv, NEW ts \in Seq(Tok), Completes(ts), LetName
    PROVE  Agrees(ts)
<1> DEFINE X == {"ident", "prim"}
<1>1. On("let_name") /\ Expect(X, idx) /\ Goto("let_colon") /\ idx' = idx + 1
  BY DEF LetName
<1>2. X \in Symbols /\ LetColonTail(ts) \in Forward(ts)
  BY LetIs DEF Symbols, Tok
<1>3. \A c : /\ Rest(ts, c, "let_name") = Sym(ts, X) ** LetColonTail(ts)
             /\ Rest(ts, c, "let_colon") = LetColonTail(ts)
  BY RestStmt DEF Name
<1>4. /\ "let_name" \in SkipsWhitespace /\ "let_name" \notin Judges
      /\ "let_colon" \in Label \ Judges
  BY DEF SkipsWhitespace, Judges, ExprCaller, Label, Looking
<1> HIDE DEF X
<1>5. QED
  BY <1>1, <1>2, <1>3, <1>4, SymbolAgrees

\* parse_stmt: the colon before a type or none.
LEMMA LetColonAgrees ==
    ASSUME IInv, NEW ts \in Seq(Tok), Completes(ts), LetColon
    PROVE  Agrees(ts)
<1> DEFINE X == {":"}
           q == TypeIn(ts) ** LetEnds(ts)
           p == Sym(ts, X) ** q
           c == Caller(stack, Len(stack))
<1>1. /\ On("let_colon") /\ Quiet
      /\ Peek = ":" => idx' = idx + 1 /\ Call("let_type", "type")
      /\ Peek # ":" => idx' = idx /\ Goto("let_semi")
  BY DEF LetColon
<1>2. /\ idx \in Places(ts) /\ idx + 1 \in Places(ts) /\ out = "running"
      /\ Look(ts, idx) = Peek /\ Peek # "ws" /\ Top.at = "let_colon"
  BY <1>1, OnIs DEF SkipsWhitespace
<1>3. X \in Symbols /\ q \in Forward(ts)
  BY LetIs DEF Symbols, Tok
<1>4. p[idx] = IF Peek \in X THEN q[idx + 1] ELSE {}
  <2> HIDE DEF X, q
  <2>1. QED
    BY <1>2, <1>3, SymThen
<1>5. Left(ts) = LetEnds(ts)[idx] \cup p[idx]
  <2>1. Left(ts) = (LetEnds(ts) ++ p)[idx]
    BY <1>2, RestStmt, LetIs DEF Left
  <2>2. p \in Phrases(ts)
    <3> HIDE DEF X, q
    <3>1. QED
      BY <1>3, SymThen, Advance
  <2>3. LetEnds(ts) \in Phrases(ts)
    BY LetIs, Advance
  <2> HIDE DEF p
  <2>4. QED
    BY <1>2, <2>1, <2>2, <2>3, EitherIs
<1>6. Rest(ts, "let_type", "type") ** Rest(ts, c, "let_type") = q
      /\ Rest(ts, c, "let_semi") = LetEnds(ts)
  BY RestStmt, RestExpr
<1>7. /\ "let_type" \in Label /\ "type" \in Label \ Judges
      /\ "let_semi" \in Label \ Judges /\ Usable
  BY <1>2, AnyUsable DEF Label, Looking, SkipsWhitespace, Waiting, WaitsForNode,
                         Judges, ExprCaller
<1>8. CASE Peek = ":"
  <2>1. LetEnds(ts)[idx] = {}
    BY <1>2, <1>8, LetEndsIs
  <2>2. p[idx] = q[idx + 1]
    BY <1>4, <1>8
  <2> HIDE DEF p, q, c
  <2>3. Left(ts) = q[idx + 1]
    BY <1>5, <2>1, <2>2
  <2>4. QED
    BY <1>1, <1>2, <1>6, <1>7, <1>8, <2>3, CallAgrees DEF Quiet, c
<1>9. CASE Peek # ":"
  <2>1. p[idx] = {}
    BY <1>4, <1>9
  <2> HIDE DEF p, q, c
  <2>2. Left(ts) = LetEnds(ts)[idx]
    BY <1>5, <2>1
  <2>3. QED
    BY <1>1, <1>2, <1>6, <1>7, <1>9, <2>2, StaysAgrees DEF c
<1>10. QED
  BY <1>8, <1>9

\* parse_stmt: the type is parsed.
LEMMA LetTypeAgrees ==
    ASSUME IInv, NEW ts \in Seq(Tok), Completes(ts), LetType
    PROVE  Agrees(ts)
<1>1. /\ Quiet /\ out = "running" /\ idx' = idx /\ Goto("let_semi") /\ Top.at = "let_type"
  BY DEF LetType, Back
<1>2. "let_semi" \in Label \ Judges /\ Usable
  BY <1>1, AnyUsable DEF Label, Looking, SkipsWhitespace, Judges, ExprCaller
<1>3. Rest(ts, Caller(stack, Len(stack)), "let_semi")[idx] = Left(ts)
  BY <1>1, RestStmt DEF Left
<1>4. QED
  BY <1>1, <1>2, <1>3, StaysAgrees

\* parse_stmt: the semicolon of a let-statement without a value.
LEMMA LetEndAgrees ==
    ASSUME IInv, NEW ts \in Seq(Tok), Completes(ts), LetEnd
    PROVE  Agrees(ts)
<1>1. /\ On("let_semi") /\ Peek = ";" /\ Pops /\ idx' = idx + 1
      /\ out' = out /\ errs' = errs
  BY DEF LetEnd, Return, Pops, Quiet
<1>2. /\ idx \in Places(ts) /\ idx + 1 \in Places(ts) /\ out = "running"
      /\ Look(ts, idx) = Peek /\ Peek # "ws" /\ Top.at = "let_semi"
  BY <1>1, OnIs DEF SkipsWhitespace
<1>3. Left(ts) = {idx + 1}
  <2>1. LetEnds(ts)[idx] = {idx + 1}
    BY <1>1, <1>2, LetEndsIs
  <2>2. Left(ts) = LetEnds(ts)[idx]
    BY <1>2, RestStmt DEF Left
  <2>3. QED
    BY <2>1, <2>2
<1>4. Usable /\ Usable' /\ Top.at \notin {"prog", "prog_fn"}
  BY <1>1, <1>2, AnyUsable, StmtReturns DEF Judges, ExprCaller, StmtAt, LetAt
<1>5. QED
  BY <1>1, <1>2, <1>3, <1>4, ReturnsAgrees

\* parse_stmt: the equals sign.
LEMMA LetAssignAgrees ==
    ASSUME IInv, NEW ts \in Seq(Tok), Completes(ts), LetAssign
    PROVE  Agrees(ts)
<1> DEFINE X == {"="}
           c == Caller(stack, Len(stack))
<1>1. /\ On("let_semi") /\ Peek # ";" /\ Expect(X, idx) /\ idx' = idx + 1
      /\ Call("let_expr", "expr")
  BY DEF LetAssign
<1>2. /\ idx \in Places(ts) /\ idx + 1 \in Places(ts) /\ out = "running"
      /\ Look(ts, idx) = Peek /\ Peek # "ws" /\ Top.at = "let_semi"
  BY <1>1, OnIs DEF SkipsWhitespace
<1>3. Left(ts) = LetEnds(ts)[idx]
  BY <1>2, RestStmt DEF Left
<1>4. CASE Peek \in X
  <2>1. out' = "running" /\ errs' = errs
    BY <1>1, <1>2, <1>4, ExpectAgrees
  <2>2. Left(ts) = Expr(ts)[idx + 1]
    BY <1>2, <1>3, <1>4, LetEndsIs
  <2>3. Rest(ts, "let_expr", "expr") = Expr(ts) /\ Rest(ts, c, "let_expr") = Nothing(ts)
    BY RestStmt, RestExpr
  <2>4. Expr(ts) \in Forward(ts)
    BY ExprIs, Advance
  <2>5. (Expr(ts) ** Nothing(ts))[idx + 1] = Expr(ts)[idx + 1]
    BY <1>2, <2>4, ThenNothing
  <2>6. "let_expr" \in Label /\ "expr" \in Label \ Judges /\ Usable
    BY <1>2, AnyUsable DEF Label, Looking, SkipsWhitespace, Waiting, WaitsForNode,
                           Judges, ExprCaller
  <2> HIDE DEF c
  <2>7. QED
    BY <1>1, <1>2, <2>1, <2>2, <2>3, <2>5, <2>6, CallAgrees DEF c
<1>5. CASE Peek \notin X
  <2>1. Left(ts) = {}
    BY <1>1, <1>2, <1>3, <1>5, LetEndsIs
  <2>2. QED
    BY <1>1, <1>2, <1>5, <2>1, ExpectAgrees
<1>6. QED
  BY <1>4, <1>5

\* parse_stmt: the value is parsed.
LEMMA LetExprAgrees ==
    ASSUME IInv, NEW ts \in Seq(Tok), Completes(ts), LetExpr
    PROVE  Agrees(ts)
<1>1. out = "running" /\ Top.at = "let_expr" /\ "let_expr" \in ExprCaller
  BY DEF LetExpr, Back, ExprCaller
<1>2. CASE AstIsExpr(val)
  <2>1. Pops /\ idx' = idx /\ out' = "running" /\ errs' = errs
    BY <1>1, <1>2 DEF LetExpr, Return, Pops, Quiet
  <2>2. idx \in Places(ts) /\ Left(ts) = {idx}
    <3>1. Left(ts) = Nothing(ts)[idx]
      BY <1>1, RestStmt DEF Left
    <3>2. QED
      BY <3>1, PlaceIs, NothingIs
  <2>3. Usable' /\ Top.at \notin {"prog", "prog_fn"}
    BY <1>1, <2>1, StmtReturns DEF StmtAt, LetAt
  <2>4. Usable
    BY <1>1, <1>2 DEF Usable
  <2>5. QED
    BY <2>1, <2>2, <2>3, <2>4, ReturnsAgrees
<1>3. CASE ~ AstIsExpr(val)
  <2>1. ~ Usable
    BY <1>1, <1>3 DEF Usable
  <2>2. QED
    BY <1>3, <2>1, PanicAgrees DEF LetExpr
<1>4. QED
  BY <1>2, <1>3

\* parse_stmt: a return-statement.
LEMMA StmtRetAgrees ==
    ASSUME IInv, NEW ts \in Seq(Tok), Completes(ts), StmtRet
    PROVE  Agrees(ts)
<1> DEFINE c == Caller(stack, Len(stack))
<1>1. /\ On("stmt") /\ Peek = "ret" /\ Call("ret_expr", "expr") /\ idx' = idx + 1
      /\ out' = out /\ errs' = errs
  BY DEF StmtRet, Quiet
<1>2. /\ idx \in Places(ts) /\ idx + 1 \in Places(ts) /\ out = "running"
      /\ Look(ts, idx) = Peek /\ Peek # "ws" /\ Top.at = "stmt"
  BY <1>1, OnIs DEF SkipsWhitespace
<1>3. Left(ts) = (Expr(ts) ** Sym(ts, {";"}))[idx + 1]
  <2>1. Left(ts) = Stmt(ts)[idx]
    BY <1>2, RestStmt DEF Left
  <2>2. QED
    BY <1>1, <1>2, <2>1, StmtIs
<1>4. Rest(ts, "ret_expr", "expr") = Expr(ts) /\ Rest(ts, c, "ret_expr") = Sym(ts, {";"})
  BY RestStmt, RestExpr
<1>5. "ret_expr" \in Label /\ "expr" \in Label \ Judges /\ Usable
  BY <1>2, AnyUsable DEF Label, Looking, SkipsWhitespace, Waiting, WaitsForNode,
                         Judges, ExprCaller
<1> HIDE DEF c
<1>6. QED
  BY <1>1, <1>2, <1>3, <1>4, <1>5, CallAgrees DEF c

\* parse_stmt: the value to return is parsed.
LEMMA RetExprAgrees ==
    ASSUME IInv, NEW ts \in Seq(Tok), Completes(ts), RetExpr
    PROVE  Agrees(ts)
<1>1. out = "running" /\ Top.at = "ret_expr" /\ "ret_expr" \in ExprCaller
  BY DEF RetExpr, Back, ExprCaller
<1>2. CASE AstIsExpr(val)
  <2> DEFINE frame == MakeFrame("ret_semi", Len(nodes'), 0)
  <2>1. /\ TopGoes(frame) /\ idx' = idx /\ out' = "running" /\ errs' = errs
        /\ frame.at = "ret_semi"
    BY <1>1, <1>2 DEF RetExpr, Quiet, MakeFrame
  <2> HIDE DEF frame
  <2>2. idx \in Places(ts)
    BY PlaceIs
  <2>3. Rest(ts, Caller(stack, Len(stack)), frame.at)[idx'] = Left(ts)
    BY <1>1, <2>1, RestStmt DEF Left
  <2>4. Usable
    BY <1>1, <1>2 DEF Usable
  <2>5. "ret_semi" \in Label \ Judges
    BY DEF Label, Looking, SkipsWhitespace, Judges, ExprCaller
  <2>6. QED
    BY <2>1, <2>2, <2>3, <2>4, <2>5, GoesAgrees
<1>3. CASE ~ AstIsExpr(val)
  <2>1. ~ Usable
    BY <1>1, <1>3 DEF Usable
  <2>2. QED
    BY <1>3, <2>1, PanicAgrees DEF RetExpr
<1>4. QED
  BY <1>2, <1>3

\* parse_stmt: the semicolon of a return-statement.
LEMMA RetSemiAgrees ==
    ASSUME IInv, NEW ts \in Seq(Tok), Completes(ts), RetSemi
    PROVE  Agrees(ts)
<1> DEFINE X == {";"}
<1>1. On("ret_semi") /\ Expect(X, idx) /\ idx' = idx + 1 /\ Pops /\ Top.at = "ret_semi"
  BY DEF RetSemi, Return, Pops, On
<1>2. X \in Symbols /\ Rest(ts, Caller(stack, Len(stack)), "ret_semi") = Sym(ts, X)
  BY RestStmt DEF Symbols, Tok
<1>3. Usable'
  BY <1>1, StmtReturns DEF StmtAt
<1>4. "ret_semi" \in SkipsWhitespace /\ "ret_semi" \notin Judges \cup {"prog", "prog_fn"}
  BY DEF SkipsWhitespace, Judges, ExprCaller
<1> HIDE DEF X
<1>5. QED
  BY <1>1, <1>2, <1>3, <1>4, SymbolReturns

\* parse_stmt: any other statement is an expression.
LEMMA StmtExprAgrees ==
    ASSUME IInv, NEW ts \in Seq(Tok), Completes(ts), StmtExpr
    PROVE  Agrees(ts)
<1> DEFINE c == Caller(stack, Len(stack))
<1>1. /\ On("stmt") /\ Peek \notin {"let", "ret"} /\ Call("stmt_expr", "expr") /\ idx' = idx
      /\ out' = out /\ errs' = errs
  BY DEF StmtExpr, Quiet
<1>2. /\ idx \in Places(ts) /\ out = "running"
      /\ Look(ts, idx) = Peek /\ Peek # "ws" /\ Top.at = "stmt"
  BY <1>1, OnIs DEF SkipsWhitespace
<1>3. Left(ts) = {}
  <2>1. Left(ts) = Stmt(ts)[idx]
    BY <1>2, RestStmt DEF Left
  <2>2. QED
    BY <1>1, <1>2, <2>1, StmtIs
<1>4. Rest(ts, "stmt_expr", "expr") = Expr(ts) /\ Rest(ts, c, "stmt_expr") = None(ts)
  BY RestStmt, RestExpr
<1>5. (Expr(ts) ** None(ts))[idx] = {}
  BY <1>2, ExprIs, Advance, ThenNone
<1>6. "stmt_expr" \in Label /\ "expr" \in Label \ Judges /\ Usable
  BY <1>2, AnyUsable DEF Label, Looking, SkipsWhitespace, Waiting, WaitsForNode,
                         Judges, ExprCaller
<1> HIDE DEF c
<1>7. QED
  BY <1>1, <1>2, <1>3, <1>4, <1>5, <1>6, CallAgrees DEF c

\* parse_stmt: an expression in place of a statement ends in an error.
LEMMA StmtExprDoneAgrees ==
    ASSUME IInv, NEW ts \in Seq(Tok), Completes(ts), StmtExprDone
    PROVE  Agrees(ts)
<1>1. Panic /\ Top.at = "stmt_expr"
  BY DEF StmtExprDone, Back
<1>2. Left(ts) = {}
  BY <1>1, PlaceIs, RestStmt, NoneIs DEF Left
<1>3. QED
  BY <1>1, <1>2, PanicAgrees
-----------------------------------------------------------------------------
(***************************************************************************)
(* parse_expr and the functions below it                                   *)
(***************************************************************************)

\* What the callers of an operand and of an expression can use.
LEMMA OperandReturns ==
    ASSUME IInv, Pops, Top.at \in {"bottom"} \cup FactorAt
    PROVE  (Usable' <=> val' # 0) /\ Top.at \notin {"prog", "prog_fn"}
<1>1. Top.at \notin {"prog", "prog_fn"}
  BY DEF FactorAt
<1>2. Top'.at \in {"factor_lhs", "factor_rhs", "term_lhs", "term_rhs"}
  BY <1>1, PoppedStack, WhoCalls DEF IInv
<1>3. QED
  BY <1>1, <1>2 DEF Usable, ExprCaller

\* parse_expr_term returns to a function that judges what it is given.
LEMMA TermReturns ==
    ASSUME IInv, Pops, Top.at \in TermAt
    PROVE  (Usable' <=> AstIsExpr(val)') /\ Top.at \notin {"prog", "prog_fn"}
<1>1. Top.at \notin {"prog", "prog_fn"}
  BY DEF TermAt
<1>2. Top'.at \in ExprCaller
  BY <1>1, PoppedStack, WhoCalls DEF IInv
<1>3. QED
  BY <1>1, <1>2 DEF Usable, ExprCaller

\* Neither of them can use NULL.
LEMMA NullReturns ==
    ASSUME IInv, Pops, Top.at \in {"bottom"} \cup FactorAt \cup TermAt, val' = 0
    PROVE  ~ Usable'
<1>1. ~ AstIsExpr(val)'
  BY DEF AstIsExpr, KindOf
<1>2. QED
  BY <1>1, OperandReturns, TermReturns

\* What begins with a number is nothing before any other token.
LEMMA ExprStuck ==
    ASSUME IInv, NEW ts \in Seq(Tok), Completes(ts), NEW label \in {"expr", "bottom"},
           On(label), Peek # "int"
    PROVE  Left(ts) = {}
<1>1. /\ idx \in Places(ts) /\ Look(ts, idx) = Peek /\ Peek # "ws" /\ Top.at = label
  BY OnIs DEF SkipsWhitespace
<1>2. Expr(ts)[idx] = {} /\ Const(ts)[idx] = {}
  BY <1>1, ExprIs DEF Begin
<1>3. Left(ts) \in {Expr(ts)[idx], Const(ts)[idx]}
  BY <1>1, RestExpr DEF Left
<1>4. QED
  BY <1>2, <1>3

\* parse_expr: an if, which it has no code for.
LEMMA ExprIfAgrees ==
    ASSUME IInv, NEW ts \in Seq(Tok), Completes(ts), ExprIf
    PROVE  Agrees(ts)
<1>1. On("expr") /\ Peek # "int" /\ Panic
  BY DEF ExprIf
<1>2. Left(ts) = {}
  BY <1>1, ExprStuck
<1>3. QED
  BY <1>1, <1>2, PanicAgrees

\* parse_expr: a block.
LEMMA ExprBlockAgrees ==
    ASSUME IInv, NEW ts \in Seq(Tok), Completes(ts), ExprBlock
    PROVE  Agrees(ts)
<1> DEFINE frame == MakeFrame("block", 0, 0)
           c == Caller(stack, Len(stack))
<1>1. /\ On("expr") /\ Peek # "int" /\ TopGoes(frame) /\ idx' = idx /\ out' = out
      /\ errs' = errs /\ frame.at = "block"
  BY DEF ExprBlock, Quiet, MakeFrame
<1> HIDE DEF frame
<1>2. Left(ts) = {} /\ idx \in Places(ts) /\ out = "running" /\ Top.at = "expr"
  BY <1>1, ExprStuck, OnIs
<1>3. c \in ExprCaller
  BY <1>2, TopCaller, WhoCalls
<1>4. None(ts)[idx] = {}
  BY <1>2, NoneIs
<1>5. Rest(ts, c, "block") = None(ts)
  BY <1>3, RestStmt DEF BlockAt
<1>6. Rest(ts, c, frame.at)[idx'] = Left(ts)
  BY <1>1, <1>2, <1>4, <1>5
<1>7. "block" \in Label \ Judges /\ Usable
  BY <1>2, AnyUsable DEF Label, Looking, SkipsWhitespace, Judges, ExprCaller
<1> HIDE DEF c
<1>8. QED
  BY <1>1, <1>2, <1>6, <1>7, GoesAgrees DEF c

\* parse_expr: anything else.
LEMMA ExprTermAgrees ==
    ASSUME IInv, NEW ts \in Seq(Tok), Completes(ts), ExprTerm
    PROVE  Agrees(ts)
<1> DEFINE frame == MakeFrame("term_lhs", 0, 0)
           callee == MakeFrame("factor_lhs", 0, 0)
           inner == MakeFrame("bottom", 0, 0)
           c == Caller(stack, Len(stack))
<1>1. /\ On("expr") /\ Pushes(frame, << callee, inner >>) /\ idx' = idx /\ out' = out
      /\ errs' = errs
  BY DEF ExprTerm, Quiet, Pushes, FactorFrames
<1>2. frame.at = "term_lhs" /\ callee.at = "factor_lhs" /\ inner.at = "bottom"
  BY DEF MakeFrame
<1> HIDE DEF frame, callee, inner
<1>3. idx \in Places(ts) /\ out = "running" /\ Top.at = "expr"
  BY <1>1, OnIs
<1>4. /\ Rest(ts, callee.at, inner.at) = Const(ts)
      /\ Rest(ts, frame.at, callee.at) = MoreConsts(ts)
      /\ Rest(ts, c, frame.at) = MoreFactors(ts)
  BY <1>2, RestExpr DEF TermAt, FactorAt
<1>5. Left(ts) = ((Const(ts) ** MoreConsts(ts)) ** MoreFactors(ts))[idx]
  <2>1. Left(ts) = Expr(ts)[idx]
    BY <1>3, RestExpr DEF Left
  <2>2. QED
    BY <2>1, ExprIs
<1>6. /\ "term_lhs" \in Label /\ "factor_lhs" \in Label /\ "bottom" \in Label \ Judges
      /\ Usable
  BY <1>3, AnyUsable DEF Label, Looking, SkipsWhitespace, Waiting, WaitsForNode, Judges,
                         ExprCaller
<1> HIDE DEF c
<1>7. ((Rest(ts, callee.at, inner.at) ** Rest(ts, frame.at, callee.at))
         ** Rest(ts, c, frame.at))[idx'] = Left(ts)
  BY <1>1, <1>4, <1>5
<1>8. QED
  BY <1>1, <1>2, <1>3, <1>6, <1>7, CallsTwiceAgrees DEF c

\* parse_expr_bottom: a constant.
LEMMA BottomConstAgrees ==
    ASSUME IInv, NEW ts \in Seq(Tok), Completes(ts), BottomConst
    PROVE  Agrees(ts)
<1> DEFINE X == {"int"}
<1>1. /\ On("bottom") /\ Peek \in X /\ Pops /\ val' = Len(nodes') /\ idx' = idx + 1
      /\ errs' = errs /\ out' = out
  BY DEF BottomConst, Return, Pops, Quiet
<1>2. /\ idx \in Places(ts) /\ idx + 1 \in Places(ts) /\ out = "running"
      /\ Look(ts, idx) = Peek /\ Peek # "ws" /\ Top.at = "bottom"
  BY <1>1, OnIs DEF SkipsWhitespace
<1>3. Left(ts) = {idx + 1}
  <2>1. X \in Symbols
    BY DEF Symbols, Tok
  <2>2. Left(ts) = Sym(ts, X)[idx]
    BY <1>2, RestExpr DEF Left, Const
  <2> HIDE DEF X
  <2>3. QED
    BY <1>1, <1>2, <2>1, <2>2, SymIs
<1>4. val' # 0
  BY <1>1 DEF BottomConst, NewNode, IInv, Tree
<1>5. Usable /\ Usable' /\ Top.at \notin {"prog", "prog_fn"}
  BY <1>1, <1>2, <1>4, AnyUsable, OperandReturns DEF Judges, ExprCaller
<1>6. QED
  BY <1>1, <1>2, <1>3, <1>5, ReturnsAgrees

\* parse_expr_bottom: a string.
LEMMA BottomStrAgrees ==
    ASSUME IInv, NEW ts \in Seq(Tok), Completes(ts), BottomStr
    PROVE  Agrees(ts)
<1>1. On("bottom") /\ Peek # "int" /\ Panic
  BY DEF BottomStr
<1>2. Left(ts) = {}
  BY <1>1, ExprStuck
<1>3. QED
  BY <1>1, <1>2, PanicAgrees

\* parse_expr_bottom: a token that is no operand.
LEMMA BottomNullAgrees ==
    ASSUME IInv, NEW ts \in Seq(Tok), Completes(ts), BottomNull
    PROVE  Agrees(ts)
<1> DEFINE X == {"ident", "prim", "("}
<1>1. /\ On("bottom") /\ Peek # "int" /\ Expect(X, idx) /\ Pops /\ val' = 0
      /\ out = "running" /\ Top.at = "bottom"
  BY DEF BottomNull, On, Return, Pops
<1>2. Left(ts) = {}
  BY <1>1, ExprStuck
<1>3. CASE Peek \in X
  <2>1. out' = "running" /\ errs' = errs
    BY <1>1, <1>3, ExpectAgrees
  <2>2. ~ Ahead(ts)
    BY <1>2, StuckIs
  <2>3. ~ Usable'
    BY <1>1, NullReturns
  <2>4. QED
    BY <2>1, <2>2, <2>3, LostAgrees
<1>4. CASE Peek \notin X
  BY <1>1, <1>2, <1>4, ExpectAgrees
<1>5. QED
  BY <1>3, <1>4

\* A left operand.
LEMMA LhsAgrees ==
    ASSUME IInv, NEW ts \in Seq(Tok), Completes(ts), NEW back, NEW op, Lhs(back, op),
           \/ back = "factor_lhs" /\ op = "factor_op"
           \/ back = "term_lhs" /\ op = "term_op"
    PROVE  Agrees(ts)
<1>1. /\ out = "running" /\ Top.at = back /\ idx' = idx /\ out' = out /\ errs' = errs
      /\ nodes' = nodes
  BY DEF Lhs, Back, Quiet, Heap
<1>2. /\ {back, op} \subseteq FactorAt \/ {back, op} \subseteq TermAt
      /\ back \in {"factor_lhs", "term_lhs"}
  BY DEF FactorAt, TermAt
<1>3. CASE val = 0
  <2>1. Pops /\ val' = 0
    BY <1>3 DEF Lhs, Return, Pops
  <2>2. ~ Usable
    BY <1>1, <1>2, <1>3 DEF Usable
  <2>3. ~ Ahead(ts)
    BY <2>2, StuckIs
  <2>4. ~ Usable'
    BY <1>1, <1>2, <2>1, NullReturns
  <2>5. QED
    BY <1>1, <2>3, <2>4, LostAgrees
<1>4. CASE val # 0
  <2> DEFINE frame == MakeFrame(op, val, 0)
  <2>1. TopGoes(frame) /\ frame.at = op
    BY <1>4 DEF Lhs, MakeFrame
  <2> HIDE DEF frame
  <2>2. Usable
    BY <1>1, <1>2, <1>4 DEF Usable, ExprCaller
  <2>3. op \in Label \ Judges
    BY DEF Label, Looking, SkipsWhitespace, Judges, ExprCaller
  <2>4. Rest(ts, Caller(stack, Len(stack)), op)
          = Rest(ts, Caller(stack, Len(stack)), back)
    BY <1>2, RestExpr
  <2>5. Rest(ts, Caller(stack, Len(stack)), frame.at)[idx'] = Left(ts)
    BY <1>1, <2>1, <2>4 DEF Left
  <2>6. idx \in Places(ts)
    BY PlaceIs
  <2>7. QED
    BY <1>1, <2>1, <2>2, <2>3, <2>5, <2>6, GoesAgrees
<1>5. QED
  BY <1>3, <1>4

\* A right operand.
LEMMA RhsAgrees ==
    ASSUME IInv, NEW ts \in Seq(Tok), Completes(ts), NEW back, NEW op, Rhs(back, op),
           \/ back = "factor_rhs" /\ op = "factor_op"
           \/ back = "term_rhs" /\ op = "term_op"
    PROVE  Agrees(ts)
<1> DEFINE frame == MakeFrame(op, Len(nodes'), 0)
<1>1. /\ out = "running" /\ Top.at = back /\ idx' = idx /\ out' = out /\ errs' = errs
      /\ val # 0 /\ TopGoes(frame) /\ frame.at = op
  BY DEF Rhs, Back, Quiet, MakeFrame
<1> HIDE DEF frame
<1>2. {back, op} \subseteq FactorAt \/ {back, op} \subseteq TermAt
  BY DEF FactorAt, TermAt
<1>3. Usable
  BY <1>1 DEF Usable, ExprCaller
<1>4. op \in Label \ Judges
  BY DEF Label, Looking, SkipsWhitespace, Judges, ExprCaller
<1>5. Rest(ts, Caller(stack, Len(stack)), op) = Rest(ts, Caller(stack, Len(stack)), back)
  <2>1. CASE {back, op} \subseteq FactorAt
    BY <2>1, RestExpr
  <2>2. CASE {back, op} \subseteq TermAt
    BY <2>2, RestExpr
  <2>3. QED
    BY <1>2, <2>1, <2>2
<1>6. Rest(ts, Caller(stack, Len(stack)), frame.at)[idx'] = Left(ts)
  BY <1>1, <1>5 DEF Left
<1>7. idx \in Places(ts)
  BY PlaceIs
<1>8. QED
  BY <1>1, <1>3, <1>4, <1>6, <1>7, GoesAgrees

\* No right operand.
LEMMA RhsMissingAgrees ==
    ASSUME IInv, NEW ts \in Seq(Tok), Completes(ts), NEW back \in {"factor_rhs", "term_rhs"},
           RhsMissing(back)
    PROVE  Agrees(ts)
<1>1. /\ out = "running" /\ Top.at = back /\ errs' = errs /\ out' \in {"running", "crash"}
      /\ val = 0 /\ Pops /\ val' = 0
  BY DEF RhsMissing, ReleaseAst, Back, Return, Pops
<1>2. ~ Usable
  BY <1>1 DEF Usable
<1>3. ~ Ahead(ts)
  BY <1>2, StuckIs
<1>4. CASE out' = "running"
  <2>1. ~ Usable'
    BY <1>1, NullReturns DEF FactorAt, TermAt
  <2>2. QED
    BY <1>1, <1>3, <1>4, <2>1, LostAgrees
<1>5. CASE out' = "crash"
  BY <1>3, <1>5 DEF Agrees
<1>6. QED
  BY <1>1, <1>4, <1>5

\* Operators and their operands, by the next token.
LEMMA MoreAt ==
    ASSUME NEW ts \in Seq(Tok), NEW X \in Symbols, NEW p \in Forward(ts),
           NEW i \in Places(ts), Look(ts, i) # "ws"
    PROVE  More(ts, X, p)[i] = {i} \cup (IF Look(ts, i) \in X
                                         THEN (p ** More(ts, X, p))[i + 1] ELSE {})
<1> DEFINE more == More(ts, X, p)
           q == p ** more
           r == Sym(ts, X) ** q
<1>1. more \in Forward(ts) /\ more = Nothing(ts) ++ r
  BY MoreIs
<1> HIDE DEF more
<1>2. q \in Forward(ts)
  BY <1>1, Advance
<1> HIDE DEF q
<1>3. r[i] = (IF Look(ts, i) \in X THEN q[i + 1] ELSE {})
  BY <1>2, SymThen
<1>4. r \in Phrases(ts) /\ Nothing(ts) \in Phrases(ts)
  BY <1>2, SymThen, Advance
<1> HIDE DEF r
<1>5. (Nothing(ts) ++ r)[i] = Nothing(ts)[i] \cup r[i]
  BY <1>4, EitherIs
<1>6. Nothing(ts)[i] = {i}
  BY NothingIs
<1>7. more[i] = {i} \cup (IF Look(ts, i) \in X THEN q[i + 1] ELSE {})
  BY <1>1, <1>3, <1>5, <1>6
<1>8. QED
  BY <1>7 DEF q, more

\* Where an operator is next the operands of it are not what follows.
LEMMA NotBelow ==
    ASSUME IInv, NEW ts \in Seq(Tok), Completes(ts), Top.at \notin {"prog", "prog_fn"},
           NEW X, Follows(ts, stack, Len(stack) - 1, X), Look(ts, idx) \notin X \cup {"ws"}
    PROVE  idx \notin Below(ts)
BY PlaceIs DEF Below, Follows

\* The frame below the running one.
LEMMA CallerAt ==
    ASSUME IInv, Top.at \notin {"prog", "prog_fn"}
    PROVE  /\ Len(stack) - 1 \in 1 .. Len(stack)
           /\ Calls(stack[Len(stack) - 1].at, Top.at)
           /\ Caller(stack, Len(stack)) = stack[Len(stack) - 1].at
<1>1. Len(stack) \in 1 .. Len(stack) /\ Top = stack[Len(stack)]
  BY DEF IInv, Frames, Top
<1>2. QED
  BY <1>1, CallerIs

\* parse_expr_factor: an operator or none.
LEMMA FactorOpAgrees ==
    ASSUME IInv, NEW ts \in Seq(Tok), Completes(ts),
           Operator("factor_op", {"*", "/"}, "factor_rhs", << MakeFrame("bottom", 0, 0) >>)
    PROVE  Agrees(ts)
<1> DEFINE X == {"*", "/"}
           c == Caller(stack, Len(stack))
           q == Const(ts) ** MoreConsts(ts)
<1>1. On("factor_op") /\ errs' = errs /\ out' = out /\ nodes' = nodes
  BY DEF Operator, Quiet, Heap
<1>2. /\ idx \in Places(ts) /\ idx + 1 \in Places(ts) /\ out = "running"
      /\ Look(ts, idx) = Peek /\ Peek # "ws" /\ Top.at = "factor_op"
  BY <1>1, OnIs DEF SkipsWhitespace
<1>3. Left(ts) = {idx} \cup (IF Peek \in X THEN q[idx + 1] ELSE {})
  <2>1. X \in Symbols /\ Const(ts) \in Forward(ts)
    BY ExprIs, Advance DEF Symbols, Tok
  <2>2. MoreConsts(ts) = More(ts, X, Const(ts))
    BY DEF MoreConsts
  <2>3. Left(ts) = MoreConsts(ts)[idx]
    BY <1>2, RestExpr DEF Left, FactorAt
  <2> HIDE DEF X
  <2>4. QED
    BY <1>2, <2>1, <2>2, <2>3, MoreAt
<1>4. Usable /\ Top.at \notin {"prog", "prog_fn"} /\ Top.at \in FactorAt
  BY <1>2, AnyUsable DEF Judges, ExprCaller, FactorAt
<1>5. CASE Peek \in X
  <2> DEFINE frame == MakeFrame("factor_rhs", Top.node, idx)
             callee == MakeFrame("bottom", 0, 0)
  <2>1. Pushes(frame, << callee >>) /\ idx' = idx + 1
    BY <1>5 DEF Operator, Pushes
  <2>2. frame.at = "factor_rhs" /\ callee.at = "bottom"
    BY DEF MakeFrame
  <2> HIDE DEF frame, callee
  <2>3. Rest(ts, frame.at, callee.at) ** Rest(ts, c, frame.at) = q
    BY <2>2, RestExpr DEF FactorAt
  <2>4. idx \notin Below(ts)
    <3>1. Len(stack) - 1 \in 1 .. Len(stack) /\ stack[Len(stack) - 1].at \in TermAt
      BY <1>4, CallerAt, WhoCalls DEF TermAt
    <3>2. Follows(ts, stack, Len(stack) - 1, {";", "}", "let", "ret", "+", "-"})
      BY <3>1, AfterTerm
    <3>3. Look(ts, idx) \notin {";", "}", "let", "ret", "+", "-"} \cup {"ws"}
      BY <1>2, <1>5
    <3>4. QED
      BY <1>4, <3>2, <3>3, NotBelow
  <2>5. "factor_rhs" \in Label /\ "bottom" \in Label \ Judges
    BY DEF Label, Looking, SkipsWhitespace, Waiting, WaitsForNode, Judges, ExprCaller
  <2> HIDE DEF q, c
  <2>6. q[idx + 1] \cap Below(ts) = {} <=> Left(ts) \cap Below(ts) = {}
    BY <1>3, <1>5, <2>4
  <2>7. (Rest(ts, frame.at, callee.at) ** Rest(ts, c, frame.at))[idx'] \cap Below(ts) = {}
          <=> Left(ts) \cap Below(ts) = {}
    BY <2>1, <2>3, <2>6
  <2>8. QED
    BY <1>1, <1>2, <1>4, <2>1, <2>2, <2>5, <2>7, CallsAgrees DEF c
<1>6. CASE Peek \notin X
  <2>1. Pops /\ val' = Top.node /\ idx' = idx
    BY <1>6 DEF Operator, Return, Pops
  <2>2. Left(ts) = {idx}
    BY <1>3, <1>6
  <2>3. Top.node # 0
    BY <1>2, TopHolds DEF Holds, FnAt, BlockAt, LetAt, TypeAt, AuxAt
  <2>4. Usable'
    BY <1>4, <2>1, <2>3, OperandReturns
  <2>5. QED
    BY <1>1, <1>2, <1>4, <2>1, <2>2, <2>4, ReturnsAgrees
<1>7. QED
  BY <1>5, <1>6

\* parse_expr_term: an operator or none.
LEMMA TermOpAgrees ==
    ASSUME IInv, NEW ts \in Seq(Tok), Completes(ts),
           Operator("term_op", {"+", "-"}, "term_rhs", FactorFrames)
    PROVE  Agrees(ts)
<1> DEFINE X == {"+", "-"}
           c == Caller(stack, Len(stack))
           q == Factors(ts) ** MoreFactors(ts)
<1>1. On("term_op") /\ errs' = errs /\ out' = out /\ nodes' = nodes
  BY DEF Operator, Quiet, Heap
<1>2. /\ idx \in Places(ts) /\ idx + 1 \in Places(ts) /\ out = "running"
      /\ Look(ts, idx) = Peek /\ Peek # "ws" /\ Top.at = "term_op"
  BY <1>1, OnIs DEF SkipsWhitespace
<1>3. Left(ts) = {idx} \cup (IF Peek \in X THEN q[idx + 1] ELSE {})
  <2>1. X \in Symbols /\ Factors(ts) \in Forward(ts)
    BY ExprIs, Advance DEF Symbols, Tok
  <2>2. MoreFactors(ts) = More(ts, X, Factors(ts))
    BY DEF MoreFactors
  <2>3. Left(ts) = MoreFactors(ts)[idx]
    BY <1>2, RestExpr DEF Left, TermAt
  <2> HIDE DEF X
  <2>4. QED
    BY <1>2, <2>1, <2>2, <2>3, MoreAt
<1>4. Usable /\ Top.at \notin {"prog", "prog_fn"} /\ Top.at \in TermAt
  BY <1>2, AnyUsable DEF Judges, ExprCaller, TermAt
<1>5. CASE Peek \in X
  <2> DEFINE frame == MakeFrame("term_rhs", Top.node, idx)
             callee == MakeFrame("factor_lhs", 0, 0)
             inner == MakeFrame("bottom", 0, 0)
  <2>1. Pushes(frame, << callee, inner >>) /\ idx' = idx + 1
    BY <1>5 DEF Operator, Pushes, FactorFrames
  <2>2. frame.at = "term_rhs" /\ callee.at = "factor_lhs" /\ inner.at = "bottom"
    BY DEF MakeFrame
  <2> HIDE DEF frame, callee, inner
  <2>3. (Rest(ts, callee.at, inner.at) ** Rest(ts, frame.at, callee.at))
           ** Rest(ts, c, frame.at) = q
    <3>1. /\ Rest(ts, callee.at, inner.at) = Const(ts)
          /\ Rest(ts, frame.at, callee.at) = MoreConsts(ts)
          /\ Rest(ts, c, frame.at) = MoreFactors(ts)
      BY <2>2, RestExpr DEF FactorAt, TermAt
    <3>2. Factors(ts) = Const(ts) ** MoreConsts(ts)
      BY ExprIs
    <3>3. QED
      BY <3>1, <3>2
  <2>4. idx \notin Below(ts)
    <3>1. Len(stack) - 1 \in 1 .. Len(stack) /\ stack[Len(stack) - 1].at \in ExprCaller
      BY <1>4, CallerAt, WhoCalls
    <3>2. Follows(ts, stack, Len(stack) - 1, {";", "}", "let", "ret"})
      BY <3>1, AfterExpr
    <3>3. Look(ts, idx) \notin {";", "}", "let", "ret"} \cup {"ws"}
      BY <1>2, <1>5
    <3>4. QED
      BY <1>4, <3>2, <3>3, NotBelow
  <2>5. "term_rhs" \in Label /\ "factor_lhs" \in Label /\ "bottom" \in Label \ Judges
    BY DEF Label, Looking, SkipsWhitespace, Waiting, WaitsForNode, Judges, ExprCaller
  <2> HIDE DEF q, c
  <2>6. q[idx + 1] \cap Below(ts) = {} <=> Left(ts) \cap Below(ts) = {}
    BY <1>3, <1>5, <2>4
  <2>7. ((Rest(ts, callee.at, inner.at) ** Rest(ts, frame.at, callee.at))
           ** Rest(ts, c, frame.at))[idx'] \cap Below(ts) = {}
          <=> Left(ts) \cap Below(ts) = {}
    BY <2>1, <2>3, <2>6
  <2>8. QED
    BY <1>1, <1>2, <1>4, <2>1, <2>2, <2>5, <2>7, CallsTwiceAgrees DEF c
<1>6. CASE Peek \notin X
  <2>1. Pops /\ val' = Top.node /\ idx' = idx
    BY <1>6 DEF Operator, Return, Pops
  <2>2. Left(ts) = {idx}
    BY <1>3, <1>6
  <2>3. KindOf(Top.node) \in {"binop", "const"}
    BY <1>2, TopHolds DEF Holds, FnAt, BlockAt, LetAt, TypeAt, AuxAt
  <2>4. AstIsExpr(val)'
    BY <1>1, <2>1, <2>3 DEF AstIsExpr, KindOf
  <2>5. Usable'
    BY <1>4, <2>1, <2>4, TermReturns
  <2>6. QED
    BY <1>1, <1>2, <1>4, <2>1, <2>2, <2>5, ReturnsAgrees
<1>7. QED
  BY <1>5, <1>6
-----------------------------------------------------------------------------
(***************************************************************************)
(* parse_type, parse_type_aux and parse_type_array                         *)
(***************************************************************************)

\* What is left of a type, and of none where that will do.
LEMMA AuxIs ==
    ASSUME NEW ts \in Seq(Tok), NEW c, NEW at \in AuxAt, NEW i \in Places(ts)
    PROVE  /\ c = "array_elem" =>
                 Rest(ts, c, at)[i] = AuxRest(ts, at)[i] \cup AuxNull(ts, at)[i]
           /\ c # "array_elem" => Rest(ts, c, at)[i] = AuxRest(ts, at)[i]
<1> DEFINE p == AuxRest(ts, at)
           q == AuxNull(ts, at)
<1>1. p \in Phrases(ts) /\ q \in Phrases(ts)
  BY AuxForward, Advance
<1>2. Rest(ts, c, at) = IF c = "array_elem" THEN p ++ q ELSE p
  BY RestExpr
<1> HIDE DEF p, q
<1>3. (p ++ q)[i] = p[i] \cup q[i]
  BY <1>1, EitherIs
<1>4. c = "array_elem" => Rest(ts, c, at)[i] = p[i] \cup q[i]
  BY <1>2, <1>3
<1>5. c # "array_elem" => Rest(ts, c, at)[i] = p[i]
  BY <1>2
<1>6. QED
  BY <1>4, <1>5 DEF p, q

\* Where a '*' or something else follows a type.
LEMMA StarsAt ==
    ASSUME NEW ts \in Seq(Tok), NEW i \in Places(ts), Look(ts, i) # "ws"
    PROVE  Stars(ts)[i] = {i} \cup (IF Look(ts, i) = "*" THEN Stars(ts)[i + 1] ELSE {})
<1> DEFINE X == {"*"}
           stars == Stars(ts)
           r == Sym(ts, X) ** stars
<1>1. stars \in Forward(ts) /\ stars = Nothing(ts) ++ r
  BY ArrayIs
<1>2. X \in Symbols
  BY DEF Symbols, Tok
<1> HIDE DEF stars, X
<1>3. r[i] = (IF Look(ts, i) \in X THEN stars[i + 1] ELSE {})
  BY <1>1, <1>2, SymThen
<1>4. r \in Phrases(ts) /\ Nothing(ts) \in Phrases(ts)
  BY <1>1, <1>2, SymThen, Advance
<1> HIDE DEF r
<1>5. (Nothing(ts) ++ r)[i] = Nothing(ts)[i] \cup r[i]
  BY <1>4, EitherIs
<1>6. Nothing(ts)[i] = {i}
  BY NothingIs
<1>7. stars[i] = {i} \cup (IF Look(ts, i) \in X THEN stars[i + 1] ELSE {})
  BY <1>1, <1>3, <1>5, <1>6
<1>8. QED
  BY <1>7 DEF X, stars

\* How an array goes on, by the token after its element type.
LEMMA ArrayTailIs ==
    ASSUME NEW ts \in Seq(Tok), NEW i \in Places(ts), Look(ts, i) # "ws"
    PROVE  /\ Look(ts, i) = ";" =>
                 /\ ArrayTail(ts)[i] = (Const(ts) ** ArrayEndTail(ts))[i + 1]
                 /\ (Sym(ts, {";"}) ** NoLength(ts))[i] = NoLength(ts)[i + 1]
           /\ Look(ts, i) # ";" =>
                 /\ ArrayTail(ts)[i] = ArrayEndTail(ts)[i]
                 /\ (Sym(ts, {";"}) ** NoLength(ts))[i] = {}
<1> DEFINE X == {";"}
           q == Const(ts) ** ArrayEndTail(ts)
           r == Sym(ts, X) ** q
           s == Sym(ts, X) ** NoLength(ts)
           end == ArrayEndTail(ts)
<1>1. X \in Symbols /\ q \in Forward(ts) /\ NoLength(ts) \in Forward(ts)
  BY ArrayIs, NoLengthIs DEF Symbols, Tok, Blind
<1>2. ArrayTail(ts) = end ++ r
  BY ArrayIs
<1>3. end \in Phrases(ts) /\ end \in Begin(ts, {"]"})
  BY ArrayIs, Advance
<1> HIDE DEF X, q
<1>4. r[i] = (IF Look(ts, i) \in X THEN q[i + 1] ELSE {}) /\ r \in Phrases(ts)
  BY <1>1, SymThen, Advance
<1>5. s[i] = (IF Look(ts, i) \in X THEN NoLength(ts)[i + 1] ELSE {})
  BY <1>1, SymThen
<1>6. r \in Phrases(ts)
  BY <1>4
<1> HIDE DEF r, s, end
<1>7. ArrayTail(ts)[i] = end[i] \cup r[i]
  BY <1>2, <1>3, <1>6, EitherIs
<1>8. Look(ts, i) = ";" => end[i] = {}
  BY <1>3 DEF Begin
<1>9. CASE Look(ts, i) = ";"
  BY <1>4, <1>5, <1>7, <1>8, <1>9 DEF X, q, s
<1>10. CASE Look(ts, i) # ";"
  BY <1>4, <1>5, <1>7, <1>10 DEF X, end, s
<1>11. QED
  BY <1>9, <1>10

\* What parse_type_aux and parse_type_array return to, and what that can use.
LEMMA AuxReturnsTo ==
    ASSUME IInv, Pops, Top.at \in AuxAt
    PROVE  /\ Top.at \notin {"prog", "prog_fn"} \cup Judges
           /\ Caller(stack, Len(stack)) \in {"type_done", "array_elem"}
           /\ Top'.at = Caller(stack, Len(stack))
           /\ Usable' <=> Caller(stack, Len(stack)) = "array_elem" \/ val' # 0
<1>1. Top.at \notin {"prog", "prog_fn"} \cup Judges
  BY DEF AuxAt, Judges, ExprCaller
<1>2. Calls(Caller(stack, Len(stack)), Top.at)
  BY <1>1, TopCaller
<1>3. Caller(stack, Len(stack)) \in {"type_done", "array_elem"}
  BY <1>2, WhoCalls DEF WaitsForType
<1>4. Top'.at = Caller(stack, Len(stack))
  BY <1>1, ReturnsTo
<1>5. QED
  BY <1>1, <1>3, <1>4 DEF Usable, ExprCaller

\* parse_type.
LEMMA TypeAgrees ==
    ASSUME IInv, NEW ts \in Seq(Tok), Completes(ts), Type
    PROVE  Agrees(ts)
<1> DEFINE c == Caller(stack, Len(stack))
           p == TypeOf(ts)
<1>1. /\ On("type") /\ Call("type_done", "aux") /\ idx' = idx
      /\ out' = out /\ errs' = errs
  BY DEF Type, Quiet
<1>2. /\ idx \in Places(ts) /\ out = "running"
      /\ Look(ts, idx) = Peek /\ Peek # "ws" /\ Top.at = "type"
  BY <1>1, OnIs DEF SkipsWhitespace
<1>3. Left(ts) = p[idx]
  <2>1. Left(ts) = TypeIn(ts)[idx]
    BY <1>2, RestExpr DEF Left
  <2>2. QED
    BY <1>2, <2>1, TypeInIs
<1>4. Rest(ts, "type_done", "aux") = p /\ Rest(ts, c, "type_done") = Nothing(ts)
  BY RestExpr, RestAux DEF AuxAt
<1>5. p \in Forward(ts)
  BY TypeForward
<1>6. "type_done" \in Label /\ "aux" \in Label \ Judges /\ Usable
  BY <1>2, AnyUsable DEF Label, Looking, Waiting, WaitsForType, Judges, ExprCaller
<1> HIDE DEF c, p
<1>7. (p ** Nothing(ts))[idx] = p[idx]
  BY <1>2, <1>5, ThenNothing
<1>8. QED
  BY <1>1, <1>2, <1>3, <1>4, <1>6, <1>7, CallAgrees DEF c

\* parse_type: parse_type_aux has returned.
LEMMA TypeDoneAgrees ==
    ASSUME IInv, NEW ts \in Seq(Tok), Completes(ts), TypeDone
    PROVE  Agrees(ts)
<1>1. out = "running" /\ Top.at = "type_done"
  BY DEF TypeDone, Back
<1>2. CASE val = 0
  <2>1. ~ Usable
    BY <1>1, <1>2 DEF Usable
  <2>2. QED
    BY <1>2, <2>1, PanicAgrees DEF TypeDone
<1>3. CASE val # 0
  <2>1. Pops /\ idx' = idx /\ out' = "running" /\ errs' = errs
    BY <1>1, <1>3 DEF TypeDone, Return, Pops, Quiet
  <2>2. idx \in Places(ts) /\ Left(ts) = {idx}
    <3>1. Left(ts) = Nothing(ts)[idx]
      BY <1>1, RestExpr DEF Left
    <3>2. QED
      BY <3>1, PlaceIs, NothingIs
  <2>3. Usable /\ Top.at \notin {"prog", "prog_fn"}
    BY <1>1, <1>3 DEF Usable, ExprCaller
  <2>4. Usable'
    <3>1. Top'.at \in TypeCaller
      BY <1>1, <2>1, <2>3, PoppedStack, WhoCalls DEF IInv, TypeAt
    <3>2. QED
      BY <3>1, AnyUsable DEF TypeCaller, Judges, ExprCaller
  <2>5. QED
    BY <2>1, <2>2, <2>3, <2>4, ReturnsAgrees
<1>4. QED
  BY <1>2, <1>3

\* parse_type_aux: a name.
LEMMA AuxNameAgrees ==
    ASSUME IInv, NEW ts \in Seq(Tok), Completes(ts), AuxName
    PROVE  Agrees(ts)
<1> DEFINE c == Caller(stack, Len(stack))
<1>1. On("aux") /\ Peek # "[" /\ idx' = idx + 1 /\ errs' = errs /\ out' = out
  BY DEF AuxName, Quiet
<1>2. /\ idx \in Places(ts) /\ idx + 1 \in Places(ts) /\ out = "running"
      /\ Look(ts, idx) = Peek /\ Top.at = "aux" /\ Peek # "NULL"
  BY <1>1, OnIs DEF On
<1>3. /\ "aux" \in AuxAt /\ "ptr" \in AuxAt /\ "ptr" \in Label \ Judges /\ Usable
      /\ Top.at \notin {"prog", "prog_fn"}
  BY <1>2, AnyUsable DEF AuxAt, Label, Looking, SkipsWhitespace, Judges, ExprCaller
<1> HIDE DEF c
<1>4. /\ c = "array_elem" => Left(ts) = TypeOf(ts)[idx] \cup NullOf(ts)[idx]
      /\ c # "array_elem" => Left(ts) = TypeOf(ts)[idx]
  <2>1. AuxRest(ts, "aux") = TypeOf(ts) /\ AuxNull(ts, "aux") = NullOf(ts)
    BY RestAux
  <2>2. /\ c = "array_elem" =>
              Rest(ts, c, "aux")[idx] = AuxRest(ts, "aux")[idx] \cup AuxNull(ts, "aux")[idx]
        /\ c # "array_elem" => Rest(ts, c, "aux")[idx] = AuxRest(ts, "aux")[idx]
    BY <1>2, <1>3, AuxIs
  <2>3. Left(ts) = Rest(ts, c, "aux")[idx]
    BY <1>2 DEF Left, c
  <2>4. QED
    BY <2>1, <2>2, <2>3
<1>5. CASE Peek = "prim"
  <2>1. TypeOf(ts)[idx] = Stars(ts)[idx + 1] /\ NullOf(ts)[idx] = {}
    BY <1>2, <1>5, TypeOfIs
  <2>2. Rest(ts, c, "ptr") = AuxRest(ts, "ptr") /\ AuxRest(ts, "ptr") = Stars(ts)
    BY AuxSame, RestAux
  <2>3. Rest(ts, c, "ptr")[idx + 1] = Left(ts)
    BY <1>4, <2>1, <2>2
  <2>4. Goto("ptr")
    BY <1>5 DEF AuxName
  <2>5. QED
    BY <1>1, <1>2, <1>3, <2>3, <2>4, GotoAgrees DEF c
<1>6. CASE Peek # "prim"
  <2>1. TypeOf(ts)[idx] = {} /\ NullOf(ts)[idx] = {idx + 1}
    BY <1>1, <1>2, <1>6, TypeOfIs
  <2>2. Pops /\ val' = 0
    BY <1>6 DEF AuxName, Return, Pops
  <2>3. CASE c = "array_elem"
    <3>1. Left(ts) = {idx + 1}
      BY <1>4, <2>1, <2>3
    <3>2. Usable'
      BY <1>2, <1>3, <2>2, <2>3, AuxReturnsTo DEF c
    <3>3. QED
      BY <1>1, <1>2, <1>3, <2>2, <3>1, <3>2, ReturnsAgrees
  <2>4. CASE c # "array_elem"
    <3>1. Left(ts) = {}
      BY <1>4, <2>1, <2>4
    <3>2. ~ Ahead(ts)
      BY <3>1, StuckIs
    <3>3. ~ Usable'
      BY <1>2, <1>3, <2>2, <2>4, AuxReturnsTo DEF c
    <3>4. QED
      BY <1>1, <1>2, <3>2, <3>3, LostAgrees
  <2>5. QED
    BY <2>3, <2>4
<1>7. QED
  BY <1>5, <1>6

\* parse_type_aux: an array.
LEMMA AuxArrayAgrees ==
    ASSUME IInv, NEW ts \in Seq(Tok), Completes(ts), AuxArray
    PROVE  Agrees(ts)
<1> DEFINE c == Caller(stack, Len(stack))
           elem == Rest(ts, "array_elem", "aux")
           R == Rest(ts, c, "array_elem")
           tail == ArrayTail(ts)
           none == Sym(ts, {";"}) ** NoLength(ts)
<1>1. /\ On("aux") /\ Peek = "[" /\ idx' = idx + 1 /\ errs' = errs /\ out' = out
      /\ Call("array_elem", "aux")
  BY DEF AuxArray, Quiet
<1>2. /\ idx \in Places(ts) /\ idx + 1 \in Places(ts) /\ out = "running"
      /\ Look(ts, idx) = Peek /\ Top.at = "aux"
  BY <1>1, OnIs
<1>3. /\ "aux" \in AuxAt /\ "array_elem" \in AuxAt /\ "array_elem" \in Label
      /\ "aux" \in Label \ Judges /\ Usable
  BY <1>2, AnyUsable DEF AuxAt, Label, Looking, Waiting, WaitsForType, Judges, ExprCaller
<1>4. elem \in Phrases(ts) /\ R \in Phrases(ts)
  BY <1>3, RestForward, Advance
<1>13. /\ AuxRest(ts, "aux") = TypeOf(ts) /\ AuxNull(ts, "aux") = NullOf(ts)
      /\ AuxRest(ts, "array_elem") = tail /\ AuxNull(ts, "array_elem") = none
  BY RestAux
<1>5. elem[idx + 1] = TypeOf(ts)[idx + 1] \cup NullOf(ts)[idx + 1]
  <2>1. Rest(ts, "array_elem", "aux")[idx + 1]
          = AuxRest(ts, "aux")[idx + 1] \cup AuxNull(ts, "aux")[idx + 1]
    BY <1>2, <1>3, AuxIs
  <2>2. QED
    BY <1>13, <2>1
<1>6. /\ TypeOf(ts)[idx] = UNION { tail[j] : j \in elem[idx + 1] }
      /\ NullOf(ts)[idx] = UNION { none[j] : j \in elem[idx + 1] }
  BY <1>1, <1>2, <1>5, TypeOfIs
<1>7. elem[idx + 1] \subseteq Places(ts)
  BY <1>2, <1>4 DEF Phrases
<1>8. \A j \in Places(ts) :
        /\ c = "array_elem" => R[j] = tail[j] \cup none[j]
        /\ c # "array_elem" => R[j] = tail[j]
  <2> HIDE DEF c, tail, none
  <2> SUFFICES ASSUME NEW j \in Places(ts)
               PROVE  /\ c = "array_elem" => R[j] = tail[j] \cup none[j]
                      /\ c # "array_elem" => R[j] = tail[j]
    OBVIOUS
  <2>1. /\ c = "array_elem" =>
              R[j] = AuxRest(ts, "array_elem")[j] \cup AuxNull(ts, "array_elem")[j]
        /\ c # "array_elem" => R[j] = AuxRest(ts, "array_elem")[j]
    BY <1>3, AuxIs
  <2>2. QED
    BY <1>13, <2>1
<1>9. /\ c = "array_elem" => Left(ts) = TypeOf(ts)[idx] \cup NullOf(ts)[idx]
      /\ c # "array_elem" => Left(ts) = TypeOf(ts)[idx]
  <2>1. Left(ts) = Rest(ts, c, "aux")[idx]
    BY <1>2 DEF Left
  <2> HIDE DEF c
  <2>2. /\ c = "array_elem" =>
              Rest(ts, c, "aux")[idx] = AuxRest(ts, "aux")[idx] \cup AuxNull(ts, "aux")[idx]
        /\ c # "array_elem" => Rest(ts, c, "aux")[idx] = AuxRest(ts, "aux")[idx]
    BY <1>2, <1>3, AuxIs
  <2>3. QED
    BY <1>13, <2>1, <2>2
<1> HIDE DEF c, elem, R, tail, none
<1>10. (elem ** R)[idx + 1] = UNION { R[j] : j \in elem[idx + 1] }
  BY <1>2, <1>4, ThenIs
<1>11. (elem ** R)[idx + 1] = Left(ts)
  <2> DEFINE E == elem[idx + 1]
  <2>1. \A j \in E : /\ c = "array_elem" => R[j] = tail[j] \cup none[j]
                     /\ c # "array_elem" => R[j] = tail[j]
    BY <1>7, <1>8
  <2>2. /\ TypeOf(ts)[idx] = UNION { tail[j] : j \in E }
        /\ NullOf(ts)[idx] = UNION { none[j] : j \in E }
        /\ (elem ** R)[idx + 1] = UNION { R[j] : j \in E }
    BY <1>6, <1>10
  <2> HIDE DEF E
  <2>3. CASE c = "array_elem"
    <3>1. UNION { R[j] : j \in E }
            = (UNION { tail[j] : j \in E }) \cup (UNION { none[j] : j \in E })
      BY <2>1, <2>3
    <3>2. QED
      BY <1>9, <2>2, <2>3, <3>1
  <2>4. CASE c # "array_elem"
    <3>1. UNION { R[j] : j \in E } = UNION { tail[j] : j \in E }
      BY <2>1, <2>4
    <3>2. QED
      BY <1>9, <2>2, <2>4, <3>1
  <2>5. QED
    BY <2>3, <2>4
<1>12. QED
  BY <1>1, <1>2, <1>3, <1>11, CallAgrees DEF c, elem, R

\* parse_type_array: the element type is parsed, or none was.
LEMMA ArrayElemAgrees ==
    ASSUME IInv, NEW ts \in Seq(Tok), Completes(ts), ArrayElem
    PROVE  Agrees(ts)
<1> DEFINE c == Caller(stack, Len(stack))
<1>1. /\ Quiet /\ out = "running" /\ idx' = idx /\ Goto("array_semi") /\ Top.at = "array_elem"
  BY DEF ArrayElem, Back
<1>2. "array_semi" \in Label \ Judges /\ Usable
  BY <1>1, AnyUsable DEF Label, Looking, SkipsWhitespace, Judges, ExprCaller
<1>3. Rest(ts, c, "array_semi") = Rest(ts, c, "array_elem")
  <2> HIDE DEF c
  <2>1. "array_semi" \in AuxAt /\ "array_elem" \in AuxAt
    BY DEF AuxAt
  <2>2. /\ AuxRest(ts, "array_semi") = AuxRest(ts, "array_elem")
        /\ AuxNull(ts, "array_semi") = AuxNull(ts, "array_elem")
    BY RestAux
  <2>3. \A at \in AuxAt :
            Rest(ts, c, at) = IF c = "array_elem" THEN AuxRest(ts, at) ++ AuxNull(ts, at)
                                                  ELSE AuxRest(ts, at)
    BY RestExpr
  <2>4. /\ Rest(ts, c, "array_semi")
              = IF c = "array_elem"
                THEN AuxRest(ts, "array_semi") ++ AuxNull(ts, "array_semi")
                ELSE AuxRest(ts, "array_semi")
        /\ Rest(ts, c, "array_elem")
              = IF c = "array_elem"
                THEN AuxRest(ts, "array_elem") ++ AuxNull(ts, "array_elem")
                ELSE AuxRest(ts, "array_elem")
    BY <2>1, <2>3
  <2>5. QED
    BY <2>2, <2>4
<1>4. Rest(ts, c, "array_semi")[idx] = Left(ts)
  BY <1>1, <1>3 DEF Left
<1> HIDE DEF c
<1>5. QED
  BY <1>1, <1>2, <1>4, StaysAgrees DEF c

\* parse_type_array: the semicolon before a length or none.
LEMMA ArraySemiAgrees ==
    ASSUME IInv, NEW ts \in Seq(Tok), Completes(ts), ArraySemi
    PROVE  Agrees(ts)
<1> DEFINE c == Caller(stack, Len(stack))
           none == Sym(ts, {";"}) ** NoLength(ts)
<1>1. /\ On("array_semi") /\ errs' = errs /\ out' = out
      /\ Peek = ";" => (idx' = idx + 1 /\ Goto("array_len"))
      /\ Peek # ";" => (idx' = idx /\ Goto("array_end"))
  BY DEF ArraySemi, Quiet
<1>2. /\ idx \in Places(ts) /\ idx + 1 \in Places(ts) /\ out = "running"
      /\ Look(ts, idx) = Peek /\ Peek # "ws" /\ Top.at = "array_semi"
  <2>1. On("array_semi") /\ "array_semi" \in SkipsWhitespace
    BY <1>1 DEF SkipsWhitespace
  <2>2. QED
    BY <2>1, OnIs
<1>3. /\ {"array_semi", "array_len", "array_end"} \subseteq AuxAt
      /\ {"array_len", "array_end"} \subseteq Label \ Judges /\ Usable
  BY <1>2, AnyUsable DEF AuxAt, Label, Looking, SkipsWhitespace, Judges, ExprCaller
<1>4. /\ c = "array_elem" => Left(ts) = ArrayTail(ts)[idx] \cup none[idx]
      /\ c # "array_elem" => Left(ts) = ArrayTail(ts)[idx]
  <2>1. Left(ts) = Rest(ts, c, "array_semi")[idx]
    BY <1>2 DEF Left
  <2>2. AuxRest(ts, "array_semi") = ArrayTail(ts) /\ AuxNull(ts, "array_semi") = none
    BY RestAux
  <2> HIDE DEF c, none
  <2>3. /\ c = "array_elem" =>
              Rest(ts, c, "array_semi")[idx]
                = AuxRest(ts, "array_semi")[idx] \cup AuxNull(ts, "array_semi")[idx]
        /\ c # "array_elem" => Rest(ts, c, "array_semi")[idx] = AuxRest(ts, "array_semi")[idx]
    BY <1>2, <1>3, AuxIs
  <2>4. QED
    BY <2>1, <2>2, <2>3
<1>5. CASE Peek = ";"
  <2> DEFINE q == Const(ts) ** ArrayEndTail(ts)
  <2>1. ArrayTail(ts)[idx] = q[idx + 1] /\ none[idx] = NoLength(ts)[idx + 1]
    BY <1>2, <1>5, ArrayTailIs
  <2>2. /\ AuxRest(ts, "array_len") = q /\ AuxNull(ts, "array_len") = NoLength(ts)
    BY RestAux
  <2> HIDE DEF q, none, c
  <2>3. /\ c = "array_elem" =>
              Rest(ts, c, "array_len")[idx + 1] = q[idx + 1] \cup NoLength(ts)[idx + 1]
        /\ c # "array_elem" => Rest(ts, c, "array_len")[idx + 1] = q[idx + 1]
    BY <1>2, <1>3, <2>2, AuxIs
  <2>4. Rest(ts, c, "array_len")[idx + 1] = Left(ts)
    BY <1>4, <2>1, <2>3
  <2>5. QED
    BY <1>1, <1>2, <1>3, <1>5, <2>4, GotoAgrees DEF c
<1>6. CASE Peek # ";"
  <2>1. ArrayTail(ts)[idx] = ArrayEndTail(ts)[idx] /\ none[idx] = {}
    BY <1>2, <1>6, ArrayTailIs
  <2> HIDE DEF none, c
  <2>2. Rest(ts, c, "array_end") = AuxRest(ts, "array_end")
        /\ AuxRest(ts, "array_end") = ArrayEndTail(ts)
    BY AuxSame, RestAux
  <2>3. Rest(ts, c, "array_end")[idx] = ArrayEndTail(ts)[idx]
    BY <2>2
  <2>4. Rest(ts, c, "array_end")[idx] = Left(ts)
    BY <1>4, <2>1, <2>3
  <2>5. QED
    BY <1>1, <1>2, <1>3, <1>6, <2>4, GotoAgrees DEF c
<1>7. QED
  BY <1>5, <1>6

\* parse_type_array: the length.
LEMMA ArrayLenAgrees ==
    ASSUME IInv, NEW ts \in Seq(Tok), Completes(ts), ArrayLen
    PROVE  Agrees(ts)
<1> DEFINE c == Caller(stack, Len(stack))
           X == {"int"}
           q == Const(ts) ** ArrayEndTail(ts)
<1>1. On("array_len") /\ errs' = errs /\ out' = out
  BY DEF ArrayLen, Quiet
<1>2. /\ idx \in Places(ts) /\ idx + 1 \in Places(ts) /\ out = "running"
      /\ Look(ts, idx) = Peek /\ Peek # "ws" /\ Peek # "NULL" /\ Top.at = "array_len"
  BY <1>1, OnIs DEF SkipsWhitespace, On
<1>3. /\ {"array_len", "array_end"} \subseteq AuxAt /\ "array_end" \in Label \ Judges
      /\ Usable /\ Top.at \notin {"prog", "prog_fn"}
  BY <1>2, AnyUsable DEF AuxAt, Label, Looking, SkipsWhitespace, Judges, ExprCaller
<1>4. q[idx] = IF Peek \in X THEN ArrayEndTail(ts)[idx + 1] ELSE {}
  <2>1. X \in Symbols /\ ArrayEndTail(ts) \in Forward(ts)
    BY ArrayIs DEF Symbols, Tok
  <2>2. q = Sym(ts, X) ** ArrayEndTail(ts)
    BY DEF Const
  <2> HIDE DEF X, q
  <2>3. QED
    BY <1>2, <2>1, <2>2, SymThen
<1>5. NoLength(ts)[idx] = IF Peek = "int" THEN {} ELSE {idx}
  BY <1>2, NoLengthIs
<1>6. AuxRest(ts, "array_len") = q /\ AuxNull(ts, "array_len") = NoLength(ts)
  BY RestAux
<1> HIDE DEF q, c
<1>7. /\ c = "array_elem" => Left(ts) = q[idx] \cup NoLength(ts)[idx]
      /\ c # "array_elem" => Left(ts) = q[idx]
  BY <1>2, <1>3, <1>6, AuxIs DEF Left, c
<1>8. CASE Peek = "int"
  <2>1. idx' = idx + 1 /\ Goto("array_end")
    BY <1>8 DEF ArrayLen
  <2>2. Rest(ts, c, "array_end") = AuxRest(ts, "array_end")
        /\ AuxRest(ts, "array_end") = ArrayEndTail(ts)
    BY AuxSame, RestAux
  <2>3. Rest(ts, c, "array_end")[idx + 1] = ArrayEndTail(ts)[idx + 1]
    BY <2>2
  <2>4. Rest(ts, c, "array_end")[idx + 1] = Left(ts)
    BY <1>4, <1>5, <1>7, <1>8, <2>3
  <2>5. QED
    BY <1>1, <1>2, <1>3, <2>1, <2>4, GotoAgrees DEF c
<1>9. CASE Peek # "int"
  <2>1. Pops /\ val' = 0 /\ idx' = idx
    BY <1>9 DEF ArrayLen, Return, Pops
  <2>2. q[idx] = {} /\ NoLength(ts)[idx] = {idx}
    BY <1>4, <1>5, <1>9
  <2>3. CASE c = "array_elem"
    <3>1. Left(ts) = {idx}
      BY <1>7, <2>2, <2>3
    <3>2. Usable'
      BY <1>2, <1>3, <2>1, <2>3, AuxReturnsTo DEF c
    <3>3. QED
      BY <1>1, <1>2, <1>3, <2>1, <3>1, <3>2, ReturnsAgrees
  <2>4. CASE c # "array_elem"
    <3>1. Left(ts) = {}
      BY <1>7, <2>2, <2>4
    <3>2. ~ Ahead(ts)
      BY <3>1, StuckIs
    <3>3. ~ Usable'
      BY <1>2, <1>3, <2>1, <2>4, AuxReturnsTo DEF c
    <3>4. QED
      BY <1>1, <1>2, <3>2, <3>3, LostAgrees
  <2>5. QED
    BY <2>3, <2>4
<1>10. QED
  BY <1>8, <1>9

\* parse_type_array: the right bracket.
LEMMA ArrayEndAgrees ==
    ASSUME IInv, NEW ts \in Seq(Tok), Completes(ts), ArrayEnd
    PROVE  Agrees(ts)
<1> DEFINE X == {"]"}
<1>1. On("array_end") /\ Expect(X, idx) /\ Goto("ptr") /\ idx' = idx + 1
  BY DEF ArrayEnd
<1>2. X \in Symbols /\ Stars(ts) \in Forward(ts)
  BY ArrayIs DEF Symbols, Tok
<1>3. \A c : /\ Rest(ts, c, "array_end") = Sym(ts, X) ** Stars(ts)
             /\ Rest(ts, c, "ptr") = Stars(ts)
  BY AuxSame, RestAux DEF ArrayEndTail
<1>4. /\ "array_end" \in SkipsWhitespace /\ "array_end" \notin Judges
      /\ "ptr" \in Label \ Judges
  BY DEF SkipsWhitespace, Judges, ExprCaller, Label, Looking
<1> HIDE DEF X
<1>5. QED
  BY <1>1, <1>2, <1>3, <1>4, SymbolAgrees

\* parse_type_aux: a star or the end of the type.
LEMMA PtrAgrees ==
    ASSUME IInv, NEW ts \in Seq(Tok), Completes(ts), Ptr
    PROVE  Agrees(ts)
<1> DEFINE n == Len(stack)
           R == Stars(ts)
<1>1. On("ptr") /\ errs' = errs /\ out' = out
  BY DEF Ptr, Quiet
<1>2. /\ idx \in Places(ts) /\ idx + 1 \in Places(ts) /\ out = "running"
      /\ Look(ts, idx) = Peek /\ Peek # "ws" /\ Top.at = "ptr"
  BY <1>1, OnIs DEF SkipsWhitespace
<1>3. "ptr" \in AuxAt /\ Usable /\ Top.at \notin {"prog", "prog_fn"}
  BY <1>2, AnyUsable DEF AuxAt, Judges, ExprCaller
<1>4. Rest(ts, Caller(stack, n), "ptr") = R /\ R \in Phrases(ts)
  BY AuxSame, RestAux, ArrayIs, Advance
<1>5. R[idx] = {idx} \cup (IF Peek = "*" THEN R[idx + 1] ELSE {}) /\ Left(ts) = R[idx]
  BY <1>2, <1>4, StarsAt DEF Left
<1>6. CASE Peek = "*"
  <2>1. idx' = idx + 1 /\ stack' = stack
    BY <1>6 DEF Ptr
  <2>2. idx \notin Below(ts)
    <3>1. Len(stack) - 1 \in 1 .. Len(stack) /\ stack[Len(stack) - 1].at \in WaitsForType
      BY <1>2, <1>3, CallerAt, WhoCalls
    <3>2. Follows(ts, stack, Len(stack) - 1, {";", "=", "{", "]"})
      BY <3>1, AfterType
    <3>3. Look(ts, idx) \notin {";", "=", "{", "]"} \cup {"ws"}
      BY <1>2, <1>6
    <3>4. QED
      BY <1>3, <3>2, <3>3, NotBelow
  <2>3. n \in Nat \ {0} /\ stack[n].at = "ptr"
    BY <1>2 DEF IInv, Frames, Top
  <2> HIDE DEF R, n
  <2>4. R = Rest(ts, Caller(stack, n), stack[n].at)
    BY <1>4, <2>3
  <2>5. Good(ts, stack, n, idx + 1) <=> \E j \in R[idx + 1] : Good(ts, stack, n - 1, j)
    BY <1>2, <1>4, <2>3, <2>4, GoodIs
  <2>6. R[idx + 1] \subseteq Places(ts)
    BY <1>2, <1>4 DEF Phrases
  <2>7. Good(ts, stack, n, idx + 1) <=> R[idx + 1] \cap Below(ts) # {}
    BY <2>5, <2>6 DEF Below, n
  <2>8. Good(ts, stack, n, idx) <=> Left(ts) \cap Below(ts) # {}
    BY AheadIs DEF n
  <2>9. Good(ts, stack', Len(stack'), idx') <=> Good(ts, stack, Len(stack), idx)
    BY <1>5, <1>6, <2>1, <2>2, <2>7, <2>8 DEF n
  <2>10. Usable'
    BY <1>2, <2>1, AnyUsable DEF Top, Judges, ExprCaller
  <2>11. QED
    BY <1>1, <1>2, <1>3, <2>9, <2>10, AheadNext
<1>7. CASE Peek # "*"
  <2>1. Pops /\ val' # 0 /\ idx' = idx
    BY <1>7 DEF Ptr, Return, Pops, TypeRef
  <2>2. Left(ts) = {idx}
    BY <1>5, <1>7
  <2>3. Usable'
    BY <1>2, <1>3, <2>1, AuxReturnsTo
  <2>4. QED
    BY <1>1, <1>2, <1>3, <2>1, <2>2, <2>3, ReturnsAgrees
<1>8. QED
  BY <1>6, <1>7
-----------------------------------------------------------------------------
(***************************************************************************)
(* Every step                                                              *)
(***************************************************************************)

\* At the start the whole program is ahead.
LEMMA InitGInv == Init => GInv
<1> SUFFICES ASSUME Init, NEW ts \in Seq(Tok)
             PROVE  InGrammar(ts) <=> Ahead(ts)
  BY DEF Init, GInv
<1> DEFINE R == ProgTail(ts)
<1>1. /\ idx = 1 /\ Len(stack) = 1 /\ stack[1].at = "prog" /\ Top.at = "prog"
  BY DEF Init, MakeFrame, Top
<1>2. 1 \in Places(ts) /\ R \in Phrases(ts) /\ R[1] \subseteq Places(ts)
  <2>1. 1 \in Places(ts)
    BY DEF Places
  <2>2. R \in Phrases(ts)
    BY ProgIs, Advance
  <2>3. QED
    BY <2>1, <2>2 DEF Phrases
<1>3. R = Rest(ts, Caller(stack, 1), stack[1].at)
  BY <1>1 DEF Rest
<1>4. InGrammar(ts) <=> Len(ts) + 1 \in R[1]
  BY DEF InGrammar, ProgTail
<1> HIDE DEF R
<1>5. Good(ts, stack, 1, 1) <=> \E j \in R[1] : Good(ts, stack, 1 - 1, j)
  BY <1>2, <1>3, GoodIs
<1>6. \A j : Good(ts, stack, 0, j) <=> j = Len(ts) + 1
  BY GoodEnd
<1>7. Good(ts, stack, 1, 1) <=> Len(ts) + 1 \in R[1]
  BY <1>5, <1>6
<1>8. Usable
  BY <1>1, AnyUsable DEF Judges, ExprCaller
<1>9. QED
  BY <1>1, <1>4, <1>7, <1>8 DEF Ahead

\* One token more leaves fewer programs that begin like this.
LEMMA FeedAgrees ==
    ASSUME IInv, GInv, Feed
    PROVE  GInv'
<1>1. /\ UNCHANGED <<idx, stack, val, nodes, errs, out>> /\ out = "running" /\ ~ Known
      /\ \/ (\E tok \in Tokens : toks' = Append(toks, tok)) /\ closed' = closed
         \/ closed' = TRUE /\ toks' = toks
  BY DEF Feed
<1>2. closed = FALSE /\ toks \in Seq(Tokens)
  BY <1>1 DEF Known, IInv, TokensTyped
<1> SUFFICES ASSUME NEW ts \in Seq(Tok), Completes(ts)'
             PROVE  InGrammar(ts) <=> errs' = <<>> /\ Ahead(ts)'
  BY <1>1 DEF GInv
<1>3. /\ Len(toks') <= Len(ts) /\ \A i \in 1 .. Len(toks') : ts[i] = toks'[i]
  BY DEF Completes
<1>4. Len(toks) <= Len(ts) /\ \A i \in 1 .. Len(toks) : ts[i] = toks[i]
  <2>1. CASE toks' = toks
    BY <1>3, <2>1
  <2>2. CASE \E tok \in Tokens : toks' = Append(toks, tok)
    <3>1. PICK tok \in Tokens : toks' = Append(toks, tok)
      BY <2>2
    <3>2. /\ Len(toks) \in Nat /\ Len(toks') = Len(toks) + 1
          /\ \A i \in 1 .. Len(toks) : toks'[i] = toks[i]
      BY <1>2, <3>1
    <3>3. Len(ts) \in Nat
      OBVIOUS
    <3>4. QED
      BY <1>3, <3>2, <3>3
  <2>3. QED
    BY <1>1, <2>1, <2>2
<1>5. Completes(ts)
  BY <1>2, <1>4 DEF Completes
<1>6. InGrammar(ts) <=> errs = <<>> /\ Ahead(ts)
  BY <1>1, <1>5 DEF GInv
<1>7. Ahead(ts)' <=> Ahead(ts)
  BY <1>1 DEF Ahead, Usable, Top, AstIsExpr, KindOf, Good, Caller, Rest
<1>8. QED
  BY <1>1, <1>6, <1>7

\* A step that agrees with the grammar keeps what the parser has found of it.
LEMMA AgreesKeeps ==
    ASSUME GInv, out = "running", UNCHANGED <<toks, closed>>,
           \A ts \in Seq(Tok) : Completes(ts) => Agrees(ts)
    PROVE  GInv'
<1> SUFFICES ASSUME NEW ts \in Seq(Tok), Completes(ts)'
             PROVE  /\ out' = "running" => (InGrammar(ts) <=> errs' = <<>> /\ Ahead(ts)')
                    /\ out' = "parsed" => closed' /\ (InGrammar(ts) <=> errs' = <<>>)
                    /\ out' = "panic" \/ (out' = "crash" /\ Top'.at # "prog")
                          => ~ InGrammar(ts)
  BY DEF GInv
<1>1. Completes(ts)
  BY DEF Completes
<1>2. InGrammar(ts) <=> errs = <<>> /\ Ahead(ts)
  BY <1>1 DEF GInv
<1>3. Agrees(ts)
  BY <1>1
<1> DEFINE a == Ahead(ts)
           b == Ahead(ts)'
           g == InGrammar(ts)
<1>4. /\ g <=> errs = <<>> /\ a
      /\ \/ out' = "running" /\ errs' = errs /\ (b <=> a)
         \/ ~ a /\ (out' \in {"panic", "crash"} \/ (out' = "running" /\ errs' # <<>>))
  BY <1>2, <1>3 DEF Agrees
<1> HIDE DEF a, b, g
<1>5. /\ out' = "running" => (g <=> errs' = <<>> /\ b)
      /\ out' # "parsed"
      /\ out' \in {"panic", "crash"} => ~ g
  BY <1>4
<1>6. QED
  BY <1>5 DEF a, b, g

\* Every step of the functions agrees with the grammar.
LEMMA CallsAgree ==
    ASSUME IInv, NEW ts \in Seq(Tok), Completes(ts),
           ParseFn \/ ParseBlock \/ ParseStmt \/ ParseExpr \/ ParseType
    PROVE  Agrees(ts)
<1>1. CASE ParseFn
  BY <1>1, FnNameAgrees, FnLparenAgrees, FnNoParamsAgrees, FnParamAgrees, FnCommaAgrees,
     FnRparenAgrees, FnRetAgrees, FnRetArrowAgrees, FnRetTypeAgrees, FnBodyAgrees,
     FnEndAgrees DEF ParseFn
<1>2. CASE ParseBlock
  BY <1>2, BlockAgrees, BlockStmtAgrees, BlockStmtDoneAgrees, BlockLoopEndAgrees,
     BlockEndAgrees DEF ParseBlock
<1>3. CASE ParseStmt
  BY <1>3, StmtLetAgrees, LetNameAgrees, LetColonAgrees, LetTypeAgrees, LetEndAgrees,
     LetAssignAgrees, LetExprAgrees, StmtRetAgrees, RetExprAgrees, RetSemiAgrees,
     StmtExprAgrees, StmtExprDoneAgrees DEF ParseStmt
<1>4. CASE ParseExpr
  <2>1. CASE Factor
    BY <2>1, LhsAgrees, RhsAgrees, RhsMissingAgrees, FactorOpAgrees DEF Factor
  <2>2. CASE Term
    BY <2>2, LhsAgrees, RhsAgrees, RhsMissingAgrees, TermOpAgrees DEF Term
  <2>3. QED
    BY <1>4, <2>1, <2>2, ExprIfAgrees, ExprBlockAgrees, ExprTermAgrees,
       BottomConstAgrees, BottomStrAgrees, BottomNullAgrees DEF ParseExpr
<1>5. CASE ParseType
  BY <1>5, TypeAgrees, TypeDoneAgrees, AuxNameAgrees, AuxArrayAgrees, ArrayElemAgrees,
     ArraySemiAgrees, ArrayLenAgrees, ArrayEndAgrees, PtrAgrees DEF ParseType
<1>6. QED
  BY <1>1, <1>2, <1>3, <1>4, <1>5

\* The functions run only until the parser has ended.
LEMMA CallsRun ==
    ASSUME ParseFn \/ ParseBlock \/ ParseStmt \/ ParseExpr \/ ParseType
    PROVE  out = "running"
<1>1. CASE ParseFn
  BY <1>1 DEF ParseFn, FnName, FnLparen, FnNoParams, FnParam, FnComma, FnRparen, FnRet,
     FnRetArrow, FnRetType, FnBody, FnEnd, On, Back
<1>2. CASE ParseBlock
  BY <1>2 DEF ParseBlock, Block, BlockStmt, BlockStmtDone, BlockLoopEnd, BlockEnd, On, Back
<1>3. CASE ParseStmt
  BY <1>3 DEF ParseStmt, StmtLet, LetName, LetColon, LetType, LetEnd, LetAssign, LetExpr,
     StmtRet, RetExpr, RetSemi, StmtExpr, StmtExprDone, On, Back
<1>4. CASE ParseExpr
  BY <1>4 DEF ParseExpr, ExprIf, ExprBlock, ExprTerm, BottomConst, BottomStr, BottomNull,
     Factor, Term, Lhs, Rhs, RhsMissing, Operator, On, Back
<1>5. CASE ParseType
  BY <1>5 DEF ParseType, Type, TypeDone, AuxName, AuxArray, ArrayElem, ArraySemi, ArrayLen,
     ArrayEnd, Ptr, On, Back
<1>6. QED
  BY <1>1, <1>2, <1>3, <1>4, <1>5

\* No step of the parser loses that.
LEMMA NextGInv ==
    ASSUME IInv, GInv, [Next]_vars
    PROVE  GInv'
<1>1. CASE Feed
  BY <1>1, FeedAgrees
<1>2. CASE Parse /\ UNCHANGED <<toks, closed>>
  <2>1. CASE ParseFn \/ ParseBlock \/ ParseStmt \/ ParseExpr \/ ParseType
    BY <1>2, <2>1, CallsAgree, CallsRun, AgreesKeeps
  <2>2. CASE ConsumeWhitespace \/ ProgFn \/ ProgFnDone \/ ProgDecl \/ ProgUnknown
    <3>1. out = "running"
      BY <2>2 DEF ConsumeWhitespace, ProgFn, ProgFnDone, ProgDecl, ProgUnknown, On, Back
    <3>2. \A ts \in Seq(Tok) : Completes(ts) => Agrees(ts)
      BY <2>2, ConsumeWhitespaceAgrees, ProgFnAgrees, ProgFnDoneAgrees, ProgDeclAgrees,
         ProgUnknownAgrees
    <3>3. QED
      BY <1>2, <3>1, <3>2, AgreesKeeps
  <2>3. CASE LookAtNull
    <3>1. \A ts \in Seq(Tok) : Completes(ts) => Agrees(ts)
      BY <2>3, LookAtNullAgrees DEF Agrees, LookAtNull
    <3>2. QED
      BY <1>2, <2>3, <3>1, AgreesKeeps DEF LookAtNull
  <2>4. CASE ProgEnd
    <3>1. out = "running" /\ out' = "parsed" /\ errs' = errs
      BY <2>4 DEF ProgEnd
    <3> SUFFICES ASSUME NEW ts \in Seq(Tok), Completes(ts)'
                 PROVE  closed' /\ (InGrammar(ts) <=> errs' = <<>>)
      BY <3>1 DEF GInv
    <3>2. Completes(ts)
      BY <1>2 DEF Completes
    <3>3. Ahead(ts) /\ closed
      BY <2>4, <3>2, ProgEndAgrees
    <3>4. InGrammar(ts) <=> errs = <<>> /\ Ahead(ts)
      BY <3>1, <3>2 DEF GInv
    <3>5. QED
      BY <1>2, <3>1, <3>3, <3>4
  <2>5. CASE ReleaseTree
    <3>1. out' \in {"released", "crash"} /\ stack' = stack /\ out = "parsed"
      BY <2>5 DEF ReleaseTree, ReleaseAst
    <3>2. Top'.at = "prog"
      BY <3>1 DEF IInv, Parsed, Top
    <3>3. QED
      BY <3>1, <3>2 DEF GInv
  <2>6. CASE CheckLeak
    BY <2>6 DEF CheckLeak, GInv
  <2>7. QED
    BY <1>2, <2>1, <2>2, <2>3, <2>4, <2>5, <2>6 DEF Parse, ParseProg
<1>3. CASE UNCHANGED vars
  <2>1. UNCHANGED <<toks, closed, idx, stack, val, nodes, errs, out>>
    BY <1>3 DEF vars
  <2>2. \A ts : (Completes(ts)' <=> Completes(ts)) /\ (Ahead(ts)' <=> Ahead(ts))
    BY <2>1 DEF Completes, Ahead, Usable, Top, AstIsExpr, KindOf, Good, Caller, Rest
  <2>3. Top' = Top
    BY <2>1 DEF Top
  <2>4. QED
    BY <2>1, <2>2, <2>3 DEF GInv
<1>4. QED
  BY <1>1, <1>2, <1>3 DEF Next

\* What the parser has found agrees with the grammar, whatever is still to
\* come.
LEMMA AlwaysGInv == Spec => []GInv
BY InitGInv, NextGInv, AlwaysIInv, PTL DEF Spec

\* The parser reports no error for the programs of the grammar and an error,
\* a panic or a crash for all others.
THEOREM ParserAcceptsGrammar == Spec => []AcceptsGrammar
<1>1. IInv /\ GInv => AcceptsGrammar
  <2> SUFFICES ASSUME IInv, GInv PROVE AcceptsGrammar
    OBVIOUS
  <2>1. toks \in Seq(Tok)
    BY ParserAssumption DEF IInv, TokensTyped
  <2>2. Completes(toks)
    <3>1. Len(toks) \in Nat
      BY <2>1
    <3>2. QED
      BY <3>1 DEF Completes
  <2>3. QED
    BY <2>1, <2>2 DEF GInv, AcceptsGrammar
<1>2. QED
  BY <1>1, AlwaysIInv, AlwaysGInv, PTL

\* An error is an error of the program: while the parser runs, and when it has
\* ended, no program that begins with the tokens it has seen and on which it
\* has reported an error or panicked is one of the grammar.
ErrorsAreFinal ==
    \A ts \in Seq(Tok) : Completes(ts) /\ InGrammar(ts) =>
        /\ out \in {"running", "parsed"} => errs = <<>>
        /\ out # "panic"

\* No error is early: however the program goes on after it, it is not one of
\* the grammar.
THEOREM ParserErrorsFinal == Spec => []ErrorsAreFinal
<1>1. GInv => ErrorsAreFinal
  BY DEF GInv, ErrorsAreFinal
<1>2. QED
  BY <1>1, AlwaysGInv, PTL
==============================================================================
