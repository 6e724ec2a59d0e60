---------------------------- MODULE ParserProofs -----------------------------
(***************************************************************************)
(* Theorems about Parser, for every set of tokens and every bound.         *)
(***************************************************************************)
EXTENDS Parser, Induction, FunctionTheorems, SequenceTheorems

(***************************************************************************)
(* The functions of the parser: the labels of each, and which calls which. *)
(***************************************************************************)

Label == Looking \cup Waiting \cup {"fn_param"}

FnAt == {"fn_name", "fn_lparen", "fn_params", "fn_param", "fn_comma",
         "fn_rparen", "fn_ret", "ret_arrow", "fn_ret_type", "fn_body", "fn_end"}

BlockAt == {"block", "block_loop", "block_stmt", "block_end"}

LetAt == {"let_name", "let_colon", "let_type", "let_semi", "let_expr"}

StmtAt == LetAt \cup {"stmt", "stmt_expr", "ret_expr", "ret_semi"}

TermAt == {"term_lhs", "term_op", "term_rhs"}

FactorAt == {"factor_lhs", "factor_op", "factor_rhs"}

TypeAt == {"type", "type_done"}

AuxAt == {"aux", "array_elem", "array_semi", "array_len", "array_end", "ptr"}

ExprCaller == {"let_expr", "ret_expr", "stmt_expr"}

TypeCaller == {"fn_ret_type", "let_type"}

\* A frame at lower may be the caller of one at upper.
Calls(lower, upper) ==
    \/ lower = "prog_fn" /\ upper \in FnAt
    \/ lower = "fn_end" /\ upper \in BlockAt
    \/ lower = "block_stmt" /\ upper \in StmtAt
    \/ lower \in ExprCaller /\ upper \in {"expr"} \cup BlockAt \cup TermAt
    \/ lower \in {"term_lhs", "term_rhs"} /\ upper \in FactorAt
    \/ lower \in {"factor_lhs", "factor_rhs"} /\ upper = "bottom"
    \/ lower \in TypeCaller /\ upper \in TypeAt
    \/ lower \in WaitsForType /\ upper \in AuxAt

\* A frame at a label has a node of a kind; "NULL" is the kind of 0.
Holds(at, kind) ==
    \/ at \in {"prog", "prog_fn"} /\ kind = "prog"
    \/ at \in FnAt \ {"fn_name"} /\ kind = "fn"
    \/ at \in BlockAt \ {"block"} /\ kind = "block"
    \/ at \in LetAt /\ kind = "let"
    \/ at = "ret_semi" /\ kind = "ret"
    \/ /\ at \in {"factor_op", "factor_rhs", "term_op", "term_rhs"}
       /\ kind \in {"binop", "const"}
    \/ /\ at \in {"fn_name", "block", "stmt", "stmt_expr", "ret_expr", "expr",
                  "bottom", "factor_lhs", "term_lhs"} \cup TypeAt \cup AuxAt
       /\ kind = "NULL"

\* A call is answered with a node of a kind.
Given(at, kind) ==
    \/ at = "prog_fn" /\ kind \in {"NULL", "fn"}
    \/ at = "fn_end" /\ kind = "block"
    \/ at = "block_stmt" /\ kind \in {"let", "ret"}
    \/ at \in ExprCaller /\ kind \in {"NULL", "block", "binop", "const"}
    \/ at \in {"term_lhs", "term_rhs"} /\ kind \in {"NULL", "binop", "const"}
    \/ at \in {"factor_lhs", "factor_rhs"} /\ kind \in {"NULL", "const"}
    \/ at \in TypeCaller /\ kind = "type"

\* The i-th child of a node of a kind is a node of a kind.
MayHold(kind, i, kid) ==
    \/ kind = "prog" /\ kid = "fn"
    \/ kind = "block" /\ kid \in {"let", "ret"}
    \/ kind \in {"fn", "let"} /\ i = 1 /\ kid \in {"NULL", "type"}
    \/ kind = "fn" /\ i = 2 /\ kid \in {"NULL", "block"}
    \/ kind = "let" /\ i = 2 /\ kid \in {"NULL", "binop", "const"}
    \/ kind \in {"ret", "binop"} /\ kid \in {"binop", "const"}

\* Where a function or a let-statement has no type yet, and where it has no
\* body or value.
TypeUnset ==
    {"fn_lparen", "fn_params", "fn_param", "fn_comma", "fn_rparen", "fn_ret",
     "ret_arrow", "fn_ret_type", "let_name", "let_colon", "let_type"}

BodyUnset == LetAt \cup (FnAt \ {"fn_name"})
-----------------------------------------------------------------------------
(***************************************************************************)
(* The inductive invariant                                                 *)
(***************************************************************************)

Frame == [at : Label, node : Nat, tok : Nat]

Node == [kind : AstKind, tok : Nat, kids : Seq(Nat)]

\* The tokens, and where the errors are.
TokensTyped ==
    /\ toks \in Seq(Tokens) /\ Len(toks) <= MaxToks
    /\ closed \in BOOLEAN
    /\ idx \in 1 .. Len(toks) + 1
    /\ out \in Outcome
    /\ errs \in Seq(Nat)
    /\ \A i \in 1 .. Len(errs) : errs[i] \in 1 .. Len(toks)

\* The tree: which node may be the child of which, and that an operator is
\* made after its operands.
Tree ==
    /\ nodes \in Seq(Node)
    /\ Len(nodes) >= 1
    /\ freed \subseteq 1 .. Len(nodes)
    /\ \A n \in 1 .. Len(nodes) :
          /\ nodes[n].tok <= Len(toks)
          /\ nodes[n].kind = "prog" <=> n = 1
          /\ Arity(nodes[n].kind, Len(nodes[n].kids))
          /\ \A i \in 1 .. Len(nodes[n].kids) :
                /\ nodes[n].kids[i] <= Len(nodes)
                /\ MayHold(nodes[n].kind, i, KindOf(nodes[n].kids[i]))
                /\ nodes[n].kind = "binop" => nodes[n].kids[i] < n

\* The frames: each was called from the one below it, and has a node of its
\* own kind, whose children are set in the order of the labels.
Fits(frame) ==
    /\ frame.node <= Len(nodes)
    /\ Holds(frame.at, KindOf(frame.node))
    /\ frame.tok <= idx
    /\ frame.at \in {"factor_rhs", "term_rhs"} => frame.tok < idx
    /\ frame.at = "fn_lparen" => frame.tok # 0
    /\ frame.at = "ret_arrow" => idx # 1
    /\ frame.at \in TypeUnset => nodes[frame.node].kids[1] = 0
    /\ frame.at \in BodyUnset => nodes[frame.node].kids[2] = 0

Frames ==
    /\ stack \in Seq(Frame)
    /\ Len(stack) >= 1
    /\ stack[1].at \in {"prog", "prog_fn"} /\ stack[1].node = 1
    /\ \A d \in 1 .. Len(stack) - 1 : Calls(stack[d].at, stack[d + 1].at)
    /\ \A d \in 1 .. Len(stack) : Fits(stack[d])

\* A statement has consumed a token as soon as its function has left the
\* label at which it begins.
Begun ==
    \A d \in 1 .. Len(stack) :
        stack[d].at = "block_stmt" =>
            \/ d < Len(stack) /\ stack[d + 1].at \in {"stmt", "stmt_expr"}
            \/ stack[d].tok < idx

\* What the running function was given by the one that returned last.
Answer ==
    /\ val \in 0 .. Len(nodes)
    /\ Top.at \in WaitsForNode => Given(Top.at, KindOf(val))

\* Every node of live is held in one place, as the i-th child kids[n][i] of
\* another one or as one of the roots, and what is held is in live.  A place
\* that has 0 is empty.
RootsOwn(live, roots) ==
    \A d \in Nat : roots[d] # 0 =>
        /\ roots[d] \in live
        /\ \A e \in Nat : roots[e] = roots[d] => e = d

KidsOwn(live, kids, roots) ==
    \A n \in live : \A i \in Nat : kids[n][i] # 0 =>
        /\ kids[n][i] \in live
        /\ \A d \in Nat : roots[d] # kids[n][i]
        /\ \A m \in live : \A j \in Nat :
              kids[m][j] = kids[n][i] => m = n /\ j = i

NoneLost(live, kids, roots) ==
    \A n \in live : \/ \E d \in Nat : roots[d] = n
                    \/ \E m \in live : \E i \in Nat : kids[m][i] = n

Owned(live, kids, roots) ==
    /\ RootsOwn(live, roots)
    /\ KidsOwn(live, kids, roots)
    /\ NoneLost(live, kids, roots)

Kids == [n \in Nat |-> [i \in Nat |->
            IF n \in 1 .. Len(nodes) /\ i \in 1 .. Len(nodes[n].kids)
            THEN nodes[n].kids[i] ELSE 0]]

\* The roots are the node of a frame and, at 0, the value just returned.
HeldValue == IF Top.at \in WaitsForNode THEN val ELSE 0

Roots == [d \in Nat |-> IF d = 0 THEN HeldValue
                        ELSE IF d <= Len(stack) THEN stack[d].node ELSE 0]

Owners == out \in {"running", "parsed"} => Owned(Live, Kids, Roots)

\* The program is parsed when no function but parse_prog runs.
Parsed == out = "parsed" => Len(stack) = 1 /\ Top.at = "prog"

IInv ==
    /\ TokensTyped /\ Tree /\ Frames /\ Begun /\ Answer /\ Owners /\ Parsed
    /\ OnlyLetTypesLeak
-----------------------------------------------------------------------------
(***************************************************************************)
(* What Reached finds                                                      *)
(***************************************************************************)

\* What the recursive definition says of one step.
Layer(n, kids, f, d) ==
    IF d = 0 THEN {n}
    ELSE f[d - 1] \cup UNION { kids[m] : m \in f[d - 1] \ {0} }

\* There is a function that the recursive definition is about.
LEMMA ReachExists ==
    ASSUME NEW N \in Nat, NEW n, NEW kids
    PROVE  \E f : f = [d \in 0 .. N |-> Layer(n, kids, f, d)]
<1> DEFINE Upto(k, f) == f = [d \in 0 .. k |-> Layer(n, kids, f, d)]
           T == { k \in 0 .. N : \E f : Upto(k, f) }
<1>1. 0 \in T
  <2>1. Upto(0, [step \in 0 .. 0 |-> {n}]) 
    BY DEF Layer
  <2>2. QED
    BY <2>1
<1>2. \A k \in 0 .. N - 1 : k \in T => k + 1 \in T
  <2> SUFFICES ASSUME NEW k \in 0 .. N - 1, NEW f, Upto(k, f)
               PROVE  \E g : Upto(k + 1, g)
    OBVIOUS
  <2> DEFINE g == [d \in 0 .. k + 1 |-> Layer(n, kids, f, d)]
  <2>1. \A d \in 0 .. k : g[d] = f[d]
    <3>1. \A d \in 0 .. k : f[d] = Layer(n, kids, f, d)
      BY Zenon
    <3>2. \A d \in 0 .. k : d \in 0 .. k + 1
      OBVIOUS
    <3>3. QED
      BY <3>1, <3>2, Zenon
  <2>2. \A d \in 0 .. k + 1 : Layer(n, kids, f, d) = Layer(n, kids, g, d)
    <3> SUFFICES ASSUME NEW d \in 0 .. k + 1
                 PROVE  Layer(n, kids, f, d) = Layer(n, kids, g, d)
      OBVIOUS
    <3> HIDE DEF g
    <3>1. CASE d = 0
      BY <3>1 DEF Layer
    <3>2. CASE d # 0
      <4>1. d - 1 \in 0 .. k
        BY <3>2
      <4>2. g[d - 1] = f[d - 1]
        BY <2>1, <4>1
      <4>3. QED
        BY <3>2, <4>2 DEF Layer
    <3>3. QED
      BY <3>1, <3>2
  <2>3. Upto(k + 1, g)
    BY <2>2, Zenon
  <2>4. QED
    BY <2>3
<1>3. N \in T
  <2> HIDE DEF T
  <2>1. QED
    BY <1>1, <1>2, Inductive
<1>4. QED
  BY <1>3

\* Reached is the last step of one.
LEMMA ReachRecurs ==
    ASSUME NEW N \in Nat, NEW n, NEW kids
    PROVE  \E f : /\ f = [d \in 0 .. N |-> Layer(n, kids, f, d)]
                  /\ Reached(n, kids, N) = f[N]
<1> DEFINE Good(f) == f = [d \in 0 .. N |-> Layer(n, kids, f, d)]
           f == CHOOSE reach : Good(reach)
<1>1. Good(f)
  <2>1. \E reach : Good(reach)
    BY ReachExists
  <2> HIDE DEF Good
  <2>2. QED
    BY <2>1
<1>2. Reached(n, kids, N) = f[N]
  BY DEF Reached, Layer
<1>3. QED
  BY <1>1, <1>2

\* As many steps as there are nodes find the smallest set that has n and, with
\* every node, what follows it.
LEMMA ReachedLeast ==
    ASSUME NEW N \in Nat, NEW n \in 0 .. N,
           NEW kids, kids \in [1 .. N -> SUBSET (0 .. N)]
    PROVE  /\ Reached(n, kids, N) \subseteq 0 .. N
           /\ n \in Reached(n, kids, N)
           /\ \A m \in Reached(n, kids, N) \ {0} : kids[m] \subseteq Reached(n, kids, N)
           /\ \A S : n \in S /\ (\A m \in S \ {0} : m \in 1 .. N => kids[m] \subseteq S)
                        => Reached(n, kids, N) \subseteq S
<1>1. PICK f : /\ f = [d \in 0 .. N |-> Layer(n, kids, f, d)]
               /\ Reached(n, kids, N) = f[N]
  BY ReachRecurs
<1>2. \A d \in 0 .. N : f[d] = Layer(n, kids, f, d)
  BY <1>1, Zenon
<1>3. f[0] = {n}
  <2>1. 0 \in 0 .. N
    OBVIOUS
  <2>2. f[0] = Layer(n, kids, f, 0)
    BY <1>2, <2>1
  <2>3. QED
    BY <2>2 DEF Layer
<1>4. \A d \in 0 .. N - 1 :
        f[d + 1] = f[d] \cup UNION { kids[m] : m \in f[d] \ {0} }
  <2> TAKE d \in 0 .. N - 1
  <2>1. d + 1 \in 0 .. N /\ d + 1 # 0 /\ (d + 1) - 1 = d
    OBVIOUS
  <2>2. f[d + 1] = Layer(n, kids, f, d + 1)
    BY <1>2, <2>1
  <2>3. QED
    BY <2>1, <2>2 DEF Layer
\* The layers lie in every closed set with n, 0 .. N among them.
<1>5. ASSUME NEW S, n \in S,
             \A m \in S \ {0} : m \in 1 .. N => kids[m] \subseteq S
      PROVE  \A d \in 0 .. N : f[d] \subseteq S \cap (0 .. N)
  <2> DEFINE T == { d \in 0 .. N : f[d] \subseteq S \cap (0 .. N) }
  <2>1. 0 \in T
    BY <1>3, <1>5
  <2>2. ASSUME NEW d \in 0 .. N - 1, d \in T
        PROVE  d + 1 \in T
    <3>1. \A m \in f[d] \ {0} : kids[m] \subseteq S \cap (0 .. N)
      BY <1>5, <2>2
    <3>2. f[d + 1] \subseteq S \cap (0 .. N)
      BY <1>4, <2>2, <3>1
    <3>3. QED
      BY <3>2
  <2>3. 0 .. N \subseteq T
    <3> HIDE DEF T
    <3>1. QED
      BY <2>1, <2>2, Inductive
  <2>4. QED
    BY <2>3
<1>6. \A d \in 0 .. N : f[d] \subseteq 0 .. N
  BY <1>5
<1>7. \A d \in 0 .. N : n \in f[d]
  <2> DEFINE T == { d \in 0 .. N : n \in f[d] }
  <2>1. 0 \in T
    BY <1>3
  <2>2. \A d \in 0 .. N - 1 : d \in T => d + 1 \in T
    BY <1>4
  <2>3. 0 .. N \subseteq T
    <3> HIDE DEF T
    <3>1. QED
      BY <2>1, <2>2, Inductive
  <2>4. QED
    BY <2>3
\* A layer is closed, or has a node for every step that made it.
<1> DEFINE Closed(A) == \A m \in A \ {0} : kids[m] \subseteq A
<1>8. \A d \in 0 .. N : Closed(f[d]) \/ Cardinality(f[d]) >= d + 1
  <2> DEFINE T == { d \in 0 .. N : Closed(f[d]) \/ Cardinality(f[d]) >= d + 1 }
  <2>1. 0 \in T
    <3>1. Cardinality(f[0]) = 1
      BY <1>3, FS_Singleton
    <3>2. QED
      BY <3>1
  <2>2. ASSUME NEW d \in 0 .. N - 1, d \in T
        PROVE  d + 1 \in T
    <3>1. CASE Closed(f[d])
      <4>1. f[d + 1] = f[d]
        <5>1. \A m \in f[d] \ {0} : kids[m] \subseteq f[d]
          BY <3>1
        <5>2. UNION { kids[m] : m \in f[d] \ {0} } \subseteq f[d]
          BY <5>1
        <5>3. QED
          BY <1>4, <5>2
      <4>2. QED
        BY <3>1, <4>1
    <3>2. CASE ~ Closed(f[d])
      <4>1. f[d] \subseteq f[d + 1] /\ f[d] # f[d + 1]
        BY <1>4, <3>2
      <4>2. IsFiniteSet(f[d + 1])
        <5>1. IsFiniteSet(0 .. N)
          BY FS_Interval
        <5>2. QED
          BY <1>6, <5>1, FS_Subset
      <4>3. /\ Cardinality(f[d]) <= Cardinality(f[d + 1])
            /\ Cardinality(f[d]) # Cardinality(f[d + 1])
            /\ IsFiniteSet(f[d])
        <5>1. f[d] \in SUBSET f[d + 1]
          BY <4>1
        <5>2. QED
          BY <4>1, <4>2, <5>1, FS_Subset
      <4>4. Cardinality(f[d]) \in Nat /\ Cardinality(f[d + 1]) \in Nat
        BY <4>2, <4>3, FS_CardinalityType
      <4>5. Cardinality(f[d]) >= d + 1
        BY <2>2, <3>2
      <4>6. Cardinality(f[d + 1]) >= (d + 1) + 1
        BY <4>3, <4>4, <4>5
      <4>7. QED
        BY <4>6
    <3>3. QED
      BY <3>1, <3>2
  <2>3. 0 .. N \subseteq T
    <3> HIDE DEF T
    <3>1. QED
      BY <2>1, <2>2, Inductive
  <2>4. QED
    BY <2>3
<1>9. Closed(f[N])
  <2>1. SUFFICES ASSUME Cardinality(f[N]) >= N + 1 PROVE Closed(f[N])
    BY <1>8
  <2>2. IsFiniteSet(0 .. N) /\ Cardinality(0 .. N) = N + 1
    BY FS_Interval
  <2>3. f[N] \in SUBSET (0 .. N)
    BY <1>6
  <2>4. IsFiniteSet(f[N]) /\ Cardinality(f[N]) <= N + 1
    BY <2>2, <2>3, FS_Subset
  <2>5. Cardinality(f[N]) \in Nat
    BY <2>4, FS_CardinalityType
  <2>6. Cardinality(f[N]) = N + 1
    BY <2>1, <2>4, <2>5
  <2>7. f[N] = 0 .. N
    BY <2>2, <2>3, <2>6, FS_Subset
  <2>8. QED
    BY <2>7
<1>10. QED
  BY <1>1, <1>5, <1>6, <1>7, <1>9
-----------------------------------------------------------------------------
(***************************************************************************)
(* Who owns what, as nodes are made, handed on and released                *)
(***************************************************************************)

\* What a function holds is handed to its caller, or what it is given is kept.
LEMMA OwnedMoved ==
    ASSUME NEW live, NEW kids, NEW roots, NEW roots2,
           Owned(live, kids, roots), 0 \notin live,
           NEW x \in Nat, NEW y \in Nat, x # y, roots[y] = 0,
           roots2[x] = 0, roots2[y] = roots[x],
           \A d \in Nat : d # x /\ d # y => roots2[d] = roots[d]
    PROVE  Owned(live, kids, roots2)
<1>1. RootsOwn(live, roots2)
  BY DEF Owned, RootsOwn
<1>2. KidsOwn(live, kids, roots2)
  BY DEF Owned, KidsOwn
<1>3. NoneLost(live, kids, roots2)
  BY DEF Owned, NoneLost
<1>4. QED
  BY <1>1, <1>2, <1>3 DEF Owned

\* A node is made that takes the roots x and y, or those of them that are not
\* empty, as its only children; it is the root z then.
Makes(live, kids, kids2, roots, roots2, new, x, y, z) ==
    /\ new # 0 /\ new \notin live
    /\ x # y
    /\ \A n \in live : \A i \in Nat : kids2[n][i] = kids[n][i]
    /\ \A i \in Nat : kids2[new][i] =
          IF i = 1 THEN roots[x] ELSE IF i = 2 THEN roots[y] ELSE 0
    /\ roots2[z] = new
    /\ z \in {x, y} \/ roots[z] = 0
    /\ \A d \in Nat : d # z =>
          roots2[d] = IF d \in {x, y} THEN 0 ELSE roots[d]

\* Owners when a node is made.
LEMMA OwnedMade ==
    ASSUME NEW live, NEW kids, NEW kids2, NEW roots, NEW roots2,
           NEW new, NEW x \in Nat, NEW y \in Nat, NEW z \in Nat,
           Makes(live, kids, kids2, roots, roots2, new, x, y, z),
           Owned(live, kids, roots), 0 \notin live
    PROVE  Owned(live \cup {new}, kids2, roots2)
<1> USE DEF Makes
<1>1. RootsOwn(live \cup {new}, roots2)
  BY DEF Owned, RootsOwn
<1>2. KidsOwn(live \cup {new}, kids2, roots2)
  BY DEF Owned, KidsOwn, RootsOwn
<1>3. NoneLost(live \cup {new}, kids2, roots2)
  BY DEF Owned, NoneLost
<1>4. QED
  BY <1>1, <1>2, <1>3 DEF Owned

\* The root x becomes the child j of a node n that has a place for it.
Attaches(live, kids, kids2, roots, roots2, x, n, j) ==
    /\ n \in live
    /\ kids[n][j] = 0
    /\ kids2[n][j] = roots[x]
    /\ \A m \in live : \A i \in Nat :
          m # n \/ i # j => kids2[m][i] = kids[m][i]
    /\ roots2[x] = 0
    /\ \A d \in Nat : d # x => roots2[d] = roots[d]

\* Owners when a node is given to another one.
LEMMA OwnedAttached ==
    ASSUME NEW live, NEW kids, NEW kids2, NEW roots, NEW roots2,
           NEW x \in Nat, NEW n, NEW j \in Nat,
           Attaches(live, kids, kids2, roots, roots2, x, n, j),
           Owned(live, kids, roots), 0 \notin live
    PROVE  Owned(live, kids2, roots2)
<1> USE DEF Attaches
<1>1. RootsOwn(live, roots2)
  BY DEF Owned, RootsOwn
<1>2. KidsOwn(live, kids2, roots2)
  BY DEF Owned, KidsOwn, RootsOwn
<1>3. NoneLost(live, kids2, roots2)
  BY DEF Owned, NoneLost
<1>4. QED
  BY <1>1, <1>2, <1>3 DEF Owned

\* The root x is released, with all that is below it and nothing else.
Releases(live, kids, roots, roots2, all, x) ==
    /\ all \subseteq live
    /\ roots[x] \in all
    /\ \A m \in all : \A i \in Nat : kids[m][i] # 0 => kids[m][i] \in all
    /\ \A S : /\ roots[x] \in S
              /\ \A m \in S \cap all : \A i \in Nat :
                    kids[m][i] # 0 => kids[m][i] \in S
              => all \subseteq S
    /\ roots2[x] = 0
    /\ \A d \in Nat : d # x => roots2[d] = roots[d]

\* Owners when a root is released.
LEMMA OwnedReleased ==
    ASSUME NEW live, NEW kids, NEW roots, NEW roots2, NEW all, NEW x \in Nat,
           Releases(live, kids, roots, roots2, all, x),
           Owned(live, kids, roots), 0 \notin live
    PROVE  Owned(live \ all, kids, roots2)
<1> USE DEF Releases
<1> DEFINE S == { k \in all : \/ k = roots[x]
                              \/ \E m \in all : \E i \in Nat : kids[m][i] = k }
\* What is released is held by the root or by what is released.
<1>1. all \subseteq S
  <2>1. roots[x] \in S
    OBVIOUS
  <2>2. \A m \in S \cap all : \A i \in Nat : kids[m][i] # 0 => kids[m][i] \in S
    OBVIOUS
  <2> HIDE DEF S
  <2>3. QED
    BY <2>1, <2>2
<1>2. \A k \in all : k # roots[x] => \E m \in all : \E i \in Nat : kids[m][i] = k
  BY <1>1
<1>3. \A m \in live \ all : \A i \in Nat : kids[m][i] \notin all
  BY <1>2 DEF Owned, KidsOwn
<1>4. \A d \in Nat : roots2[d] \notin all
  BY <1>2 DEF Owned, KidsOwn, RootsOwn
<1>5. RootsOwn(live \ all, roots2)
  BY <1>4 DEF Owned, RootsOwn
<1>6. KidsOwn(live \ all, kids, roots2)
  BY <1>3 DEF Owned, KidsOwn, RootsOwn
<1>7. NoneLost(live \ all, kids, roots2)
  BY DEF Owned, NoneLost
<1>8. QED
  BY <1>5, <1>6, <1>7 DEF Owned
-----------------------------------------------------------------------------
(***************************************************************************)
(* What the steps have in common                                           *)
(***************************************************************************)

\* A step of the parser as the token list and the errors see it.
Moves ==
    /\ out = "running"
    /\ out' \in {"running", "panic", "crash"}
    /\ UNCHANGED <<toks, closed>>
    /\ idx' \in idx .. Len(toks) + 1
    /\ errs' \in Seq(Nat)
    /\ \A i \in 1 .. Len(errs') : errs'[i] \in 1 .. Len(toks)

\* A step that Moves keeps the tokens typed.
LEMMA TokensKept ==
    ASSUME TokensTyped, Moves
    PROVE  TokensTyped'
BY DEF TokensTyped, Moves, Outcome

\* A function that looks at a token does so before the end of the list.
LEMMA OnToken ==
    ASSUME TokensTyped, NEW label, On(label)
    PROVE  /\ out = "running" /\ Top.at = label
           /\ idx \in 1 .. Len(toks)
           /\ Peek = toks[idx]
           /\ idx + 1 \in idx .. Len(toks) + 1
BY DEF TokensTyped, On, Peek

\* expect_sym and its like: the error is at a token that was seen.
LEMMA ExpectMoves ==
    ASSUME TokensTyped, out = "running", UNCHANGED <<toks, closed>>,
           idx' \in idx .. Len(toks) + 1,
           NEW good, NEW at \in 1 .. Len(toks), Expect(good, at)
    PROVE  Moves
<1>1. CASE Peek \in good
  BY <1>1 DEF TokensTyped, Expect, Moves
<1>2. CASE Peek \notin good
  <2>1. errs' = Append(errs, at) /\ out' \in {"running", "panic"}
    BY <1>2 DEF Expect
  <2>2. errs' \in Seq(Nat) /\ Len(errs') = Len(errs) + 1
    BY <2>1 DEF TokensTyped
  <2>3. \A i \in 1 .. Len(errs') : errs'[i] \in 1 .. Len(toks)
    BY <2>1, <2>2 DEF TokensTyped
  <2>4. QED
    BY <2>1, <2>2, <2>3 DEF Moves
<1>3. QED
  BY <1>1, <1>2

\* A step without an error.
LEMMA QuietMoves ==
    ASSUME TokensTyped, out = "running", UNCHANGED <<toks, closed>>,
           idx' \in idx .. Len(toks) + 1, Quiet
    PROVE  Moves
BY DEF TokensTyped, Quiet, Moves

\* The kinds of nodes stay what they are, and so does all of the nodes of the
\* frames below the running one.
Keeps ==
    /\ Len(nodes') >= Len(nodes)
    /\ \A n \in 1 .. Len(nodes) : nodes'[n].kind = nodes[n].kind
    /\ \A d \in 1 .. Len(stack) - 1 :
          stack[d].node # 0 => nodes'[stack[d].node] = nodes[stack[d].node]

\* The kind of a node, or of NULL, stays.
LEMMA KindKept ==
    ASSUME Tree, Len(nodes') >= Len(nodes),
           \A m \in 1 .. Len(nodes) : nodes'[m].kind = nodes[m].kind,
           NEW n \in 0 .. Len(nodes)
    PROVE  KindOf(n)' = KindOf(n)
BY DEF Tree, KindOf

\* A frame whose node is left alone still fits.
LEMMA FitsKept ==
    ASSUME Tree, TokensTyped,
           Len(nodes') >= Len(nodes), Len(nodes') \in Nat,
           \A m \in 1 .. Len(nodes) : nodes'[m].kind = nodes[m].kind,
           idx' \in Nat, idx <= idx',
           NEW frame \in Frame, Fits(frame),
           frame.node # 0 => nodes'[frame.node] = nodes[frame.node]
    PROVE  Fits(frame)'
<1>1. frame.node \in 0 .. Len(nodes) /\ frame.tok \in Nat
  BY DEF Fits, Frame
<1>2. KindOf(frame.node)' = KindOf(frame.node)
  BY <1>1, KindKept
<1>3. frame.at \in TypeUnset \cup BodyUnset => frame.node # 0
  BY DEF Fits, Holds, TypeUnset, BodyUnset, LetAt, FnAt, KindOf, TypeAt, AuxAt,
         BlockAt
<1>4. QED
  BY <1>1, <1>2, <1>3, SMTT(30) DEF Fits, TokensTyped, Tree

\* The running function goes on as frame and calls those of above.
Pushes(frame, above) ==
    stack' = [stack EXCEPT ![Len(stack)] = frame] \o above

TopAt(frame, above) == IF above = <<>> THEN frame.at ELSE above[Len(above)].at

\* What is on the stack after a call.
LEMMA PushedStack ==
    ASSUME stack \in Seq(Frame), Len(stack) >= 1, NEW frame \in Frame,
           NEW above \in Seq(Frame), Pushes(frame, above)
    PROVE  /\ stack' \in Seq(Frame)
           /\ Len(stack') = Len(stack) + Len(above)
           /\ \A d \in 1 .. Len(stack) - 1 : stack'[d] = stack[d]
           /\ stack'[Len(stack)] = frame
           /\ \A d \in Len(stack) + 1 .. Len(stack) + Len(above) :
                 stack'[d] = above[d - Len(stack)]
           /\ Top'.at = TopAt(frame, above)
<1> DEFINE low == [stack EXCEPT ![Len(stack)] = frame]
<1>1. /\ low \in Seq(Frame) /\ Len(low) = Len(stack)
      /\ \A d \in 1 .. Len(stack) - 1 : low[d] = stack[d]
      /\ low[Len(stack)] = frame
  OBVIOUS
<1>2. stack' = low \o above
  BY DEF Pushes
<1> HIDE DEF low
<1>3. /\ stack' \in Seq(Frame)
      /\ Len(stack') = Len(stack) + Len(above)
      /\ \A d \in 1 .. Len(stack) - 1 : stack'[d] = stack[d]
      /\ stack'[Len(stack)] = frame
      /\ \A d \in Len(stack) + 1 .. Len(stack) + Len(above) :
            stack'[d] = above[d - Len(stack)]
  <2>1. low \o above \in Seq(Frame) /\ Len(low \o above) = Len(low) + Len(above)
    BY <1>1, ConcatProperties
  <2>2. \A d \in 1 .. Len(low) + Len(above) :
          (low \o above)[d] = IF d <= Len(low) THEN low[d] ELSE above[d - Len(low)]
    BY <1>1, ConcatProperties
  <2>3. QED
    BY <1>1, <1>2, <2>1, <2>2
<1>4. Top'.at = TopAt(frame, above)
  <2>1. CASE above = <<>>
    BY <1>3, <2>1 DEF Top, TopAt
  <2>2. CASE above # <<>>
    <3>1. Len(above) \in 1 .. Len(above)
      BY <2>2
    <3>2. QED
      BY <1>3, <2>2, <3>1, SMTT(30) DEF Top, TopAt
  <2>3. QED
    BY <2>1, <2>2
<1>5. QED
  BY <1>3, <1>4

\* The frame of a call that can be made from below, of a function that has no
\* node yet.
NewFrame(frame, token) ==
    /\ frame \in Frame
    /\ frame.node = 0
    /\ Holds(frame.at, "NULL")
    /\ frame.tok <= token

\* Where the running function may go on, and what it may call.
MayPush(frame, above) ==
    /\ frame \in Frame
    /\ above \in Seq(Frame)
    /\ Top.at \in {"prog", "prog_fn"} <=> frame.at \in {"prog", "prog_fn"}
    /\ \A at \in Label : Calls(at, Top.at) => Calls(at, frame.at)
    /\ \A i \in 1 .. Len(above) : NewFrame(above[i], idx')
    /\ Len(above) # 0 => Calls(frame.at, above[1].at)
    /\ \A i \in 1 .. Len(above) - 1 : Calls(above[i].at, above[i + 1].at)
    /\ TopAt(frame, above) \notin Waiting
    /\ frame.at = "block_stmt" => Len(above) # 0 /\ above[1].at = "stmt"
    /\ Top.at \in {"stmt", "stmt_expr"} => frame.at = "stmt_expr" \/ idx < idx'

\* Frames after a call that may be made.
LEMMA FramesPushed ==
    ASSUME TokensTyped, Tree, Frames, Keeps, Len(nodes') \in Nat,
           idx' \in Nat, idx <= idx',
           NEW frame, NEW above, Pushes(frame, above), MayPush(frame, above),
           Fits(frame)', frame.at \in {"prog", "prog_fn"} => frame.node = 1
    PROVE  Frames'
<1>1. /\ stack' \in Seq(Frame)
      /\ Len(stack') = Len(stack) + Len(above)
      /\ \A d \in 1 .. Len(stack) - 1 : stack'[d] = stack[d]
      /\ stack'[Len(stack)] = frame
      /\ \A d \in Len(stack) + 1 .. Len(stack) + Len(above) :
            stack'[d] = above[d - Len(stack)]
  BY PushedStack DEF Frames, MayPush
<1>2. Len(stack) \in Nat /\ Len(stack) >= 1 /\ Len(above) \in Nat
  BY DEF Frames, MayPush
<1>3. stack'[1].at \in {"prog", "prog_fn"} /\ stack'[1].node = 1
  BY <1>1, <1>2 DEF Frames, MayPush, Top
<1>4. ASSUME NEW d \in 1 .. Len(stack') - 1
      PROVE  Calls(stack'[d].at, stack'[d + 1].at)
  <2>1. CASE d < Len(stack) - 1
    BY <1>1, <1>2, <2>1, SMTT(30) DEF Frames
  <2>2. CASE d = Len(stack) - 1
    <3>1. d \in 1 .. Len(stack) - 1 /\ d + 1 = Len(stack)
      BY <1>2, <1>4, <2>2
    <3>2. Calls(stack[d].at, stack[d + 1].at) /\ stack[d] \in Frame
      BY <3>1 DEF Frames
    <3>3. Calls(stack[d].at, Top.at) /\ stack[d].at \in Label
      BY <3>1, <3>2 DEF Top, Frame
    <3>4. Calls(stack[d].at, frame.at)
      BY <3>3 DEF MayPush
    <3>5. stack'[d] = stack[d] /\ stack'[d + 1] = frame
      BY <1>1, <3>1
    <3>6. QED
      BY <3>4, <3>5
  <2>3. CASE d = Len(stack)
    <3>1. /\ d + 1 \in Len(stack) + 1 .. Len(stack) + Len(above)
          /\ (d + 1) - Len(stack) = 1 /\ Len(above) # 0
      BY <1>1, <1>2, <1>4, <2>3
    <3>2. stack'[d] = frame /\ stack'[d + 1] = above[1]
      BY <1>1, <2>3, <3>1
    <3>3. QED
      BY <3>1, <3>2 DEF MayPush
  <2>4. CASE d > Len(stack)
    <3>1. d - Len(stack) \in 1 .. Len(above) - 1
      BY <1>1, <1>2, <1>4, <2>4
    <3>2. /\ stack'[d] = above[d - Len(stack)]
          /\ stack'[d + 1] = above[(d - Len(stack)) + 1]
      <4>1. /\ d \in Len(stack) + 1 .. Len(stack) + Len(above)
            /\ d + 1 \in Len(stack) + 1 .. Len(stack) + Len(above)
            /\ (d + 1) - Len(stack) = (d - Len(stack)) + 1
        BY <1>1, <1>2, <1>4, <2>4
      <4>2. QED
        BY <1>1, <4>1
    <3>3. QED
      BY <3>1, <3>2 DEF MayPush
  <2>5. QED
    BY <1>1, <1>2, <1>4, <2>1, <2>2, <2>3, <2>4
<1>5. ASSUME NEW d \in 1 .. Len(stack')
      PROVE  Fits(stack[d])'
  <2>1. CASE d < Len(stack)
    <3>1. stack[d] \in Frame /\ Fits(stack[d]) /\ d \in 1 .. Len(stack) - 1
      BY <1>2, <1>5, <2>1 DEF Frames
    <3>2. stack'[d] = stack[d]
      BY <1>1, <3>1
    <3>3. stack[d].node # 0 => nodes'[stack[d].node] = nodes[stack[d].node]
      BY <3>1 DEF Keeps
    <3>4. QED
      BY <3>1, <3>2, <3>3, FitsKept DEF Keeps
  <2>2. CASE d = Len(stack)
    BY <1>1, <2>2 DEF Fits, KindOf
  <2>3. CASE d > Len(stack)
    <3>1. d - Len(stack) \in 1 .. Len(above)
      BY <1>1, <1>2, <1>5, <2>3
    <3>2. stack'[d] = above[d - Len(stack)]
      BY <1>1, <1>2, <1>5, <2>3
    <3>3. NewFrame(stack'[d], idx')
      BY <3>1, <3>2 DEF MayPush
    <3>4. QED
      BY <3>3 DEF NewFrame, Fits, KindOf, Holds, TypeUnset, BodyUnset, LetAt,
                  FnAt, TypeAt, AuxAt
  <2>4. QED
    BY <1>1, <1>2, <1>5, <2>1, <2>2, <2>3
<1>6. QED
  BY <1>1, <1>2, <1>3, <1>4, <1>5 DEF Frames
-----------------------------------------------------------------------------
\* Only parse_prog runs when it is its frame that is the last.
LEMMA ProgAlone ==
    ASSUME Frames, Top.at \in {"prog", "prog_fn"}
    PROVE  Len(stack) = 1 /\ Top.node = 1
<1>1. Len(stack) \in Nat /\ Len(stack) >= 1
  BY DEF Frames
<1>2. CASE Len(stack) # 1
  <2>1. Len(stack) - 1 \in 1 .. Len(stack) - 1 /\ (Len(stack) - 1) + 1 = Len(stack)
    <3>1. \A n \in Nat : n >= 1 /\ n # 1 => n - 1 \in 1 .. n - 1 /\ (n - 1) + 1 = n
      OBVIOUS
    <3>2. QED
      BY <1>1, <1>2, <3>1
  <2>2. Calls(stack[Len(stack) - 1].at, Top.at)
    BY <2>1 DEF Frames, Top
  <2>3. QED
    BY <2>2 DEF Calls, FnAt, BlockAt, StmtAt, LetAt, TermAt, FactorAt, TypeAt, AuxAt
<1>3. QED
  BY <1>2 DEF Frames, Top

\* What is where before a step.
LEMMA RootsNow ==
    ASSUME stack \in Seq(Frame), Len(stack) >= 1
    PROVE  /\ Roots[0] = HeldValue
           /\ Roots[Len(stack)] = Top.node
           /\ \A d \in 1 .. Len(stack) : Roots[d] = stack[d].node
           /\ \A d \in Nat : d > Len(stack) => Roots[d] = 0
<1>1. Len(stack) \in Nat /\ Len(stack) # 0
  OBVIOUS
<1>2. QED
  BY <1>1 DEF Roots, Top

\* A call leaves the roots, but for the node of the running function.
LEMMA RootsPushed ==
    ASSUME stack \in Seq(Frame), Len(stack) >= 1,
           NEW frame, NEW above, Pushes(frame, above), MayPush(frame, above)
    PROVE  /\ Roots'[0] = 0
           /\ Roots'[Len(stack)] = frame.node
           /\ \A d \in Nat : d # 0 /\ d # Len(stack) => Roots'[d] = Roots[d]
<1>1. /\ stack' \in Seq(Frame)
      /\ Len(stack') = Len(stack) + Len(above)
      /\ \A d \in 1 .. Len(stack) - 1 : stack'[d] = stack[d]
      /\ stack'[Len(stack)] = frame
      /\ \A d \in Len(stack) + 1 .. Len(stack) + Len(above) :
            stack'[d] = above[d - Len(stack)]
      /\ Top'.at = TopAt(frame, above)
  BY PushedStack DEF MayPush
<1>2. Len(stack) \in Nat /\ Len(stack) >= 1 /\ Len(above) \in Nat
  BY DEF MayPush
<1>3. HeldValue' = 0
  BY <1>1 DEF HeldValue, MayPush, Waiting
<1>4. Roots'[0] = 0 /\ Roots'[Len(stack)] = frame.node
  BY <1>1, <1>2, <1>3 DEF Roots
<1>5. ASSUME NEW d \in Nat, d # 0, d # Len(stack)
      PROVE  Roots'[d] = Roots[d]
  <2>1. CASE d < Len(stack)
    BY <1>1, <1>2, <1>5, <2>1 DEF Roots
  <2>2. CASE d > Len(stack) /\ d <= Len(stack')
    <3>1. /\ d \in Len(stack) + 1 .. Len(stack) + Len(above)
          /\ d - Len(stack) \in 1 .. Len(above)
      BY <1>1, <1>2, <1>5, <2>2
    <3>2. stack'[d].node = 0
      BY <1>1, <3>1 DEF MayPush, NewFrame
    <3>3. QED
      BY <1>2, <1>5, <2>2, <3>2 DEF Roots
  <2>3. CASE d > Len(stack')
    BY <1>1, <1>2, <1>5, <2>3 DEF Roots
  <2>4. QED
    BY <1>1, <1>2, <1>5, <2>1, <2>2, <2>3
<1>6. QED
  BY <1>4, <1>5

\* All but the owners, when the running function goes on or calls another.
LEMMA PushedRest ==
    ASSUME IInv, Moves, Keeps, Tree', val' \in 0 .. Len(nodes'),
           NEW frame, NEW above, Pushes(frame, above), MayPush(frame, above),
           Fits(frame)', frame.at \in {"prog", "prog_fn"} => frame.node = 1,
           out' = "running" => Owned(Live', Kids', Roots')
    PROVE  IInv'
<1> USE DEF IInv
<1>1. TokensTyped'
  BY TokensKept
<1>2. Len(nodes') \in Nat /\ idx' \in Nat /\ idx <= idx'
  BY DEF Tree, TokensTyped, Moves
<1>3. Frames'
  BY <1>2, FramesPushed
<1>4. /\ Len(stack') = Len(stack) + Len(above)
      /\ \A d \in 1 .. Len(stack) - 1 : stack'[d] = stack[d]
      /\ stack'[Len(stack)] = frame
      /\ \A d \in Len(stack) + 1 .. Len(stack) + Len(above) :
            stack'[d] = above[d - Len(stack)]
      /\ Top'.at = TopAt(frame, above)
      /\ Len(stack) \in Nat /\ Len(above) \in Nat /\ Len(stack) >= 1
  BY PushedStack DEF Frames, MayPush
<1>5. ASSUME NEW d \in 1 .. Len(stack'), stack'[d].at = "block_stmt"
      PROVE  \/ d < Len(stack') /\ stack'[d + 1].at \in {"stmt", "stmt_expr"}
             \/ stack'[d].tok < idx'
  <2>1. CASE d < Len(stack) - 1
    <3>1. d \in 1 .. Len(stack) /\ d + 1 \in 1 .. Len(stack) - 1
      BY <1>4, <1>5, <2>1
    <3>2. /\ stack'[d] = stack[d] /\ stack'[d + 1] = stack[d + 1]
          /\ stack[d].tok \in Nat
      <4>1. d \in 1 .. Len(stack) - 1
        BY <1>4, <2>1, <3>1
      <4>2. stack[d] \in Frame
        BY <3>1 DEF Frames
      <4>3. QED
        BY <1>4, <3>1, <4>1, <4>2 DEF Frame
    <3>3. QED
      BY <1>2, <1>4, <1>5, <2>1, <3>1, <3>2, SMTT(30) DEF Begun, TokensTyped
  <2>2. CASE d = Len(stack) - 1
    <3>1. /\ stack'[d] = stack[d] /\ stack[d].tok \in Nat
          /\ stack'[d + 1] = frame /\ stack[d + 1] = Top
          /\ d \in 1 .. Len(stack) /\ d < Len(stack')
      <4>1. /\ d \in 1 .. Len(stack) - 1 /\ d \in 1 .. Len(stack)
            /\ d + 1 = Len(stack) /\ d < Len(stack')
        BY <1>4, <1>5, <2>2
      <4>2. stack[d] \in Frame
        BY <4>1 DEF Frames
      <4>3. QED
        BY <1>4, <4>1, <4>2 DEF Frame, Top
    <3>2. \/ Top.at \in {"stmt", "stmt_expr"} /\ stack[d].tok <= idx
          \/ stack[d].tok < idx
      BY <1>5, <3>1 DEF Begun, Frames, Fits
    <3>3. CASE stack[d].tok < idx
      BY <1>2, <3>1, <3>3 DEF TokensTyped
    <3>4. CASE Top.at \in {"stmt", "stmt_expr"} /\ stack[d].tok <= idx
      <4>1. frame.at = "stmt_expr" \/ idx < idx'
        BY <3>4 DEF MayPush
      <4>2. CASE frame.at = "stmt_expr"
        BY <3>1, <4>2
      <4>3. CASE idx < idx'
        BY <1>2, <3>1, <3>4, <4>3 DEF TokensTyped
      <4>4. QED
        BY <4>1, <4>2, <4>3
    <3>5. QED
      BY <3>2, <3>3, <3>4
  <2>3. CASE d = Len(stack)
    <3>1. Len(above) # 0 /\ above[1].at = "stmt"
      BY <1>4, <1>5, <2>3 DEF MayPush
    <3>2. d < Len(stack') /\ stack'[d + 1] = above[1]
      <4>1. /\ d + 1 \in Len(stack) + 1 .. Len(stack) + Len(above)
            /\ (d + 1) - Len(stack) = 1 /\ d < Len(stack')
        BY <1>4, <2>3, <3>1
      <4>2. QED
        BY <1>4, <4>1
    <3>3. QED
      BY <3>1, <3>2
  <2>4. CASE d > Len(stack)
    <3>1. /\ d - Len(stack) \in 1 .. Len(above)
          /\ d \in Len(stack) + 1 .. Len(stack) + Len(above)
      BY <1>4, <1>5, <2>4
    <3>2. Holds(stack'[d].at, "NULL")
      BY <1>4, <3>1 DEF MayPush, NewFrame
    <3>3. QED
      BY <1>5, <3>2 DEF Holds, FnAt, BlockAt, LetAt, TypeAt, AuxAt
  <2>5. QED
    BY <1>4, <1>5, <2>1, <2>2, <2>3, <2>4
<1>6. Begun'
  BY <1>5 DEF Begun
<1>7. Answer'
  BY <1>4 DEF Answer, MayPush, Waiting
<1>8. Owners' /\ Parsed' /\ OnlyLetTypesLeak'
  BY DEF Owners, Parsed, OnlyLetTypesLeak, Moves
<1>9. QED
  BY <1>1, <1>3, <1>6, <1>7, <1>8
-----------------------------------------------------------------------------
\* The running function returns.
Pops == stack' = SubSeq(stack, 1, Len(stack) - 1)

\* What is on the stack after a return, and who goes on.
LEMMA PoppedStack ==
    ASSUME Frames, Pops, Top.at \notin {"prog", "prog_fn"}
    PROVE  /\ stack' \in Seq(Frame)
           /\ Len(stack) \in Nat /\ Len(stack) >= 2
           /\ Len(stack') = Len(stack) - 1
           /\ \A d \in 1 .. Len(stack) - 1 : stack'[d] = stack[d]
           /\ Len(stack) - 1 \in 1 .. Len(stack) - 1
           /\ (Len(stack) - 1) + 1 = Len(stack)
           /\ Top' = stack[Len(stack) - 1]
           /\ Calls(Top'.at, Top.at)
<1>1. Len(stack) \in Nat /\ Len(stack) >= 1 /\ stack \in Seq(Frame)
  BY DEF Frames
<1>2. Len(stack) # 1
  BY DEF Frames, Top
<1>3. /\ Len(stack) >= 2
      /\ Len(stack) - 1 \in 1 .. Len(stack) - 1
      /\ (Len(stack) - 1) + 1 = Len(stack)
  <2>1. \A n \in Nat : n >= 1 /\ n # 1 =>
           n >= 2 /\ n - 1 \in 1 .. n - 1 /\ (n - 1) + 1 = n
    OBVIOUS
  <2>2. QED
    BY <1>1, <1>2, <2>1
<1>4. /\ stack' \in Seq(Frame)
      /\ Len(stack') = Len(stack) - 1
      /\ \A d \in 1 .. Len(stack) - 1 : stack'[d] = stack[d]
  BY <1>1, <1>3 DEF Pops
<1>5. Top' = stack[Len(stack) - 1]
  BY <1>3, <1>4 DEF Top
<1>6. Calls(stack[Len(stack) - 1].at, Top.at)
  BY <1>3 DEF Frames, Top
<1>7. QED
  BY <1>1, <1>3, <1>4, <1>5, <1>6

\* A return leaves the roots, but for the node and the value returned.
LEMMA RootsPopped ==
    ASSUME Frames, Pops, Top.at \notin {"prog", "prog_fn"}
    PROVE  /\ Roots'[0] = IF Top.at \in AuxAt THEN 0 ELSE val'
           /\ Roots'[Len(stack)] = 0
           /\ \A d \in Nat : d # 0 /\ d # Len(stack) => Roots'[d] = Roots[d]
<1>1. /\ Len(stack) \in Nat /\ Len(stack) >= 2
      /\ Len(stack') = Len(stack) - 1
      /\ \A d \in 1 .. Len(stack) - 1 : stack'[d] = stack[d]
      /\ Calls(Top'.at, Top.at)
  BY PoppedStack
<1>2. HeldValue' = IF Top.at \in AuxAt THEN 0 ELSE val'
  BY <1>1 DEF HeldValue, Calls, WaitsForNode, WaitsForType, FnAt, BlockAt, StmtAt,
              LetAt, TermAt, FactorAt, TypeAt, AuxAt, ExprCaller, TypeCaller
<1>3. Roots'[0] = HeldValue' /\ Roots'[Len(stack)] = 0
  BY <1>1 DEF Roots
<1>4. ASSUME NEW d \in Nat, d # 0, d # Len(stack)
      PROVE  Roots'[d] = Roots[d]
  <2>1. CASE d < Len(stack)
    <3>1. d \in 1 .. Len(stack) - 1
      BY <1>1, <1>4, <2>1
    <3>2. QED
      BY <1>1, <3>1 DEF Roots
  <2>2. CASE d > Len(stack)
    BY <1>1, <1>4, <2>2 DEF Roots
  <2>3. QED
    BY <1>1, <1>4, <2>1, <2>2
<1>5. QED
  BY <1>2, <1>3, <1>4

\* All but the owners, when the running function returns.
LEMMA PoppedRest ==
    ASSUME IInv, Moves, Keeps, Tree', val' \in 0 .. Len(nodes'), Pops,
           Top.at \notin {"prog", "prog_fn", "stmt", "stmt_expr"},
           \A at \in WaitsForNode : Calls(at, Top.at) => Given(at, KindOf(val)'),
           out' = "running" => Owned(Live', Kids', Roots')
    PROVE  IInv'
<1> USE DEF IInv
<1>1. TokensTyped'
  BY TokensKept
<1>2. Len(nodes') \in Nat /\ idx' \in Nat /\ idx \in Nat /\ idx <= idx'
  BY DEF Tree, TokensTyped, Moves
<1>3. /\ stack' \in Seq(Frame)
      /\ Len(stack) \in Nat /\ Len(stack) >= 2
      /\ Len(stack') = Len(stack) - 1
      /\ \A d \in 1 .. Len(stack) - 1 : stack'[d] = stack[d]
      /\ Len(stack) - 1 \in 1 .. Len(stack) - 1
      /\ (Len(stack) - 1) + 1 = Len(stack)
      /\ Top' = stack[Len(stack) - 1]
      /\ Calls(Top'.at, Top.at)
  BY PoppedStack
<1>4. ASSUME NEW d \in 1 .. Len(stack')
      PROVE  /\ Fits(stack[d])'
             /\ stack'[d] = stack[d] /\ d \in 1 .. Len(stack) - 1
             /\ stack[d].tok \in Nat /\ stack[d].tok <= idx
  <2>1. d \in 1 .. Len(stack) - 1 /\ d \in 1 .. Len(stack)
    BY <1>3, <1>4
  <2>2. stack[d] \in Frame /\ Fits(stack[d]) /\ stack'[d] = stack[d]
    BY <1>3, <2>1, SMTT(30) DEF Frames
  <2>3. stack[d].node # 0 => nodes'[stack[d].node] = nodes[stack[d].node]
    BY <2>1 DEF Keeps
  <2>4. Fits(stack[d])'
    BY <1>2, <2>2, <2>3, FitsKept DEF Keeps
  <2>5. QED
    BY <2>1, <2>2, <2>4 DEF Fits, Frame
<1>5. ASSUME NEW d \in 1 .. Len(stack') - 1
      PROVE  Calls(stack'[d].at, stack'[d + 1].at) /\ stack'[d + 1] = stack[d + 1]
             /\ d + 1 \in 1 .. Len(stack) /\ d \in 1 .. Len(stack)
  <2>1. /\ d \in 1 .. Len(stack) - 1 /\ d + 1 \in 1 .. Len(stack) - 1
        /\ d \in 1 .. Len(stack) /\ d + 1 \in 1 .. Len(stack)
    BY <1>3, <1>5
  <2>2. Calls(stack[d].at, stack[d + 1].at)
    BY <2>1 DEF Frames
  <2>3. QED
    BY <1>3, <2>1, <2>2
<1>6. Frames'
  <2>1. stack'[1] = stack[1]
    BY <1>3
  <2>2. stack'[1].at \in {"prog", "prog_fn"} /\ stack'[1].node = 1
    BY <2>1 DEF Frames
  <2>3. QED
    BY <1>3, <1>4, <1>5, <2>2 DEF Frames
<1>7. ASSUME NEW d \in 1 .. Len(stack'), stack'[d].at = "block_stmt"
      PROVE  \/ d < Len(stack') /\ stack'[d + 1].at \in {"stmt", "stmt_expr"}
             \/ stack'[d].tok < idx'
  <2>1. CASE d < Len(stack')
    <3>1. d \in 1 .. Len(stack') - 1
      BY <1>3, <1>7, <2>1
    <3>2. /\ stack'[d] = stack[d] /\ stack'[d + 1] = stack[d + 1]
          /\ stack[d].tok \in Nat /\ d \in 1 .. Len(stack)
      BY <1>4, <1>5, <3>1
    <3>3. \/ stack[d + 1].at \in {"stmt", "stmt_expr"}
          \/ stack[d].tok < idx
      BY <1>7, <3>2 DEF Begun
    <3>4. QED
      BY <1>2, <2>1, <3>2, <3>3
  <2>2. CASE d = Len(stack')
    <3>1. /\ stack'[d] = stack[d] /\ stack[d].tok \in Nat
          /\ d \in 1 .. Len(stack) /\ d + 1 = Len(stack)
      BY <1>3, <1>4, <2>2
    <3>2. stack[d + 1] = Top
      BY <3>1 DEF Top
    <3>3. stack[d].tok < idx
      BY <1>7, <3>1, <3>2 DEF Begun
    <3>4. QED
      BY <1>2, <3>1, <3>3
  <2>3. QED
    BY <1>3, <1>7, <2>1, <2>2
<1>8. Begun'
  BY <1>7 DEF Begun
<1>9. Answer'
  BY <1>3 DEF Answer
<1>10. Owners' /\ Parsed' /\ OnlyLetTypesLeak'
  BY DEF Owners, Parsed, OnlyLetTypesLeak, Moves
<1>11. QED
  BY <1>1, <1>6, <1>8, <1>9, <1>10
-----------------------------------------------------------------------------
(***************************************************************************)
(* The tree before and after a step                                        *)
(***************************************************************************)

\* The nodes in use are among those made.
LEMMA LiveNow ==
    ASSUME Tree
    PROVE  /\ Len(nodes) \in Nat /\ 0 \notin Live
           /\ Live \subseteq 1 .. Len(nodes)
           /\ Len(nodes) + 1 \notin Live
BY DEF Tree, Live

\* A step that leaves the nodes alone.
LEMMA TreeSame ==
    ASSUME Tree, UNCHANGED <<nodes, freed, toks>>
    PROVE  /\ Tree' /\ Keeps /\ Live' = Live /\ Kids' = Kids
           /\ Len(nodes') = Len(nodes)
BY DEF Tree, KindOf, Keeps, Live, Kids

\* A node is made.
LEMMA TreeMade ==
    ASSUME Tree, Frames, TokensTyped, UNCHANGED toks,
           NEW node \in Node, NewNode(node),
           freed' \subseteq 1 .. Len(nodes) + 1,
           node.kind # "prog", node.tok <= Len(toks),
           Arity(node.kind, Len(node.kids)),
           \A i \in 1 .. Len(node.kids) :
              /\ node.kids[i] <= Len(nodes)
              /\ MayHold(node.kind, i, KindOf(node.kids[i]))
    PROVE  /\ Tree' /\ Keeps
           /\ Len(nodes') = Len(nodes) + 1
           /\ nodes'[Len(nodes) + 1] = node
           /\ KindOf(Len(nodes))' = node.kind
           /\ Live' = ((1 .. Len(nodes) + 1) \ freed')
           /\ \A n \in 1 .. Len(nodes) : nodes'[n] = nodes[n]
           /\ \A n \in Live : \A i \in Nat : Kids'[n][i] = Kids[n][i]
           /\ \A i \in Nat : Kids'[Len(nodes) + 1][i] =
                 IF i \in 1 .. Len(node.kids) THEN node.kids[i] ELSE 0
<1>1. /\ Len(nodes) \in Nat /\ nodes' \in Seq(Node)
      /\ Len(nodes') = Len(nodes) + 1
      /\ nodes'[Len(nodes) + 1] = node
      /\ \A n \in 1 .. Len(nodes) : nodes'[n] = nodes[n]
  BY DEF Tree, NewNode
<1>2. \A n \in 0 .. Len(nodes) : KindOf(n)' = KindOf(n)
  BY <1>1 DEF KindOf
<1>3. Keeps
  <2>1. \A d \in 1 .. Len(stack) - 1 :
          stack[d].node # 0 => stack[d].node \in 1 .. Len(nodes)
    <3>1. \A d \in 1 .. Len(stack) : stack[d] \in Frame /\ Fits(stack[d])
      BY DEF Frames
    <3>2. Len(stack) \in Nat
      BY DEF Frames
    <3>3. QED
      BY <1>1, <3>1, <3>2 DEF Fits, Frame
  <2>2. QED
    BY <1>1, <2>1 DEF Keeps
<1>4. ASSUME NEW n \in 1 .. Len(nodes')
      PROVE  /\ nodes'[n].tok <= Len(toks)
             /\ nodes'[n].kind = "prog" <=> n = 1
             /\ Arity(nodes'[n].kind, Len(nodes'[n].kids))
             /\ \A i \in 1 .. Len(nodes'[n].kids) :
                   /\ nodes'[n].kids[i] <= Len(nodes')
                   /\ MayHold(nodes'[n].kind, i, KindOf(nodes[n].kids[i])')
                   /\ nodes'[n].kind = "binop" => nodes'[n].kids[i] < n
  <2>1. CASE n \in 1 .. Len(nodes)
    <3>1. nodes'[n] = nodes[n] /\ nodes[n] \in Node
      BY <1>1, <2>1 DEF Tree
    <3>2. \A i \in 1 .. Len(nodes[n].kids) : nodes[n].kids[i] \in 0 .. Len(nodes)
      <4>1. nodes[n].kids \in Seq(Nat)
        BY <3>1 DEF Node
      <4>2. \A i \in 1 .. Len(nodes[n].kids) : nodes[n].kids[i] <= Len(nodes)
        BY <2>1 DEF Tree
      <4>3. QED
        BY <1>1, <4>1, <4>2, SMTT(30)
    <3>3. QED
      BY <1>1, <1>2, <2>1, <3>1, <3>2 DEF Tree
  <2>2. CASE n = Len(nodes) + 1
    <3>1. nodes'[n] = node /\ n # 1
      BY <1>1, <2>2 DEF Tree
    <3>2. \A i \in 1 .. Len(node.kids) : node.kids[i] \in 0 .. Len(nodes)
      BY <1>1, SMTT(30) DEF Node
    <3>3. QED
      BY <1>1, <1>2, <2>2, <3>1, <3>2
  <2>3. QED
    BY <1>1, <1>4, <2>1, <2>2
<1>5. Tree'
  BY <1>1, <1>4 DEF Tree
<1>6. \A n \in Live : \A i \in Nat : Kids'[n][i] = Kids[n][i]
  <2>1. Live \subseteq 1 .. Len(nodes)
    BY DEF Live
  <2>2. QED
    BY <1>1, <2>1 DEF Kids
<1>7. \A i \in Nat : Kids'[Len(nodes) + 1][i] =
         IF i \in 1 .. Len(node.kids) THEN node.kids[i] ELSE 0
  BY <1>1 DEF Kids
<1>8. KindOf(Len(nodes))' = node.kind
  BY <1>1 DEF KindOf
<1>9. QED
  BY <1>1, <1>3, <1>5, <1>6, <1>7, <1>8 DEF Live

\* A node has one child more, or another one.
LEMMA TreeAttached ==
    ASSUME Tree, TokensTyped, UNCHANGED <<toks, freed>>,
           NEW n \in 1 .. Len(nodes), NEW kids \in Seq(Nat),
           nodes' = [nodes EXCEPT ![n] = [@ EXCEPT !.kids = kids]],
           nodes[n].kind # "binop",
           Arity(nodes[n].kind, Len(kids)),
           \A i \in 1 .. Len(kids) :
              /\ kids[i] <= Len(nodes)
              /\ MayHold(nodes[n].kind, i, KindOf(kids[i]))
    PROVE  /\ Tree'
           /\ Len(nodes') = Len(nodes)
           /\ \A m \in 1 .. Len(nodes) : nodes'[m].kind = nodes[m].kind
           /\ \A m \in 1 .. Len(nodes) : m # n => nodes'[m] = nodes[m]
           /\ nodes'[n].kids = kids
           /\ Live' = Live
           /\ \A m \in Live : \A i \in Nat : m # n => Kids'[m][i] = Kids[m][i]
           /\ \A i \in Nat :
                 Kids'[n][i] = IF i \in 1 .. Len(kids) THEN kids[i] ELSE 0
<1>1. nodes[n] \in Node /\ Len(nodes) \in Nat /\ nodes \in Seq(Node)
  BY DEF Tree
<1> DEFINE new == [nodes[n] EXCEPT !.kids = kids]
<1>2. new \in Node /\ new.kind = nodes[n].kind /\ new.tok = nodes[n].tok
      /\ new.kids = kids
  BY <1>1 DEF Node
<1>3. nodes' = [nodes EXCEPT ![n] = new]
  OBVIOUS
<1> HIDE DEF new
<1>4. /\ nodes' \in Seq(Node)
      /\ Len(nodes') = Len(nodes)
      /\ nodes'[n] = new
      /\ \A m \in 1 .. Len(nodes) : m # n => nodes'[m] = nodes[m]
  BY <1>1, <1>2, <1>3
<1>5. \A m \in 1 .. Len(nodes) : nodes'[m].kind = nodes[m].kind
  BY <1>2, <1>4
<1>6. \A m \in 0 .. Len(nodes) : KindOf(m)' = KindOf(m)
  BY <1>1, <1>5 DEF KindOf
<1>7. ASSUME NEW m \in 1 .. Len(nodes')
      PROVE  /\ nodes'[m].tok <= Len(toks)
             /\ nodes'[m].kind = "prog" <=> m = 1
             /\ Arity(nodes'[m].kind, Len(nodes'[m].kids))
             /\ \A i \in 1 .. Len(nodes'[m].kids) :
                   /\ nodes'[m].kids[i] <= Len(nodes')
                   /\ MayHold(nodes'[m].kind, i, KindOf(nodes[m].kids[i])')
                   /\ nodes'[m].kind = "binop" => nodes'[m].kids[i] < m
  <2>1. CASE m # n
    <3>1. nodes'[m] = nodes[m] /\ nodes[m] \in Node /\ m \in 1 .. Len(nodes)
      BY <1>4, <1>7, <2>1 DEF Tree
    <3>2. \A i \in 1 .. Len(nodes[m].kids) : nodes[m].kids[i] \in 0 .. Len(nodes)
      <4>1. nodes[m].kids \in Seq(Nat)
        BY <3>1 DEF Node
      <4>2. \A i \in 1 .. Len(nodes[m].kids) : nodes[m].kids[i] <= Len(nodes)
        BY <3>1 DEF Tree
      <4>3. QED
        BY <1>1, <4>1, <4>2
    <3>3. QED
      BY <1>1, <1>4, <1>6, <3>1, <3>2, SMTT(30) DEF Tree
  <2>2. CASE m = n
    <3>1. \A i \in 1 .. Len(kids) : kids[i] \in 0 .. Len(nodes)
      BY <1>1
    <3>2. nodes[n].tok <= Len(toks) /\ (nodes[n].kind = "prog" <=> n = 1)
      BY DEF Tree
    <3>3. QED
      BY <1>1, <1>2, <1>4, <1>6, <2>2, <3>1, <3>2
  <2>3. QED
    BY <2>1, <2>2
<1>8. Tree'
  BY <1>4, <1>7 DEF Tree
<1>9. Live' = Live /\ Live \subseteq 1 .. Len(nodes)
  BY <1>4 DEF Live
<1>10. \A m \in Live : \A i \in Nat : m # n => Kids'[m][i] = Kids[m][i]
  BY <1>1, <1>4, <1>9 DEF Kids
<1>11. \A i \in Nat : Kids'[n][i] = IF i \in 1 .. Len(kids) THEN kids[i] ELSE 0
  BY <1>1, <1>2, <1>4 DEF Kids
<1>12. QED
  BY <1>2, <1>4, <1>5, <1>8, <1>9, <1>10, <1>11
-----------------------------------------------------------------------------
(***************************************************************************)
(* The steps that make and release nothing                                 *)
(***************************************************************************)

\* A function that is at one label may go on at another with the node it has.
MayGo(from, to) ==
    /\ to \in Label
    /\ from \in {"prog", "prog_fn"} <=> to \in {"prog", "prog_fn"}
    /\ \A at \in Label : Calls(at, from) => Calls(at, to)
    /\ \A kind : Holds(from, kind) => Holds(to, kind)
    /\ to \in TypeUnset => from \in TypeUnset
    /\ to \in BodyUnset => from \in BodyUnset

\* Labels between which a function may go without a node to make.
LEMMA Within ==
    ASSUME NEW from, NEW to,
           \/ from = to /\ to \in Label
           \/ {from, to} \subseteq FnAt \ {"fn_name"}
           \/ {from, to} \subseteq BlockAt \ {"block"}
           \/ {from, to} \subseteq LetAt
           \/ {from, to} \subseteq {"stmt", "stmt_expr", "ret_expr"}
           \/ from = "expr" /\ to \in {"block", "term_lhs"}
           \/ {from, to} \subseteq {"term_op", "term_rhs"}
           \/ {from, to} \subseteq {"factor_op", "factor_rhs"}
           \/ {from, to} \subseteq TypeAt
           \/ {from, to} \subseteq AuxAt
           \/ {from, to} \subseteq {"prog", "prog_fn"},
           to \in TypeUnset => from \in TypeUnset
    PROVE  MayGo(from, to)
<1> USE DEF MayGo, Label, Looking, SkipsWhitespace, Waiting, WaitsForNode,
            WaitsForType, FnAt, BlockAt, StmtAt, LetAt, TermAt, FactorAt, TypeAt,
            AuxAt, ExprCaller, TypeCaller, TypeUnset, BodyUnset
<1>1. to \in Label
  OBVIOUS
<1>2. from \in {"prog", "prog_fn"} <=> to \in {"prog", "prog_fn"}
  OBVIOUS
<1>3. \A at \in Label : Calls(at, from) => Calls(at, to)
  BY DEF Calls
<1>4. \A kind : Holds(from, kind) => Holds(to, kind)
  BY DEF Holds
<1>5. to \in BodyUnset => from \in BodyUnset
  OBVIOUS
<1>6. QED
  BY <1>1, <1>2, <1>3, <1>4, <1>5

\* What a function at a label may call, with the calls that follow at once.
MayCall(to, above) ==
    /\ above \in Seq(Frame)
    /\ \A i \in 1 .. Len(above) : NewFrame(above[i], idx')
    /\ Len(above) # 0 => Calls(to, above[1].at)
    /\ \A i \in 1 .. Len(above) - 1 : Calls(above[i].at, above[i + 1].at)
    /\ (IF above = <<>> THEN to ELSE above[Len(above)].at) \notin Waiting
    /\ to = "block_stmt" => Len(above) # 0 /\ above[1].at = "stmt"

\* The running function has a frame of its own.
LEMMA TopTyped ==
    ASSUME Frames
    PROVE  Top \in Frame /\ Fits(Top) /\ Top.node \in 0 .. Len(nodes)
           /\ Len(stack) \in Nat /\ Len(stack) >= 1 /\ stack \in Seq(Frame)
<1>1. /\ Len(stack) \in Nat /\ Len(stack) >= 1 /\ stack \in Seq(Frame)
      /\ Len(stack) \in 1 .. Len(stack)
  BY DEF Frames
<1>2. Top \in Frame /\ Fits(Top)
  BY <1>1 DEF Top, Frames
<1>3. QED
  BY <1>1, <1>2 DEF Frame, Fits

\* A step that makes and releases nothing and goes on, calling or not.
LEMMA GoesOn ==
    ASSUME IInv, Moves, UNCHANGED <<nodes, freed, val>>,
           NEW to, NEW token \in Nat, token <= idx', NEW above,
           Pushes([at |-> to, node |-> Top.node, tok |-> token], above),
           MayGo(Top.at, to), MayCall(to, above),
           to \in {"factor_rhs", "term_rhs"} => token < idx',
           to = "fn_lparen" => token # 0, to = "ret_arrow" => idx' # 1,
           Top.at \in {"stmt", "stmt_expr"} => to = "stmt_expr" \/ idx < idx',
           Top.at \in WaitsForNode => val = 0
    PROVE  IInv'
<1>0. PICK frame : frame = [at |-> to, node |-> Top.node, tok |-> token]
  OBVIOUS
<1>1. /\ Tree' /\ Keeps /\ Live' = Live /\ Kids' = Kids
      /\ Len(nodes') = Len(nodes) /\ Len(nodes) \in Nat
  <2>1. UNCHANGED toks
    BY DEF Moves
  <2>2. QED
    BY <2>1, TreeSame DEF IInv, Tree
<1>2. /\ Top \in Frame /\ Fits(Top) /\ Top.node \in 0 .. Len(nodes)
      /\ Len(stack) \in Nat /\ Len(stack) >= 1 /\ stack \in Seq(Frame)
  BY TopTyped DEF IInv
<1>3. frame \in Frame /\ frame.at = to /\ frame.node = Top.node /\ frame.tok = token
  BY <1>0, <1>2 DEF Frame, MayGo
<1>5. MayPush(frame, above)
  BY <1>3 DEF MayPush, MayGo, MayCall, TopAt
<1>6. Fits(frame)'
  <2>1. KindOf(frame.node)' = KindOf(Top.node)
    BY <1>2, <1>3 DEF KindOf
  <2>2. Holds(to, KindOf(Top.node))
    BY <1>2 DEF Fits, MayGo
  <2>3. to \in TypeUnset => nodes'[Top.node].kids[1] = 0
    BY <1>2 DEF Fits, MayGo
  <2>4. to \in BodyUnset => nodes'[Top.node].kids[2] = 0
    BY <1>2 DEF Fits, MayGo
  <2>5. QED
    BY <1>1, <1>2, <1>3, <2>1, <2>2, <2>3, <2>4 DEF Fits
<1>7. frame.at \in {"prog", "prog_fn"} => frame.node = 1
  BY <1>3, ProgAlone DEF IInv, MayGo
<1>8. val' \in 0 .. Len(nodes')
  BY <1>1 DEF IInv, Answer
<1>9. Pushes(frame, above)
  BY <1>0
<1>10. Owned(Live', Kids', Roots')
  <2>1. /\ Roots'[0] = 0 /\ Roots'[Len(stack)] = Top.node
        /\ \A d \in Nat : d # 0 /\ d # Len(stack) => Roots'[d] = Roots[d]
    BY <1>2, <1>3, <1>5, <1>9, RootsPushed
  <2>2. Roots[0] = 0 /\ Roots[Len(stack)] = Top.node
    BY <1>2, RootsNow DEF HeldValue
  <2>3. \A d \in Nat : Roots'[d] = Roots[d]
    BY <2>1, <2>2
  <2>4. Owned(Live, Kids, Roots)
    BY DEF IInv, Owners, Moves
  <2>5. QED
    BY <1>1, <2>3, <2>4 DEF Owned, RootsOwn, KidsOwn, NoneLost
<1>11. QED
  BY <1>1, <1>5, <1>6, <1>7, <1>8, <1>9, <1>10, PushedRest

\* No call is one that may be made.
LEMMA CallsNothing ==
    ASSUME NEW to, to \notin Waiting, to # "block_stmt"
    PROVE  MayCall(to, <<>>)
BY DEF MayCall

\* Goto, and no step on the stack at all.
LEMMA GotoStep ==
    ASSUME IInv, Moves, UNCHANGED <<nodes, freed, val>>,
           NEW to, Goto(to) \/ (UNCHANGED stack /\ to = Top.at),
           MayGo(Top.at, to), to \notin Waiting,
           to = "fn_lparen" => Top.at = "fn_lparen",
           to = "ret_arrow" => Top.at = "ret_arrow" \/ idx < idx',
           Top.at \in {"stmt", "stmt_expr"} => idx < idx',
           Top.at \in WaitsForNode => val = 0
    PROVE  IInv'
<1>1. /\ Top \in Frame /\ Fits(Top)
      /\ Len(stack) \in Nat /\ Len(stack) >= 1 /\ stack \in Seq(Frame)
  BY TopTyped DEF IInv
<1>2. Top = [at |-> Top.at, node |-> Top.node, tok |-> Top.tok]
      /\ Top.tok \in Nat
  BY <1>1 DEF Frame
<1>3. PICK frame : frame = [at |-> to, node |-> Top.node, tok |-> Top.tok]
  OBVIOUS
<1>4. [stack EXCEPT ![Len(stack)] = frame] = stack' /\ stack' \in Seq(Frame)
  <2>1. frame \in Frame
    BY <1>1, <1>3 DEF Frame, MayGo
  <2>2. CASE Goto(to)
    <3>1. [Top EXCEPT !.at = to] = frame
      BY <1>2, <1>3
    <3>2. stack' = [stack EXCEPT ![Len(stack)] = [Top EXCEPT !.at = to]]
      BY <2>2 DEF Goto, TopGoes
    <3>3. stack' = [stack EXCEPT ![Len(stack)] = frame]
      BY <3>1, <3>2
    <3>4. QED
      BY <1>1, <2>1, <3>3
  <2>3. CASE UNCHANGED stack /\ to = Top.at
    <3>1. frame = stack[Len(stack)]
      BY <1>2, <1>3, <2>3 DEF Top
    <3>2. \A d \in 1 .. Len(stack) :
            [stack EXCEPT ![Len(stack)] = frame][d] = stack[d]
      BY <1>1, <3>1
    <3>3. [stack EXCEPT ![Len(stack)] = frame] \in Seq(Frame)
          /\ Len([stack EXCEPT ![Len(stack)] = frame]) = Len(stack)
      BY <1>1, <2>1
    <3>4. QED
      BY <1>1, <2>3, <3>2, <3>3, SeqEqual
  <2>4. QED
    BY <2>2, <2>3
<1>5. Pushes(frame, <<>>)
  BY <1>4, ConcatEmptySeq DEF Pushes
<1>6. /\ Top.tok <= idx'
      /\ to = "fn_lparen" => Top.tok # 0
      /\ to = "ret_arrow" => idx' # 1
  BY <1>1, <1>2 DEF Fits, Moves, IInv, TokensTyped
<1>7. MayCall(to, <<>>) /\ to \notin {"factor_rhs", "term_rhs"}
  BY CallsNothing DEF Waiting, WaitsForNode
<1>8. QED
  BY <1>2, <1>3, <1>5, <1>6, <1>7, GoesOn

\* A call, after which the caller goes on at back.
LEMMA CallStep ==
    ASSUME IInv, Moves, UNCHANGED <<nodes, freed, val>>,
           NEW back, NEW callee, Call(back, callee),
           MayGo(Top.at, back), callee \in Label, Holds(callee, "NULL"),
           Calls(back, callee), callee \notin Waiting,
           back \notin {"fn_lparen", "ret_arrow", "block_stmt", "factor_rhs", "term_rhs"},
           Top.at \in {"stmt", "stmt_expr"} => back = "stmt_expr" \/ idx < idx',
           Top.at \notin WaitsForNode
    PROVE  IInv'
<1>1. /\ Top \in Frame /\ Fits(Top)
      /\ Len(stack) \in Nat /\ Len(stack) >= 1 /\ stack \in Seq(Frame)
  BY TopTyped DEF IInv
<1>2. /\ Top.tok \in Nat /\ Top.tok <= idx'
      /\ idx \in Nat /\ idx <= idx'
  BY <1>1 DEF Fits, Frame, Moves, IInv, TokensTyped
<1>3. PICK frame : frame = [at |-> back, node |-> Top.node, tok |-> Top.tok]
  OBVIOUS
<1>4. PICK new : new = MakeFrame(callee, 0, idx)
  OBVIOUS
<1>5. frame \in Frame /\ new \in Frame
  BY <1>1, <1>2, <1>3, <1>4 DEF Frame, MayGo, MakeFrame
<1>6. [stack EXCEPT ![Len(stack)].at = back] = [stack EXCEPT ![Len(stack)] = frame]
  <2>1. [stack[Len(stack)] EXCEPT !.at = back] = frame
    BY <1>1, <1>3 DEF Frame, Top
  <2>2. QED
    BY <2>1
<1>7. Pushes(frame, <<new>>)
  <2>1. [stack EXCEPT ![Len(stack)] = frame] \in Seq(Frame)
    BY <1>1, <1>5
  <2>2. stack' = Append([stack EXCEPT ![Len(stack)] = frame], new)
    BY <1>4, <1>6 DEF Call
  <2>3. QED
    BY <1>5, <2>1, <2>2, AppendIsConcat DEF Pushes
<1>8. MayCall(back, <<new>>)
  BY <1>2, <1>4, <1>5 DEF MayCall, NewFrame, MakeFrame
<1>9. QED
  BY <1>2, <1>3, <1>7, <1>8, GoesOn

\* A function returns NULL, or a type, and has no node to hand on.
LEMMA ReturnNullStep ==
    ASSUME IInv, Moves, UNCHANGED <<nodes, freed>>, NEW v, Return(v),
           Top.node = 0, Top.at \in WaitsForNode => val = 0,
           Top.at \notin {"prog", "prog_fn", "stmt", "stmt_expr"},
           \/ v \in {0, TypeRef} /\ Top.at \in AuxAt
           \/ /\ v = 0
              /\ \A at \in WaitsForNode : Calls(at, Top.at) => Given(at, "NULL")
    PROVE  IInv'
<1>1. /\ Tree' /\ Keeps /\ Live' = Live /\ Kids' = Kids
      /\ Len(nodes') = Len(nodes) /\ Len(nodes) \in Nat /\ Len(nodes) >= 1
  BY TreeSame DEF IInv, Tree, Moves
<1>2. Pops /\ val' = v
  BY DEF Return, Pops
<1>3. val' \in 0 .. Len(nodes')
  BY <1>1, <1>2 DEF TypeRef
<1>4. \A at \in WaitsForNode : Calls(at, Top.at) => Given(at, KindOf(val)')
  <2>1. CASE Top.at \in AuxAt
    BY <2>1 DEF Calls, AuxAt, FnAt, BlockAt, StmtAt, LetAt, TermAt, FactorAt,
                TypeAt, WaitsForNode, WaitsForType
  <2>2. CASE v = 0 /\ \A at \in WaitsForNode : Calls(at, Top.at) => Given(at, "NULL")
    BY <1>2, <2>2 DEF KindOf
  <2>3. QED
    BY <2>1, <2>2
<1>5. Owned(Live', Kids', Roots')
  <2>1. /\ Roots'[0] = 0 /\ Roots'[Len(stack)] = 0
        /\ \A d \in Nat : d # 0 /\ d # Len(stack) => Roots'[d] = Roots[d]
    BY <1>2, RootsPopped DEF IInv
  <2>2. Roots[0] = 0 /\ Roots[Len(stack)] = 0
    BY RootsNow DEF HeldValue, IInv, Frames
  <2>3. \A d \in Nat : Roots'[d] = Roots[d]
    BY <2>1, <2>2
  <2>4. Owned(Live, Kids, Roots)
    BY DEF IInv, Owners, Moves
  <2>5. QED
    BY <1>1, <2>3, <2>4 DEF Owned, RootsOwn, KidsOwn, NoneLost
<1>6. QED
  BY <1>1, <1>2, <1>3, <1>4, <1>5, PoppedRest

\* A function returns the node it has.
LEMMA ReturnNodeStep ==
    ASSUME IInv, Moves, UNCHANGED <<nodes, freed>>, Return(Top.node),
           Top.at \notin WaitsForNode \cup AuxAt,
           Top.at \notin {"prog", "prog_fn", "stmt", "stmt_expr"},
           \A at \in WaitsForNode : Calls(at, Top.at) => Given(at, KindOf(Top.node))
    PROVE  IInv'
<1>1. /\ Tree' /\ Keeps /\ Live' = Live /\ Kids' = Kids
      /\ Len(nodes') = Len(nodes) /\ 0 \notin Live
  BY TreeSame, LiveNow DEF IInv, Moves
<1>2. Pops /\ val' = Top.node
  BY DEF Return, Pops
<1>3. Top.node \in 0 .. Len(nodes) /\ Len(stack) \in Nat /\ Len(stack) >= 1
  BY TopTyped DEF IInv
<1>4. \A at \in WaitsForNode : Calls(at, Top.at) => Given(at, KindOf(val)')
  <2>1. KindOf(val)' = KindOf(Top.node)
    BY <1>2 DEF KindOf
  <2>2. QED
    BY <2>1
<1>5. Owned(Live', Kids', Roots')
  <2>1. /\ Roots'[0] = Top.node /\ Roots'[Len(stack)] = 0
        /\ \A d \in Nat : d # 0 /\ d # Len(stack) => Roots'[d] = Roots[d]
    BY <1>2, RootsPopped DEF IInv
  <2>2. Roots[0] = 0 /\ Roots[Len(stack)] = Top.node
    BY RootsNow DEF HeldValue, IInv, Frames
  <2>3. Owned(Live, Kids, Roots)
    BY DEF IInv, Owners, Moves
  <2>4. Owned(Live, Kids, Roots')
    BY <1>1, <1>3, <2>1, <2>2, <2>3, OwnedMoved
  <2>5. QED
    BY <1>1, <2>4
<1>6. QED
  BY <1>1, <1>2, <1>3, <1>4, <1>5, PoppedRest
-----------------------------------------------------------------------------
(***************************************************************************)
(* The steps of parse_prog and of its helpers, but those that end in a     *)
(* node being given away                                                   *)
(***************************************************************************)

\* The program panics or crashes, and that is all.
LEMMA StopStep ==
    ASSUME IInv, out = "running", out' \in {"panic", "crash"},
           UNCHANGED <<toks, closed, idx, stack, val, nodes, freed, errs>>
    PROVE  IInv'
<1>1. TokensTyped'
  BY DEF IInv, TokensTyped, Outcome
<1>2. Tree'
  BY DEF IInv, Tree, KindOf
<1>3. Frames'
  BY DEF IInv, Frames, Fits, KindOf
<1>4. Begun' /\ Answer'
  BY DEF IInv, Begun, Answer, Top, KindOf
<1>5. Owners' /\ Parsed' /\ OnlyLetTypesLeak'
  BY DEF Owners, Parsed, OnlyLetTypesLeak
<1>6. QED
  BY <1>1, <1>2, <1>3, <1>4, <1>5 DEF IInv

\* panic ends the program.
LEMMA PanicStep ==
    ASSUME IInv, out = "running", UNCHANGED <<toks, closed>>, Panic
    PROVE  IInv'
BY StopStep DEF Panic

\* Where a step that looks at a token is, and where the TokIter may go.
At(label) ==
    /\ out = "running" /\ Top.at = label
    /\ idx \in 1 .. Len(toks)
    /\ idx \in idx .. Len(toks) + 1
    /\ idx + 1 \in idx .. Len(toks) + 1
    /\ idx < idx + 1

\* An action that looks at a token is at one.
LEMMA AtToken ==
    ASSUME IInv, NEW label, On(label)
    PROVE  At(label)
BY OnToken DEF IInv, TokensTyped, At

\* Whitespace is skipped where the function that looks skips it.
LEMMA ConsumeWhitespaceKeeps ==
    ASSUME IInv, UNCHANGED <<toks, closed>>, ConsumeWhitespace
    PROVE  IInv'
<1>1. /\ out = "running" /\ Top.at \in SkipsWhitespace \cup {"prog"}
      /\ idx' = idx + 1 /\ Quiet /\ UNCHANGED <<stack, val, nodes, freed>>
  BY DEF ConsumeWhitespace, Heap
<1>2. idx' \in idx .. Len(toks) + 1 /\ idx < idx'
  <2>1. Peek # "NULL"
    BY DEF ConsumeWhitespace
  <2>2. QED
    BY <1>1, <2>1 DEF Peek, IInv, TokensTyped
<1>3. Moves
  BY <1>1, <1>2, QuietMoves DEF IInv
<1>4. Top.at \in Label \ Waiting
  BY <1>1 DEF Label, Looking, SkipsWhitespace, Waiting, WaitsForNode, WaitsForType
<1>5. MayGo(Top.at, Top.at)
  BY <1>4, Within
<1>6. QED
  BY <1>1, <1>2, <1>3, <1>4, <1>5, GotoStep DEF Waiting

\* Where the tokens end the parser dereferences NULL.
LEMMA LookAtNullKeeps ==
    ASSUME IInv, UNCHANGED <<toks, closed>>, LookAtNull
    PROVE  IInv'
BY StopStep DEF LookAtNull, Heap

\* parse_prog calls parse_fn.
LEMMA ProgFnKeeps ==
    ASSUME IInv, UNCHANGED <<toks, closed>>, ProgFn
    PROVE  IInv'
<1>1. At("prog")
  BY AtToken DEF ProgFn
<1>2. Moves /\ UNCHANGED <<nodes, freed, val>>
  BY <1>1, QuietMoves DEF At, ProgFn, Heap, IInv
<1>3. MayGo("prog", "prog_fn")
  BY Within DEF TypeUnset
<1>4. /\ "fn_name" \in Label /\ Holds("fn_name", "NULL") /\ "fn_name" \notin Waiting
      /\ Calls("prog_fn", "fn_name")
  BY DEF Label, Looking, SkipsWhitespace, Holds, Waiting, WaitsForNode,
         WaitsForType, Calls, FnAt
<1>5. QED
  BY <1>1, <1>2, <1>3, <1>4, CallStep DEF At, ProgFn, WaitsForNode

\* parse_prog passes over a token it has no code for, with an error.
LEMMA ProgUnknownKeeps ==
    ASSUME IInv, UNCHANGED <<toks, closed>>, ProgUnknown
    PROVE  IInv'
<1>1. At("prog")
  BY AtToken DEF ProgUnknown
<1>2. Moves /\ UNCHANGED <<nodes, freed, val, stack>>
  BY <1>1, ExpectMoves DEF At, ProgUnknown, Heap, IInv
<1>3. MayGo("prog", "prog")
  BY Within
<1>4. QED
  BY <1>1, <1>2, <1>3, GotoStep DEF At, Waiting, WaitsForNode, WaitsForType

\* parse_prog returns the tree.
LEMMA ProgEndKeeps ==
    ASSUME IInv, UNCHANGED <<toks, closed>>, ProgEnd
    PROVE  IInv'
<1>1. /\ out = "running" /\ Top.at = "prog" /\ out' = "parsed"
      /\ UNCHANGED <<idx, stack, val, nodes, freed, errs>>
  BY DEF ProgEnd, Heap
<1>2. TokensTyped'
  BY <1>1 DEF IInv, TokensTyped, Outcome
<1>3. Tree'
  BY <1>1 DEF IInv, Tree, KindOf
<1>4. Frames'
  BY <1>1 DEF IInv, Frames, Fits, KindOf
<1>5. Begun' /\ Answer'
  BY <1>1 DEF IInv, Begun, Answer, Top, KindOf
<1>6. Owners'
  <2>1. Live' = Live /\ Kids' = Kids
    BY <1>1 DEF Live, Kids
  <2>2. HeldValue' = HeldValue
    BY <1>1 DEF HeldValue, Top
  <2>3. Roots' = Roots
    BY <1>1, <2>2 DEF Roots
  <2>4. QED
    BY <1>1, <2>1, <2>3 DEF IInv, Owners, Owned, RootsOwn, KidsOwn, NoneLost
<1>7. Parsed'
  BY <1>1, ProgAlone DEF IInv, Parsed, Top
<1>8. OnlyLetTypesLeak'
  BY <1>1 DEF OnlyLetTypesLeak
<1>9. QED
  BY <1>2, <1>3, <1>4, <1>5, <1>6, <1>7, <1>8 DEF IInv
-----------------------------------------------------------------------------
(***************************************************************************)
(* parse_fn and parse_fn_ret                                               *)
(***************************************************************************)

\* "(", and whether parameters follow.
LEMMA FnLparenKeeps ==
    ASSUME IInv, UNCHANGED <<toks, closed>>, FnLparen
    PROVE  IInv'
<1>1. At("fn_lparen")
  BY AtToken DEF FnLparen
<1>2. Top.tok \in 1 .. Len(toks)
  <2>1. Top.tok \in Nat /\ Top.tok <= idx /\ Top.tok # 0
    BY <1>1, TopTyped DEF At, IInv, Fits, Frame
  <2>2. QED
    BY <1>1, <2>1 DEF At
<1>3. Moves /\ UNCHANGED <<nodes, freed, val>>
  BY <1>1, <1>2, ExpectMoves DEF At, FnLparen, Heap, IInv
<1>4. MayGo("fn_lparen", "fn_params")
  BY Within DEF FnAt, TypeUnset
<1>5. QED
  BY <1>1, <1>3, <1>4, GotoStep DEF At, FnLparen, Waiting, WaitsForNode, WaitsForType

\* There are no parameters.
LEMMA FnNoParamsKeeps ==
    ASSUME IInv, UNCHANGED <<toks, closed>>, FnNoParams
    PROVE  IInv'
<1>1. At("fn_params")
  BY AtToken DEF FnNoParams
<1>2. Moves /\ UNCHANGED <<nodes, freed, val>>
  BY <1>1, QuietMoves DEF At, FnNoParams, Heap, IInv
<1>3. MayGo("fn_params", "fn_rparen")
  BY Within DEF FnAt, TypeUnset
<1>4. QED
  BY <1>1, <1>2, <1>3, GotoStep
     DEF At, FnNoParams, Waiting, WaitsForNode, WaitsForType

\* A parameter, of which nothing is consumed.
LEMMA FnParamKeeps ==
    ASSUME IInv, UNCHANGED <<toks, closed>>, FnParam
    PROVE  IInv'
<1>1. /\ out = "running" /\ Top.at \in {"fn_params", "fn_param"}
      /\ idx' \in idx .. Len(toks) + 1
  <2>1. idx \in idx .. Len(toks) + 1 /\ idx' = idx
    BY DEF FnParam, IInv, TokensTyped
  <2>2. QED
    BY <2>1 DEF FnParam, Back, On
<1>2. Moves /\ UNCHANGED <<nodes, freed, val>>
  BY <1>1, QuietMoves DEF FnParam, Heap, IInv
<1>3. MayGo(Top.at, "fn_comma")
  BY <1>1, Within DEF FnAt, TypeUnset
<1>4. QED
  BY <1>1, <1>2, <1>3, GotoStep DEF FnParam, Waiting, WaitsForNode, WaitsForType

\* The loop over the parameters goes on until there is a comma.
LEMMA FnCommaKeeps ==
    ASSUME IInv, UNCHANGED <<toks, closed>>, FnComma
    PROVE  IInv'
<1>1. At("fn_comma")
  BY AtToken DEF FnComma
<1>2. Moves /\ UNCHANGED <<nodes, freed, val>>
  BY <1>1, QuietMoves DEF At, FnComma, Heap, IInv
<1>3. MayGo("fn_comma", "fn_rparen") /\ MayGo("fn_comma", "fn_param")
  BY Within DEF FnAt, TypeUnset
<1>4. PICK to \in {"fn_rparen", "fn_param"} : Goto(to)
  BY DEF FnComma
<1>5. QED
  BY <1>1, <1>2, <1>3, <1>4, GotoStep DEF At, Waiting, WaitsForNode, WaitsForType

\* ")" after the parameters.
LEMMA FnRparenKeeps ==
    ASSUME IInv, UNCHANGED <<toks, closed>>, FnRparen
    PROVE  IInv'
<1>1. At("fn_rparen")
  BY AtToken DEF FnRparen
<1>2. Moves /\ UNCHANGED <<nodes, freed, val>>
  BY <1>1, ExpectMoves DEF At, FnRparen, Heap, IInv
<1>3. MayGo("fn_rparen", "fn_ret")
  BY Within DEF FnAt, TypeUnset
<1>4. QED
  BY <1>1, <1>2, <1>3, GotoStep DEF At, FnRparen, Waiting, WaitsForNode, WaitsForType

\* Whether "->" may follow.
LEMMA FnRetKeeps ==
    ASSUME IInv, UNCHANGED <<toks, closed>>, FnRet
    PROVE  IInv'
<1>1. At("fn_ret")
  BY AtToken DEF FnRet
<1>2. /\ idx' \in {idx, idx + 1}
      /\ (Goto("ret_arrow") /\ idx' = idx + 1) \/ Goto("fn_body")
  BY DEF FnRet
<1>3. Moves /\ UNCHANGED <<nodes, freed, val>>
  BY <1>1, <1>2, QuietMoves DEF At, FnRet, Heap, IInv
<1>4. MayGo("fn_ret", "ret_arrow") /\ MayGo("fn_ret", "fn_body")
  BY Within DEF FnAt, TypeUnset
<1>5. CASE Goto("ret_arrow") /\ idx' = idx + 1
  BY <1>1, <1>3, <1>4, <1>5, GotoStep DEF At, Waiting, WaitsForNode, WaitsForType
<1>6. CASE Goto("fn_body")
  BY <1>1, <1>3, <1>4, <1>6, GotoStep DEF At, Waiting, WaitsForNode, WaitsForType
<1>7. QED
  BY <1>2, <1>5, <1>6

\* "->", after which the type is next, or another token.
LEMMA FnRetArrowKeeps ==
    ASSUME IInv, UNCHANGED <<toks, closed>>, FnRetArrow
    PROVE  IInv'
<1>1. At("ret_arrow")
  BY AtToken DEF FnRetArrow
<1>2. idx - 1 \in 1 .. Len(toks)
  <2>1. idx # 1
    BY <1>1, TopTyped DEF At, IInv, Fits
  <2>2. QED
    BY <1>1, <2>1 DEF At
<1>3. Moves /\ UNCHANGED <<nodes, freed, val>>
  BY <1>1, <1>2, ExpectMoves DEF At, FnRetArrow, Heap, IInv
<1>4. MayGo("ret_arrow", "fn_ret_type")
  BY Within DEF FnAt, TypeUnset
<1>5. /\ "type" \in Label /\ Holds("type", "NULL") /\ "type" \notin Waiting
      /\ Calls("fn_ret_type", "type")
  BY DEF Label, Looking, SkipsWhitespace, Holds, Waiting, WaitsForNode,
         WaitsForType, Calls, TypeCaller, TypeAt
<1>6. QED
  BY <1>1, <1>3, <1>4, <1>5, CallStep DEF At, FnRetArrow, WaitsForNode

\* The body: parse_block is called.
LEMMA FnBodyKeeps ==
    ASSUME IInv, UNCHANGED <<toks, closed>>, FnBody
    PROVE  IInv'
<1>1. At("fn_body")
  BY AtToken DEF FnBody
<1>2. Moves /\ UNCHANGED <<nodes, freed, val>>
  BY <1>1, ExpectMoves DEF At, FnBody, Heap, IInv
<1>3. MayGo("fn_body", "fn_end")
  BY Within DEF FnAt, TypeUnset
<1>4. /\ "block" \in Label /\ Holds("block", "NULL") /\ "block" \notin Waiting
      /\ Calls("fn_end", "block")
  BY DEF Label, Looking, SkipsWhitespace, Holds, Waiting, WaitsForNode,
         WaitsForType, Calls, BlockAt
<1>5. QED
  BY <1>1, <1>2, <1>3, <1>4, CallStep DEF At, FnBody, WaitsForNode
-----------------------------------------------------------------------------
(***************************************************************************)
(* parse_block and parse_stmt, where they make and hand on nothing         *)
(***************************************************************************)

\* parse_block calls parse_stmt and remembers the token.
LEMMA BlockStmtKeeps ==
    ASSUME IInv, UNCHANGED <<toks, closed>>, BlockStmt
    PROVE  IInv'
<1>1. At("block_loop")
  BY AtToken DEF BlockStmt
<1>2. Moves /\ UNCHANGED <<nodes, freed, val>> /\ idx' = idx /\ idx \in Nat
  <2>1. Moves
    BY <1>1, QuietMoves DEF At, BlockStmt, Heap, IInv
  <2>2. UNCHANGED <<nodes, freed, val>> /\ idx' = idx
    BY DEF BlockStmt, Heap
  <2>3. idx \in Nat
    BY DEF IInv, TokensTyped
  <2>4. QED
    BY <2>1, <2>2, <2>3
<1>3. MayGo("block_loop", "block_stmt")
  BY Within DEF BlockAt, TypeUnset
<1>4. PICK new : new = MakeFrame("stmt", 0, 0)
  OBVIOUS
<1>5. new \in Frame /\ new.at = "stmt" /\ new.node = 0 /\ new.tok = 0
  BY <1>4 DEF MakeFrame, Frame, Label, Looking, SkipsWhitespace
<1>6. MayCall("block_stmt", <<new>>)
  BY <1>2, <1>5 DEF MayCall, NewFrame, Holds, Calls, StmtAt, Waiting, WaitsForNode,
                    WaitsForType
<1>7. PICK frame : frame = MakeFrame("block_stmt", Top.node, idx)
  OBVIOUS
<1>8. Pushes(frame, <<new>>)
  <2>1. stack' = Append([stack EXCEPT ![Len(stack)] = frame], new)
    BY <1>4, <1>7 DEF BlockStmt
  <2>2. frame \in Frame
    BY <1>2, <1>7, TopTyped
       DEF MakeFrame, Frame, Label, Waiting, WaitsForNode, IInv
  <2>3. [stack EXCEPT ![Len(stack)] = frame] \in Seq(Frame)
    BY <2>2, TopTyped DEF IInv
  <2>4. QED
    BY <1>5, <2>1, <2>3, AppendIsConcat DEF Pushes
<1>9. frame = [at |-> "block_stmt", node |-> Top.node, tok |-> idx]
  BY <1>7 DEF MakeFrame
<1>10. QED
  BY <1>1, <1>2, <1>3, <1>6, <1>8, <1>9, GoesOn DEF At, WaitsForNode

\* parse_block leaves its loop at "}".
LEMMA BlockLoopEndKeeps ==
    ASSUME IInv, UNCHANGED <<toks, closed>>, BlockLoopEnd
    PROVE  IInv'
<1>1. At("block_loop")
  BY AtToken DEF BlockLoopEnd
<1>2. Moves /\ UNCHANGED <<nodes, freed, val>>
  BY <1>1, QuietMoves DEF At, BlockLoopEnd, Heap, IInv
<1>3. MayGo("block_loop", "block_end")
  BY Within DEF BlockAt, TypeUnset
<1>4. QED
  BY <1>1, <1>2, <1>3, GotoStep
     DEF At, BlockLoopEnd, Waiting, WaitsForNode, WaitsForType

\* What the node of the running function is, from its label.
LEMMA TopHolds ==
    ASSUME IInv
    PROVE  Holds(Top.at, KindOf(Top.node)) /\ (KindOf(Top.node) = "NULL" <=> Top.node = 0)
<1>1. Fits(Top) /\ Top.node \in 0 .. Len(nodes)
  BY TopTyped DEF IInv
<1>2. Top.node # 0 => nodes[Top.node] \in Node
  BY <1>1 DEF IInv, Tree
<1>3. QED
  BY <1>1, <1>2 DEF Fits, KindOf, Node, AstKind

\* parse_block returns its node.
LEMMA BlockEndKeeps ==
    ASSUME IInv, UNCHANGED <<toks, closed>>, BlockEnd
    PROVE  IInv'
<1>1. At("block_end")
  BY AtToken DEF BlockEnd
<1>2. Moves /\ UNCHANGED <<nodes, freed>> /\ Return(Top.node)
  BY <1>1, ExpectMoves DEF At, BlockEnd, Heap, IInv
<1>3. KindOf(Top.node) = "block"
  BY <1>1, TopHolds DEF At, Holds, FnAt, BlockAt, LetAt, TypeAt, AuxAt
<1>4. \A at \in WaitsForNode : Calls(at, "block_end") => Given(at, "block")
  BY DEF Calls, Given, FnAt, BlockAt, StmtAt, LetAt, TermAt, FactorAt, TypeAt, AuxAt
<1>5. QED
  BY <1>1, <1>2, <1>3, <1>4, ReturnNodeStep DEF At, WaitsForNode, AuxAt

\* The name after "let".
LEMMA LetNameKeeps ==
    ASSUME IInv, UNCHANGED <<toks, closed>>, LetName
    PROVE  IInv'
<1>1. At("let_name")
  BY AtToken DEF LetName
<1>2. Moves /\ UNCHANGED <<nodes, freed, val>>
  BY <1>1, ExpectMoves DEF At, LetName, Heap, IInv
<1>3. MayGo("let_name", "let_colon")
  BY Within DEF LetAt, TypeUnset
<1>4. QED
  BY <1>1, <1>2, <1>3, GotoStep DEF At, LetName, Waiting, WaitsForNode, WaitsForType

\* ":", after which the type is parsed, or none.
LEMMA LetColonKeeps ==
    ASSUME IInv, UNCHANGED <<toks, closed>>, LetColon
    PROVE  IInv'
<1>1. At("let_colon")
  BY AtToken DEF LetColon
<1>2. Moves /\ UNCHANGED <<nodes, freed, val>>
  BY <1>1, QuietMoves DEF At, LetColon, Heap, IInv
<1>3. MayGo("let_colon", "let_type") /\ MayGo("let_colon", "let_semi")
  BY Within DEF LetAt, TypeUnset
<1>4. CASE Call("let_type", "type")
  <2>1. /\ "type" \in Label /\ Holds("type", "NULL") /\ "type" \notin Waiting
        /\ Calls("let_type", "type")
    BY DEF Label, Looking, SkipsWhitespace, Holds, Waiting, WaitsForNode,
           WaitsForType, Calls, TypeCaller, TypeAt
  <2>2. QED
    BY <1>1, <1>2, <1>3, <1>4, <2>1, CallStep DEF At, WaitsForNode
<1>5. CASE Goto("let_semi")
  BY <1>1, <1>2, <1>3, <1>5, GotoStep DEF At, Waiting, WaitsForNode, WaitsForType
<1>6. QED
  BY <1>4, <1>5 DEF LetColon

\* ";" ends a let-statement without a value.
LEMMA LetEndKeeps ==
    ASSUME IInv, UNCHANGED <<toks, closed>>, LetEnd
    PROVE  IInv'
<1>1. At("let_semi")
  BY AtToken DEF LetEnd
<1>2. Moves /\ UNCHANGED <<nodes, freed>> /\ Return(Top.node)
  BY <1>1, QuietMoves DEF At, LetEnd, Heap, IInv
<1>3. KindOf(Top.node) = "let"
  BY <1>1, TopHolds DEF At, Holds, FnAt, BlockAt, LetAt, TypeAt, AuxAt
<1>4. \A at \in WaitsForNode : Calls(at, "let_semi") => Given(at, "let")
  BY DEF Calls, Given, FnAt, BlockAt, StmtAt, LetAt, TermAt, FactorAt, TypeAt, AuxAt
<1>5. QED
  BY <1>1, <1>2, <1>3, <1>4, ReturnNodeStep DEF At, WaitsForNode, AuxAt

\* The three places where an expression is parsed.
LEMMA CallsExpr ==
    ASSUME NEW back \in ExprCaller
    PROVE  /\ "expr" \in Label /\ Holds("expr", "NULL") /\ "expr" \notin Waiting
           /\ Calls(back, "expr")
           /\ back \notin {"fn_lparen", "ret_arrow", "block_stmt", "factor_rhs", "term_rhs"}
BY DEF Label, Looking, SkipsWhitespace, Holds, Waiting, WaitsForNode,
       WaitsForType, Calls, ExprCaller

\* "=", after which the value is parsed.
LEMMA LetAssignKeeps ==
    ASSUME IInv, UNCHANGED <<toks, closed>>, LetAssign
    PROVE  IInv'
<1>1. At("let_semi")
  BY AtToken DEF LetAssign
<1>2. Moves /\ UNCHANGED <<nodes, freed, val>>
  BY <1>1, ExpectMoves DEF At, LetAssign, Heap, IInv
<1>3. MayGo("let_semi", "let_expr")
  BY Within DEF LetAt, TypeUnset
<1>4. QED
  BY <1>1, <1>2, <1>3, CallsExpr, CallStep DEF At, LetAssign, WaitsForNode, ExprCaller

\* "ret" and its value.
LEMMA StmtRetKeeps ==
    ASSUME IInv, UNCHANGED <<toks, closed>>, StmtRet
    PROVE  IInv'
<1>1. At("stmt")
  BY AtToken DEF StmtRet
<1>2. Moves /\ UNCHANGED <<nodes, freed, val>>
  BY <1>1, QuietMoves DEF At, StmtRet, Heap, IInv
<1>3. MayGo("stmt", "ret_expr")
  BY Within DEF TypeUnset
<1>4. QED
  BY <1>1, <1>2, <1>3, CallsExpr, CallStep DEF At, StmtRet, WaitsForNode, ExprCaller

\* Any other statement is an expression.
LEMMA StmtExprKeeps ==
    ASSUME IInv, UNCHANGED <<toks, closed>>, StmtExpr
    PROVE  IInv'
<1>1. At("stmt")
  BY AtToken DEF StmtExpr
<1>2. Moves /\ UNCHANGED <<nodes, freed, val>>
  BY <1>1, QuietMoves DEF At, StmtExpr, Heap, IInv
<1>3. MayGo("stmt", "stmt_expr")
  BY Within DEF TypeUnset
<1>4. QED
  BY <1>1, <1>2, <1>3, CallsExpr, CallStep DEF At, StmtExpr, WaitsForNode, ExprCaller

\* ";" after "ret".
LEMMA RetSemiKeeps ==
    ASSUME IInv, UNCHANGED <<toks, closed>>, RetSemi
    PROVE  IInv'
<1>1. At("ret_semi")
  BY AtToken DEF RetSemi
<1>2. Moves /\ UNCHANGED <<nodes, freed>> /\ Return(Top.node)
  BY <1>1, ExpectMoves DEF At, RetSemi, Heap, IInv
<1>3. KindOf(Top.node) = "ret"
  BY <1>1, TopHolds DEF At, Holds, FnAt, BlockAt, LetAt, TypeAt, AuxAt
<1>4. \A at \in WaitsForNode : Calls(at, "ret_semi") => Given(at, "ret")
  BY DEF Calls, Given, FnAt, BlockAt, StmtAt, LetAt, TermAt, FactorAt, TypeAt, AuxAt
<1>5. QED
  BY <1>1, <1>2, <1>3, <1>4, ReturnNodeStep DEF At, WaitsForNode, AuxAt

\* An expression as a statement panics: there is no node for it.
LEMMA StmtExprDoneKeeps ==
    ASSUME IInv, UNCHANGED <<toks, closed>>, StmtExprDone
    PROVE  IInv'
BY PanicStep DEF StmtExprDone, Back
-----------------------------------------------------------------------------
(***************************************************************************)
(* parse_expr and below, where nothing is made or handed on                *)
(***************************************************************************)

\* The running function goes on without a token to remember.
LEMMA TopGoesStep ==
    ASSUME IInv, Moves, UNCHANGED <<nodes, freed, val>>,
           NEW to, TopGoes(MakeFrame(to, Top.node, 0)),
           MayGo(Top.at, to), to \notin Waiting,
           to \notin {"fn_lparen", "ret_arrow"},
           Top.at \notin {"stmt", "stmt_expr"}, Top.at \notin WaitsForNode
    PROVE  IInv'
<1>1. PICK frame : frame = [at |-> to, node |-> Top.node, tok |-> 0]
  OBVIOUS
<1>2. frame \in Frame
  BY <1>1, TopTyped DEF Frame, MayGo, IInv
<1>3. stack' = [stack EXCEPT ![Len(stack)] = frame]
  BY <1>1 DEF TopGoes, MakeFrame
<1>4. [stack EXCEPT ![Len(stack)] = frame] \in Seq(Frame)
  BY <1>2, TopTyped DEF IInv
<1>5. Pushes(frame, <<>>)
  BY <1>3, <1>4, ConcatEmptySeq DEF Pushes
<1>6. MayCall(to, <<>>) /\ to \notin {"factor_rhs", "term_rhs"}
  BY CallsNothing DEF Waiting, WaitsForNode
<1>7. 0 <= idx'
  BY DEF IInv, TokensTyped, Moves
<1>8. QED
  BY <1>1, <1>5, <1>6, <1>7, GoesOn

\* "if" panics.
LEMMA ExprIfKeeps ==
    ASSUME IInv, UNCHANGED <<toks, closed>>, ExprIf \/ BottomStr
    PROVE  IInv'
BY PanicStep DEF ExprIf, BottomStr, On

\* "{" is a block.
LEMMA ExprBlockKeeps ==
    ASSUME IInv, UNCHANGED <<toks, closed>>, ExprBlock
    PROVE  IInv'
<1>1. At("expr")
  BY AtToken DEF ExprBlock
<1>2. Moves /\ UNCHANGED <<nodes, freed, val>>
  BY <1>1, QuietMoves DEF At, ExprBlock, Heap, IInv
<1>3. Top.node = 0
  BY <1>1, TopHolds DEF At, Holds, FnAt, BlockAt, LetAt, TypeAt, AuxAt
<1>4. MayGo("expr", "block")
  BY Within DEF TypeUnset
<1>5. TopGoes(MakeFrame("block", Top.node, 0))
  BY <1>3 DEF ExprBlock
<1>6. "block" \notin Waiting
  BY DEF Waiting, WaitsForNode, WaitsForType
<1>7. QED
  BY <1>1, <1>2, <1>4, <1>5, <1>6, TopGoesStep DEF At, WaitsForNode

\* The frames down to the first operand of a product.
LEMMA CallsFactor ==
    ASSUME NEW to \in {"term_lhs", "term_rhs"}, idx' \in Nat
    PROVE  MayCall(to, FactorFrames)
<1>1. /\ Len(FactorFrames) = 2
      /\ FactorFrames[1] = MakeFrame("factor_lhs", 0, 0)
      /\ FactorFrames[2] = MakeFrame("bottom", 0, 0)
      /\ FactorFrames # <<>>
  BY DEF FactorFrames
<1>2. /\ MakeFrame("factor_lhs", 0, 0) \in Frame
      /\ MakeFrame("bottom", 0, 0) \in Frame
  BY DEF MakeFrame, Frame, Label, Looking, SkipsWhitespace, Waiting, WaitsForNode
<1>3. FactorFrames \in Seq(Frame)
  BY <1>2 DEF FactorFrames
<1>4. \A i \in 1 .. 2 : NewFrame(FactorFrames[i], idx')
  BY <1>1, <1>2 DEF NewFrame, MakeFrame, Holds
<1>5. Calls(to, "factor_lhs") /\ Calls("factor_lhs", "bottom")
  BY DEF Calls, FactorAt
<1>6. /\ MakeFrame("factor_lhs", 0, 0).at = "factor_lhs"
      /\ MakeFrame("bottom", 0, 0).at = "bottom"
  BY DEF MakeFrame
<1>7. QED
  BY <1>1, <1>3, <1>4, <1>5, <1>6 DEF MayCall, Waiting, WaitsForNode, WaitsForType

\* parse_expr_factor may call parse_expr_bottom for either operand.
LEMMA CallsBottom ==
    ASSUME NEW to \in {"factor_lhs", "factor_rhs"}, idx' \in Nat
    PROVE  MayCall(to, << MakeFrame("bottom", 0, 0) >>)
<1>1. /\ MakeFrame("bottom", 0, 0) \in Frame
      /\ MakeFrame("bottom", 0, 0).at = "bottom"
      /\ MakeFrame("bottom", 0, 0).node = 0
      /\ MakeFrame("bottom", 0, 0).tok = 0
  BY DEF MakeFrame, Frame, Label, Looking, SkipsWhitespace
<1>2. PICK new : new = MakeFrame("bottom", 0, 0)
  OBVIOUS
<1>3. MayCall(to, <<new>>)
  BY <1>1, <1>2 DEF MayCall, NewFrame, Holds, Calls, Waiting, WaitsForNode,
                    WaitsForType
<1>4. QED
  BY <1>2, <1>3

\* Any other expression is a sum.
LEMMA ExprTermKeeps ==
    ASSUME IInv, UNCHANGED <<toks, closed>>, ExprTerm
    PROVE  IInv'
<1>1. At("expr")
  BY AtToken DEF ExprTerm
<1>2. Moves /\ UNCHANGED <<nodes, freed, val>> /\ idx' \in Nat
  <2>1. Moves
    BY <1>1, QuietMoves DEF At, ExprTerm, Heap, IInv
  <2>2. UNCHANGED <<nodes, freed, val>> /\ idx' = idx
    BY DEF ExprTerm, Heap
  <2>3. idx \in Nat
    BY DEF IInv, TokensTyped
  <2>4. QED
    BY <2>1, <2>2, <2>3
<1>3. Top.node = 0
  BY <1>1, TopHolds DEF At, Holds, FnAt, BlockAt, LetAt, TypeAt, AuxAt
<1>4. MayGo("expr", "term_lhs")
  BY Within DEF TypeUnset
<1>5. PICK frame : frame = [at |-> "term_lhs", node |-> 0, tok |-> 0]
  OBVIOUS
<1>6. Pushes(frame, FactorFrames)
  BY <1>5 DEF Pushes, ExprTerm, MakeFrame
<1>7. MayCall("term_lhs", FactorFrames)
  BY <1>2, CallsFactor
<1>8. QED
  BY <1>1, <1>2, <1>3, <1>4, <1>5, <1>6, <1>7, GoesOn DEF At, WaitsForNode

\* No operand: NULL is returned.
LEMMA BottomNullKeeps ==
    ASSUME IInv, UNCHANGED <<toks, closed>>, BottomNull
    PROVE  IInv'
<1>1. At("bottom")
  BY AtToken DEF BottomNull
<1>2. Moves /\ UNCHANGED <<nodes, freed>> /\ Return(0)
  BY <1>1, ExpectMoves DEF At, BottomNull, Heap, IInv
<1>3. Top.node = 0
  BY <1>1, TopHolds DEF At, Holds, FnAt, BlockAt, LetAt, TypeAt, AuxAt
<1>4. \A at \in WaitsForNode : Calls(at, "bottom") => Given(at, "NULL")
  BY DEF Calls, Given, FnAt, BlockAt, StmtAt, LetAt, TermAt, FactorAt, TypeAt, AuxAt
<1>5. QED
  BY <1>1, <1>2, <1>3, <1>4, ReturnNullStep DEF At, WaitsForNode
-----------------------------------------------------------------------------
\* An operator whose right operand is next, or the node built so far.
LEMMA OperatorKeeps ==
    ASSUME IInv, UNCHANGED <<toks, closed>>,
           NEW op, NEW operators, NEW rhs, NEW callee,
           Operator(op, operators, rhs, callee),
           \/ op = "term_op" /\ rhs = "term_rhs" /\ callee = FactorFrames
           \/ /\ op = "factor_op" /\ rhs = "factor_rhs"
              /\ callee = << MakeFrame("bottom", 0, 0) >>
    PROVE  IInv'
<1>1. At(op)
  BY AtToken DEF Operator
<1>2. UNCHANGED <<nodes, freed>> /\ Quiet
  BY DEF Operator, Heap
<1>3. CASE Peek \in operators
  <2>1. idx' = idx + 1 /\ UNCHANGED val
    BY <1>3 DEF Operator
  <2>2. Moves
    BY <1>1, <1>2, <2>1, QuietMoves DEF At, IInv
  <2>3. idx \in Nat /\ idx' \in Nat /\ idx <= idx' /\ idx < idx'
    BY <2>1 DEF IInv, TokensTyped
  <2>4. MayGo(op, rhs)
    BY Within DEF TypeUnset
  <2>5. MayCall(rhs, callee)
    BY <2>3, CallsFactor, CallsBottom
  <2>6. PICK frame : frame = [at |-> rhs, node |-> Top.node, tok |-> idx]
    OBVIOUS
  <2>7. Pushes(frame, callee)
    BY <1>3, <2>6 DEF Pushes, Operator, MakeFrame
  <2>8. /\ rhs \notin {"fn_lparen", "ret_arrow"}
        /\ Top.at \notin {"stmt", "stmt_expr"} /\ Top.at \notin WaitsForNode
    BY <1>1 DEF At, WaitsForNode
  <2>9. QED
    BY <1>1, <1>2, <2>1, <2>2, <2>3, <2>4, <2>5, <2>6, <2>7, <2>8, GoesOn DEF At
<1>4. CASE Peek \notin operators
  <2>1. idx' = idx /\ Return(Top.node)
    BY <1>4 DEF Operator
  <2>2. Moves
    BY <1>1, <1>2, <2>1, QuietMoves DEF At, IInv
  <2>3. KindOf(Top.node) \in {"binop", "const"}
    BY <1>1, TopHolds DEF At, Holds, FnAt, BlockAt, LetAt, TypeAt, AuxAt
  <2>4. \A at \in WaitsForNode : Calls(at, op) => Given(at, KindOf(Top.node))
    BY <2>3 DEF Calls, Given, FnAt, BlockAt, StmtAt, LetAt, TermAt, FactorAt, TypeAt,
                AuxAt
  <2>5. /\ Top.at \notin {"prog", "prog_fn", "stmt", "stmt_expr"}
        /\ Top.at \notin WaitsForNode \cup AuxAt
    BY <1>1 DEF At, WaitsForNode, AuxAt
  <2>6. QED
    BY <1>1, <1>2, <2>1, <2>2, <2>4, <2>5, ReturnNodeStep DEF At
<1>5. QED
  BY <1>3, <1>4
-----------------------------------------------------------------------------
(***************************************************************************)
(* parse_type and below, where nothing is made                             *)
(***************************************************************************)

\* parse_type and parse_type_array may call parse_type_aux.
LEMMA CallsAux ==
    ASSUME NEW back \in WaitsForType
    PROVE  /\ "aux" \in Label /\ Holds("aux", "NULL") /\ "aux" \notin Waiting
           /\ Calls(back, "aux")
           /\ back \notin {"fn_lparen", "ret_arrow", "block_stmt", "factor_rhs", "term_rhs"}
BY DEF Label, Looking, SkipsWhitespace, Holds, Waiting, WaitsForNode,
       WaitsForType, Calls, AuxAt

\* parse_type calls parse_type_aux.
LEMMA TypeKeeps ==
    ASSUME IInv, UNCHANGED <<toks, closed>>, Type
    PROVE  IInv'
<1>1. At("type")
  BY AtToken DEF Type
<1>2. Moves /\ UNCHANGED <<nodes, freed, val>>
  BY <1>1, QuietMoves DEF At, Type, Heap, IInv
<1>3. MayGo("type", "type_done")
  BY Within DEF TypeAt, TypeUnset
<1>4. QED
  BY <1>1, <1>2, <1>3, CallsAux, CallStep DEF At, Type, WaitsForNode, WaitsForType

\* A function of parse_type_aux returns what is not a node.
LEMMA AuxReturns ==
    ASSUME IInv, Moves, UNCHANGED <<nodes, freed>>, NEW v \in {0, TypeRef},
           Return(v), Top.at \in AuxAt \ WaitsForType
    PROVE  IInv'
<1>1. Top.node = 0
  BY TopHolds DEF Holds, FnAt, BlockAt, LetAt, TypeAt, AuxAt
<1>2. Top.at \notin WaitsForNode \cup {"prog", "prog_fn", "stmt", "stmt_expr"}
  BY DEF AuxAt, WaitsForNode
<1>3. QED
  BY <1>1, <1>2, ReturnNullStep

\* The name of a type, known or not.
LEMMA AuxNameKeeps ==
    ASSUME IInv, UNCHANGED <<toks, closed>>, AuxName
    PROVE  IInv'
<1>1. At("aux")
  BY AtToken DEF AuxName
<1>2. Moves /\ UNCHANGED <<nodes, freed>>
  BY <1>1, QuietMoves DEF At, AuxName, Heap, IInv
<1>3. CASE Goto("ptr") /\ UNCHANGED val
  <2>1. MayGo("aux", "ptr")
    BY Within DEF AuxAt, TypeUnset
  <2>2. QED
    BY <1>1, <1>2, <1>3, <2>1, GotoStep DEF At, Waiting, WaitsForNode, WaitsForType
<1>4. CASE Return(0)
  BY <1>1, <1>2, <1>4, AuxReturns DEF At, AuxAt, WaitsForType
<1>5. QED
  BY <1>3, <1>4 DEF AuxName

\* "[" begins an array.
LEMMA AuxArrayKeeps ==
    ASSUME IInv, UNCHANGED <<toks, closed>>, AuxArray
    PROVE  IInv'
<1>1. At("aux")
  BY AtToken DEF AuxArray
<1>2. Moves /\ UNCHANGED <<nodes, freed, val>>
  BY <1>1, QuietMoves DEF At, AuxArray, Heap, IInv
<1>3. MayGo("aux", "array_elem")
  BY Within DEF AuxAt, TypeUnset
<1>4. QED
  BY <1>1, <1>2, <1>3, CallsAux, CallStep DEF At, AuxArray, WaitsForNode, WaitsForType

\* The type of an element is back.
LEMMA ArrayElemKeeps ==
    ASSUME IInv, UNCHANGED <<toks, closed>>, ArrayElem
    PROVE  IInv'
<1>1. /\ out = "running" /\ Top.at = "array_elem"
      /\ idx' \in idx .. Len(toks) + 1
  <2>1. idx \in idx .. Len(toks) + 1 /\ idx' = idx
    BY DEF ArrayElem, IInv, TokensTyped
  <2>2. QED
    BY <2>1 DEF ArrayElem, Back
<1>2. Moves /\ UNCHANGED <<nodes, freed, val>>
  BY <1>1, QuietMoves DEF ArrayElem, Heap, IInv
<1>3. MayGo("array_elem", "array_semi")
  BY Within DEF AuxAt, TypeUnset
<1>4. QED
  BY <1>1, <1>2, <1>3, GotoStep DEF ArrayElem, Waiting, WaitsForNode, WaitsForType

\* ";" before a length, or the end.
LEMMA ArraySemiKeeps ==
    ASSUME IInv, UNCHANGED <<toks, closed>>, ArraySemi
    PROVE  IInv'
<1>1. At("array_semi")
  BY AtToken DEF ArraySemi
<1>2. idx' \in {idx, idx + 1}
  BY DEF ArraySemi
<1>3. Moves /\ UNCHANGED <<nodes, freed, val>>
  BY <1>1, <1>2, QuietMoves DEF At, ArraySemi, Heap, IInv
<1>4. MayGo("array_semi", "array_len") /\ MayGo("array_semi", "array_end")
  BY Within DEF AuxAt, TypeUnset
<1>5. PICK to \in {"array_len", "array_end"} : Goto(to)
  BY DEF ArraySemi
<1>6. QED
  BY <1>1, <1>3, <1>4, <1>5, GotoStep DEF At, Waiting, WaitsForNode, WaitsForType

\* "]" ends an array.
LEMMA ArrayEndKeeps ==
    ASSUME IInv, UNCHANGED <<toks, closed>>, ArrayEnd
    PROVE  IInv'
<1>1. At("array_end")
  BY AtToken DEF ArrayEnd
<1>2. Moves /\ UNCHANGED <<nodes, freed, val>>
  BY <1>1, ExpectMoves DEF At, ArrayEnd, Heap, IInv
<1>3. MayGo("array_end", "ptr")
  BY Within DEF AuxAt, TypeUnset
<1>4. QED
  BY <1>1, <1>2, <1>3, GotoStep DEF At, ArrayEnd, Waiting, WaitsForNode, WaitsForType

\* One star more, or the end of the type.
LEMMA PtrKeeps ==
    ASSUME IInv, UNCHANGED <<toks, closed>>, Ptr
    PROVE  IInv'
<1>1. At("ptr")
  BY AtToken DEF Ptr
<1>2. idx' \in {idx, idx + 1}
  BY DEF Ptr
<1>3. Moves /\ UNCHANGED <<nodes, freed>>
  BY <1>1, <1>2, QuietMoves DEF At, Ptr, Heap, IInv
<1>4. CASE UNCHANGED <<stack, val>>
  <2>1. MayGo("ptr", "ptr")
    BY Within DEF Label, Looking, SkipsWhitespace
  <2>2. QED
    BY <1>1, <1>3, <1>4, <2>1, GotoStep DEF At, Waiting, WaitsForNode, WaitsForType
<1>5. CASE Return(TypeRef)
  BY <1>1, <1>3, <1>5, AuxReturns DEF At, AuxAt, WaitsForType
<1>6. QED
  BY <1>4, <1>5 DEF Ptr
-----------------------------------------------------------------------------
(***************************************************************************)
(* The steps that make a node, or give one to another                      *)
(***************************************************************************)

\* A node is made, of what the roots x and y have, and the function goes on
\* with it.
LEMMA MadeGoesOn ==
    ASSUME IInv, Moves, UNCHANGED <<val, freed>>,
           NEW node \in Node, NewNode(node),
           node.kind # "prog", node.tok <= Len(toks),
           Arity(node.kind, Len(node.kids)),
           \A i \in 1 .. Len(node.kids) :
              /\ node.kids[i] <= Len(nodes)
              /\ MayHold(node.kind, i, KindOf(node.kids[i])),
           NEW x \in Nat, NEW y \in Nat, x # y,
           \A d \in {x, y} : d = 0 \/ d >= Len(stack),
           Roots[0] = 0 \/ 0 \in {x, y},
           Top.node = 0 \/ Len(stack) \in {x, y},
           \A i \in Nat : (IF i \in 1 .. Len(node.kids) THEN node.kids[i] ELSE 0)
              = IF i = 1 THEN Roots[x] ELSE IF i = 2 THEN Roots[y] ELSE 0,
           NEW to \in Label, NEW token \in Nat, token <= idx',
           TopGoes(MakeFrame(to, Len(nodes'), token)),
           to \notin Waiting, Holds(to, node.kind),
           Top.at \notin {"prog", "prog_fn"}, to \notin {"prog", "prog_fn"},
           \A at \in Label : Calls(at, Top.at) => Calls(at, to),
           to = "fn_lparen" => token # 0, to # "ret_arrow",
           to \in TypeUnset => node.kids[1] = 0,
           to \in BodyUnset => node.kids[2] = 0,
           Top.at \in {"stmt", "stmt_expr"} => idx < idx'
    PROVE  IInv'
<1>1. /\ Top \in Frame /\ Fits(Top)
      /\ Len(stack) \in Nat /\ Len(stack) >= 1 /\ stack \in Seq(Frame)
  BY TopTyped DEF IInv
<1>2. PICK new : new = Len(nodes) + 1
  OBVIOUS
<1>3. /\ Len(nodes) \in Nat /\ new \in Nat /\ new # 0 /\ new \notin Live
      /\ 0 \notin Live /\ Live \subseteq 1 .. Len(nodes)
      /\ freed' \subseteq 1 .. Len(nodes) + 1
  BY <1>2, LiveNow DEF IInv, Tree
<1>4. /\ Tree' /\ Keeps
      /\ Len(nodes') = new
      /\ nodes'[new] = node
      /\ KindOf(Len(nodes))' = node.kind
      /\ Live' = ((1 .. Len(nodes) + 1) \ freed')
      /\ \A n \in Live : \A i \in Nat : Kids'[n][i] = Kids[n][i]
      /\ \A i \in Nat : Kids'[new][i] =
            IF i \in 1 .. Len(node.kids) THEN node.kids[i] ELSE 0
  BY <1>2, <1>3, TreeMade, ZenonT(30) DEF IInv, Moves
<1>5. Live' = Live \cup {new}
  BY <1>2, <1>3, <1>4 DEF Live, IInv, Tree
<1>6. PICK frame : frame = MakeFrame(to, new, token)
  OBVIOUS
<1>7. /\ frame \in Frame /\ frame.at = to /\ frame.node = new
      /\ frame.tok = token
  BY <1>3, <1>6 DEF MakeFrame, Frame
<1>8. Pushes(frame, <<>>)
  <2>1. stack' = [stack EXCEPT ![Len(stack)] = frame]
    BY <1>4, <1>6 DEF TopGoes
  <2>2. [stack EXCEPT ![Len(stack)] = frame] \in Seq(Frame)
    BY <1>1, <1>7
  <2>3. QED
    BY <2>1, <2>2, ConcatEmptySeq DEF Pushes
<1>9. MayPush(frame, <<>>)
  <2>1. /\ <<>> \in Seq(Frame) /\ Len(<<>>) = 0
        /\ TopAt(frame, <<>>) = to /\ frame.at = to
    BY <1>7 DEF TopAt
  <2>2. to # "block_stmt"
    BY DEF Waiting, WaitsForNode
  <2>3. /\ \A i \in 1 .. Len(<<>>) : FALSE
        /\ \A i \in 1 .. Len(<<>>) - 1 : FALSE
    BY <2>1
  <2>4. QED
    BY <1>7, <2>1, <2>2, <2>3 DEF MayPush
<1>10. Fits(frame)'
  <2>1. KindOf(frame.node)' = node.kind
    BY <1>3, <1>4, <1>7 DEF KindOf
  <2>2. to \notin {"factor_rhs", "term_rhs"}
    BY DEF Waiting, WaitsForNode
  <2>3. QED
    BY <1>3, <1>4, <1>7, <2>1, <2>2 DEF Fits
<1>11. val' \in 0 .. Len(nodes')
  BY <1>2, <1>3, <1>4 DEF IInv, Answer
<1>12. Owned(Live', Kids', Roots')
  <2>1. /\ Roots'[0] = 0 /\ Roots'[Len(stack)] = new
        /\ \A d \in Nat : d # 0 /\ d # Len(stack) => Roots'[d] = Roots[d]
    BY <1>1, <1>7, <1>8, <1>9, RootsPushed
  <2>2. /\ Roots[Len(stack)] = Top.node
        /\ \A d \in Nat : d > Len(stack) => Roots[d] = 0
    BY <1>1, RootsNow
  <2>3. \A i \in Nat : Kids'[new][i] =
           IF i = 1 THEN Roots[x] ELSE IF i = 2 THEN Roots[y] ELSE 0
    BY <1>4
  <2>4. ASSUME NEW d \in Nat, d # Len(stack)
        PROVE  Roots'[d] = IF d \in {x, y} THEN 0 ELSE Roots[d]
    <3>1. CASE d = 0
      BY <2>1, <3>1
    <3>2. CASE d # 0 /\ d \in {x, y}
      <4>1. d > Len(stack)
        BY <1>1, <2>4, <3>2
      <4>2. QED
        BY <2>1, <2>2, <2>4, <3>2, <4>1
    <3>3. CASE d # 0 /\ d \notin {x, y}
      BY <2>1, <2>4, <3>3
    <3>4. QED
      BY <3>1, <3>2, <3>3
  <2>5. Len(stack) \in {x, y} \/ Roots[Len(stack)] = 0
    BY <2>2
  <2>6. Owned(Live, Kids, Roots)
    BY DEF IInv, Owners, Moves
  <2>7. Makes(Live, Kids, Kids', Roots, Roots', new, x, y, Len(stack))
    BY <1>1, <1>3, <1>4, <2>1, <2>3, <2>4, <2>5 DEF Makes
  <2>8. QED
    BY <1>1, <1>3, <1>5, <2>6, <2>7, OwnedMade
<1>13. QED
  BY <1>4, <1>7, <1>8, <1>9, <1>10, <1>11, <1>12, PushedRest

\* A node without children is made and returned.
LEMMA MadeReturned ==
    ASSUME IInv, Moves, UNCHANGED freed,
           NEW node \in Node, NewNode(node), Return(Len(nodes')),
           node.kind \in {"const", "type"}, node.kids = <<>>,
           node.tok <= Len(toks),
           Top.node = 0, Top.at \notin WaitsForNode \cup AuxAt,
           Top.at \notin {"prog", "prog_fn", "stmt", "stmt_expr"},
           \A at \in WaitsForNode : Calls(at, Top.at) => Given(at, node.kind)
    PROVE  IInv'
<1>1. Len(stack) \in Nat /\ Len(stack) >= 1 /\ stack \in Seq(Frame)
  BY TopTyped DEF IInv
<1>2. PICK new : new = Len(nodes) + 1
  OBVIOUS
<1>3. /\ Len(nodes) \in Nat /\ new \in Nat /\ new # 0 /\ new \notin Live
      /\ 0 \notin Live /\ Live \subseteq 1 .. Len(nodes)
      /\ freed' \subseteq 1 .. Len(nodes) + 1
  BY <1>2, LiveNow DEF IInv, Tree
<1>4. /\ Tree' /\ Keeps
      /\ Len(nodes') = new
      /\ nodes'[new] = node
      /\ Live' = ((1 .. Len(nodes) + 1) \ freed')
      /\ \A n \in Live : \A i \in Nat : Kids'[n][i] = Kids[n][i]
      /\ \A i \in Nat : Kids'[new][i] =
            IF i \in 1 .. Len(node.kids) THEN node.kids[i] ELSE 0
  <2>1. Len(node.kids) = 0 /\ Arity(node.kind, Len(node.kids)) /\ node.kind # "prog"
    BY DEF Arity
  <2>2. QED
    BY <1>2, <1>3, <2>1, TreeMade, SMTT(30) DEF IInv, Moves
<1>5. Live' = Live \cup {new}
  BY <1>2, <1>3, <1>4 DEF Live, IInv, Tree
<1>6. Pops /\ val' = new
  BY <1>4 DEF Return, Pops
<1>7. KindOf(val)' = node.kind /\ val' \in 0 .. Len(nodes')
  BY <1>3, <1>4, <1>6 DEF KindOf
<1>8. Owned(Live', Kids', Roots')
  <2>1. /\ Roots'[0] = new /\ Roots'[Len(stack)] = 0
        /\ \A d \in Nat : d # 0 /\ d # Len(stack) => Roots'[d] = Roots[d]
    BY <1>6, RootsPopped DEF IInv
  <2>2. /\ Roots[0] = 0 /\ Roots[Len(stack)] = 0
        /\ \A d \in Nat : d > Len(stack) => Roots[d] = 0
    BY <1>1, RootsNow DEF HeldValue
  <2>3. \A i \in Nat : Kids'[new][i] = 0
    BY <1>4
  <2>4. PICK x \in Nat, y \in Nat : x = Len(stack) + 1 /\ y = Len(stack) + 2
    BY <1>1
  <2>5. Roots[x] = 0 /\ Roots[y] = 0 /\ x # y /\ Roots'[x] = 0 /\ Roots'[y] = 0
    BY <1>1, <2>1, <2>2, <2>4
  <2>6. \A d \in Nat : d # 0 => Roots'[d] = IF d \in {x, y} THEN 0 ELSE Roots[d]
    BY <2>1, <2>2, <2>5
  <2>7. Owned(Live, Kids, Roots)
    BY DEF IInv, Owners, Moves
  <2>8. Makes(Live, Kids, Kids', Roots, Roots', new, x, y, 0)
    BY <1>3, <1>4, <2>1, <2>2, <2>3, <2>5, <2>6 DEF Makes
  <2>9. QED
    BY <1>3, <1>5, <2>7, <2>8, OwnedMade
<1>9. QED
  BY <1>4, <1>6, <1>7, <1>8, PoppedRest DEF IInv
-----------------------------------------------------------------------------
\* What the running function was given becomes the child j of its node, which
\* has no child there yet.
Adopts(j) ==
    \/ /\ AddKid(Top.node, val)
       /\ KindOf(Top.node) \in {"prog", "block"}
       /\ j = Len(nodes[Top.node].kids) + 1
    \/ /\ SetKid(Top.node, j, val)
       /\ KindOf(Top.node) \in {"fn", "let"}
       /\ j \in {1, 2}
       /\ nodes[Top.node].kids[j] = 0

\* Tree and owners when the value becomes a child of the running function's
\* node.
LEMMA Adopted ==
    ASSUME IInv, Moves, UNCHANGED freed, Top.at \in WaitsForNode, val # 0,
           NEW j, Adopts(j), MayHold(KindOf(Top.node), j, KindOf(val))
    PROVE  /\ Tree' /\ Keeps
           /\ Len(nodes') = Len(nodes)
           /\ \A n \in 0 .. Len(nodes) : KindOf(n)' = KindOf(n)
           /\ Top.node \in Live
           /\ \A i \in 1 .. Len(nodes[Top.node].kids) :
                 i # j => nodes'[Top.node].kids[i] = nodes[Top.node].kids[i]
           /\ \A roots : /\ roots[0] = 0
                         /\ \A d \in Nat : d # 0 => roots[d] = Roots[d]
                         => Owned(Live', Kids', roots)
<1>1. /\ Len(stack) \in Nat /\ Len(stack) >= 1 /\ stack \in Seq(Frame)
      /\ Top.node \in 0 .. Len(nodes)
  BY TopTyped DEF IInv
<1>2. PICK n : n = Top.node
  OBVIOUS
<1>3. n \in 1 .. Len(nodes) /\ KindOf(n) = nodes[n].kind
  BY <1>1, <1>2 DEF Adopts, KindOf
<1>4. /\ Roots[0] = val /\ Roots[Len(stack)] = n
      /\ Owned(Live, Kids, Roots) /\ 0 \notin Live
  BY <1>1, <1>2, RootsNow, LiveNow DEF HeldValue, IInv, Owners, Moves
<1>5. n \in Live
  BY <1>1, <1>3, <1>4 DEF Owned, RootsOwn
<1>6. nodes[n].kids \in Seq(Nat) /\ Len(nodes[n].kids) \in Nat /\ val \in 1 .. Len(nodes)
  <2>1. nodes[n] \in Node
    BY <1>3 DEF IInv, Tree
  <2>2. nodes[n].kids \in Seq(Nat)
    BY <2>1 DEF Node
  <2>3. val \in 1 .. Len(nodes)
    BY DEF IInv, Answer
  <2>4. QED
    BY <2>2, <2>3
<1>7. /\ Arity(nodes[n].kind, Len(nodes[n].kids))
      /\ \A i \in 1 .. Len(nodes[n].kids) :
            /\ nodes[n].kids[i] <= Len(nodes)
            /\ MayHold(nodes[n].kind, i, KindOf(nodes[n].kids[i]))
  BY <1>3, SMTT(30) DEF IInv, Tree
<1>8. PICK kids \in Seq(Nat) :
         /\ nodes' = [nodes EXCEPT ![n] = [@ EXCEPT !.kids = kids]]
         /\ Arity(nodes[n].kind, Len(kids))
         /\ j \in 1 .. Len(kids) /\ kids[j] = val
         /\ Len(nodes[n].kids) <= Len(kids)
         /\ \A i \in 1 .. Len(kids) : i # j =>
               i \in 1 .. Len(nodes[n].kids) /\ kids[i] = nodes[n].kids[i]
         /\ j \in 1 .. Len(nodes[n].kids) => nodes[n].kids[j] = 0
  <2>1. CASE /\ AddKid(n, val) /\ nodes[n].kind \in {"prog", "block"}
             /\ j = Len(nodes[n].kids) + 1
    <3>1. PICK kids : kids = Append(nodes[n].kids, val)
      OBVIOUS
    <3>2. /\ kids \in Seq(Nat) /\ Len(kids) = Len(nodes[n].kids) + 1
          /\ kids[j] = val
          /\ \A i \in 1 .. Len(nodes[n].kids) : kids[i] = nodes[n].kids[i]
      BY <1>6, <2>1, <3>1
    <3>3. Arity(nodes[n].kind, Len(kids))
      <4>1. Len(kids) \in Nat /\ Len(kids) >= 0
        BY <1>6, <3>2
      <4>2. Arity("prog", Len(kids)) /\ Arity("block", Len(kids))
        BY <4>1 DEF Arity
      <4>3. QED
        BY <2>1, <4>2
    <3>4. nodes' = [nodes EXCEPT ![n] = [@ EXCEPT !.kids = kids]]
      BY <2>1, <3>1 DEF AddKid
    <3>5. /\ j \in 1 .. Len(kids) /\ Len(nodes[n].kids) <= Len(kids)
          /\ j \notin 1 .. Len(nodes[n].kids)
          /\ \A i \in 1 .. Len(kids) : i # j => i \in 1 .. Len(nodes[n].kids)
      <4>1. PICK l \in Nat : l = Len(nodes[n].kids)
        BY <1>6
      <4>2. Len(kids) = l + 1 /\ j = l + 1
        BY <2>1, <3>2, <4>1
      <4>3. QED
        BY <4>1, <4>2
    <3>6. QED
      BY <3>2, <3>3, <3>4, <3>5
  <2>2. CASE /\ SetKid(n, j, val) /\ nodes[n].kind \in {"fn", "let"}
             /\ j \in {1, 2} /\ nodes[n].kids[j] = 0
    <3>1. PICK kids : kids = [nodes[n].kids EXCEPT ![j] = val]
      OBVIOUS
    <3>2. Len(nodes[n].kids) = 2
      BY <1>7, <2>2 DEF Arity
    <3>3. /\ kids \in Seq(Nat) /\ Len(kids) = 2
          /\ kids[j] = val
          /\ \A i \in 1 .. 2 : i # j => kids[i] = nodes[n].kids[i]
      BY <1>6, <2>2, <3>1, <3>2
    <3>4. Arity(nodes[n].kind, Len(kids))
      BY <1>7, <3>2, <3>3
    <3>5. nodes' = [nodes EXCEPT ![n] = [@ EXCEPT !.kids = kids]]
      BY <2>2, <3>1 DEF SetKid
    <3>6. /\ j \in 1 .. Len(kids) /\ Len(nodes[n].kids) <= Len(kids)
          /\ \A i \in 1 .. Len(kids) : i # j =>
                i \in 1 .. Len(nodes[n].kids) /\ kids[i] = nodes[n].kids[i]
      BY <2>2, <3>2, <3>3
    <3>7. QED
      BY <2>2, <3>3, <3>4, <3>5, <3>6
  <2>3. QED
    BY <1>2, <1>3, <2>1, <2>2 DEF Adopts
<1>9. \A i \in 1 .. Len(kids) :
         kids[i] <= Len(nodes) /\ MayHold(nodes[n].kind, i, KindOf(kids[i]))
  <2> TAKE i \in 1 .. Len(kids)
  <2>1. CASE i = j
    <3>1. kids[i] = val /\ val <= Len(nodes)
      BY <1>6, <1>8, <2>1
    <3>2. QED
      BY <1>2, <1>3, <2>1, <3>1
  <2>2. CASE i # j
    BY <1>7, <1>8, <2>2
  <2>3. QED
    BY <2>1, <2>2
<1>10. /\ Tree'
       /\ Len(nodes') = Len(nodes)
       /\ \A m \in 1 .. Len(nodes) : nodes'[m].kind = nodes[m].kind
       /\ \A m \in 1 .. Len(nodes) : m # n => nodes'[m] = nodes[m]
       /\ nodes'[n].kids = kids
       /\ Live' = Live
       /\ \A m \in Live : \A i \in Nat : m # n => Kids'[m][i] = Kids[m][i]
       /\ \A i \in Nat : Kids'[n][i] = IF i \in 1 .. Len(kids) THEN kids[i] ELSE 0
  <2>1. nodes[n].kind # "binop"
    BY <1>2, <1>3 DEF Adopts
  <2>2. QED
    BY <1>3, <1>8, <1>9, <2>1, TreeAttached DEF IInv, Moves
<1>11. Keeps
  <2>1. \A d \in 1 .. Len(stack) - 1 : stack[d].node # 0 =>
           stack[d].node \in 1 .. Len(nodes) /\ stack[d].node # n
    <3> SUFFICES ASSUME NEW d \in 1 .. Len(stack) - 1, stack[d].node # 0
                 PROVE  stack[d].node \in 1 .. Len(nodes) /\ stack[d].node # n
      OBVIOUS
    <3>1. d \in 1 .. Len(stack) /\ d # Len(stack)
      BY <1>1
    <3>2. stack[d].node \in 1 .. Len(nodes)
      <4>1. stack[d] \in Frame /\ Fits(stack[d])
        BY <3>1 DEF IInv, Frames
      <4>2. stack[d].node \in Nat /\ stack[d].node <= Len(nodes) /\ Len(nodes) \in Nat
        BY <4>1 DEF Fits, Frame, IInv, Tree
      <4>3. QED
        BY <4>2
    <3>3. Roots[d] = stack[d].node
      BY <1>1, <3>1, RootsNow
    <3>4. stack[d].node # n
      BY <1>1, <1>3, <1>4, <3>1, <3>3 DEF Owned, RootsOwn
    <3>5. QED
      BY <3>2, <3>4
  <2>2. Len(nodes) \in Nat
    BY DEF IInv, Tree
  <2>3. QED
    BY <1>10, <2>1, <2>2 DEF Keeps
<1>12. \A m \in 0 .. Len(nodes) : KindOf(m)' = KindOf(m)
  BY <1>3, <1>10 DEF KindOf
<1>13. ASSUME NEW roots, roots[0] = 0, \A d \in Nat : d # 0 => roots[d] = Roots[d]
       PROVE  Owned(Live', Kids', roots)
  <2>1. /\ Kids[n][j] = 0
        /\ \A i \in Nat : i # j => Kids[n][i] = Kids'[n][i]
    <3>1. \A i \in Nat : Kids[n][i] =
             IF i \in 1 .. Len(nodes[n].kids) THEN nodes[n].kids[i] ELSE 0
      BY <1>3 DEF Kids
    <3>2. j \in Nat
      BY <1>8
    <3>3. Len(nodes[n].kids) \in Nat /\ Len(kids) \in Nat
      BY <1>6, <1>8
    <3>4. Kids[n][j] = 0
      BY <1>8, <3>1, <3>2
    <3>5. ASSUME NEW i \in Nat, i # j
          PROVE  Kids[n][i] = Kids'[n][i]
      BY <1>8, <1>10, <3>1, <3>3, <3>5, SMTT(30)
    <3>6. QED
      BY <3>4, <3>5
  <2>2. Kids'[n][j] = Roots[0] /\ j \in Nat
    BY <1>4, <1>8, <1>10
  <2>3. Attaches(Live, Kids, Kids', Roots, roots, 0, n, j)
    BY <1>5, <1>10, <1>13, <2>1, <2>2 DEF Attaches
  <2>4. QED
    BY <1>4, <1>10, <2>2, <2>3, OwnedAttached
<1>14. \A i \in 1 .. Len(nodes[n].kids) : i # j => nodes'[n].kids[i] = nodes[n].kids[i]
  BY <1>6, <1>8, <1>10
<1>15. QED
  BY <1>2, <1>5, <1>10, <1>11, <1>12, <1>13, <1>14

\* The function goes on after it.
LEMMA AdoptsGoesOn ==
    ASSUME IInv, Moves, UNCHANGED <<val, freed>>, Top.at \in WaitsForNode, val # 0,
           NEW j, Adopts(j), MayHold(KindOf(Top.node), j, KindOf(val)),
           NEW to, Goto(to), MayGo(Top.at, to),
           to \notin Waiting \cup {"fn_lparen", "ret_arrow"} \cup TypeUnset,
           to \in BodyUnset => j = 1
    PROVE  IInv'
<1>1. /\ Tree' /\ Keeps
      /\ Len(nodes') = Len(nodes)
      /\ \A n \in 0 .. Len(nodes) : KindOf(n)' = KindOf(n)
      /\ Top.node \in Live
      /\ \A i \in 1 .. Len(nodes[Top.node].kids) :
            i # j => nodes'[Top.node].kids[i] = nodes[Top.node].kids[i]
      /\ \A roots : /\ roots[0] = 0
                    /\ \A d \in Nat : d # 0 => roots[d] = Roots[d]
                    => Owned(Live', Kids', roots)
  BY Adopted
<1>2. /\ Top \in Frame /\ Fits(Top) /\ Top.node \in 0 .. Len(nodes)
      /\ Len(stack) \in Nat /\ Len(stack) >= 1 /\ stack \in Seq(Frame)
  BY TopTyped DEF IInv
<1>3. PICK frame : frame = [Top EXCEPT !.at = to]
  OBVIOUS
<1>4. /\ frame \in Frame /\ frame.at = to /\ frame.node = Top.node
      /\ frame.tok = Top.tok
  BY <1>2, <1>3 DEF Frame, MayGo
<1>5. Pushes(frame, <<>>)
  <2>1. stack' = [stack EXCEPT ![Len(stack)] = frame]
    BY <1>3 DEF Goto, TopGoes
  <2>2. [stack EXCEPT ![Len(stack)] = frame] \in Seq(Frame)
    BY <1>2, <1>4
  <2>3. QED
    BY <2>1, <2>2, ConcatEmptySeq DEF Pushes
<1>6. MayPush(frame, <<>>)
  <2>1. MayCall(to, <<>>)
    BY CallsNothing DEF Waiting, WaitsForNode
  <2>2. Top.at \notin {"stmt", "stmt_expr"} \/ Top.at = "stmt_expr"
    BY DEF WaitsForNode
  <2>3. Top.at # "stmt_expr"
    BY <1>2 DEF Adopts, Fits, Holds, FnAt, BlockAt, LetAt, TypeAt, AuxAt
  <2>4. QED
    BY <1>4, <2>1, <2>2, <2>3 DEF MayPush, MayGo, MayCall, TopAt
<1>7. Fits(frame)'
  <2>1. KindOf(frame.node)' = KindOf(Top.node)
    BY <1>1, <1>2, <1>4
  <2>2. Holds(to, KindOf(Top.node))
    BY <1>2 DEF Fits, MayGo
  <2>3. to \in BodyUnset => nodes'[Top.node].kids[2] = 0
    <3> HAVE to \in BodyUnset
    <3>1. nodes[Top.node].kids[2] = 0 /\ j = 1
      BY <1>2 DEF Fits, MayGo
    <3>2. Top.node \in 1 .. Len(nodes) /\ KindOf(Top.node) \in {"fn", "let"}
      <4>1. KindOf(Top.node) \in {"fn", "let"}
        BY <2>2 DEF Holds, BodyUnset, FnAt, LetAt, BlockAt, TypeAt, AuxAt
      <4>2. Top.node # 0
        BY <4>1 DEF KindOf
      <4>3. QED
        BY <1>2, <4>1, <4>2 DEF IInv, Tree
    <3>3. Len(nodes[Top.node].kids) = 2
      BY <3>2 DEF IInv, Tree, Arity, KindOf
    <3>4. QED
      BY <1>1, <3>1, <3>3
  <2>4. Top.tok <= idx'
    BY <1>2 DEF Fits, Frame, Moves, IInv, TokensTyped
  <2>5. to \notin {"factor_rhs", "term_rhs"}
    BY DEF Waiting, WaitsForNode
  <2>6. QED
    BY <1>1, <1>2, <1>4, <2>1, <2>2, <2>3, <2>4, <2>5 DEF Fits
<1>8. frame.at \in {"prog", "prog_fn"} => frame.node = 1
  BY <1>4, ProgAlone DEF IInv, MayGo
<1>9. val' \in 0 .. Len(nodes')
  BY <1>1 DEF IInv, Answer
<1>10. Owned(Live', Kids', Roots')
  <2>1. /\ Roots'[0] = 0 /\ Roots'[Len(stack)] = Top.node
        /\ \A d \in Nat : d # 0 /\ d # Len(stack) => Roots'[d] = Roots[d]
    BY <1>2, <1>4, <1>5, <1>6, RootsPushed
  <2>2. Roots[Len(stack)] = Top.node
    BY <1>2, RootsNow
  <2>3. \A d \in Nat : d # 0 => Roots'[d] = Roots[d]
    BY <2>1, <2>2
  <2>4. QED
    BY <1>1, <2>1, <2>3
<1>11. QED
  BY <1>1, <1>5, <1>6, <1>7, <1>8, <1>9, <1>10, PushedRest

\* The function returns its node after it.
LEMMA AdoptsReturns ==
    ASSUME IInv, Moves, UNCHANGED freed, Top.at \in WaitsForNode, val # 0,
           NEW j, Adopts(j), MayHold(KindOf(Top.node), j, KindOf(val)),
           Return(Top.node),
           Top.at \notin {"prog", "prog_fn"},
           \A at \in WaitsForNode : Calls(at, Top.at) => Given(at, KindOf(Top.node))
    PROVE  IInv'
<1>1. /\ Tree' /\ Keeps
      /\ Len(nodes') = Len(nodes)
      /\ \A n \in 0 .. Len(nodes) : KindOf(n)' = KindOf(n)
      /\ \A roots : /\ roots[0] = 0
                    /\ \A d \in Nat : d # 0 => roots[d] = Roots[d]
                    => Owned(Live', Kids', roots)
  BY Adopted
<1>2. /\ Fits(Top) /\ Top.node \in 0 .. Len(nodes)
      /\ Len(stack) \in Nat /\ Len(stack) >= 1 /\ stack \in Seq(Frame)
  BY TopTyped DEF IInv
<1>3. Pops /\ val' = Top.node
  BY DEF Return, Pops
<1>4. KindOf(val)' = KindOf(Top.node) /\ val' \in 0 .. Len(nodes')
  BY <1>1, <1>2, <1>3
<1>5. Top.at \notin {"stmt", "stmt_expr"}
  BY <1>2 DEF Adopts, Fits, Holds, FnAt, BlockAt, LetAt, TypeAt, AuxAt
<1>6. Owned(Live', Kids', Roots')
  <2>1. /\ Roots'[0] = Top.node /\ Roots'[Len(stack)] = 0
        /\ \A d \in Nat : d # 0 /\ d # Len(stack) => Roots'[d] = Roots[d]
    BY <1>3, RootsPopped DEF IInv, WaitsForNode, AuxAt
  <2>2. Roots[Len(stack)] = Top.node
    BY <1>2, RootsNow
  <2>3. PICK roots : roots = [d \in Nat |-> IF d = 0 THEN 0 ELSE Roots[d]]
    OBVIOUS
  <2>4. roots[0] = 0 /\ \A d \in Nat : d # 0 => roots[d] = Roots[d]
    BY <2>3
  <2>5. Owned(Live', Kids', roots)
    BY <1>1, <2>4
  <2>6. 0 \notin Live'
    BY <1>1 DEF Live, Tree
  <2>7. /\ roots[Len(stack)] = Top.node /\ Len(stack) # 0
        /\ \A d \in Nat : d # Len(stack) /\ d # 0 => Roots'[d] = roots[d]
    BY <1>2, <2>1, <2>2, <2>4
  <2>8. QED
    BY <1>2, <2>1, <2>4, <2>5, <2>6, <2>7, OwnedMoved
<1>7. QED
  BY <1>1, <1>3, <1>4, <1>5, <1>6, PoppedRest
-----------------------------------------------------------------------------
(***************************************************************************)
(* The steps that give a node to another one                               *)
(***************************************************************************)

\* What a function that waited for a node goes on with.
LEMMA Answered ==
    ASSUME IInv, NEW label \in WaitsForNode, Back(label)
    PROVE  /\ out = "running" /\ Top.at = label
           /\ Given(label, KindOf(val))
           /\ val \in 0 .. Len(nodes)
           /\ KindOf(val) = "NULL" <=> val = 0
           /\ idx \in idx .. Len(toks) + 1
<1>1. out = "running" /\ Top.at = label /\ Given(label, KindOf(val))
      /\ val \in 0 .. Len(nodes)
  BY DEF Back, IInv, Answer
<1>2. val # 0 => nodes[val] \in Node
  BY <1>1 DEF IInv, Tree
<1>3. KindOf(val) = "NULL" <=> val = 0
  BY <1>2 DEF KindOf, Node, AstKind
<1>4. idx \in idx .. Len(toks) + 1
  BY DEF IInv, TokensTyped
<1>5. QED
  BY <1>1, <1>3, <1>4

\* parse_prog adds the function to the program.
LEMMA ProgFnDoneKeeps ==
    ASSUME IInv, UNCHANGED <<toks, closed>>, ProgFnDone
    PROVE  IInv'
<1>1. /\ out = "running" /\ Top.at = "prog_fn" /\ Given("prog_fn", KindOf(val))
      /\ (KindOf(val) = "NULL" <=> val = 0) /\ idx \in idx .. Len(toks) + 1
  BY Answered DEF ProgFnDone, WaitsForNode
<1>2. Moves
  BY <1>1, QuietMoves DEF ProgFnDone, IInv
<1>3. UNCHANGED <<val, freed>> /\ Goto("prog")
  BY DEF ProgFnDone
<1>4. MayGo("prog_fn", "prog")
  BY Within DEF TypeUnset
<1>5. "prog" \notin Waiting \cup {"fn_lparen", "ret_arrow"} \cup TypeUnset \cup BodyUnset
  BY DEF Waiting, WaitsForNode, WaitsForType, TypeUnset, BodyUnset, LetAt, FnAt
<1>6. CASE val = 0
  BY <1>1, <1>2, <1>3, <1>4, <1>5, <1>6, GotoStep DEF ProgFnDone
<1>7. CASE val # 0
  <2>1. KindOf(Top.node) = "prog" /\ KindOf(val) = "fn"
    BY <1>1, <1>7, TopHolds
       DEF Holds, FnAt, BlockAt, LetAt, TypeAt, AuxAt, Given, ExprCaller, TypeCaller
  <2>2. PICK j : j = Len(nodes[Top.node].kids) + 1
    OBVIOUS
  <2>3. Adopts(j)
    BY <1>7, <2>1, <2>2 DEF ProgFnDone, Adopts
  <2>4. MayHold(KindOf(Top.node), j, KindOf(val))
    BY <2>1 DEF MayHold
  <2>5. Top.at \in WaitsForNode
    BY <1>1 DEF WaitsForNode
  <2>6. QED
    BY <1>1, <1>2, <1>3, <1>4, <1>5, <1>7, <2>3, <2>4, <2>5, AdoptsGoesOn
<1>8. QED
  BY <1>6, <1>7

\* parse_block adds the statement, and panics if there is none.
LEMMA BlockStmtDoneKeeps ==
    ASSUME IInv, UNCHANGED <<toks, closed>>, BlockStmtDone
    PROVE  IInv'
<1>1. /\ out = "running" /\ Top.at = "block_stmt" /\ Given("block_stmt", KindOf(val))
      /\ (KindOf(val) = "NULL" <=> val = 0) /\ idx \in idx .. Len(toks) + 1
  BY Answered DEF BlockStmtDone, WaitsForNode
<1>2. CASE Panic
  BY <1>1, <1>2, PanicStep
<1>3. CASE ~ Panic
  <2>1. /\ AddKid(Top.node, val) /\ Goto("block_loop") /\ Quiet
        /\ UNCHANGED <<idx, val, freed>>
    BY <1>3 DEF BlockStmtDone
  <2>2. Moves
    BY <1>1, <2>1, QuietMoves DEF IInv
  <2>3. MayGo("block_stmt", "block_loop")
    BY Within DEF BlockAt, TypeUnset
  <2>4. "block_loop" \notin Waiting \cup {"fn_lparen", "ret_arrow"} \cup TypeUnset
                                 \cup BodyUnset
    BY DEF Waiting, WaitsForNode, WaitsForType, TypeUnset, BodyUnset, LetAt, FnAt
  <2>5. KindOf(Top.node) = "block" /\ KindOf(val) \in {"let", "ret"}
    BY <1>1, TopHolds
       DEF Holds, FnAt, BlockAt, LetAt, TypeAt, AuxAt, Given, ExprCaller, TypeCaller
  <2>6. PICK j : j = Len(nodes[Top.node].kids) + 1
    OBVIOUS
  <2>7. Adopts(j)
    BY <2>1, <2>5, <2>6 DEF Adopts
  <2>8. MayHold(KindOf(Top.node), j, KindOf(val)) /\ val # 0
    BY <1>1, <2>5 DEF MayHold
  <2>9. Top.at \in WaitsForNode
    BY <1>1 DEF WaitsForNode
  <2>10. QED
    BY <1>1, <2>1, <2>2, <2>3, <2>4, <2>7, <2>8, <2>9, AdoptsGoesOn
<1>4. QED
  BY <1>2, <1>3

\* The type of a function or a let-statement.
LEMMA TypeAdopted ==
    ASSUME IInv, UNCHANGED <<toks, closed>>,
           NEW from, NEW to, NEW kind,
           \/ from = "fn_ret_type" /\ to = "fn_body" /\ kind = "fn"
           \/ from = "let_type" /\ to = "let_semi" /\ kind = "let",
           Back(from), SetKid(Top.node, 1, val), Goto(to),
           Quiet, UNCHANGED <<idx, val, freed>>
    PROVE  IInv'
<1>1. from \in WaitsForNode
  BY DEF WaitsForNode
<1>2. /\ out = "running" /\ Top.at = from /\ Given(from, KindOf(val))
      /\ (KindOf(val) = "NULL" <=> val = 0) /\ idx \in idx .. Len(toks) + 1
  BY <1>1, Answered
<1>3. Moves
  BY <1>2, QuietMoves DEF IInv
<1>4. MayGo(from, to)
  BY Within DEF FnAt, LetAt, TypeUnset
<1>5. to \notin Waiting \cup {"fn_lparen", "ret_arrow"} \cup TypeUnset
  BY DEF Waiting, WaitsForNode, WaitsForType, TypeUnset
<1>6. KindOf(Top.node) = kind /\ KindOf(val) = "type"
  BY <1>2, TopHolds
     DEF Holds, FnAt, BlockAt, LetAt, TypeAt, AuxAt, Given, ExprCaller, TypeCaller
<1>7. nodes[Top.node].kids[1] = 0
  <2>1. Fits(Top) /\ Top.at \in TypeUnset
    BY <1>2, TopTyped DEF IInv, TypeUnset
  <2>2. QED
    BY <2>1 DEF Fits
<1>8. Adopts(1) /\ MayHold(KindOf(Top.node), 1, KindOf(val)) /\ val # 0
  BY <1>2, <1>6, <1>7 DEF Adopts, MayHold
<1>9. QED
  BY <1>1, <1>2, <1>3, <1>4, <1>5, <1>8, AdoptsGoesOn

\* parse_fn sets the type it returns.
LEMMA FnRetTypeKeeps ==
    ASSUME IInv, UNCHANGED <<toks, closed>>, FnRetType
    PROVE  IInv'
BY TypeAdopted DEF FnRetType

\* The type of a let-statement is set.
LEMMA LetTypeKeeps ==
    ASSUME IInv, UNCHANGED <<toks, closed>>, LetType
    PROVE  IInv'
BY TypeAdopted DEF LetType

\* The body of a function or the value of a let-statement, which ends it.
LEMMA BodyAdopted ==
    ASSUME IInv, UNCHANGED <<toks, closed>>,
           NEW from, NEW kind,
           \/ from = "fn_end" /\ kind = "fn" /\ KindOf(val) = "block"
           \/ from = "let_expr" /\ kind = "let" /\ KindOf(val) \in {"binop", "const"},
           Back(from), SetKid(Top.node, 2, val), Return(Top.node),
           Quiet, UNCHANGED <<idx, freed>>
    PROVE  IInv'
<1>1. from \in WaitsForNode /\ from \notin {"prog", "prog_fn"}
  BY DEF WaitsForNode
<1>2. /\ out = "running" /\ Top.at = from
      /\ (KindOf(val) = "NULL" <=> val = 0) /\ idx \in idx .. Len(toks) + 1
  BY <1>1, Answered
<1>3. Moves
  BY <1>2, QuietMoves DEF IInv
<1>4. KindOf(Top.node) = kind
  BY <1>2, TopHolds DEF Holds, FnAt, BlockAt, LetAt, TypeAt, AuxAt
<1>5. nodes[Top.node].kids[2] = 0
  <2>1. Fits(Top) /\ Top.at \in BodyUnset
    BY <1>2, TopTyped DEF IInv, BodyUnset, FnAt, LetAt
  <2>2. QED
    BY <2>1 DEF Fits
<1>6. Adopts(2) /\ MayHold(KindOf(Top.node), 2, KindOf(val)) /\ val # 0
  BY <1>2, <1>4, <1>5 DEF Adopts, MayHold
<1>7. \A at \in WaitsForNode : Calls(at, from) => Given(at, kind)
  BY DEF Calls, Given, FnAt, BlockAt, StmtAt, LetAt, TermAt, FactorAt, TypeAt, AuxAt
<1>8. QED
  BY <1>1, <1>2, <1>3, <1>4, <1>6, <1>7, AdoptsReturns

\* The body of a function is set.
LEMMA FnEndKeeps ==
    ASSUME IInv, UNCHANGED <<toks, closed>>, FnEnd
    PROVE  IInv'
<1>1. KindOf(val) = "block"
  BY Answered DEF FnEnd, WaitsForNode, Given, ExprCaller, TypeCaller
<1>2. QED
  BY <1>1, BodyAdopted DEF FnEnd

\* The value of a let-statement is set.
LEMMA LetExprKeeps ==
    ASSUME IInv, UNCHANGED <<toks, closed>>, LetExpr
    PROVE  IInv'
<1>1. CASE AstIsExpr(val)
  BY <1>1, BodyAdopted DEF LetExpr, AstIsExpr
<1>2. CASE ~ AstIsExpr(val)
  BY <1>2, PanicStep DEF LetExpr, Back
<1>3. QED
  BY <1>1, <1>2
-----------------------------------------------------------------------------
(***************************************************************************)
(* The steps that make a node                                              *)
(***************************************************************************)

\* A function, a block and a let-statement are made without children.
LEMMA MadeEmpty ==
    ASSUME IInv, UNCHANGED <<toks, closed, val, freed>>,
           NEW from, NEW to, NEW kind, NEW kids, NEW token,
           \/ /\ from = "fn_name" /\ to = "fn_lparen" /\ kind = "fn"
              /\ kids = <<0, 0>> /\ token = idx + 1
           \/ /\ from = "block" /\ to = "block_loop" /\ kind = "block"
              /\ kids = <<>> /\ token = 0
           \/ /\ from = "stmt" /\ to = "let_name" /\ kind = "let"
              /\ kids = <<0, 0>> /\ token = 0,
           On(from), Moves, idx' = idx + 1,
           NewNode(MakeAst(kind, idx, kids)),
           TopGoes(MakeFrame(to, Len(nodes'), token))
    PROVE  IInv'
<1>1. At(from)
  BY AtToken
<1>2. PICK node : node = MakeAst(kind, idx, kids)
  OBVIOUS
<1>3. /\ node.kind = kind /\ node.tok = idx /\ node.kids = kids /\ kids \in Seq(Nat)
      /\ \A i \in 1 .. Len(kids) : kids[i] = 0 /\ i \in {1, 2}
      /\ Len(kids) \in {0, 2}
  <2>1. node.kind = kind /\ node.tok = idx /\ node.kids = kids
    BY <1>2 DEF MakeAst
  <2>2. CASE kids = <<>>
    BY <2>1, <2>2
  <2>3. CASE kids = <<0, 0>>
    <3>1. kids \in Seq(Nat) /\ Len(kids) = 2 /\ kids[1] = 0 /\ kids[2] = 0
      BY <2>3
    <3>2. QED
      BY <2>1, <3>1
  <2>4. QED
    BY <2>2, <2>3
<1>4. node \in Node
  <2>1. node = [kind |-> kind, tok |-> idx, kids |-> kids]
    BY <1>2 DEF MakeAst
  <2>2. idx \in Nat /\ kind \in AstKind
    BY <1>1 DEF At, AstKind
  <2>3. QED
    BY <1>3, <2>1, <2>2 DEF Node
<1>5. Arity(kind, Len(kids))
  <2>1. CASE kind \in {"fn", "let"} /\ Len(kids) = 2
    BY <2>1 DEF Arity
  <2>2. CASE kind = "block" /\ Len(kids) = 0
    BY <2>2 DEF Arity
  <2>3. QED
    BY <2>1, <2>2
<1>6. \A i \in 1 .. Len(kids) :
         kids[i] <= Len(nodes) /\ MayHold(kind, i, KindOf(kids[i]))
  <2>1. \A i \in {1, 2} : kind \in {"fn", "let"} => MayHold(kind, i, "NULL")
    BY DEF MayHold
  <2>2. kind = "block" => Len(kids) = 0
    OBVIOUS
  <2>3. KindOf(0) = "NULL" /\ 0 <= Len(nodes)
    BY DEF KindOf, IInv, Tree
  <2>4. QED
    BY <1>3, <2>1, <2>2, <2>3
<1>7. /\ Len(stack) \in Nat /\ Len(stack) >= 1 /\ stack \in Seq(Frame)
  BY TopTyped DEF IInv
<1>8. PICK x \in Nat, y \in Nat : x = Len(stack) + 1 /\ y = Len(stack) + 2
  BY <1>7
<1>9. Top.node = 0
  BY <1>1, TopHolds DEF At, Holds, FnAt, BlockAt, LetAt, TypeAt, AuxAt
<1>10. Roots[0] = 0 /\ Roots[x] = 0 /\ Roots[y] = 0
  BY <1>1, <1>7, <1>8, RootsNow DEF HeldValue, At, WaitsForNode
<1>11. x # y /\ x >= Len(stack) /\ y >= Len(stack)
  BY <1>7, <1>8
<1>12. \A i \in Nat : (IF i \in 1 .. Len(node.kids) THEN node.kids[i] ELSE 0)
              = IF i = 1 THEN Roots[x] ELSE IF i = 2 THEN Roots[y] ELSE 0
  BY <1>3, <1>10
<1>13. /\ to \in Label /\ to \notin Waiting /\ Holds(to, kind)
       /\ Top.at \notin {"prog", "prog_fn"} /\ to \notin {"prog", "prog_fn"}
       /\ to # "ret_arrow"
  BY <1>1 DEF At, Label, Looking, SkipsWhitespace, Waiting, WaitsForNode,
              WaitsForType, Holds, FnAt, BlockAt, LetAt
<1>14. \A at \in Label : Calls(at, Top.at) => Calls(at, to)
  BY <1>1 DEF At, Calls, FnAt, BlockAt, StmtAt, LetAt, TermAt, FactorAt, TypeAt,
              AuxAt, ExprCaller, TypeCaller
<1>15. /\ to \in TypeUnset => kids[1] = 0
       /\ to \in BodyUnset => kids[2] = 0
  BY DEF TypeUnset, BodyUnset, FnAt, LetAt
<1>16. token \in Nat /\ token <= idx' /\ (to = "fn_lparen" => token # 0)
       /\ idx < idx' /\ node.tok <= Len(toks)
  BY <1>1, <1>3 DEF At
<1>17. node.kind # "prog" /\ NewNode(node) /\ UNCHANGED <<val, freed>>
  BY <1>2, <1>3
<1>18. /\ Arity(node.kind, Len(node.kids))
       /\ \A i \in 1 .. Len(node.kids) :
             /\ node.kids[i] <= Len(nodes)
             /\ MayHold(node.kind, i, KindOf(node.kids[i]))
       /\ \A d \in {x, y} : d = 0 \/ d >= Len(stack)
       /\ Holds(to, node.kind)
       /\ to \in TypeUnset => node.kids[1] = 0
       /\ to \in BodyUnset => node.kids[2] = 0
  BY <1>3, <1>5, <1>6, <1>11, <1>13, <1>15
<1>19. QED
  BY <1>4, <1>9, <1>10, <1>11, <1>12, <1>13, <1>14, <1>16, <1>17, <1>18, MadeGoesOn

\* parse_fn makes a function.
LEMMA FnNameKeeps ==
    ASSUME IInv, UNCHANGED <<toks, closed>>, FnName
    PROVE  IInv'
<1>1. At("fn_name")
  BY AtToken DEF FnName
<1>2. idx' \in {idx, idx + 1} /\ UNCHANGED freed
  BY DEF FnName
<1>3. Moves
  BY <1>1, <1>2, ExpectMoves DEF At, FnName, IInv
<1>4. CASE Peek \in {"ident", "prim"}
  BY <1>3, <1>4, MadeEmpty DEF FnName
<1>5. CASE Peek \notin {"ident", "prim"}
  <2>1. Return(0) /\ UNCHANGED <<nodes, freed>>
    BY <1>5 DEF FnName
  <2>2. Top.node = 0
    BY <1>1, TopHolds DEF At, Holds, FnAt, BlockAt, LetAt, TypeAt, AuxAt
  <2>3. \A at \in WaitsForNode : Calls(at, "fn_name") => Given(at, "NULL")
    BY DEF Calls, Given, FnAt, BlockAt, StmtAt, LetAt, TermAt, FactorAt, TypeAt, AuxAt
  <2>4. QED
    BY <1>1, <1>3, <2>1, <2>2, <2>3, ReturnNullStep DEF At, WaitsForNode
<1>6. QED
  BY <1>4, <1>5

\* parse_block makes a block.
LEMMA BlockKeeps ==
    ASSUME IInv, UNCHANGED <<toks, closed>>, Block
    PROVE  IInv'
<1>1. At("block")
  BY AtToken DEF Block
<1>2. CASE Peek = "{"
  <2>1. idx' = idx + 1 /\ Quiet
    BY <1>2 DEF Block
  <2>2. Moves
    BY <1>1, <2>1, QuietMoves DEF At, IInv
  <2>3. QED
    BY <1>2, <2>2, MadeEmpty DEF Block
<1>3. CASE Peek # "{"
  BY <1>1, <1>3, PanicStep DEF Block, At
<1>4. QED
  BY <1>2, <1>3

\* A let-statement is made.
LEMMA StmtLetKeeps ==
    ASSUME IInv, UNCHANGED <<toks, closed>>, StmtLet
    PROVE  IInv'
<1>1. At("stmt")
  BY AtToken DEF StmtLet
<1>2. Moves
  BY <1>1, QuietMoves DEF At, StmtLet, IInv
<1>3. QED
  BY <1>2, MadeEmpty DEF StmtLet
-----------------------------------------------------------------------------
\* The node of "ret" is made of its value; without one parse_stmt panics.
LEMMA RetExprKeeps ==
    ASSUME IInv, UNCHANGED <<toks, closed>>, RetExpr
    PROVE  IInv'
<1>1. /\ out = "running" /\ Top.at = "ret_expr"
      /\ val \in 0 .. Len(nodes)
      /\ (KindOf(val) = "NULL" <=> val = 0) /\ idx \in idx .. Len(toks) + 1
  BY Answered DEF RetExpr, WaitsForNode
<1>2. CASE ~ AstIsExpr(val)
  BY <1>1, <1>2, PanicStep DEF RetExpr
<1>3. CASE AstIsExpr(val)
  <2>1. PICK node : node = MakeAst("ret", 0, <<val>>)
    OBVIOUS
  <2>2. /\ NewNode(node) /\ TopGoes(MakeFrame("ret_semi", Len(nodes'), 0))
        /\ Quiet /\ UNCHANGED <<idx, val, freed>>
    BY <1>3, <2>1 DEF RetExpr
  <2>3. Moves
    BY <1>1, <2>2, QuietMoves DEF IInv
  <2>4. /\ node = [kind |-> "ret", tok |-> 0, kids |-> <<val>>]
        /\ node.kind = "ret" /\ node.tok = 0 /\ node.kids = <<val>>
    BY <2>1 DEF MakeAst
  <2>5. /\ <<val>> \in Seq(Nat) /\ Len(<<val>>) = 1 /\ <<val>>[1] = val
        /\ 0 \in Nat /\ "ret" \in AstKind
    BY <1>1 DEF AstKind
  <2>6. node \in Node
    BY <2>4, <2>5 DEF Node
  <2>7. /\ Arity(node.kind, Len(node.kids))
        /\ \A i \in 1 .. Len(node.kids) :
              /\ node.kids[i] <= Len(nodes)
              /\ MayHold(node.kind, i, KindOf(node.kids[i]))
    <3>1. Arity("ret", 1)
      BY DEF Arity
    <3>2. MayHold("ret", 1, KindOf(val)) /\ val <= Len(nodes)
      BY <1>1, <1>3 DEF MayHold, AstIsExpr
    <3>3. QED
      BY <2>4, <2>5, <3>1, <3>2
  <2>8. /\ Len(stack) \in Nat /\ Len(stack) >= 1 /\ stack \in Seq(Frame)
    BY TopTyped DEF IInv
  <2>9. PICK y \in Nat : y = Len(stack) + 2
    BY <2>8
  <2>10. Top.node = 0
    BY <1>1, TopHolds DEF Holds, FnAt, BlockAt, LetAt, TypeAt, AuxAt
  <2>11. Roots[0] = val /\ Roots[y] = 0
    BY <1>1, <2>8, <2>9, RootsNow DEF HeldValue, WaitsForNode
  <2>12. 0 # y /\ \A d \in {0, y} : d = 0 \/ d >= Len(stack)
    BY <2>8, <2>9
  <2>13. \A i \in Nat : (IF i \in 1 .. Len(node.kids) THEN node.kids[i] ELSE 0)
            = IF i = 1 THEN Roots[0] ELSE IF i = 2 THEN Roots[y] ELSE 0
    BY <2>4, <2>5, <2>11
  <2>14. /\ "ret_semi" \in Label /\ "ret_semi" \notin Waiting
         /\ Holds("ret_semi", node.kind)
         /\ Top.at \notin {"prog", "prog_fn"}
         /\ "ret_semi" \notin TypeUnset \cup BodyUnset
    BY <1>1, <2>4 DEF Label, Looking, SkipsWhitespace, Waiting, WaitsForNode,
                WaitsForType, Holds, FnAt, BlockAt, LetAt, TypeUnset, BodyUnset
  <2>15. \A at \in Label : Calls(at, Top.at) => Calls(at, "ret_semi")
    BY <1>1 DEF Calls, FnAt, BlockAt, StmtAt, LetAt, TermAt, FactorAt, TypeAt,
                AuxAt, ExprCaller, TypeCaller
  <2>16. 0 <= idx' /\ node.tok <= Len(toks) /\ 0 \in Nat
    BY <2>2, <2>4 DEF IInv, TokensTyped
  <2>17. node.kind # "prog" /\ Top.at \notin {"stmt", "stmt_expr"}
    BY <1>1, <2>4
  <2>18. QED
    BY <2>2, <2>3, <2>6, <2>7, <2>9, <2>10, <2>12, <2>13, <2>14, <2>15,
       <2>16, <2>17, MadeGoesOn, ZenonT(30)
<1>4. QED
  BY <1>2, <1>3

\* An operator takes both its operands.
LEMMA RhsKeeps ==
    ASSUME IInv, UNCHANGED <<toks, closed>>, NEW back, NEW op,
           \/ back = "factor_rhs" /\ op = "factor_op"
           \/ back = "term_rhs" /\ op = "term_op",
           Rhs(back, op)
    PROVE  IInv'
<1>1. /\ out = "running" /\ Top.at = back /\ back \in WaitsForNode
      /\ Given(back, KindOf(val)) /\ val \in 0 .. Len(nodes)
      /\ (KindOf(val) = "NULL" <=> val = 0) /\ idx \in idx .. Len(toks) + 1
  <2>1. back \in WaitsForNode
    BY DEF WaitsForNode
  <2>2. QED
    BY <2>1, Answered DEF Rhs
<1>2. /\ Top \in Frame /\ Fits(Top) /\ Top.node \in 0 .. Len(nodes)
      /\ Len(stack) \in Nat /\ Len(stack) >= 1 /\ stack \in Seq(Frame)
      /\ Top.tok \in Nat
  BY TopTyped DEF IInv, Frame
<1>3. PICK node : node = Binop(Top.tok, Top.node, val)
  OBVIOUS
<1>4. /\ NewNode(node) /\ TopGoes(MakeFrame(op, Len(nodes'), 0))
      /\ Quiet /\ UNCHANGED <<idx, val, freed>> /\ val # 0
  BY <1>3 DEF Rhs
<1>5. Moves
  BY <1>1, <1>4, QuietMoves DEF IInv
<1>6. /\ node = [kind |-> "binop", tok |-> Top.tok, kids |-> <<Top.node, val>>]
      /\ node.kind = "binop" /\ node.tok = Top.tok /\ node.kids = <<Top.node, val>>
  BY <1>3 DEF Binop, MakeAst
<1>7. KindOf(Top.node) \in {"binop", "const"} /\ KindOf(val) \in {"binop", "const"}
  BY <1>1, <1>4, TopHolds
     DEF Holds, FnAt, BlockAt, LetAt, TypeAt, AuxAt, Given, ExprCaller, TypeCaller
<1>8. PICK kids : kids = <<Top.node, val>>
  OBVIOUS
<1>9. /\ kids \in Seq(Nat) /\ Len(kids) = 2
      /\ kids[1] = Top.node /\ kids[2] = val
  BY <1>1, <1>2, <1>8
<1>10. node \in Node
  BY <1>2, <1>6, <1>8, <1>9 DEF Node, AstKind
<1>11. /\ Arity(node.kind, Len(node.kids))
       /\ \A i \in 1 .. Len(node.kids) :
             /\ node.kids[i] <= Len(nodes)
             /\ MayHold(node.kind, i, KindOf(node.kids[i]))
  <2>1. Arity("binop", 2)
    BY DEF Arity
  <2>2. /\ MayHold("binop", 1, KindOf(Top.node)) /\ MayHold("binop", 2, KindOf(val))
        /\ Top.node <= Len(nodes) /\ val <= Len(nodes)
    BY <1>1, <1>2, <1>7 DEF MayHold
  <2>3. QED
    BY <1>6, <1>8, <1>9, <2>1, <2>2
<1>12. Roots[0] = val /\ Roots[Len(stack)] = Top.node
  BY <1>1, <1>2, RootsNow DEF HeldValue
<1>13. /\ Len(stack) # 0 /\ 0 \in Nat
       /\ \A d \in {Len(stack), 0} : d = 0 \/ d >= Len(stack)
  BY <1>2
<1>14. \A i \in Nat : (IF i \in 1 .. Len(node.kids) THEN node.kids[i] ELSE 0)
          = IF i = 1 THEN Roots[Len(stack)] ELSE IF i = 2 THEN Roots[0] ELSE 0
  BY <1>6, <1>8, <1>9, <1>12
<1>15. /\ op \in Label /\ op \notin Waiting /\ Holds(op, node.kind)
       /\ Top.at \notin {"prog", "prog_fn"} /\ op \notin {"prog", "prog_fn"}
       /\ op \notin TypeUnset \cup BodyUnset
       /\ op \notin {"fn_lparen", "ret_arrow"}
  BY <1>1, <1>6 DEF Label, Looking, SkipsWhitespace, Waiting, WaitsForNode,
              WaitsForType, Holds, FnAt, BlockAt, LetAt, TypeUnset, BodyUnset
<1>16. \A at \in Label : Calls(at, Top.at) => Calls(at, op)
  BY <1>1 DEF Calls, FnAt, BlockAt, StmtAt, LetAt, TermAt, FactorAt, TypeAt,
              AuxAt, ExprCaller, TypeCaller
<1>17. 0 <= idx' /\ node.tok <= Len(toks)
  <2>1. Top.tok < idx
    BY <1>1, <1>2 DEF Fits
  <2>2. QED
    BY <1>2, <1>4, <1>6, <2>1 DEF IInv, TokensTyped
<1>18. node.kind # "prog" /\ Top.at \notin {"stmt", "stmt_expr"}
  BY <1>1, <1>6
<1>19. QED
  BY <1>2, <1>4, <1>5, <1>10, <1>11, <1>13, <1>14, <1>15, <1>16, <1>17, <1>18,
     MadeGoesOn

\* A number is a node of its own.
LEMMA BottomConstKeeps ==
    ASSUME IInv, UNCHANGED <<toks, closed>>, BottomConst
    PROVE  IInv'
<1>1. At("bottom")
  BY AtToken DEF BottomConst
<1>2. Moves /\ UNCHANGED freed
  BY <1>1, QuietMoves DEF At, BottomConst, IInv
<1>3. PICK node : node = MakeAst("const", idx, <<>>)
  OBVIOUS
<1>4. /\ NewNode(node) /\ Return(Len(nodes'))
      /\ node = [kind |-> "const", tok |-> idx, kids |-> <<>>]
      /\ node.kind = "const" /\ node.kids = <<>> /\ node.tok = idx
  BY <1>3 DEF BottomConst, MakeAst
<1>5. node \in Node /\ node.tok <= Len(toks)
  BY <1>1, <1>4 DEF Node, AstKind, At
<1>6. Top.node = 0
  BY <1>1, TopHolds DEF At, Holds, FnAt, BlockAt, LetAt, TypeAt, AuxAt
<1>7. \A at \in WaitsForNode : Calls(at, "bottom") => Given(at, "const")
  BY DEF Calls, Given, FnAt, BlockAt, StmtAt, LetAt, TermAt, FactorAt, TypeAt, AuxAt
<1>8. Top.at \notin WaitsForNode \cup AuxAt
  BY <1>1 DEF At, WaitsForNode, AuxAt
<1>9. QED
  BY <1>1, <1>2, <1>4, <1>5, <1>6, <1>7, <1>8, MadeReturned DEF At

\* parse_type makes a node of the type, and panics without one.
LEMMA TypeDoneKeeps ==
    ASSUME IInv, UNCHANGED <<toks, closed>>, TypeDone
    PROVE  IInv'
<1>1. /\ out = "running" /\ Top.at = "type_done"
      /\ idx \in idx .. Len(toks) + 1 /\ 0 <= Len(toks)
  BY DEF TypeDone, Back, IInv, TokensTyped
<1>2. CASE val = 0
  BY <1>1, <1>2, PanicStep DEF TypeDone
<1>3. CASE val # 0
  <2>1. PICK node : node = MakeAst("type", 0, <<>>)
    OBVIOUS
  <2>2. /\ NewNode(node) /\ Return(Len(nodes')) /\ Quiet /\ UNCHANGED <<idx, freed>>
        /\ node = [kind |-> "type", tok |-> 0, kids |-> <<>>]
        /\ node.kind = "type" /\ node.kids = <<>> /\ node.tok = 0
    BY <1>3, <2>1 DEF TypeDone, MakeAst
  <2>3. Moves
    BY <1>1, <2>2, QuietMoves DEF IInv
  <2>4. node \in Node /\ node.tok <= Len(toks)
    BY <1>1, <2>2 DEF Node, AstKind
  <2>5. Top.node = 0
    BY <1>1, TopHolds DEF Holds, FnAt, BlockAt, LetAt, TypeAt, AuxAt
  <2>6. \A at \in WaitsForNode : Calls(at, "type_done") => Given(at, "type")
    BY DEF Calls, Given, FnAt, BlockAt, StmtAt, LetAt, TermAt, FactorAt, TypeAt,
           AuxAt, WaitsForNode
  <2>7. Top.at \notin WaitsForNode \cup AuxAt
    BY <1>1 DEF WaitsForNode, AuxAt
  <2>8. QED
    BY <1>1, <2>2, <2>3, <2>4, <2>5, <2>6, <2>7, MadeReturned
<1>4. QED
  BY <1>2, <1>3

\* The node for a length comes and goes.
LEMMA ArrayLenKeeps ==
    ASSUME IInv, UNCHANGED <<toks, closed>>, ArrayLen
    PROVE  IInv'
<1>1. At("array_len")
  BY AtToken DEF ArrayLen
<1>2. idx' \in {idx, idx + 1} /\ Quiet
  BY DEF ArrayLen, Heap
<1>3. Moves
  BY <1>1, <1>2, QuietMoves DEF At, IInv
<1>4. CASE Peek # "int"
  <2>1. Return(0) /\ UNCHANGED <<nodes, freed>>
    BY <1>4 DEF ArrayLen, Heap
  <2>2. QED
    BY <1>1, <1>3, <2>1, AuxReturns DEF At, AuxAt, WaitsForType
<1>5. CASE Peek = "int"
  <2>1. PICK node : node = MakeAst("const", idx, <<>>)
    OBVIOUS
  <2>2. /\ NewNode(node) /\ Goto("array_end") /\ UNCHANGED val
        /\ freed' = freed \cup {Len(nodes')}
        /\ node = [kind |-> "const", tok |-> idx, kids |-> <<>>]
        /\ node.kind = "const" /\ node.kids = <<>> /\ node.tok = idx
    BY <1>5, <2>1 DEF ArrayLen, MakeAst
  <2>3. node \in Node /\ node.tok <= Len(toks)
    BY <1>1, <2>2 DEF Node, AstKind, At
  <2>4. /\ Len(nodes) \in Nat /\ Len(nodes') = Len(nodes) + 1
        /\ freed' \subseteq 1 .. Len(nodes) + 1
    <3>1. Len(nodes) \in Nat /\ nodes \in Seq(Node) /\ freed \subseteq 1 .. Len(nodes)
      BY DEF IInv, Tree
    <3>2. Len(nodes') = Len(nodes) + 1
      BY <2>2, <2>3, <3>1 DEF NewNode
    <3>3. freed' = freed \cup {Len(nodes) + 1}
      BY <2>2, <3>2
    <3>4. 1 .. Len(nodes) \subseteq 1 .. Len(nodes) + 1
          /\ Len(nodes) + 1 \in 1 .. Len(nodes) + 1
      BY <3>1
    <3>5. freed' \subseteq 1 .. Len(nodes) + 1
      BY <3>1, <3>3, <3>4
    <3>6. QED
      BY <3>1, <3>2, <3>5
  <2>5. Len(node.kids) = 0 /\ Arity(node.kind, Len(node.kids)) /\ node.kind # "prog"
    BY <2>2 DEF Arity
  <2>6. /\ Tree' /\ Keeps
        /\ Live' = ((1 .. Len(nodes) + 1) \ freed')
        /\ \A n \in Live : \A i \in Nat : Kids'[n][i] = Kids[n][i]
    BY <2>2, <2>3, <2>4, <2>5, TreeMade DEF IInv, Moves
  <2>7. Live' = Live
    BY <2>2, <2>4, <2>6 DEF Live
  <2>8. /\ Top \in Frame /\ Fits(Top) /\ Top.node = 0
        /\ Len(stack) \in Nat /\ Len(stack) >= 1 /\ stack \in Seq(Frame)
    BY <1>1, TopTyped, TopHolds DEF IInv, At, Holds, FnAt, BlockAt, LetAt, TypeAt, AuxAt
  <2>9. PICK frame : frame = [Top EXCEPT !.at = "array_end"]
    OBVIOUS
  <2>10. /\ frame \in Frame /\ frame.at = "array_end" /\ frame.node = 0
         /\ frame.tok = Top.tok
    BY <2>8, <2>9 DEF Frame, Label, Looking, SkipsWhitespace
  <2>11. Pushes(frame, <<>>)
    <3>1. stack' = [stack EXCEPT ![Len(stack)] = frame]
      BY <2>2, <2>9 DEF Goto, TopGoes
    <3>2. [stack EXCEPT ![Len(stack)] = frame] \in Seq(Frame)
      BY <2>8, <2>10
    <3>3. QED
      BY <3>1, <3>2, ConcatEmptySeq DEF Pushes
  <2>12. MayPush(frame, <<>>)
    <3>1. MayGo("array_len", "array_end")
      BY Within DEF AuxAt, TypeUnset
    <3>2. MayCall("array_end", <<>>)
      BY CallsNothing DEF Waiting, WaitsForNode, WaitsForType
    <3>3. QED
      BY <1>1, <2>10, <3>1, <3>2 DEF MayPush, MayGo, MayCall, TopAt, At
  <2>13. Fits(frame)'
    <3>1. Top.tok <= idx'
      BY <1>3, <2>8 DEF Fits, Frame, Moves, IInv, TokensTyped
    <3>2. 0 <= Len(nodes') /\ Holds("array_end", "NULL")
      BY <2>4 DEF Holds, AuxAt
    <3>3. QED
      BY <2>10, <3>1, <3>2 DEF Fits, KindOf, TypeUnset, BodyUnset, FnAt, LetAt
  <2>14. val' \in 0 .. Len(nodes') /\ frame.at \notin {"prog", "prog_fn"}
    BY <2>2, <2>4, <2>10 DEF IInv, Answer
  <2>15. Owned(Live', Kids', Roots')
    <3>1. /\ Roots'[0] = 0 /\ Roots'[Len(stack)] = 0
          /\ \A d \in Nat : d # 0 /\ d # Len(stack) => Roots'[d] = Roots[d]
      BY <2>8, <2>10, <2>11, <2>12, RootsPushed
    <3>2. Roots[0] = 0 /\ Roots[Len(stack)] = 0
      BY <1>1, <2>8, RootsNow DEF HeldValue, At, WaitsForNode
    <3>3. \A d \in Nat : Roots'[d] = Roots[d]
      BY <3>1, <3>2
    <3>4. Owned(Live, Kids, Roots)
      BY <1>3 DEF IInv, Owners, Moves
    <3>5. RootsOwn(Live, Roots') /\ KidsOwn(Live, Kids', Roots')
      BY <2>6, <3>3, <3>4 DEF Owned, RootsOwn, KidsOwn
    <3>6. NoneLost(Live, Kids', Roots')
      BY <2>6, <3>3, <3>4 DEF Owned, NoneLost
    <3>7. QED
      BY <2>7, <3>5, <3>6 DEF Owned
  <2>16. QED
    BY <1>3, <2>6, <2>11, <2>12, <2>13, <2>14, <2>15, PushedRest
<1>6. QED
  BY <1>4, <1>5
-----------------------------------------------------------------------------
\* A left operand is kept by the loop that builds the operators.
LEMMA LhsKeeps ==
    ASSUME IInv, UNCHANGED <<toks, closed>>, NEW back, NEW op,
           \/ back = "factor_lhs" /\ op = "factor_op"
           \/ back = "term_lhs" /\ op = "term_op",
           Lhs(back, op)
    PROVE  IInv'
<1>1. /\ out = "running" /\ Top.at = back /\ back \in WaitsForNode
      /\ Given(back, KindOf(val)) /\ val \in 0 .. Len(nodes)
      /\ (KindOf(val) = "NULL" <=> val = 0) /\ idx \in idx .. Len(toks) + 1
  <2>1. back \in WaitsForNode
    BY DEF WaitsForNode
  <2>2. QED
    BY <2>1, Answered DEF Lhs
<1>2. Quiet /\ UNCHANGED <<idx, nodes, freed>>
  BY DEF Lhs, Heap
<1>3. Moves
  BY <1>1, <1>2, QuietMoves DEF IInv
<1>4. Top.node = 0
  BY <1>1, TopHolds DEF Holds, FnAt, BlockAt, LetAt, TypeAt, AuxAt
<1>5. CASE val = 0
  <2>1. Return(0)
    BY <1>5 DEF Lhs
  <2>2. \A at \in WaitsForNode : Calls(at, back) => Given(at, "NULL")
    BY DEF Calls, Given, FnAt, BlockAt, StmtAt, LetAt, TermAt, FactorAt, TypeAt, AuxAt
  <2>3. QED
    BY <1>1, <1>2, <1>3, <1>4, <1>5, <2>1, <2>2, ReturnNullStep
<1>6. CASE val # 0
  <2>1. TopGoes(MakeFrame(op, val, 0)) /\ UNCHANGED val
    BY <1>6 DEF Lhs
  <2>2. KindOf(val) \in {"binop", "const"}
    BY <1>1, <1>6 DEF Given, ExprCaller, TypeCaller
  <2>3. /\ Tree' /\ Keeps /\ Live' = Live /\ Kids' = Kids
        /\ Len(nodes') = Len(nodes) /\ Len(nodes) \in Nat /\ 0 \notin Live
    BY <1>2, <1>3, TreeSame, LiveNow DEF IInv, Moves
  <2>4. /\ Len(stack) \in Nat /\ Len(stack) >= 1 /\ stack \in Seq(Frame)
    BY TopTyped DEF IInv
  <2>5. PICK frame : frame = [at |-> op, node |-> val, tok |-> 0]
    OBVIOUS
  <2>6. /\ frame \in Frame /\ frame.at = op /\ frame.node = val /\ frame.tok = 0
    <3>1. op \in Label /\ val \in Nat
      BY <1>1 DEF Label, Looking, SkipsWhitespace
    <3>2. QED
      BY <2>5, <3>1 DEF Frame
  <2>7. Pushes(frame, <<>>)
    <3>1. stack' = [stack EXCEPT ![Len(stack)] = frame]
      BY <2>1, <2>5 DEF TopGoes, MakeFrame
    <3>2. [stack EXCEPT ![Len(stack)] = frame] \in Seq(Frame)
      BY <2>4, <2>6
    <3>3. QED
      BY <3>1, <3>2, ConcatEmptySeq DEF Pushes
  <2>8. MayPush(frame, <<>>)
    <3>1. MayCall(op, <<>>)
      BY CallsNothing DEF Waiting, WaitsForNode, WaitsForType
    <3>2. \A at \in Label : Calls(at, Top.at) => Calls(at, op)
      BY <1>1 DEF Calls, FnAt, BlockAt, StmtAt, LetAt, TermAt, FactorAt, TypeAt,
                  AuxAt, ExprCaller, TypeCaller
    <3>3. QED
      BY <1>1, <2>6, <3>1, <3>2 DEF MayPush, MayCall, TopAt
  <2>9. Fits(frame)'
    <3>1. KindOf(frame.node)' = KindOf(val) /\ Holds(op, KindOf(val))
      BY <1>2, <2>2, <2>6 DEF KindOf, Holds
    <3>2. 0 <= idx' /\ op \notin TypeUnset \cup BodyUnset
      BY <1>2 DEF IInv, TokensTyped, TypeUnset, BodyUnset, FnAt, LetAt
    <3>3. op \notin {"factor_rhs", "term_rhs", "fn_lparen", "ret_arrow"}
      OBVIOUS
    <3>4. QED
      BY <1>1, <2>3, <2>6, <3>1, <3>2, <3>3 DEF Fits
  <2>10. val' \in 0 .. Len(nodes') /\ frame.at \notin {"prog", "prog_fn"}
    BY <1>1, <2>1, <2>3, <2>6
  <2>11. Owned(Live', Kids', Roots')
    <3>1. /\ Roots'[0] = 0 /\ Roots'[Len(stack)] = val
          /\ \A d \in Nat : d # 0 /\ d # Len(stack) => Roots'[d] = Roots[d]
      BY <2>4, <2>6, <2>7, <2>8, RootsPushed
    <3>2. Roots[0] = val /\ Roots[Len(stack)] = 0
      BY <1>1, <1>4, <2>4, RootsNow DEF HeldValue
    <3>3. Owned(Live, Kids, Roots)
      BY <1>3 DEF IInv, Owners, Moves
    <3>4. 0 # Len(stack) /\ 0 \in Nat
      BY <2>4
    <3>5. Owned(Live, Kids, Roots')
      BY <2>3, <2>4, <3>1, <3>2, <3>3, <3>4, OwnedMoved
    <3>6. QED
      BY <2>3, <3>5
  <2>12. QED
    BY <1>3, <2>3, <2>7, <2>8, <2>9, <2>10, <2>11, PushedRest
<1>7. QED
  BY <1>5, <1>6
-----------------------------------------------------------------------------
(***************************************************************************)
(* release_ast                                                             *)
(***************************************************************************)

\* The children that release_ast follows are nodes, or NULL.
LEMMA ReleasedTyped ==
    ASSUME Tree
    PROVE  [m \in 1 .. Len(nodes) |-> ReleasedKids(m)]
              \in [1 .. Len(nodes) -> SUBSET (0 .. Len(nodes))]
<1> SUFFICES ASSUME NEW m \in 1 .. Len(nodes)
             PROVE  ReleasedKids(m) \subseteq 0 .. Len(nodes)
  OBVIOUS
<1>1. nodes[m] \in Node /\ Len(nodes) \in Nat
  BY DEF Tree
<1>2. \A i \in 1 .. Len(nodes[m].kids) : nodes[m].kids[i] \in 0 .. Len(nodes)
  <2>1. nodes[m].kids \in Seq(Nat)
    BY <1>1 DEF Node
  <2>2. \A i \in 1 .. Len(nodes[m].kids) : nodes[m].kids[i] <= Len(nodes)
    BY DEF Tree
  <2>3. QED
    BY <1>1, <2>1, <2>2
<1>3. nodes[m].kind = "let" => Len(nodes[m].kids) = 2
  BY DEF Tree, Arity
<1>4. QED
  BY <1>2, <1>3 DEF ReleasedKids

\* What release_ast(n) comes to is the least there is with n that has the
\* children it follows.
LEMMA ReleasedLeast ==
    ASSUME Tree, NEW n \in 0 .. Len(nodes)
    PROVE  /\ Released(n) \subseteq 0 .. Len(nodes)
           /\ n \in Released(n)
           /\ \A m \in Released(n) \ {0} : ReleasedKids(m) \subseteq Released(n)
           /\ \A S : n \in S /\ (\A m \in S \cap (1 .. Len(nodes)) : ReleasedKids(m) \subseteq S)
                        => Released(n) \subseteq S
<1>1. PICK kids : kids = [m \in 1 .. Len(nodes) |-> ReleasedKids(m)]
  OBVIOUS
<1>2. /\ Len(nodes) \in Nat
      /\ kids \in [1 .. Len(nodes) -> SUBSET (0 .. Len(nodes))]
      /\ \A m \in 1 .. Len(nodes) : kids[m] = ReleasedKids(m)
  <2>1. Len(nodes) \in Nat
    BY DEF Tree
  <2>2. \A m \in 1 .. Len(nodes) : ReleasedKids(m) \in SUBSET (0 .. Len(nodes))
    BY ReleasedTyped
  <2>3. QED
    BY <1>1, <2>1, <2>2, Zenon
<1>3. Released(n) = Reached(n, kids, Len(nodes))
  BY <1>1 DEF Released
<1>4. /\ Released(n) \subseteq 0 .. Len(nodes)
      /\ n \in Released(n)
      /\ \A m \in Released(n) \ {0} : kids[m] \subseteq Released(n)
      /\ \A S : n \in S /\ (\A m \in S \ {0} : m \in 1 .. Len(nodes) => kids[m] \subseteq S)
                   => Released(n) \subseteq S
  BY <1>2, <1>3, ReachedLeast
<1>5. \A m \in Released(n) \ {0} : ReleasedKids(m) \subseteq Released(n)
  BY <1>2, <1>4
<1>6. ASSUME NEW S, n \in S,
             \A m \in S \cap (1 .. Len(nodes)) : ReleasedKids(m) \subseteq S
      PROVE  Released(n) \subseteq S
  <2>1. \A m \in S \ {0} : m \in 1 .. Len(nodes) => kids[m] \subseteq S
    BY <1>2, <1>6
  <2>2. QED
    BY <1>4, <1>6, <2>1
<1>7. QED
  BY <1>4, <1>5, <1>6

\* An expression is released with all that is below it.
LEMMA ExprReleased ==
    ASSUME Tree, NEW n \in 1 .. Len(nodes), KindOf(n) \in {"binop", "const"},
           NEW all, all = Released(n), 0 \notin all, all \cap freed = {}
    PROVE  /\ all \subseteq Live /\ n \in all
           /\ \A m \in all : \A i \in Nat : Kids[m][i] # 0 => Kids[m][i] \in all
           /\ \A S : /\ n \in S
                     /\ \A m \in S \cap all : \A i \in Nat :
                           Kids[m][i] # 0 => Kids[m][i] \in S
                     => all \subseteq S
<1>1. /\ all \subseteq 0 .. Len(nodes)
      /\ n \in all
      /\ \A m \in all \ {0} : ReleasedKids(m) \subseteq all
      /\ \A S : n \in S /\ (\A m \in S \cap (1 .. Len(nodes)) : ReleasedKids(m) \subseteq S)
                   => all \subseteq S
  BY ReleasedLeast, SMTT(30) DEF Tree
<1>2. all \subseteq 1 .. Len(nodes) /\ all \subseteq Live
  BY <1>1 DEF Live
<1>3. \A m \in 1 .. Len(nodes) : nodes[m].kind \in {"binop", "const"} =>
         ReleasedKids(m) = { nodes[m].kids[i] : i \in 1 .. Len(nodes[m].kids) }
  BY DEF ReleasedKids
<1>4. \A m \in all : nodes[m].kind \in {"binop", "const"}
  <2>1. PICK S : S = { m \in 0 .. Len(nodes) : m = 0 \/ nodes[m].kind \in {"binop", "const"} }
    OBVIOUS
  <2>2. n \in S
    BY <2>1 DEF KindOf
  <2>3. ASSUME NEW m \in S \cap (1 .. Len(nodes))
        PROVE  ReleasedKids(m) \subseteq S
    <3>1. nodes[m].kind \in {"binop", "const"}
      BY <2>1, <2>3
    <3>2. ASSUME NEW i \in 1 .. Len(nodes[m].kids)
          PROVE  nodes[m].kids[i] \in S
      <4>1. MayHold(nodes[m].kind, i, KindOf(nodes[m].kids[i]))
        BY DEF Tree
      <4>2. nodes[m].kids[i] # 0 /\ nodes[nodes[m].kids[i]].kind \in {"binop", "const"}
        BY <3>1, <4>1 DEF MayHold, KindOf
      <4>3. nodes[m].kids[i] \in ReleasedKids(m)
        BY <1>3, <3>1
      <4>4. nodes[m].kids[i] \in 0 .. Len(nodes)
        BY <4>3, ReleasedTyped
      <4>5. QED
        BY <2>1, <4>2, <4>4
    <3>3. QED
      BY <1>3, <3>1, <3>2
  <2>4. all \subseteq S
    BY <1>1, <2>2, <2>3
  <2>5. QED
    BY <1>2, <2>1, <2>4
<1>5. \A m \in all : \A i \in Nat :
         Kids[m][i] = IF i \in 1 .. Len(nodes[m].kids) THEN nodes[m].kids[i] ELSE 0
  BY <1>2 DEF Kids, Tree
<1>6. \A m \in all : \A i \in Nat : Kids[m][i] # 0 => Kids[m][i] \in all
  <2> SUFFICES ASSUME NEW m \in all, NEW i \in Nat, Kids[m][i] # 0
               PROVE  Kids[m][i] \in all
    OBVIOUS
  <2>1. i \in 1 .. Len(nodes[m].kids) /\ Kids[m][i] = nodes[m].kids[i]
    BY <1>5
  <2>2. Kids[m][i] \in ReleasedKids(m)
    BY <1>2, <1>3, <1>4, <2>1
  <2>3. QED
    BY <1>1, <2>2
<1>7. ASSUME NEW S, n \in S,
             \A m \in S \cap all : \A i \in Nat : Kids[m][i] # 0 => Kids[m][i] \in S
      PROVE  all \subseteq S
  <2>1. PICK T : T = S \cap all
    OBVIOUS
  <2>2. ASSUME NEW m \in T \cap (1 .. Len(nodes))
        PROVE  ReleasedKids(m) \subseteq T
    <3>1. m \in all /\ m \in S /\ m # 0
      BY <2>1, <2>2
    <3>2. ASSUME NEW k \in ReleasedKids(m)
          PROVE  k \in T
      <4>1. k \in all /\ k # 0
        BY <1>1, <3>1, <3>2
      <4>2. PICK i \in 1 .. Len(nodes[m].kids) : k = nodes[m].kids[i]
        BY <1>2, <1>3, <1>4, <3>1, <3>2
      <4>3. Kids[m][i] = k
        BY <1>5, <3>1, <4>2
      <4>4. QED
        BY <1>7, <2>1, <3>1, <4>1, <4>3
    <3>3. QED
      BY <3>2
  <2>3. all \subseteq T
    BY <1>1, <1>7, <2>1, <2>2
  <2>4. QED
    BY <2>1, <2>3
<1>8. QED
  BY <1>1, <1>2, <1>6, <1>7

\* The left operand is released when there is no right one.
LEMMA RhsMissingKeeps ==
    ASSUME IInv, UNCHANGED <<toks, closed>>,
           NEW back \in {"factor_rhs", "term_rhs"}, RhsMissing(back)
    PROVE  IInv'
<1>1. /\ out = "running" /\ Top.at = back /\ back \in WaitsForNode
      /\ idx \in idx .. Len(toks) + 1 /\ val = 0
  <2>1. back \in WaitsForNode
    BY DEF WaitsForNode
  <2>2. QED
    BY <2>1, Answered DEF RhsMissing
<1>2. /\ UNCHANGED <<idx, nodes, errs>> /\ Return(0)
      /\ ReleaseAst(Top.node, "running")
  BY DEF RhsMissing
<1>3. out' \in {"running", "crash"}
  BY <1>2 DEF ReleaseAst
<1>4. Moves
  BY <1>1, <1>2, <1>3 DEF Moves, IInv, TokensTyped
<1>5. KindOf(Top.node) \in {"binop", "const"}
  BY <1>1, TopHolds DEF Holds, FnAt, BlockAt, LetAt, TypeAt, AuxAt
<1>6. /\ Len(stack) \in Nat /\ Len(stack) >= 1 /\ stack \in Seq(Frame)
      /\ Top.node \in 1 .. Len(nodes)
  <2>1. Top.node # 0
    BY <1>5 DEF KindOf
  <2>2. QED
    BY <2>1, TopTyped DEF IInv, Tree
<1>7. freed' \subseteq 1 .. Len(nodes)
  <2>1. CASE 0 \in Released(Top.node)
    BY <1>2, <2>1 DEF ReleaseAst, IInv, Tree
  <2>2. CASE 0 \notin Released(Top.node)
    <3>1. Released(Top.node) \subseteq 1 .. Len(nodes)
      BY <1>6, <2>2, ReleasedLeast DEF IInv
    <3>2. QED
      BY <1>2, <3>1 DEF ReleaseAst, IInv, Tree
  <2>3. QED
    BY <2>1, <2>2
<1>8. Tree' /\ Keeps /\ Kids' = Kids
  <2>1. UNCHANGED <<nodes, toks>>
    BY <1>2
  <2>2. Tree'
    BY <1>7, <2>1 DEF IInv, Tree, KindOf
  <2>3. QED
    BY <2>1, <2>2 DEF Keeps, Kids, IInv, Tree
<1>9. Pops /\ val' = 0 /\ val' \in 0 .. Len(nodes')
  <2>1. Len(nodes') \in Nat /\ 0 \in Nat
    BY <1>8 DEF Tree
  <2>2. QED
    BY <1>2, <2>1 DEF Return, Pops
<1>10. \A at \in WaitsForNode : Calls(at, Top.at) => Given(at, KindOf(val)')
  <2>1. \A at \in WaitsForNode : Calls(at, back) => Given(at, "NULL")
    BY DEF Calls, Given, FnAt, BlockAt, StmtAt, LetAt, TermAt, FactorAt, TypeAt, AuxAt
  <2>2. QED
    BY <1>1, <1>9, <2>1 DEF KindOf
<1>11. ASSUME out' = "running"
       PROVE  Owned(Live', Kids', Roots')
  <2>1. PICK all : all = Released(Top.node)
    OBVIOUS
  <2>2. 0 \notin all /\ all \cap freed = {} /\ freed' = freed \cup all
    BY <1>2, <1>11, <2>1 DEF ReleaseAst
  <2>3. /\ all \subseteq Live /\ Top.node \in all
        /\ \A m \in all : \A i \in Nat : Kids[m][i] # 0 => Kids[m][i] \in all
        /\ \A S : /\ Top.node \in S
                  /\ \A m \in S \cap all : \A i \in Nat :
                        Kids[m][i] # 0 => Kids[m][i] \in S
                  => all \subseteq S
    BY <1>5, <1>6, <2>1, <2>2, ExprReleased DEF IInv
  <2>4. /\ Roots'[0] = 0 /\ Roots'[Len(stack)] = 0
        /\ \A d \in Nat : d # 0 /\ d # Len(stack) => Roots'[d] = Roots[d]
    BY <1>1, <1>9, RootsPopped DEF IInv
  <2>5. Roots[0] = 0 /\ Roots[Len(stack)] = Top.node
    BY <1>1, <1>6, RootsNow DEF HeldValue
  <2>6. \A d \in Nat : d # Len(stack) => Roots'[d] = Roots[d]
    BY <2>4, <2>5
  <2>7. Releases(Live, Kids, Roots, Roots', all, Len(stack))
    BY <2>3, <2>4, <2>5, <2>6 DEF Releases
  <2>8. Owned(Live, Kids, Roots) /\ 0 \notin Live
    BY <1>4, LiveNow DEF IInv, Owners, Moves
  <2>9. Owned(Live \ all, Kids, Roots')
    BY <1>6, <2>7, <2>8, OwnedReleased
  <2>10. Live' = Live \ all
    BY <1>2, <2>2 DEF Live
  <2>11. QED
    BY <1>8, <2>9, <2>10
<1>12. QED
  BY <1>1, <1>4, <1>8, <1>9, <1>10, <1>11, PoppedRest
-----------------------------------------------------------------------------
(***************************************************************************)
(* The steps that are not of a parse function                              *)
(***************************************************************************)

\* The parser is as it was when the list turns out longer, or to end.
LEMMA FeedKeeps ==
    ASSUME IInv, Feed
    PROVE  IInv'
<1>1. /\ UNCHANGED <<idx, stack, val, nodes, freed, errs, out>> /\ out = "running"
      /\ \/ /\ Len(toks) < MaxToks /\ UNCHANGED closed
            /\ \E tok \in Tokens : toks' = Append(toks, tok)
         \/ closed' = TRUE /\ UNCHANGED toks
  BY DEF Feed
<1>2. /\ toks' \in Seq(Tokens) /\ Len(toks') <= MaxToks /\ closed' \in BOOLEAN
      /\ Len(toks) \in Nat /\ Len(toks') \in Nat /\ Len(toks) <= Len(toks')
  <2>1. toks \in Seq(Tokens) /\ Len(toks) <= MaxToks /\ closed \in BOOLEAN /\ MaxToks \in Nat
    BY ParserAssumption DEF IInv, TokensTyped
  <2>2. CASE closed' = TRUE /\ UNCHANGED toks
    BY <2>1, <2>2
  <2>3. CASE /\ Len(toks) < MaxToks /\ UNCHANGED closed
             /\ \E tok \in Tokens : toks' = Append(toks, tok)
    <3>1. PICK tok \in Tokens : toks' = Append(toks, tok)
      BY <2>3
    <3>2. toks' \in Seq(Tokens) /\ Len(toks') = Len(toks) + 1
      BY <2>1, <3>1
    <3>3. QED
      BY <2>1, <2>3, <3>2
  <2>4. QED
    BY <1>1, <2>2, <2>3
<1>3. TokensTyped'
  BY <1>1, <1>2 DEF IInv, TokensTyped
<1>4. Tree'
  <2>1. \A n \in 1 .. Len(nodes) : nodes[n].tok <= Len(toks')
    <3> TAKE n \in 1 .. Len(nodes)
    <3>1. nodes[n] \in Node /\ nodes[n].tok <= Len(toks)
      BY DEF IInv, Tree
    <3>2. nodes[n].tok \in Nat
      BY <3>1 DEF Node
    <3>3. QED
      BY <1>2, <3>1, <3>2
  <2>2. QED
    BY <1>1, <2>1 DEF IInv, Tree, KindOf
<1>5. Frames'
  BY <1>1 DEF IInv, Frames, Fits, KindOf
<1>6. Begun' /\ Answer'
  BY <1>1 DEF IInv, Begun, Answer, Top, KindOf
<1>7. Owners'
  <2>1. Live' = Live /\ Kids' = Kids
    BY <1>1 DEF Live, Kids
  <2>2. HeldValue' = HeldValue
    BY <1>1 DEF HeldValue, Top
  <2>3. Roots' = Roots
    BY <1>1, <2>2 DEF Roots
  <2>4. QED
    BY <1>1, <2>1, <2>3 DEF IInv, Owners, Owned, RootsOwn, KidsOwn, NoneLost
<1>8. Parsed' /\ OnlyLetTypesLeak'
  BY <1>1 DEF Parsed, OnlyLetTypesLeak
<1>9. QED
  BY <1>3, <1>4, <1>5, <1>6, <1>7, <1>8 DEF IInv

\* What the release of the tree leaves: the type of a let-statement that is
\* released, or the child of what is left.
LEMMA LeftBelow ==
    ASSUME IInv, out = "parsed",
           NEW all, all = Released(1), 0 \notin all,
           NEW n \in Live \ all
    PROVE  \E m \in Live : \E i \in 1 .. Len(nodes[m].kids) :
              /\ nodes[m].kids[i] = n
              /\ MayHold(nodes[m].kind, i, nodes[n].kind)
              /\ m \in all => nodes[m].kind = "let" /\ i = 1
<1>1. /\ Len(stack) = 1 /\ Top.at = "prog" /\ Top.node = 1
      /\ stack \in Seq(Frame)
  BY ProgAlone DEF IInv, Parsed, Frames
<1>2. Roots[0] = 0 /\ Roots[1] = 1 /\ \A d \in Nat : d > 1 => Roots[d] = 0
  BY <1>1, RootsNow DEF HeldValue, WaitsForNode
<1>3. /\ Owned(Live, Kids, Roots) /\ 0 \notin Live
      /\ Live \subseteq 1 .. Len(nodes) /\ Len(nodes) \in Nat /\ Len(nodes) >= 1
  BY LiveNow DEF IInv, Owners, Tree
<1>4. /\ 1 \in all
      /\ \A m \in all \ {0} : ReleasedKids(m) \subseteq all
  BY <1>3, ReleasedLeast DEF IInv
<1>5. \A d \in Nat : Roots[d] # n
  <2>1. n # 0 /\ n # 1
    BY <1>3, <1>4
  <2>2. \A d \in Nat : d = 0 \/ d = 1 \/ d > 1
    OBVIOUS
  <2>3. QED
    BY <1>2, <2>1, <2>2
<1>6. PICK m \in Live, i \in Nat : Kids[m][i] = n
  BY <1>3, <1>5 DEF Owned, NoneLost
<1>7. i \in 1 .. Len(nodes[m].kids) /\ nodes[m].kids[i] = n
  <2>1. Kids[m][i] = IF i \in 1 .. Len(nodes[m].kids) THEN nodes[m].kids[i] ELSE 0
    BY <1>3 DEF Kids
  <2>2. n # 0
    BY <1>3
  <2>3. QED
    BY <1>6, <2>1, <2>2
<1>8. MayHold(nodes[m].kind, i, nodes[n].kind)
  <2>1. MayHold(nodes[m].kind, i, KindOf(n))
    BY <1>3, <1>7 DEF IInv, Tree
  <2>2. KindOf(n) = nodes[n].kind
    BY <1>3 DEF KindOf
  <2>3. QED
    BY <2>1, <2>2
<1>9. ASSUME m \in all
      PROVE  nodes[m].kind = "let" /\ i = 1
  <2>1. n \notin ReleasedKids(m)
    BY <1>3, <1>4, <1>9
  <2>2. CASE nodes[m].kind # "let"
    BY <1>7, <2>1, <2>2 DEF ReleasedKids
  <2>3. CASE nodes[m].kind = "let"
    <3>1. Len(nodes[m].kids) = 2
      BY <1>3, <2>3 DEF IInv, Tree, Arity
    <3>2. i = 1 \/ i = 2
      BY <1>7, <3>1
    <3>3. QED
      BY <1>7, <2>1, <2>3, <3>2 DEF ReleasedKids
  <2>4. QED
    BY <2>2, <2>3
<1>10. QED
  BY <1>7, <1>8, <1>9

\* Only the types of let-statements are left: no function is, so no block is,
\* so no statement is, and no operand without the operator above it, which was
\* made after it.
LEMMA LetTypesLeft ==
    ASSUME IInv, out = "parsed",
           NEW all, all = Released(1), 0 \notin all,
           NEW n \in Live \ all
    PROVE  \E m \in all : nodes[m].kind = "let" /\ nodes[m].kids[1] = n
<1> DEFINE Left == Live \ all
           Above(k, m, i) ==
              /\ nodes[m].kids[i] = k
              /\ MayHold(nodes[m].kind, i, nodes[k].kind)
              /\ m \in all => nodes[m].kind = "let" /\ i = 1
<1>1. \A k \in Left : \E m \in Live : \E i \in 1 .. Len(nodes[m].kids) : Above(k, m, i)
  BY LeftBelow
<1>2. /\ Live \subseteq 1 .. Len(nodes) /\ Len(nodes) \in Nat /\ Len(nodes) >= 1
  BY LiveNow DEF IInv, Tree
<1>3. \A k \in Left : nodes[k].kind # "prog"
  <2>1. 1 \in all
    BY <1>2, ReleasedLeast DEF IInv
  <2>2. QED
    BY <1>2, <2>1 DEF IInv, Tree
<1>4. \A k \in Left : nodes[k].kind # "fn"
  BY <1>1, <1>3 DEF MayHold
<1>5. \A k \in Left : nodes[k].kind # "block"
  BY <1>1, <1>4 DEF MayHold
<1>6. \A k \in Left : nodes[k].kind \notin {"let", "ret"}
  BY <1>1, <1>5 DEF MayHold
<1> DEFINE Exprs == { k \in Left : nodes[k].kind \in {"binop", "const"} }
<1>7. Exprs = {}
  <2> SUFFICES ASSUME Exprs # {} PROVE FALSE
    OBVIOUS
  <2>1. PICK T : T = { j \in Nat : Len(nodes) - j \in Exprs }
    OBVIOUS
  <2>2. T \subseteq Nat /\ T # {}
    <3>1. PICK k \in Exprs : TRUE
      OBVIOUS
    <3>2. k \in 1 .. Len(nodes)
      BY <1>2
    <3>3. Len(nodes) - k \in Nat /\ Len(nodes) - (Len(nodes) - k) = k
      BY <1>2, <3>2
    <3>4. Len(nodes) - k \in T
      BY <2>1, <3>1, <3>3
    <3>5. QED
      BY <2>1, <3>4
  <2>3. PICK j \in T : \A l \in T : j <= l
    BY <2>2, LeastOfNat
  <2>4. PICK k : k = Len(nodes) - j
    OBVIOUS
  <2>5. k \in Exprs /\ k \in 1 .. Len(nodes) /\ j \in Nat
    BY <1>2, <2>1, <2>2, <2>3, <2>4
  <2>6. PICK m \in Live : \E i \in 1 .. Len(nodes[m].kids) : Above(k, m, i)
    BY <1>1, <2>5
  <2>7. PICK i \in 1 .. Len(nodes[m].kids) : Above(k, m, i)
    BY <2>6
  <2>8. nodes[m].kind \in {"let", "ret", "binop"} /\ (nodes[m].kind = "let" => i = 2)
    BY <2>5, <2>7 DEF MayHold
  <2>9. m \notin all
    BY <2>7, <2>8
  <2>10. m \in Exprs /\ nodes[m].kind = "binop"
    BY <1>6, <2>8, <2>9
  <2>11. k < m /\ m \in 1 .. Len(nodes)
    <3>1. m \in 1 .. Len(nodes)
      BY <1>2
    <3>2. nodes[m].kids[i] < m
      BY <2>10, <3>1 DEF IInv, Tree
    <3>3. QED
      BY <2>7, <3>1, <3>2
  <2>12. Len(nodes) - m \in Nat /\ Len(nodes) - (Len(nodes) - m) = m
         /\ ~ (j <= Len(nodes) - m)
    BY <1>2, <2>4, <2>5, <2>11
  <2>13. Len(nodes) - m \in T
    BY <2>1, <2>10, <2>12
  <2>14. QED
    BY <2>3, <2>12, <2>13
<1>8. \A k \in Left : nodes[k].kind = "type"
  <2> TAKE k \in Left
  <2>1. nodes[k].kind \in AstKind
    <3>1. nodes[k] \in Node
      BY <1>2 DEF IInv, Tree
    <3>2. QED
      BY <3>1 DEF Node
  <2>2. nodes[k].kind \notin {"binop", "const"}
    BY <1>7
  <2>3. QED
    BY <1>3, <1>4, <1>5, <1>6, <2>1, <2>2 DEF AstKind
<1>9. PICK m \in Live : \E i \in 1 .. Len(nodes[m].kids) : Above(n, m, i)
  BY <1>1
<1>10. PICK i \in 1 .. Len(nodes[m].kids) : Above(n, m, i)
  BY <1>9
<1>11. m \in all
  BY <1>8, <1>10 DEF MayHold
<1>12. QED
  BY <1>10, <1>11

\* main_compile_files releases the tree.
LEMMA ReleaseTreeKeeps ==
    ASSUME IInv, UNCHANGED <<toks, closed>>, ReleaseTree
    PROVE  IInv'
<1>1. /\ out = "parsed" /\ ReleaseAst(1, "released")
      /\ UNCHANGED <<idx, stack, val, nodes, errs>>
  BY DEF ReleaseTree
<1>2. PICK all : all = Released(1)
  OBVIOUS
<1>3. /\ out' \in {"crash", "released"}
      /\ out' = "released" => 0 \notin all /\ freed' = freed \cup all
      /\ out' = "crash" => UNCHANGED freed
  BY <1>1, <1>2 DEF ReleaseAst
<1>4. Len(nodes) \in Nat /\ Len(nodes) >= 1 /\ all \subseteq 0 .. Len(nodes)
  <2>1. Len(nodes) \in Nat /\ Len(nodes) >= 1
    BY DEF IInv, Tree
  <2>2. QED
    BY <1>2, <2>1, ReleasedLeast DEF IInv
<1>5. freed' \subseteq 1 .. Len(nodes)
  <2>1. freed \subseteq 1 .. Len(nodes)
    BY DEF IInv, Tree
  <2>2. 0 \notin all => all \subseteq 1 .. Len(nodes)
    BY <1>4
  <2>3. QED
    BY <1>3, <2>1, <2>2
<1>6. TokensTyped'
  BY <1>1, <1>3 DEF IInv, TokensTyped, Outcome
<1>7. Tree'
  BY <1>1, <1>5 DEF IInv, Tree, KindOf
<1>8. Frames'
  BY <1>1 DEF IInv, Frames, Fits, KindOf
<1>9. Begun' /\ Answer'
  BY <1>1 DEF IInv, Begun, Answer, Top, KindOf
<1>10. Owners' /\ Parsed'
  BY <1>3 DEF Owners, Parsed
<1>11. OnlyLetTypesLeak'
  <2>1. CASE out' = "crash"
    BY <2>1 DEF OnlyLetTypesLeak
  <2>2. CASE out' = "released"
    <3>1. Live' = Live \ all
      BY <1>1, <1>3, <2>2 DEF Live
    <3>2. \A n \in Live \ all : \E m \in all : nodes[m].kind = "let" /\ nodes[m].kids[1] = n
      BY <1>1, <1>2, <1>3, <2>2, LetTypesLeft
    <3>3. QED
      BY <1>1, <1>3, <2>2, <3>1, <3>2 DEF OnlyLetTypesLeak
  <2>3. QED
    BY <1>3, <2>1, <2>2
<1>12. QED
  BY <1>6, <1>7, <1>8, <1>9, <1>10, <1>11 DEF IInv

\* The leak check, the last step.
LEMMA CheckLeakKeeps ==
    ASSUME IInv, UNCHANGED <<toks, closed>>, CheckLeak
    PROVE  IInv'
<1>1. /\ out = "released" /\ out' \in {"exited", "leak"}
      /\ UNCHANGED <<idx, stack, val, nodes, freed, errs>>
  BY DEF CheckLeak, Heap
<1>2. TokensTyped'
  BY <1>1 DEF IInv, TokensTyped, Outcome
<1>3. Tree'
  BY <1>1 DEF IInv, Tree, KindOf
<1>4. Frames'
  BY <1>1 DEF IInv, Frames, Fits, KindOf
<1>5. Begun' /\ Answer'
  BY <1>1 DEF IInv, Begun, Answer, Top, KindOf
<1>6. Owners' /\ Parsed'
  BY <1>1 DEF Owners, Parsed
<1>7. OnlyLetTypesLeak'
  BY <1>1 DEF IInv, OnlyLetTypesLeak, Live
<1>8. QED
  BY <1>2, <1>3, <1>4, <1>5, <1>6, <1>7 DEF IInv
-----------------------------------------------------------------------------
(***************************************************************************)
(* The invariant is inductive                                              *)
(***************************************************************************)

\* Nothing is parsed yet.
LEMMA InitIInv == Init => IInv
<1> SUFFICES ASSUME Init PROVE IInv
  OBVIOUS
<1>1. /\ toks = <<>> /\ closed = FALSE /\ idx = 1 /\ val = 0 /\ freed = {}
      /\ errs = <<>> /\ out = "running"
  BY DEF Init
<1>2. PICK frame : frame = [at |-> "prog", node |-> 1, tok |-> 1]
  OBVIOUS
<1>3. /\ stack = <<frame>> /\ frame \in Frame
      /\ frame.at = "prog" /\ frame.node = 1 /\ frame.tok = 1
  BY <1>2 DEF Init, MakeFrame, Frame, Label, Looking
<1>4. PICK node : node = [kind |-> "prog", tok |-> 0, kids |-> <<>>]
  OBVIOUS
<1>5. /\ nodes = <<node>> /\ node \in Node
      /\ node.kind = "prog" /\ node.tok = 0 /\ node.kids = <<>>
  BY <1>4 DEF Init, MakeAst, Node, AstKind
<1>6. /\ Len(stack) = 1 /\ stack[1] = frame /\ Top = frame /\ stack \in Seq(Frame)
      /\ Len(nodes) = 1 /\ nodes[1] = node /\ nodes \in Seq(Node)
  BY <1>3, <1>5 DEF Top
<1>7. TokensTyped
  <2>1. /\ <<>> \in Seq(Tokens) /\ <<>> \in Seq(Nat) /\ Len(<<>>) = 0
        /\ \A i \in 1 .. 0 : FALSE
    OBVIOUS
  <2>2. 0 <= MaxToks /\ 1 \in 1 .. 0 + 1
    BY ParserAssumption
  <2>3. toks \in Seq(Tokens) /\ Len(toks) = 0 /\ errs \in Seq(Nat) /\ Len(errs) = 0
    BY <1>1, <2>1
  <2>4. QED
    BY <1>1, <2>1, <2>2, <2>3 DEF TokensTyped, Outcome
<1>8. Tree
  <2>1. Arity("prog", 0)
    BY DEF Arity
  <2>2. QED
    BY <1>1, <1>5, <1>6, <2>1 DEF Tree
<1>9. Frames
  <2>1. Fits(frame)
    BY <1>1, <1>3, <1>5, <1>6
       DEF Fits, Holds, KindOf, TypeUnset, BodyUnset, FnAt, LetAt
  <2>2. QED
    BY <1>3, <1>6, <2>1 DEF Frames
<1>10. Begun /\ Parsed /\ OnlyLetTypesLeak
  BY <1>1, <1>3, <1>6 DEF Begun, Parsed, OnlyLetTypesLeak
<1>11. Answer
  BY <1>1, <1>3, <1>6 DEF Answer, WaitsForNode
<1>12. Owners
  <2>1. Live = {1}
    BY <1>1, <1>6 DEF Live
  <2>2. \A d \in Nat : Roots[d] = IF d = 1 THEN 1 ELSE 0
    <3>1. HeldValue = 0
      BY <1>3, <1>6 DEF HeldValue, WaitsForNode
    <3>2. \A d \in Nat : d # 0 /\ d <= 1 => d = 1
      OBVIOUS
    <3>3. QED
      BY <1>3, <1>6, <3>1, <3>2 DEF Roots
  <2>3. \A i \in Nat : Kids[1][i] = 0
    BY <1>5, <1>6 DEF Kids
  <2>4. QED
    BY <2>1, <2>2, <2>3 DEF Owners, Owned, RootsOwn, KidsOwn, NoneLost
<1>13. QED
  BY <1>7, <1>8, <1>9, <1>10, <1>11, <1>12 DEF IInv

\* A step in which nothing changes.
LEMMA StutterKeeps ==
    ASSUME IInv, UNCHANGED vars
    PROVE  IInv'
<1>1. UNCHANGED <<toks, closed, idx, stack, val, nodes, freed, errs, out>>
  BY DEF vars
<1>2. TokensTyped' /\ Tree'
  BY <1>1 DEF IInv, TokensTyped, Tree, KindOf
<1>3. Frames'
  BY <1>1 DEF IInv, Frames, Fits, KindOf
<1>4. Begun' /\ Answer' /\ Parsed' /\ OnlyLetTypesLeak'
  BY <1>1 DEF IInv, Begun, Answer, Top, KindOf, Parsed, OnlyLetTypesLeak, Live
<1>5. Owners'
  <2>1. Live' = Live /\ Kids' = Kids
    BY <1>1 DEF Live, Kids
  <2>2. HeldValue' = HeldValue
    BY <1>1 DEF HeldValue, Top
  <2>3. Roots' = Roots
    BY <1>1, <2>2 DEF Roots
  <2>4. QED
    BY <1>1, <2>1, <2>3 DEF IInv, Owners, Owned, RootsOwn, KidsOwn, NoneLost
<1>6. QED
  BY <1>2, <1>3, <1>4, <1>5 DEF IInv

\* All of parse_expr and below.
LEMMA ExprKeeps ==
    ASSUME IInv, UNCHANGED <<toks, closed>>, ParseExpr
    PROVE  IInv'
<1>1. CASE ExprIf \/ ExprBlock \/ ExprTerm
  BY <1>1, ExprIfKeeps, ExprBlockKeeps, ExprTermKeeps
<1>2. CASE BottomConst \/ BottomStr \/ BottomNull
  BY <1>2, ExprIfKeeps, BottomConstKeeps, BottomNullKeeps
<1>3. CASE Factor
  <2>1. CASE Lhs("factor_lhs", "factor_op")
    BY <2>1, LhsKeeps
  <2>2. CASE Operator("factor_op", {"*", "/"}, "factor_rhs",
                      << MakeFrame("bottom", 0, 0) >>)
    BY <2>2, OperatorKeeps
  <2>3. CASE Rhs("factor_rhs", "factor_op")
    BY <2>3, RhsKeeps
  <2>4. CASE RhsMissing("factor_rhs")
    BY <2>4, RhsMissingKeeps
  <2>5. QED
    BY <1>3, <2>1, <2>2, <2>3, <2>4 DEF Factor
<1>4. CASE Term
  <2>1. CASE Lhs("term_lhs", "term_op")
    BY <2>1, LhsKeeps
  <2>2. CASE Operator("term_op", {"+", "-"}, "term_rhs", FactorFrames)
    BY <2>2, OperatorKeeps
  <2>3. CASE Rhs("term_rhs", "term_op")
    BY <2>3, RhsKeeps
  <2>4. CASE RhsMissing("term_rhs")
    BY <2>4, RhsMissingKeeps
  <2>5. QED
    BY <1>4, <2>1, <2>2, <2>3, <2>4 DEF Term
<1>5. QED
  BY <1>1, <1>2, <1>3, <1>4 DEF ParseExpr

\* One step per action; what looks no further than at a token is in the
\* lemmas above.
LEMMA NextIInv ==
    ASSUME IInv, [Next]_vars
    PROVE  IInv'
<1>1. CASE Feed
  BY <1>1, FeedKeeps
<1>2. CASE Parse /\ UNCHANGED <<toks, closed>>
  <2>1. CASE ParseProg
    BY <1>2, <2>1, ProgFnKeeps, ProgFnDoneKeeps, ProgUnknownKeeps, ProgEndKeeps,
       PanicStep DEF ParseProg, ProgDecl, On
  <2>2. CASE ParseFn
    BY <1>2, <2>2, FnNameKeeps, FnLparenKeeps, FnNoParamsKeeps, FnParamKeeps,
       FnCommaKeeps, FnRparenKeeps, FnRetKeeps, FnRetArrowKeeps, FnRetTypeKeeps,
       FnBodyKeeps, FnEndKeeps DEF ParseFn
  <2>3. CASE ParseBlock
    BY <1>2, <2>3, BlockKeeps, BlockStmtKeeps, BlockStmtDoneKeeps,
       BlockLoopEndKeeps, BlockEndKeeps DEF ParseBlock
  <2>4. CASE ParseStmt
    BY <1>2, <2>4, StmtLetKeeps, LetNameKeeps, LetColonKeeps, LetTypeKeeps,
       LetEndKeeps, LetAssignKeeps, LetExprKeeps, StmtRetKeeps, RetExprKeeps,
       RetSemiKeeps, StmtExprKeeps, StmtExprDoneKeeps DEF ParseStmt
  <2>5. CASE ParseExpr
    BY <1>2, <2>5, ExprKeeps
  <2>6. CASE ParseType
    BY <1>2, <2>6, TypeKeeps, TypeDoneKeeps, AuxNameKeeps, AuxArrayKeeps,
       ArrayElemKeeps, ArraySemiKeeps, ArrayLenKeeps, ArrayEndKeeps, PtrKeeps
       DEF ParseType
  <2>7. CASE ConsumeWhitespace \/ LookAtNull
    BY <1>2, <2>7, ConsumeWhitespaceKeeps, LookAtNullKeeps
  <2>8. CASE ReleaseTree \/ CheckLeak
    BY <1>2, <2>8, ReleaseTreeKeeps, CheckLeakKeeps
  <2>9. QED
    BY <1>2, <2>1, <2>2, <2>3, <2>4, <2>5, <2>6, <2>7, <2>8 DEF Parse
<1>3. CASE UNCHANGED vars
  BY <1>3, StutterKeeps
<1>4. QED
  BY <1>1, <1>2, <1>3 DEF Next
-----------------------------------------------------------------------------
(***************************************************************************)
(* What follows from it                                                    *)
(***************************************************************************)

\* The invariant has the types.
LEMMA IInvTypeOK == IInv => TypeOK
<1> SUFFICES ASSUME IInv PROVE TypeOK
  OBVIOUS
<1>1. /\ toks \in Seq(Tokens) /\ Len(toks) <= MaxToks
      /\ closed \in BOOLEAN /\ idx \in 1 .. Len(toks) + 1
      /\ out \in Outcome /\ val \in 0 .. Len(nodes)
      /\ \A i \in 1 .. Len(errs) : errs[i] \in 1 .. Len(toks)
      /\ freed \subseteq 1 .. Len(nodes)
  BY DEF IInv, TokensTyped, Answer, Tree
<1>2. ASSUME NEW n \in 1 .. Len(nodes)
      PROVE  /\ nodes[n].kind \in AstKind
             /\ nodes[n].tok \in 0 .. Len(toks)
             /\ Arity(nodes[n].kind, Len(nodes[n].kids))
             /\ \A i \in 1 .. Len(nodes[n].kids) :
                   nodes[n].kids[i] \in 0 .. Len(nodes)
  <2>1. /\ nodes[n] \in Node /\ nodes[n].tok <= Len(toks) /\ Len(nodes) \in Nat
        /\ Arity(nodes[n].kind, Len(nodes[n].kids))
        /\ \A i \in 1 .. Len(nodes[n].kids) : nodes[n].kids[i] <= Len(nodes)
    BY DEF IInv, Tree
  <2>2. /\ nodes[n].kind \in AstKind /\ nodes[n].tok \in Nat
        /\ nodes[n].kids \in Seq(Nat)
    BY <2>1 DEF Node
  <2>3. nodes[n].tok \in 0 .. Len(toks)
    BY <1>1, <2>1, <2>2
  <2>4. \A i \in 1 .. Len(nodes[n].kids) : nodes[n].kids[i] \in 0 .. Len(nodes)
    BY <2>1, <2>2
  <2>5. QED
    BY <2>1, <2>2, <2>3, <2>4
<1>3. Len(stack) \in Nat /\ Len(stack) >= 1 /\ stack \in Seq(Frame) /\ stack # <<>>
  BY DEF IInv, Frames
<1>4. ASSUME NEW d \in 1 .. Len(stack)
      PROVE  /\ stack[d].at \in (IF d = Len(stack) THEN Looking ELSE {}) \cup Waiting
                                \cup {"fn_param"}
             /\ stack[d].node \in 0 .. Len(nodes)
             /\ stack[d].tok \in 0 .. Len(toks) + 1
  <2>1. stack[d] \in Frame /\ Fits(stack[d])
    BY DEF IInv, Frames
  <2>2. stack[d].node \in 0 .. Len(nodes) /\ stack[d].tok \in 0 .. Len(toks) + 1
    <3>1. /\ stack[d].node \in Nat /\ stack[d].tok \in Nat
          /\ stack[d].node <= Len(nodes) /\ stack[d].tok <= idx
          /\ Len(nodes) \in Nat /\ Len(toks) \in Nat
      BY <1>1, <2>1 DEF Fits, Frame, IInv, Tree
    <3>2. QED
      BY <1>1, <3>1
  <2>3. CASE d = Len(stack)
    BY <2>1, <2>2, <2>3 DEF Frame, Label
  <2>4. CASE d # Len(stack)
    <3>1. d \in 1 .. Len(stack) - 1
      BY <1>3, <2>4
    <3>2. Calls(stack[d].at, stack[d + 1].at)
      BY <3>1 DEF IInv, Frames
    <3>3. stack[d].at \in Waiting
      BY <3>2 DEF Calls, Waiting, WaitsForNode, WaitsForType, ExprCaller, TypeCaller
    <3>4. QED
      BY <2>2, <3>3
  <2>5. QED
    BY <2>3, <2>4
<1>5. QED
  BY <1>1, <1>2, <1>3, <1>4 DEF TypeOK

\* The token at which a statement begins is behind when it is done.
LEMMA IInvAdvance == IInv => StatementsAdvance
<1> SUFFICES ASSUME IInv, Top.at = "block_stmt"
             PROVE  Top.tok < idx /\ AstIsStmt(val)
  BY DEF StatementsAdvance
<1>1. Len(stack) \in 1 .. Len(stack) /\ Len(stack) \in Nat
  BY DEF IInv, Frames
<1>2. Top.tok < idx
  BY <1>1 DEF IInv, Begun, Top
<1>3. Given("block_stmt", KindOf(val))
  BY DEF IInv, Answer, WaitsForNode
<1>4. AstIsStmt(val)
  BY <1>3 DEF Given, AstIsStmt, ExprCaller, TypeCaller
<1>5. QED
  BY <1>2, <1>4

\* What a holder holds tells the holder.
LEMMA IInvOwned == IInv => HeapOwned
<1> SUFFICES ASSUME IInv, out \in {"running", "parsed"},
                    NEW holders, holders = { h \in Holders : h[3] # 0 }
             PROVE  /\ { h[3] : h \in holders } = Live
                    /\ Cardinality(holders) = Cardinality(Live)
  BY DEF HeapOwned
<1>1. Owned(Live, Kids, Roots) /\ 0 \notin Live /\ Live \subseteq 1 .. Len(nodes)
      /\ Len(nodes) \in Nat
  BY LiveNow DEF IInv, Owners
<1>2. Len(stack) \in Nat /\ Len(stack) >= 1 /\ stack \in Seq(Frame)
  BY DEF IInv, Frames
<1>3. /\ Roots[0] = HeldValue
      /\ \A d \in 1 .. Len(stack) : Roots[d] = stack[d].node
      /\ \A d \in Nat : d > Len(stack) => Roots[d] = 0
  BY <1>2, RootsNow
<1>4. \A n \in Live : \A i \in Nat :
         Kids[n][i] = IF i \in 1 .. Len(nodes[n].kids) THEN nodes[n].kids[i] ELSE 0
  BY <1>1 DEF Kids
<1>5. \A n \in Live : DOMAIN nodes[n].kids = 1 .. Len(nodes[n].kids)
  <2> TAKE n \in Live
  <2>1. nodes[n] \in Node
    BY <1>1 DEF IInv, Tree
  <2>2. QED
    BY <2>1 DEF Node
<1>6. \A h : h \in Holders <=>
          \/ \E n \in Live : \E i \in DOMAIN nodes[n].kids : h = <<n, i, nodes[n].kids[i]>>
          \/ \E d \in DOMAIN stack : h = <<0, d, stack[d].node>>
          \/ Top.at \in WaitsForNode /\ h = <<0, 0, val>>
  <2> DEFINE Of(n) == { <<n, i, nodes[n].kids[i]>> : i \in DOMAIN nodes[n].kids }
             OfNodes == UNION { Of(n) : n \in Live }
             OfFrames == { <<0, d, stack[d].node>> : d \in DOMAIN stack }
             OfValue == IF Top.at \in WaitsForNode THEN { <<0, 0, val>> } ELSE {}
  <2>1. \A n, h : h \in Of(n) <=>
           \E i \in DOMAIN nodes[n].kids : h = <<n, i, nodes[n].kids[i]>>
    OBVIOUS
  <2>2. \A h : h \in OfFrames <=> \E d \in DOMAIN stack : h = <<0, d, stack[d].node>>
    BY Zenon
  <2>3. \A h : h \in OfValue <=> Top.at \in WaitsForNode /\ h = <<0, 0, val>>
    BY Zenon
  <2>4. Holders = OfNodes \cup OfFrames \cup OfValue
    BY DEF Holders
  <2> HIDE DEF Of
  <2>5. \A h : h \in OfNodes <=> \E n \in Live : h \in Of(n)
    BY SMT
  <2> HIDE DEF OfNodes, OfFrames, OfValue
  <2>6. \A h : h \in Holders <=> h \in OfNodes \/ h \in OfFrames \/ h \in OfValue
    BY <2>4
  <2>7. \A h : h \in OfNodes <=>
           \E n \in Live : \E i \in DOMAIN nodes[n].kids : h = <<n, i, nodes[n].kids[i]>>
    BY <2>1, <2>5
  <2>8. QED
    BY <2>2, <2>3, <2>6, <2>7
<1> DEFINE Child(h) == \E n \in Live : \E i \in Nat :
              h = <<n, i, Kids[n][i]>> /\ Kids[n][i] # 0
           Root(h) == \E d \in Nat : h = <<0, d, Roots[d]>> /\ Roots[d] # 0
<1>7. \A h \in holders : Child(h) \/ Root(h)
  <2> SUFFICES ASSUME NEW h \in Holders, h[3] # 0
               PROVE  Child(h) \/ Root(h)
    OBVIOUS
  <2>1. CASE \E n \in Live : \E i \in DOMAIN nodes[n].kids : h = <<n, i, nodes[n].kids[i]>>
    <3>1. PICK n \in Live : \E i \in DOMAIN nodes[n].kids : h = <<n, i, nodes[n].kids[i]>>
      BY <2>1
    <3>2. PICK i \in 1 .. Len(nodes[n].kids) : h = <<n, i, nodes[n].kids[i]>>
      BY <1>5, <3>1
    <3>3. i \in Nat /\ Kids[n][i] = nodes[n].kids[i]
      BY <1>4
    <3>4. QED
      BY <3>2, <3>3
  <2>2. CASE \E d \in DOMAIN stack : h = <<0, d, stack[d].node>>
    <3>1. PICK d \in 1 .. Len(stack) : h = <<0, d, stack[d].node>>
      BY <1>2, <2>2
    <3>2. d \in Nat /\ Roots[d] = stack[d].node
      BY <1>2, <1>3
    <3>3. QED
      BY <3>1, <3>2
  <2>3. CASE Top.at \in WaitsForNode /\ h = <<0, 0, val>>
    BY <1>3, <2>3 DEF HeldValue
  <2>4. QED
    BY <1>6, <2>1, <2>2, <2>3
<1>8. \A h : Child(h) \/ Root(h) => h \in holders
  <2>1. ASSUME NEW n \in Live, NEW i \in Nat, Kids[n][i] # 0
        PROVE  <<n, i, Kids[n][i]>> \in holders
    <3>1. i \in DOMAIN nodes[n].kids /\ Kids[n][i] = nodes[n].kids[i]
      BY <1>4, <1>5, <2>1
    <3>2. <<n, i, Kids[n][i]>> \in Holders
      BY <1>6, <3>1
    <3>3. QED
      BY <2>1, <3>2
  <2>2. ASSUME NEW d \in Nat, Roots[d] # 0
        PROVE  <<0, d, Roots[d]>> \in holders
    <3>1. CASE d = 0
      <4>1. Top.at \in WaitsForNode /\ Roots[d] = val
        BY <1>3, <2>2, <3>1 DEF HeldValue
      <4>2. <<0, d, Roots[d]>> \in Holders
        BY <1>6, <3>1, <4>1
      <4>3. QED
        BY <2>2, <4>2
    <3>2. CASE d # 0
      <4>1. d \in 1 .. Len(stack)
        BY <1>2, <1>3, <2>2, <3>2
      <4>2. d \in DOMAIN stack /\ Roots[d] = stack[d].node
        BY <1>2, <1>3, <4>1
      <4>3. <<0, d, Roots[d]>> \in Holders
        BY <1>6, <4>2
      <4>4. QED
        BY <2>2, <4>3
    <3>3. QED
      BY <3>1, <3>2
  <2>3. QED
    BY <2>1, <2>2
<1>9. \A h \in holders : h[3] \in Live
  BY <1>1, <1>7 DEF Owned, RootsOwn, KidsOwn
<1>10. \A n \in Live : \E h \in holders : h[3] = n
  <2> TAKE n \in Live
  <2>1. CASE \E d \in Nat : Roots[d] = n
    <3>1. PICK d \in Nat : Roots[d] = n
      BY <2>1
    <3>2. <<0, d, Roots[d]>> \in holders
      BY <1>1, <1>8, <3>1
    <3>3. QED
      BY <3>1, <3>2
  <2>2. CASE \E m \in Live : \E i \in Nat : Kids[m][i] = n
    <3>1. PICK m \in Live, i \in Nat : Kids[m][i] = n
      BY <2>2
    <3>2. <<m, i, Kids[m][i]>> \in holders
      BY <1>1, <1>8, <3>1
    <3>3. QED
      BY <3>1, <3>2
  <2>3. QED
    BY <1>1, <2>1, <2>2 DEF Owned, NoneLost
<1>11. ASSUME NEW g \in holders, NEW h \in holders, g[3] = h[3]
       PROVE  g = h
  <2>1. CASE Root(g) /\ Root(h)
    <3>1. PICK d \in Nat : g = <<0, d, Roots[d]>> /\ Roots[d] # 0
      BY <2>1
    <3>2. PICK e \in Nat : h = <<0, e, Roots[e]>> /\ Roots[e] # 0
      BY <2>1
    <3>3. d = e
      BY <1>1, <1>11, <3>1, <3>2 DEF Owned, RootsOwn
    <3>4. QED
      BY <3>1, <3>2, <3>3
  <2>2. CASE Child(g) /\ Child(h)
    <3>1. PICK n \in Live, i \in Nat : g = <<n, i, Kids[n][i]>> /\ Kids[n][i] # 0
      BY <2>2
    <3>2. PICK m \in Live, j \in Nat : h = <<m, j, Kids[m][j]>> /\ Kids[m][j] # 0
      BY <2>2
    <3>3. n = m /\ i = j
      BY <1>1, <1>11, <3>1, <3>2 DEF Owned, KidsOwn
    <3>4. QED
      BY <3>1, <3>2, <3>3
  <2>3. CASE (Root(g) /\ Child(h)) \/ (Child(g) /\ Root(h))
    BY <1>1, <1>11, <2>3 DEF Owned, KidsOwn
  <2>4. QED
    BY <1>7, <2>1, <2>2, <2>3
<1>12. ExistsBijection(holders, Live)
  <2>1. PICK f : f = [h \in holders |-> h[3]]
    OBVIOUS
  <2>2. /\ f \in [holders -> Live]
        /\ \A g, h \in holders : f[g] = f[h] => g = h
        /\ \A n \in Live : \E h \in holders : f[h] = n
    BY <1>9, <1>10, <1>11, <2>1
  <2>3. f \in Bijection(holders, Live)
    BY <2>2, Fun_IsBij
  <2>4. QED
    BY <2>3, Fun_ExistsBij
<1>13. Cardinality(holders) = Cardinality(Live)
  <2>1. IsFiniteSet(Live)
    <3>1. IsFiniteSet(1 .. Len(nodes))
      BY <1>1, FS_Interval
    <3>2. QED
      BY <1>1, <3>1, FS_Subset
  <2>2. QED
    BY <1>12, <2>1, Fun_ExistsBijSymmetric, FS_Bijection
<1>14. QED
  BY <1>9, <1>10, <1>13

\* The invariant, for every set of tokens and every bound.
LEMMA AlwaysIInv == Spec => []IInv
BY InitIInv, NextIInv, PTL DEF Spec

\* The parser keeps the types of its tokens, frames and nodes, and no function
\* looks at a token before the one it has called returns.
THEOREM ParserTypeCorrect == Spec => []TypeOK
BY AlwaysIInv, IInvTypeOK, PTL

\* Until the tree is given up, every node has exactly one owner: parser.c
\* loses none and releases none it still uses.
THEOREM AlwaysOwned == Spec => []HeapOwned
BY AlwaysIInv, IInvOwned, PTL

\* The two checks parse_block makes of a statement never fail.
THEOREM AlwaysAdvance == Spec => []StatementsAdvance
BY AlwaysIInv, IInvAdvance, PTL

\* The types of let-statements are all that main_compile_files ever leaks.
THEOREM LetTypesLeakOnly == Spec => []OnlyLetTypesLeak
<1>1. IInv => OnlyLetTypesLeak
  BY DEF IInv
<1>2. QED
  BY AlwaysIInv, <1>1, PTL
-----------------------------------------------------------------------------
(***************************************************************************)
(* The shape of expressions: what parse_expr_term and parse_expr_factor    *)
(* build is, for every set of tokens and every bound, the tree that the    *)
(* places and the precedence of the operators ask for.                     *)
(***************************************************************************)

Operands == {"binop", "const"}

RhsAt == {"factor_rhs", "term_rhs"}

\* Where a function has built a part of an expression, and where it waits for
\* an operand.
OpAt == RhsAt \cup {"factor_op", "term_op"}

OperandAt == RhsAt \cup {"factor_lhs", "term_lhs"}

OpsAt(at) == IF at = "factor_rhs" THEN {"*", "/"} ELSE {"+", "-"}

\* All of the expression n is made of tokens after lo and before hi.
Lies(ns, n, lo, hi) ==
    \E S \in SUBSET (1 .. Len(ns)) :
        /\ n \in S
        /\ \A m \in S : /\ ns[m].kind \in Operands
                        /\ lo < ns[m].tok /\ ns[m].tok < hi
                        /\ \A i \in 1 .. Len(ns[m].kids) : ns[m].kids[i] \in S

LevelOf(ns, ts, n) ==
    IF ns[n].kind = "const" THEN 2
    ELSE IF ts[ns[n].tok] \in {"*", "/"} THEN 1 ELSE 0

Shaped(ns, ts, n) ==
    /\ Lies(ns, ns[n].kids[1], 0, ns[n].tok)
    /\ Lies(ns, ns[n].kids[2], ns[n].tok, Len(ts) + 1)
    /\ LevelOf(ns, ts, ns[n].kids[1]) >= LevelOf(ns, ts, n)
    /\ LevelOf(ns, ts, ns[n].kids[2]) > LevelOf(ns, ts, n)

\* The operator whose right operand the frame d parses, or 0.
After(st, d) == IF d > 1 /\ st[d - 1].at \in RhsAt THEN st[d - 1].tok ELSE 0

\* What a function has built so far lies between the operator it parses an
\* operand of and the token it is at; '*' and '/' are all that a factor has.
Built(ns, ts, st, i, d) ==
    st[d].at \in OpAt =>
        /\ Lies(ns, st[d].node, After(st, d), IF st[d].at \in RhsAt THEN st[d].tok ELSE i)
        /\ st[d].at \in FactorAt => LevelOf(ns, ts, st[d].node) >= 1
        /\ st[d].at \in RhsAt => /\ After(st, d) < st[d].tok
                                 /\ st[d].tok \in 1 .. Len(ts)
                                 /\ ts[st[d].tok] \in OpsAt(st[d].at)

\* So does the operand a function is given.
Floor(st, d) == IF st[d].at \in RhsAt THEN st[d].tok ELSE After(st, d)

Operand(ns, ts, st, i, v) ==
    st[Len(st)].at \in OperandAt /\ v # 0 =>
        /\ Lies(ns, v, Floor(st, Len(st)), i)
        /\ st[Len(st)].at \in TermAt => LevelOf(ns, ts, v) >= 1

ShapeInv ==
    /\ \A n \in 1 .. Len(nodes) : nodes[n].kind = "binop" => Shaped(nodes, toks, n)
    /\ \A d \in 1 .. Len(stack) : Built(nodes, toks, stack, idx, d)
    /\ Operand(nodes, toks, stack, idx, val)
-----------------------------------------------------------------------------
(***************************************************************************)
(* Trees that grow                                                         *)
(***************************************************************************)

\* Later nodes and tokens: operators and constants stay as they are.
Grown(ns, ns2, ts, ts2) ==
    /\ Len(ns) \in Nat /\ Len(ns2) \in Nat /\ Len(ns) <= Len(ns2)
    /\ \A m \in 1 .. Len(ns) : ns[m].tok \in Nat /\ ns[m].tok <= Len(ts)
    /\ \A m \in 1 .. Len(ns) : ns[m].kind \in Operands => ns2[m] = ns[m]
    /\ Len(ts) \in Nat /\ Len(ts2) \in Nat /\ Len(ts) <= Len(ts2)
    /\ \A i \in 1 .. Len(ts) : ts2[i] = ts[i]

\* An expression that lies somewhere is a node there.
LEMMA LiesNode ==
    ASSUME NEW ns, NEW n, NEW lo \in Nat, NEW hi \in Nat, Lies(ns, n, lo, hi)
    PROVE  /\ n \in 1 .. Len(ns) /\ ns[n].kind \in Operands
           /\ lo < ns[n].tok /\ ns[n].tok < hi
BY DEF Lies

\* What lies somewhere still does, in wider bounds too.
LEMMA LiesGrown ==
    ASSUME NEW ns, NEW ns2, NEW ts, NEW ts2, Grown(ns, ns2, ts, ts2),
           NEW n, NEW lo \in Nat, NEW hi \in Nat, NEW lo2 \in Nat, NEW hi2 \in Nat,
           Lies(ns, n, lo, hi), lo2 <= lo, hi <= hi2
    PROVE  Lies(ns2, n, lo2, hi2)
<1>1. PICK S \in SUBSET (1 .. Len(ns)) :
        /\ n \in S
        /\ \A m \in S : /\ ns[m].kind \in Operands
                        /\ lo < ns[m].tok /\ ns[m].tok < hi
                        /\ \A i \in 1 .. Len(ns[m].kids) : ns[m].kids[i] \in S
  BY DEF Lies
<1>2. \A m \in S : /\ ns2[m] = ns[m] /\ m \in 1 .. Len(ns2)
                   /\ ns[m].tok \in Nat
  BY <1>1 DEF Grown
<1>3. \A m \in S : lo2 < ns2[m].tok /\ ns2[m].tok < hi2
  BY <1>1, <1>2
<1>4. S \in SUBSET (1 .. Len(ns2))
  BY <1>2
<1>5. QED
  BY <1>1, <1>2, <1>3, <1>4 DEF Lies

\* The level of an operator that has a token stays.
LEMMA LevelGrown ==
    ASSUME NEW ns, NEW ns2, NEW ts, NEW ts2, Grown(ns, ns2, ts, ts2),
           NEW n, NEW lo \in Nat, NEW hi \in Nat, Lies(ns, n, lo, hi)
    PROVE  /\ LevelOf(ns2, ts2, n) = LevelOf(ns, ts, n)
           /\ LevelOf(ns, ts, n) \in 0 .. 2
<1>1. /\ n \in 1 .. Len(ns) /\ ns[n].kind \in Operands
      /\ lo < ns[n].tok
  BY LiesNode
<1>2. ns2[n] = ns[n] /\ ns[n].tok \in 1 .. Len(ts)
  BY <1>1 DEF Grown
<1>3. ts2[ns[n].tok] = ts[ns[n].tok]
  BY <1>2 DEF Grown
<1>4. QED
  BY <1>2, <1>3 DEF LevelOf

\* Two operands and the operator between them.
LEMMA LiesMade ==
    ASSUME NEW ns, NEW z \in 1 .. Len(ns), NEW x, NEW y,
           NEW lo \in Nat, NEW t \in Nat, NEW hi \in Nat, lo < t, t < hi,
           ns[z].kind = "binop", ns[z].tok = t, ns[z].kids = <<x, y>>,
           Lies(ns, x, lo, t), Lies(ns, y, t, hi),
           \A m \in 1 .. Len(ns) : ns[m].tok \in Nat
    PROVE  Lies(ns, z, lo, hi)
<1>1. PICK S \in SUBSET (1 .. Len(ns)) :
        /\ x \in S
        /\ \A m \in S : /\ ns[m].kind \in Operands
                        /\ lo < ns[m].tok /\ ns[m].tok < t
                        /\ \A i \in 1 .. Len(ns[m].kids) : ns[m].kids[i] \in S
  BY DEF Lies
<1>2. PICK T \in SUBSET (1 .. Len(ns)) :
        /\ y \in T
        /\ \A m \in T : /\ ns[m].kind \in Operands
                        /\ t < ns[m].tok /\ ns[m].tok < hi
                        /\ \A i \in 1 .. Len(ns[m].kids) : ns[m].kids[i] \in T
  BY DEF Lies
<1> DEFINE U == S \cup T \cup {z}
<1>3. ASSUME NEW m \in U
      PROVE  /\ ns[m].kind \in Operands
             /\ lo < ns[m].tok /\ ns[m].tok < hi
             /\ \A i \in 1 .. Len(ns[m].kids) : ns[m].kids[i] \in U
  <2>1. CASE m \in S
    BY <1>1, <2>1
  <2>2. CASE m \in T
    BY <1>2, <2>2
  <2>3. CASE m = z
    <3>1. \A i \in 1 .. Len(ns[m].kids) : ns[m].kids[i] \in {x, y}
      BY <2>3
    <3>2. QED
      BY <1>1, <1>2, <2>3, <3>1 DEF Operands
  <2>4. QED
    BY <2>1, <2>2, <2>3
<1>4. U \in SUBSET (1 .. Len(ns)) /\ z \in U
  OBVIOUS
<1> HIDE DEF U
<1>5. QED
  BY <1>3, <1>4 DEF Lies

\* An operator has the shape it has.
LEMMA ShapedGrown ==
    ASSUME NEW ns, NEW ns2, NEW ts, NEW ts2, Grown(ns, ns2, ts, ts2),
           NEW n \in 1 .. Len(ns), ns[n].kind = "binop", Shaped(ns, ts, n)
    PROVE  Shaped(ns2, ts2, n)
<1>1. ns2[n] = ns[n] /\ ns[n].tok \in Nat
  BY DEF Grown, Operands
<1>2. Len(ts) + 1 \in Nat /\ Len(ts2) + 1 \in Nat /\ Len(ts) + 1 <= Len(ts2) + 1
  BY DEF Grown
<1>3. /\ Lies(ns2, ns[n].kids[1], 0, ns[n].tok)
      /\ LevelOf(ns2, ts2, ns[n].kids[1]) = LevelOf(ns, ts, ns[n].kids[1])
      /\ 0 < ns[n].tok
  <2>1. Lies(ns, ns[n].kids[1], 0, ns[n].tok)
    BY DEF Shaped
  <2>2. PICK x : x = ns[n].kids[1]
    OBVIOUS
  <2>3. x \in 1 .. Len(ns) /\ 0 < ns[x].tok /\ ns[x].tok < ns[n].tok
    BY <1>1, <2>1, <2>2, LiesNode
  <2>4. 0 < ns[n].tok
    BY <1>1, <2>3 DEF Grown
  <2>5. QED
    BY <1>1, <2>1, <2>4, LiesGrown, LevelGrown
<1>4. /\ Lies(ns2, ns[n].kids[2], ns[n].tok, Len(ts2) + 1)
      /\ LevelOf(ns2, ts2, ns[n].kids[2]) = LevelOf(ns, ts, ns[n].kids[2])
  <2>1. Lies(ns, ns[n].kids[2], ns[n].tok, Len(ts) + 1)
    BY DEF Shaped
  <2>2. QED
    BY <1>1, <1>2, <2>1, LiesGrown, LevelGrown
<1>5. LevelOf(ns2, ts2, n) = LevelOf(ns, ts, n)
  <2>1. ns[n].tok \in 1 .. Len(ts)
    BY <1>1, <1>3 DEF Grown
  <2>2. ts2[ns[n].tok] = ts[ns[n].tok]
    BY <2>1 DEF Grown
  <2>3. QED
    BY <1>1, <2>2 DEF LevelOf
<1>6. QED
  BY <1>1, <1>3, <1>4, <1>5 DEF Shaped
-----------------------------------------------------------------------------
(***************************************************************************)
(* What a step leaves as it is                                             *)
(***************************************************************************)

\* What the invariant says of the numbers.
LEMMA Numbers ==
    ASSUME IInv
    PROVE  /\ stack \in Seq(Frame) /\ Len(stack) \in Nat /\ Len(stack) >= 1
           /\ \A d \in 1 .. Len(stack) : stack[d] \in Frame /\ stack[d].tok \in Nat
           /\ Len(nodes) \in Nat /\ Len(toks) \in Nat /\ idx \in Nat
           /\ nodes \in Seq(Node) /\ toks \in Seq(Tokens)
           /\ idx \in 1 .. Len(toks) + 1
           /\ \A m \in 1 .. Len(nodes) : /\ nodes[m].tok \in Nat
                                         /\ nodes[m].tok <= Len(toks)
<1>1. /\ stack \in Seq(Frame) /\ Len(stack) \in Nat /\ Len(stack) >= 1
      /\ nodes \in Seq(Node) /\ toks \in Seq(Tokens)
      /\ idx \in 1 .. Len(toks) + 1
  BY DEF IInv, Frames, Tree, TokensTyped
<1>2. \A d \in 1 .. Len(stack) : stack[d] \in Frame /\ stack[d].tok \in Nat
  <2> TAKE d \in 1 .. Len(stack)
  <2>1. stack[d] \in Frame
    BY <1>1
  <2>2. QED
    BY <2>1 DEF Frame
<1>3. Len(nodes) \in Nat /\ Len(toks) \in Nat /\ idx \in Nat
  BY <1>1
<1>4. \A m \in 1 .. Len(nodes) : nodes[m].tok \in Nat /\ nodes[m].tok <= Len(toks)
  <2> TAKE m \in 1 .. Len(nodes)
  <2>1. nodes[m] \in Node
    BY <1>1
  <2>2. QED
    BY <2>1 DEF Node, IInv, Tree
<1>5. QED
  BY <1>1, <1>2, <1>3, <1>4

\* The places of operators are tokens, or 0.
LEMMA AfterNat ==
    ASSUME IInv, NEW d \in 1 .. Len(stack)
    PROVE  After(stack, d) \in Nat /\ Floor(stack, d) \in Nat
<1>1. /\ \A e \in 1 .. Len(stack) : stack[e].tok \in Nat
      /\ d > 1 => d - 1 \in 1 .. Len(stack)
  BY Numbers
<1>2. QED
  BY <1>1 DEF After, Floor

\* A frame that is where it was, on the one it was on, has what it had.
LEMMA BuiltGrown ==
    ASSUME IInv, NEW ns, NEW ts, NEW st, NEW i \in Nat, idx <= i,
           Grown(nodes, ns, toks, ts),
           NEW d \in 1 .. Len(stack), st[d] = stack[d],
           d > 1 => st[d - 1] = stack[d - 1],
           Built(nodes, toks, stack, idx, d)
    PROVE  Built(ns, ts, st, i, d)
<1> SUFFICES ASSUME stack[d].at \in OpAt
             PROVE  Built(ns, ts, st, i, d)
  BY DEF Built
<1>1. PICK a \in Nat, n, t \in Nat :
        a = After(stack, d) /\ n = stack[d].node /\ t = stack[d].tok
  <2>1. After(stack, d) \in Nat
    BY AfterNat
  <2>2. stack[d].tok \in Nat /\ stack[d].node \in Nat
    BY Numbers DEF Frame
  <2>3. QED
    BY <2>1, <2>2, Zenon
<1>2. After(st, d) = a
  BY <1>1 DEF After
<1>3. PICK hi \in Nat : hi = IF stack[d].at \in RhsAt THEN t ELSE idx
  BY <1>1, Numbers
<1>4. PICK hi2 \in Nat : hi2 = IF stack[d].at \in RhsAt THEN t ELSE i
  BY <1>1
<1>5. hi <= hi2
  BY <1>1, <1>3, <1>4, Numbers
<1>6. Lies(nodes, n, a, hi)
  BY <1>1, <1>3 DEF Built
<1>7. /\ Lies(ns, n, a, hi2)
      /\ LevelOf(ns, ts, n) = LevelOf(nodes, toks, n)
  BY <1>5, <1>6, LiesGrown, LevelGrown
<1>8. stack[d].at \in RhsAt => /\ a < t /\ t \in 1 .. Len(ts)
                               /\ ts[t] \in OpsAt(stack[d].at)
  <2>1. stack[d].at \in RhsAt => /\ a < t /\ t \in 1 .. Len(toks)
                                 /\ toks[t] \in OpsAt(stack[d].at)
    BY <1>1 DEF Built
  <2>2. QED
    BY <2>1 DEF Grown
<1>9. stack[d].at \in FactorAt => LevelOf(ns, ts, n) >= 1
  BY <1>1, <1>7 DEF Built
<1>10. QED
  BY <1>1, <1>2, <1>4, <1>7, <1>8, <1>9 DEF Built

\* So does the running function, if it is still the same.
LEMMA OperandGrown ==
    ASSUME IInv, NEW ns, NEW ts, NEW i \in Nat, idx <= i,
           Grown(nodes, ns, toks, ts),
           Operand(nodes, toks, stack, idx, val)
    PROVE  Operand(ns, ts, stack, i, val)
<1> SUFFICES ASSUME stack[Len(stack)].at \in OperandAt, val # 0
             PROVE  Operand(ns, ts, stack, i, val)
  BY DEF Operand
<1>1. Len(stack) \in 1 .. Len(stack) /\ idx \in Nat
  BY Numbers
<1>2. PICK a \in Nat : a = Floor(stack, Len(stack))
  BY <1>1, AfterNat
<1>3. Lies(nodes, val, a, idx)
  BY <1>2 DEF Operand
<1>4. /\ Lies(ns, val, a, i)
      /\ LevelOf(ns, ts, val) = LevelOf(nodes, toks, val)
  BY <1>1, <1>3, LiesGrown, LevelGrown
<1>5. QED
  BY <1>2, <1>4 DEF Operand

\* The invariant after a step that says what is new.
LEMMA ShapeStep ==
    ASSUME IInv, IInv', ShapeInv, Grown(nodes, nodes', toks, toks'), idx <= idx',
           \A n \in 1 .. Len(nodes') : nodes'[n].kind = "binop" =>
              \/ n \in 1 .. Len(nodes) /\ nodes[n].kind = "binop"
              \/ Shaped(nodes', toks', n),
           \A d \in 1 .. Len(stack') :
              \/ /\ d \in 1 .. Len(stack) /\ stack'[d] = stack[d]
                 /\ d > 1 => stack'[d - 1] = stack[d - 1]
              \/ Built(nodes', toks', stack', idx', d),
           Operand(nodes', toks', stack', idx', val')
    PROVE  ShapeInv'
<1>1. idx' \in Nat
  BY DEF IInv, TokensTyped
<1>2. ASSUME NEW n \in 1 .. Len(nodes'), nodes'[n].kind = "binop"
      PROVE  Shaped(nodes', toks', n)
  BY <1>2, ShapedGrown DEF ShapeInv
<1>3. ASSUME NEW d \in 1 .. Len(stack')
      PROVE  Built(nodes', toks', stack', idx', d)
  BY <1>1, <1>3, BuiltGrown DEF ShapeInv
<1>4. QED
  BY <1>2, <1>3 DEF ShapeInv
-----------------------------------------------------------------------------
(***************************************************************************)
(* Steps that build no expression                                          *)
(***************************************************************************)

\* The nodes stay, or there is one more, or one that is no part of an
\* expression has another child.
NodesStep ==
    \/ UNCHANGED nodes
    \/ \E node : NewNode(node) /\ node.kind # "binop"
    \/ \E kid : AddKid(Top.node, kid) /\ KindOf(Top.node) \notin Operands
    \/ \E i, kid : SetKid(Top.node, i, kid) /\ KindOf(Top.node) \notin Operands

\* One node changes and stays what it is.
LEMMA OneChanged ==
    ASSUME IInv, KindOf(Top.node) \notin Operands, NEW kids,
           nodes' = [nodes EXCEPT ![Top.node].kids = kids]
    PROVE  /\ Len(nodes') = Len(nodes)
           /\ \A m \in 1 .. Len(nodes) : nodes'[m].kind = nodes[m].kind
           /\ \A m \in 1 .. Len(nodes) : nodes[m].kind \in Operands =>
                 nodes'[m] = nodes[m]
<1>1. PICK n : n = Top.node
  OBVIOUS
<1>2. n # 0 => nodes[n].kind \notin Operands
  BY <1>1 DEF KindOf
<1>3. nodes' = [nodes EXCEPT ![n] = [nodes[n] EXCEPT !.kids = kids]]
  BY <1>1
<1>4. PICK new : new = [nodes[n] EXCEPT !.kids = kids]
  OBVIOUS
<1>5. nodes \in Seq(Node) /\ \A m \in 1 .. Len(nodes) : nodes[m] \in Node
  BY Numbers
<1>6. n \in 1 .. Len(nodes) => new.kind = nodes[n].kind
  BY <1>4, <1>5 DEF Node
<1>7. nodes' = [nodes EXCEPT ![n] = new]
  BY <1>3, <1>4
<1>8. Len(nodes') = Len(nodes) /\ \A m \in 1 .. Len(nodes) :
         nodes'[m] = IF m = n THEN new ELSE nodes[m]
  BY <1>5, <1>7
<1>9. QED
  BY <1>2, <1>6, <1>8

\* Such a step changes no part of an expression, and makes no operator.
LEMMA NodesGrown ==
    ASSUME IInv, IInv', UNCHANGED toks, NodesStep
    PROVE  /\ Grown(nodes, nodes', toks, toks')
           /\ \A n \in 1 .. Len(nodes') : nodes'[n].kind = "binop" =>
                 n \in 1 .. Len(nodes) /\ nodes[n].kind = "binop"
<1>1. /\ Len(nodes) \in Nat /\ Len(toks) \in Nat /\ nodes \in Seq(Node)
      /\ \A m \in 1 .. Len(nodes) : nodes[m].tok \in Nat /\ nodes[m].tok <= Len(toks)
  BY Numbers
<1>2. CASE UNCHANGED nodes
  BY <1>1, <1>2 DEF Grown
<1>3. CASE \E node : NewNode(node) /\ node.kind # "binop"
  <2>1. PICK node : nodes' = Append(nodes, node) /\ node.kind # "binop"
    BY <1>3 DEF NewNode
  <2>2. /\ Len(nodes') = Len(nodes) + 1
        /\ nodes'[Len(nodes) + 1] = node
        /\ \A m \in 1 .. Len(nodes) : nodes'[m] = nodes[m]
    BY <1>1, <2>1
  <2>3. QED
    BY <1>1, <2>1, <2>2 DEF Grown
<1>4. ASSUME KindOf(Top.node) \notin Operands, NEW kids,
             nodes' = [nodes EXCEPT ![Top.node].kids = kids]
      PROVE  /\ Grown(nodes, nodes', toks, toks')
             /\ \A n \in 1 .. Len(nodes') : nodes'[n].kind = "binop" =>
                   n \in 1 .. Len(nodes) /\ nodes[n].kind = "binop"
  <2>1. /\ Len(nodes') = Len(nodes)
        /\ \A m \in 1 .. Len(nodes) : nodes'[m].kind = nodes[m].kind
        /\ \A m \in 1 .. Len(nodes) : nodes[m].kind \in Operands =>
              nodes'[m] = nodes[m]
    BY <1>4, OneChanged
  <2>2. QED
    BY <1>1, <2>1 DEF Grown
<1>5. CASE \E kid : AddKid(Top.node, kid) /\ KindOf(Top.node) \notin Operands
  <2>1. PICK kid : AddKid(Top.node, kid) /\ KindOf(Top.node) \notin Operands
    BY <1>5
  <2>2. nodes' = [nodes EXCEPT ![Top.node].kids = Append(nodes[Top.node].kids, kid)]
    BY <2>1 DEF AddKid
  <2>3. QED
    BY <1>4, <2>1, <2>2
<1>6. CASE \E i, kid : SetKid(Top.node, i, kid) /\ KindOf(Top.node) \notin Operands
  <2>1. PICK i, kid : SetKid(Top.node, i, kid) /\ KindOf(Top.node) \notin Operands
    BY <1>6
  <2>2. nodes' = [nodes EXCEPT ![Top.node].kids = [nodes[Top.node].kids EXCEPT ![i] = kid]]
    BY <2>1 DEF SetKid
  <2>3. QED
    BY <1>4, <2>1, <2>2
<1>7. QED
  BY <1>2, <1>3, <1>5, <1>6 DEF NodesStep

\* The running function stays, goes on, calls or returns where no part of an
\* expression is in hand, or returns NULL.
StackStep ==
    \/ UNCHANGED <<stack, val>>
    \/ \E to : Goto(to) /\ to \notin OpAt \cup OperandAt
    \/ \E frame : TopGoes(frame) /\ frame.at \notin OpAt \cup OperandAt
    \/ \E frame, callee :
          /\ stack' = Append([stack EXCEPT ![Len(stack)] = frame], callee)
          /\ frame.at \notin OpAt /\ callee.at \notin OpAt \cup OperandAt
    \/ \E v : /\ Return(v) /\ Top.at \notin {"prog", "prog_fn"}
              /\ v = 0 \/ Top.at \notin FactorAt \cup {"bottom"}

\* The frames below the running one stay.
LEMMA TopGone ==
    ASSUME IInv, NEW frame, TopGoes(frame)
    PROVE  /\ Len(stack') = Len(stack) /\ Top' = frame
           /\ stack'[Len(stack)] = frame
           /\ \A d \in 1 .. Len(stack) - 1 : stack'[d] = stack[d]
<1>1. stack \in Seq(Frame) /\ Len(stack) \in Nat /\ Len(stack) >= 1
  BY Numbers
<1>2. QED
  BY <1>1 DEF TopGoes, Top

\* So do they under a call.
LEMMA TopCalled ==
    ASSUME IInv, NEW frame, NEW callee,
           stack' = Append([stack EXCEPT ![Len(stack)] = frame], callee)
    PROVE  /\ Len(stack') = Len(stack) + 1 /\ Top' = callee
           /\ stack'[Len(stack) + 1] = callee
           /\ stack'[Len(stack)] = frame
           /\ \A d \in 1 .. Len(stack) - 1 : stack'[d] = stack[d]
<1>1. stack \in Seq(Frame) /\ Len(stack) \in Nat /\ Len(stack) >= 1
  BY Numbers
<1>2. PICK low : low = [stack EXCEPT ![Len(stack)] = frame]
  OBVIOUS
<1>3. /\ Len(low) = Len(stack)
      /\ low[Len(stack)] = frame
      /\ \A d \in 1 .. Len(stack) - 1 : low[d] = stack[d]
      /\ low \in Seq(Frame \cup {frame})
  BY <1>1, <1>2
<1>4. /\ Len(stack') = Len(low) + 1
      /\ stack'[Len(low) + 1] = callee
      /\ \A d \in 1 .. Len(low) : stack'[d] = low[d]
  <2>1. low \in Seq(Frame \cup {frame, callee})
    BY <1>3
  <2>2. QED
    BY <1>2, <2>1, AppendProperties
<1>5. QED
  BY <1>1, <1>3, <1>4 DEF Top

\* A frame is at the label it is given.
LEMMA Labels ==
    ASSUME IInv, NEW to
    PROVE  [Top EXCEPT !.at = to].at = to /\ MakeFrame(to, 0, idx).at = to
<1>1. Top \in Frame
  BY TopTyped DEF IInv
<1>2. QED
  BY <1>1 DEF Frame, MakeFrame

\* A frame that such a step leaves is where it was, or has built nothing, and
\* the function that runs then is given no operand.
LEMMA StackKept ==
    ASSUME IInv, IInv', StackStep
    PROVE  /\ \A d \in 1 .. Len(stack') :
                 \/ /\ d \in 1 .. Len(stack) /\ stack'[d] = stack[d]
                    /\ d > 1 => stack'[d - 1] = stack[d - 1]
                 \/ stack'[d].at \notin OpAt
           /\ \/ UNCHANGED <<stack, val>>
              \/ Top'.at \notin OperandAt
              \/ val' = 0
<1>1. Len(stack) \in Nat /\ Len(stack) >= 1
  BY Numbers
<1>2. CASE UNCHANGED <<stack, val>>
  BY <1>1, <1>2
<1>3. ASSUME NEW frame, TopGoes(frame), frame.at \notin OpAt \cup OperandAt
      PROVE  /\ \A d \in 1 .. Len(stack') :
                   \/ /\ d \in 1 .. Len(stack) /\ stack'[d] = stack[d]
                      /\ d > 1 => stack'[d - 1] = stack[d - 1]
                   \/ stack'[d].at \notin OpAt
             /\ Top'.at \notin OperandAt
  BY <1>1, <1>3, TopGone
<1>4. CASE \E to : Goto(to) /\ to \notin OpAt \cup OperandAt
  BY <1>3, <1>4, Labels DEF Goto
<1>5. ASSUME NEW frame, NEW callee,
             stack' = Append([stack EXCEPT ![Len(stack)] = frame], callee),
             frame.at \notin OpAt, callee.at \notin OpAt \cup OperandAt
      PROVE  /\ \A d \in 1 .. Len(stack') :
                   \/ /\ d \in 1 .. Len(stack) /\ stack'[d] = stack[d]
                      /\ d > 1 => stack'[d - 1] = stack[d - 1]
                   \/ stack'[d].at \notin OpAt
             /\ Top'.at \notin OperandAt
  <2>1. /\ Len(stack') = Len(stack) + 1 /\ Top' = callee
        /\ stack'[Len(stack) + 1] = callee
        /\ stack'[Len(stack)] = frame
        /\ \A d \in 1 .. Len(stack) - 1 : stack'[d] = stack[d]
    BY <1>5, TopCalled
  <2>2. ASSUME NEW d \in 1 .. Len(stack')
        PROVE  \/ /\ d \in 1 .. Len(stack) /\ stack'[d] = stack[d]
                  /\ d > 1 => stack'[d - 1] = stack[d - 1]
               \/ stack'[d].at \notin OpAt
    <3>1. CASE d < Len(stack)
      BY <1>1, <2>1, <3>1
    <3>2. CASE d \in {Len(stack), Len(stack) + 1}
      BY <1>5, <2>1, <3>2
    <3>3. QED
      BY <1>1, <2>1, <3>1, <3>2
  <2>3. QED
    BY <1>5, <2>1, <2>2
<1>6. CASE \E v : /\ Return(v) /\ Top.at \notin {"prog", "prog_fn"}
                  /\ v = 0 \/ Top.at \notin FactorAt \cup {"bottom"}
  <2>1. PICK v : /\ Return(v) /\ Top.at \notin {"prog", "prog_fn"}
                 /\ v = 0 \/ Top.at \notin FactorAt \cup {"bottom"}
    BY <1>6
  <2>2. Frames /\ Pops /\ val' = v
    BY <2>1 DEF IInv, Return, Pops
  <2>3. Len(stack) >= 2 /\ Len(stack') = Len(stack) - 1
        /\ \A d \in 1 .. Len(stack) - 1 : stack'[d] = stack[d]
        /\ Top' = stack[Len(stack) - 1]
        /\ Calls(Top'.at, Top.at)
    BY <2>1, <2>2, PoppedStack
  <2>4. Top'.at \in OperandAt => Top.at \in FactorAt \cup {"bottom"}
    BY <2>3 DEF Calls, OperandAt, RhsAt, ExprCaller, TypeCaller, WaitsForType
  <2>5. \A d \in 1 .. Len(stack') :
           /\ d \in 1 .. Len(stack) /\ stack'[d] = stack[d]
           /\ d > 1 => stack'[d - 1] = stack[d - 1]
    BY <1>1, <2>3
  <2>6. QED
    BY <2>1, <2>2, <2>4, <2>5
<1>7. QED
  BY <1>2, <1>3, <1>4, <1>5, <1>6 DEF StackStep

\* A step that builds nothing keeps the shape.
LEMMA ShapePlain ==
    ASSUME IInv, IInv', ShapeInv, UNCHANGED toks, idx <= idx',
           NodesStep, StackStep
    PROVE  ShapeInv'
<1>1. /\ Grown(nodes, nodes', toks, toks')
      /\ \A n \in 1 .. Len(nodes') : nodes'[n].kind = "binop" =>
            n \in 1 .. Len(nodes) /\ nodes[n].kind = "binop"
  BY NodesGrown
<1>2. \A d \in 1 .. Len(stack') :
         \/ /\ d \in 1 .. Len(stack) /\ stack'[d] = stack[d]
            /\ d > 1 => stack'[d - 1] = stack[d - 1]
         \/ Built(nodes', toks', stack', idx', d)
  BY StackKept DEF Built
<1>3. Operand(nodes', toks', stack', idx', val')
  <2>1. CASE UNCHANGED <<stack, val>>
    <3>1. idx' \in Nat
      BY DEF IInv, TokensTyped
    <3>2. Operand(nodes', toks', stack, idx', val)
      BY <1>1, <3>1, OperandGrown DEF ShapeInv
    <3>3. QED
      BY <2>1, <3>2
  <2>2. CASE Top'.at \notin OperandAt \/ val' = 0
    BY <2>2 DEF Operand, Top
  <2>3. QED
    BY <2>1, <2>2, StackKept
<1>4. QED
  BY <1>1, <1>2, <1>3, ShapeStep
-----------------------------------------------------------------------------
(***************************************************************************)
(* The functions that build no expression                                  *)
(***************************************************************************)

Plain == NodesStep /\ StackStep /\ idx <= idx'

\* The labels at which no part of an expression is in hand.
PlainAt == FnAt \cup BlockAt \cup StmtAt \cup TypeAt \cup AuxAt
               \cup {"prog", "prog_fn", "expr", "bottom"}

\* No function waits there with a part of an expression.
LEMMA PlainLabels ==
    ASSUME NEW at \in PlainAt
    PROVE  /\ at \notin OpAt \cup OperandAt
           /\ at # "bottom" => at \notin FactorAt \cup {"bottom"}
BY DEF PlainAt, FnAt, BlockAt, StmtAt, LetAt, TypeAt, AuxAt, OpAt, OperandAt,
       RhsAt, FactorAt

\* What a step on the stack comes to.
LEMMA Plainly ==
    ASSUME IInv, Top.at \in PlainAt
    PROVE  /\ UNCHANGED <<stack, val>> => StackStep
           /\ \A to \in PlainAt : Goto(to) => StackStep
           /\ \A frame : TopGoes(frame) /\ frame.at \in PlainAt => StackStep
           /\ \A back, callee \in PlainAt : Call(back, callee) => StackStep
           /\ \A v : /\ Return(v) /\ Top.at \notin {"prog", "prog_fn"}
                     /\ Top.at # "bottom" \/ v = 0
                     => StackStep
<1>1. UNCHANGED <<stack, val>> => StackStep
  BY DEF StackStep
<1>2. ASSUME NEW to \in PlainAt, Goto(to)
      PROVE  StackStep
  BY <1>2, PlainLabels DEF StackStep
<1>3. ASSUME NEW frame, TopGoes(frame), frame.at \in PlainAt
      PROVE  StackStep
  BY <1>3, PlainLabels DEF StackStep
<1>4. ASSUME NEW back \in PlainAt, NEW callee \in PlainAt, Call(back, callee)
      PROVE  StackStep
  <2>1. PICK frame : frame = [Top EXCEPT !.at = back]
    OBVIOUS
  <2>2. PICK new : new = MakeFrame(callee, 0, idx)
    OBVIOUS
  <2>3. frame.at = back /\ new.at = callee
    BY <2>1, <2>2, Labels
  <2>4. stack' = Append([stack EXCEPT ![Len(stack)] = frame], new)
    BY <1>4, <2>1, <2>2 DEF Call, Top
  <2>5. QED
    BY <2>3, <2>4, PlainLabels DEF StackStep
<1>5. ASSUME NEW v, Return(v), Top.at \notin {"prog", "prog_fn"},
             Top.at # "bottom" \/ v = 0
      PROVE  StackStep
  BY <1>5, PlainLabels DEF StackStep
<1>6. QED
  BY <1>1, <1>2, <1>3, <1>4, <1>5

\* What a step on the nodes comes to.
LEMMA NodesPlainly ==
    ASSUME IInv
    PROVE  /\ UNCHANGED nodes => NodesStep
           /\ \A kind, tok, kids : kind # "binop" /\ NewNode(MakeAst(kind, tok, kids))
                 => NodesStep
           /\ Top.at \in {"prog_fn", "fn_ret_type", "fn_end", "block_stmt", "let_type",
                          "let_expr"} =>
                 /\ \A kid : AddKid(Top.node, kid) => NodesStep
                 /\ \A i, kid : SetKid(Top.node, i, kid) => NodesStep
<1>1. ASSUME NEW kind, NEW tok, NEW kids, kind # "binop",
             NewNode(MakeAst(kind, tok, kids))
      PROVE  NodesStep
  <2>1. MakeAst(kind, tok, kids).kind = kind
    BY DEF MakeAst
  <2>2. QED
    BY <1>1, <2>1 DEF NodesStep
<1>2. ASSUME Top.at \in {"prog_fn", "fn_ret_type", "fn_end", "block_stmt", "let_type",
                        "let_expr"}
      PROVE  KindOf(Top.node) \notin Operands
  <2>1. Holds(Top.at, KindOf(Top.node))
    BY TopTyped DEF IInv, Fits
  <2>2. QED
    BY <1>2, <2>1 DEF Holds, FnAt, BlockAt, LetAt, TypeAt, AuxAt, Operands
<1>3. QED
  BY <1>1, <1>2 DEF NodesStep

\* The program stops.
LEMMA PanicPlain ==
    ASSUME IInv, Panic
    PROVE  Plain
BY Numbers DEF Panic, Plain, NodesStep, StackStep

\* parse_prog.
LEMMA ParseProgPlain ==
    ASSUME IInv, ParseProg
    PROVE  Plain
<1> USE Numbers, Plainly, NodesPlainly DEF Plain
<1>1. CASE ProgFn
  BY <1>1, PanicPlain DEF ProgFn, On, Back, Heap, PlainAt, FnAt, BlockAt, StmtAt, LetAt, TypeAt, AuxAt, MakeFrame
<1>2. CASE ProgFnDone
  BY <1>2, PanicPlain DEF ProgFnDone, On, Back, Heap, PlainAt, FnAt, BlockAt, StmtAt, LetAt, TypeAt, AuxAt, MakeFrame
<1>3. CASE ProgDecl
  BY <1>3, PanicPlain DEF ProgDecl, On, Back, Heap, PlainAt, FnAt, BlockAt, StmtAt, LetAt, TypeAt, AuxAt, MakeFrame
<1>4. CASE ProgUnknown
  BY <1>4, PanicPlain DEF ProgUnknown, On, Back, Heap, PlainAt, FnAt, BlockAt, StmtAt, LetAt, TypeAt, AuxAt, MakeFrame
<1>5. CASE ProgEnd
  BY <1>5, PanicPlain DEF ProgEnd, On, Back, Heap, PlainAt, FnAt, BlockAt, StmtAt, LetAt, TypeAt, AuxAt, MakeFrame
<1>6. QED
  BY <1>1, <1>2, <1>3, <1>4, <1>5 DEF ParseProg

\* parse_fn.
LEMMA ParseFnPlain ==
    ASSUME IInv, ParseFn
    PROVE  Plain
<1> USE Numbers, Plainly, NodesPlainly DEF Plain
<1>1. CASE FnName
  BY <1>1, PanicPlain DEF FnName, On, Back, Heap, PlainAt, FnAt, BlockAt, StmtAt, LetAt, TypeAt, AuxAt, MakeFrame
<1>2. CASE FnLparen
  BY <1>2, PanicPlain DEF FnLparen, On, Back, Heap, PlainAt, FnAt, BlockAt, StmtAt, LetAt, TypeAt, AuxAt, MakeFrame
<1>3. CASE FnNoParams
  BY <1>3, PanicPlain DEF FnNoParams, On, Back, Heap, PlainAt, FnAt, BlockAt, StmtAt, LetAt, TypeAt, AuxAt, MakeFrame
<1>4. CASE FnParam
  BY <1>4, PanicPlain DEF FnParam, On, Back, Heap, PlainAt, FnAt, BlockAt, StmtAt, LetAt, TypeAt, AuxAt, MakeFrame
<1>5. CASE FnComma
  <2>1. Top.at = "fn_comma" /\ (Goto("fn_rparen") \/ Goto("fn_param")) /\ UNCHANGED nodes /\ idx' = idx
    BY <1>5 DEF FnComma, On, Back, Heap
  <2>2. {"fn_comma", "fn_rparen", "fn_param"} \subseteq PlainAt
    BY DEF PlainAt, FnAt, BlockAt, StmtAt, LetAt, TypeAt, AuxAt
  <2>3. QED
    BY <2>1, <2>2
<1>6. CASE FnRparen
  BY <1>6, PanicPlain DEF FnRparen, On, Back, Heap, PlainAt, FnAt, BlockAt, StmtAt, LetAt, TypeAt, AuxAt, MakeFrame
<1>7. CASE FnRet
  BY <1>7, PanicPlain DEF FnRet, On, Back, Heap, PlainAt, FnAt, BlockAt, StmtAt, LetAt, TypeAt, AuxAt, MakeFrame
<1>8. CASE FnRetArrow
  BY <1>8, PanicPlain DEF FnRetArrow, On, Back, Heap, PlainAt, FnAt, BlockAt, StmtAt, LetAt, TypeAt, AuxAt, MakeFrame
<1>9. CASE FnRetType
  BY <1>9, PanicPlain DEF FnRetType, On, Back, Heap, PlainAt, FnAt, BlockAt, StmtAt, LetAt, TypeAt, AuxAt, MakeFrame
<1>10. CASE FnBody
  <2>1. Top.at = "fn_body" /\ Call("fn_end", "block") /\ UNCHANGED nodes /\ idx' = idx
    BY <1>10 DEF FnBody, On, Back, Heap
  <2>2. {"fn_body", "fn_end", "block"} \subseteq PlainAt
    BY DEF PlainAt, FnAt, BlockAt, StmtAt, LetAt, TypeAt, AuxAt
  <2>3. QED
    BY <2>1, <2>2
<1>11. CASE FnEnd
  BY <1>11, PanicPlain DEF FnEnd, On, Back, Heap, PlainAt, FnAt, BlockAt, StmtAt, LetAt, TypeAt, AuxAt, MakeFrame
<1>12. QED
  BY <1>1, <1>2, <1>3, <1>4, <1>5, <1>6, <1>7, <1>8, <1>9, <1>10, <1>11 DEF ParseFn

\* parse_block.
LEMMA ParseBlockPlain ==
    ASSUME IInv, ParseBlock
    PROVE  Plain
<1> USE Numbers, Plainly, NodesPlainly DEF Plain
<1>1. CASE Block
  <2>1. CASE Panic
    BY <2>1, PanicPlain
  <2>2. CASE ~ Panic
    <3>1. PICK frame : frame = MakeFrame("block_loop", Len(nodes'), 0)
      OBVIOUS
    <3>2. /\ Top.at = "block" /\ NewNode(MakeAst("block", idx, <<>>))
          /\ TopGoes(frame) /\ idx' = idx + 1
      BY <1>1, <2>2, <3>1 DEF Block, On
    <3>3. frame.at = "block_loop" /\ {"block", "block_loop"} \subseteq PlainAt
      BY <3>1 DEF MakeFrame, PlainAt, BlockAt
    <3>4. QED
      BY <3>2, <3>3
  <2>3. QED
    BY <2>1, <2>2
<1>2. CASE BlockStmt
  <2>1. PICK frame : frame = MakeFrame("block_stmt", Top.node, idx)
    OBVIOUS
  <2>2. PICK new : new = MakeFrame("stmt", 0, 0)
    OBVIOUS
  <2>3. /\ stack' = Append([stack EXCEPT ![Len(stack)] = frame], new)
        /\ idx' = idx /\ UNCHANGED nodes
    BY <1>2, <2>1, <2>2 DEF BlockStmt, Heap
  <2>4. frame.at = "block_stmt" /\ new.at = "stmt"
    BY <2>1, <2>2 DEF MakeFrame
  <2>5. {"block_stmt", "stmt"} \subseteq PlainAt
    BY DEF PlainAt, BlockAt, StmtAt
  <2>6. StackStep
    BY <2>3, <2>4, <2>5, PlainLabels DEF StackStep
  <2>7. QED
    BY <2>3, <2>6
<1>3. CASE BlockStmtDone
  BY <1>3, PanicPlain DEF BlockStmtDone, On, Back, Heap, PlainAt, FnAt, BlockAt, StmtAt, LetAt, TypeAt, AuxAt, MakeFrame
<1>4. CASE BlockLoopEnd
  <2>1. Top.at = "block_loop" /\ Goto("block_end") /\ UNCHANGED nodes /\ idx' = idx
    BY <1>4 DEF BlockLoopEnd, On, Back, Heap
  <2>2. {"block_loop", "block_end"} \subseteq PlainAt
    BY DEF PlainAt, FnAt, BlockAt, StmtAt, LetAt, TypeAt, AuxAt
  <2>3. QED
    BY <2>1, <2>2
<1>5. CASE BlockEnd
  <2>1. Top.at = "block_end" /\ Return(Top.node) /\ UNCHANGED nodes /\ idx' = idx + 1
    BY <1>5 DEF BlockEnd, On, Back, Heap
  <2>2. {"block_end"} \subseteq PlainAt
    BY DEF PlainAt, FnAt, BlockAt, StmtAt, LetAt, TypeAt, AuxAt
  <2>3. QED
    BY <2>1, <2>2
<1>6. QED
  BY <1>1, <1>2, <1>3, <1>4, <1>5 DEF ParseBlock

\* parse_stmt.
LEMMA ParseStmtPlain ==
    ASSUME IInv, ParseStmt
    PROVE  Plain
<1> USE Numbers, Plainly, NodesPlainly DEF Plain
<1>1. CASE StmtLet
  BY <1>1, PanicPlain DEF StmtLet, On, Back, Heap, PlainAt, FnAt, BlockAt, StmtAt, LetAt, TypeAt, AuxAt, MakeFrame
<1>2. CASE LetName
  BY <1>2, PanicPlain DEF LetName, On, Back, Heap, PlainAt, FnAt, BlockAt, StmtAt, LetAt, TypeAt, AuxAt, MakeFrame
<1>3. CASE LetColon
  BY <1>3, PanicPlain DEF LetColon, On, Back, Heap, PlainAt, FnAt, BlockAt, StmtAt, LetAt, TypeAt, AuxAt, MakeFrame
<1>4. CASE LetType
  BY <1>4, PanicPlain DEF LetType, On, Back, Heap, PlainAt, FnAt, BlockAt, StmtAt, LetAt, TypeAt, AuxAt, MakeFrame
<1>5. CASE LetEnd
  <2>1. Top.at = "let_semi" /\ Return(Top.node) /\ UNCHANGED nodes /\ idx' = idx + 1
    BY <1>5 DEF LetEnd, On, Back, Heap
  <2>2. {"let_semi"} \subseteq PlainAt
    BY DEF PlainAt, FnAt, BlockAt, StmtAt, LetAt, TypeAt, AuxAt
  <2>3. QED
    BY <2>1, <2>2
<1>6. CASE LetAssign
  <2>1. Top.at = "let_semi" /\ Call("let_expr", "expr") /\ UNCHANGED nodes /\ idx' = idx + 1
    BY <1>6 DEF LetAssign, On, Back, Heap
  <2>2. {"let_semi", "let_expr", "expr"} \subseteq PlainAt
    BY DEF PlainAt, FnAt, BlockAt, StmtAt, LetAt, TypeAt, AuxAt
  <2>3. QED
    BY <2>1, <2>2
<1>7. CASE LetExpr
  BY <1>7, PanicPlain DEF LetExpr, On, Back, Heap, PlainAt, FnAt, BlockAt, StmtAt, LetAt, TypeAt, AuxAt, MakeFrame
<1>8. CASE StmtRet
  BY <1>8, PanicPlain DEF StmtRet, On, Back, Heap, PlainAt, FnAt, BlockAt, StmtAt, LetAt, TypeAt, AuxAt, MakeFrame
<1>9. CASE RetExpr
  BY <1>9, PanicPlain DEF RetExpr, On, Back, Heap, PlainAt, FnAt, BlockAt, StmtAt, LetAt, TypeAt, AuxAt, MakeFrame
<1>10. CASE RetSemi
  <2>1. Top.at = "ret_semi" /\ Return(Top.node) /\ UNCHANGED nodes /\ idx' = idx + 1
    BY <1>10 DEF RetSemi, On, Back, Heap
  <2>2. {"ret_semi"} \subseteq PlainAt
    BY DEF PlainAt, FnAt, BlockAt, StmtAt, LetAt, TypeAt, AuxAt
  <2>3. QED
    BY <2>1, <2>2
<1>11. CASE StmtExpr
  BY <1>11, PanicPlain DEF StmtExpr, On, Back, Heap, PlainAt, FnAt, BlockAt, StmtAt, LetAt, TypeAt, AuxAt, MakeFrame
<1>12. CASE StmtExprDone
  BY <1>12, PanicPlain DEF StmtExprDone, On, Back, Heap, PlainAt, FnAt, BlockAt, StmtAt, LetAt, TypeAt, AuxAt, MakeFrame
<1>13. QED
  BY <1>1, <1>2, <1>3, <1>4, <1>5, <1>6, <1>7, <1>8, <1>9, <1>10, <1>11, <1>12 DEF ParseStmt

\* parse_type.
LEMMA ParseTypePlain ==
    ASSUME IInv, ParseType
    PROVE  Plain
<1> USE Numbers, Plainly, NodesPlainly DEF Plain
<1>1. CASE Type
  BY <1>1, PanicPlain DEF Type, On, Back, Heap, PlainAt, FnAt, BlockAt, StmtAt, LetAt, TypeAt, AuxAt, MakeFrame
<1>2. CASE TypeDone
  BY <1>2, PanicPlain DEF TypeDone, On, Back, Heap, PlainAt, FnAt, BlockAt, StmtAt, LetAt, TypeAt, AuxAt, MakeFrame
<1>3. CASE AuxName
  BY <1>3, PanicPlain DEF AuxName, On, Back, Heap, PlainAt, FnAt, BlockAt, StmtAt, LetAt, TypeAt, AuxAt, MakeFrame
<1>4. CASE AuxArray
  BY <1>4, PanicPlain DEF AuxArray, On, Back, Heap, PlainAt, FnAt, BlockAt, StmtAt, LetAt, TypeAt, AuxAt, MakeFrame
<1>5. CASE ArrayElem
  BY <1>5, PanicPlain DEF ArrayElem, On, Back, Heap, PlainAt, FnAt, BlockAt, StmtAt, LetAt, TypeAt, AuxAt, MakeFrame
<1>6. CASE ArraySemi
  <2>1. Top.at = "array_semi" /\ (Goto("array_len") \/ Goto("array_end")) /\ UNCHANGED nodes /\ idx' \in {idx, idx + 1}
    BY <1>6 DEF ArraySemi, On, Back, Heap
  <2>2. {"array_semi", "array_len", "array_end"} \subseteq PlainAt
    BY DEF PlainAt, FnAt, BlockAt, StmtAt, LetAt, TypeAt, AuxAt
  <2>3. QED
    BY <2>1, <2>2
<1>7. CASE ArrayLen
  BY <1>7, PanicPlain DEF ArrayLen, On, Back, Heap, PlainAt, FnAt, BlockAt, StmtAt, LetAt, TypeAt, AuxAt, MakeFrame
<1>8. CASE ArrayEnd
  BY <1>8, PanicPlain DEF ArrayEnd, On, Back, Heap, PlainAt, FnAt, BlockAt, StmtAt, LetAt, TypeAt, AuxAt, MakeFrame
<1>9. CASE Ptr
  BY <1>9, PanicPlain DEF Ptr, On, Back, Heap, PlainAt, FnAt, BlockAt, StmtAt, LetAt, TypeAt, AuxAt, MakeFrame
<1>10. QED
  BY <1>1, <1>2, <1>3, <1>4, <1>5, <1>6, <1>7, <1>8, <1>9 DEF ParseType

-----------------------------------------------------------------------------
(***************************************************************************)
(* parse_expr and below                                                    *)
(***************************************************************************)

\* parse_expr calls down to the first operand.
LEMMA ExprTermShape ==
    ASSUME IInv, IInv', ShapeInv, UNCHANGED <<toks, closed>>, ExprTerm
    PROVE  ShapeInv'
<1>1. PICK frame, first, bottom :
         /\ frame = MakeFrame("term_lhs", 0, 0)
         /\ first = MakeFrame("factor_lhs", 0, 0)
         /\ bottom = MakeFrame("bottom", 0, 0)
  OBVIOUS
<1>2. /\ frame.at = "term_lhs" /\ first.at = "factor_lhs" /\ bottom.at = "bottom"
      /\ {frame, first, bottom} \subseteq Frame
  BY <1>1 DEF MakeFrame, Frame, Label, Looking, SkipsWhitespace, Waiting, WaitsForNode
<1>3. Pushes(frame, <<first, bottom>>) /\ idx' = idx /\ UNCHANGED nodes
  BY <1>1 DEF ExprTerm, FactorFrames, Pushes, Heap
<1>4. stack \in Seq(Frame) /\ Len(stack) \in Nat /\ Len(stack) >= 1
  BY Numbers
<1>5. <<first, bottom>> \in Seq(Frame) /\ Len(<<first, bottom>>) = 2
  BY <1>2
<1>6. /\ Len(stack') = Len(stack) + 2
      /\ \A d \in 1 .. Len(stack) - 1 : stack'[d] = stack[d]
      /\ stack'[Len(stack)] = frame
      /\ \A d \in Len(stack) + 1 .. Len(stack) + 2 :
            stack'[d] = <<first, bottom>>[d - Len(stack)]
  BY <1>2, <1>3, <1>4, <1>5, PushedStack
<1>7. stack'[Len(stack) + 1] = first /\ stack'[Len(stack) + 2] = bottom
  BY <1>4, <1>6
<1>8. \A d \in 1 .. Len(stack') :
         \/ /\ d \in 1 .. Len(stack) /\ stack'[d] = stack[d]
            /\ d > 1 => stack'[d - 1] = stack[d - 1]
         \/ stack'[d].at \notin OpAt
  <2> TAKE d \in 1 .. Len(stack')
  <2>1. CASE d < Len(stack)
    BY <1>4, <1>6, <2>1
  <2>2. CASE d \in {Len(stack), Len(stack) + 1, Len(stack) + 2}
    BY <1>2, <1>6, <1>7, <2>2 DEF OpAt, RhsAt
  <2>3. QED
    BY <1>4, <1>6, <2>1, <2>2
<1>9. Operand(nodes', toks', stack', idx', val')
  BY <1>2, <1>4, <1>6, <1>7 DEF Operand, OperandAt, RhsAt
<1>10. /\ Grown(nodes, nodes', toks, toks')
       /\ \A n \in 1 .. Len(nodes') : nodes'[n].kind = "binop" =>
             n \in 1 .. Len(nodes) /\ nodes[n].kind = "binop"
  BY <1>3, NodesGrown DEF NodesStep
<1>11. idx <= idx'
  BY <1>3, Numbers
<1>12. QED
  BY <1>8, <1>9, <1>10, <1>11, ShapeStep DEF Built

\* A constant is its own token.
LEMMA LiesConst ==
    ASSUME NEW ns, NEW n \in 1 .. Len(ns), ns[n].kind = "const",
           Len(ns[n].kids) = 0, NEW lo \in Nat, NEW hi \in Nat,
           lo < ns[n].tok, ns[n].tok < hi
    PROVE  Lies(ns, n, lo, hi)
<1>1. {n} \in SUBSET (1 .. Len(ns))
  OBVIOUS
<1>2. \A m \in {n} : /\ ns[m].kind \in Operands
                     /\ lo < ns[m].tok /\ ns[m].tok < hi
                     /\ \A i \in 1 .. Len(ns[m].kids) : ns[m].kids[i] \in {n}
  BY DEF Operands
<1>3. QED
  BY <1>1, <1>2 DEF Lies

\* A number comes after the operator whose operand it is.
LEMMA BottomConstShape ==
    ASSUME IInv, IInv', ShapeInv, UNCHANGED <<toks, closed>>, BottomConst
    PROVE  ShapeInv'
<1>1. PICK new, node : new = Len(nodes) + 1 /\ node = MakeAst("const", idx, <<>>)
  OBVIOUS
<1>2. /\ Top.at = "bottom" /\ nodes' = Append(nodes, node)
      /\ Return(Len(nodes')) /\ idx' = idx + 1
  BY <1>1 DEF BottomConst, On, NewNode
<1>3. node.kind = "const" /\ node.tok = idx /\ Len(node.kids) = 0
  BY <1>1 DEF MakeAst
<1>4. /\ Len(nodes) \in Nat /\ nodes \in Seq(Node) /\ idx \in Nat
  BY Numbers
<1>5. Len(nodes') = new /\ nodes'[new] = node /\ new \in 1 .. Len(nodes')
  BY <1>1, <1>2, <1>4
<1>6. /\ Grown(nodes, nodes', toks, toks')
      /\ \A n \in 1 .. Len(nodes') : nodes'[n].kind = "binop" =>
            n \in 1 .. Len(nodes) /\ nodes[n].kind = "binop"
  BY <1>2, <1>3, NodesGrown DEF NodesStep, NewNode
<1>7. /\ Len(stack) \in Nat /\ Len(stack) >= 2
      /\ Len(stack') = Len(stack) - 1
      /\ \A d \in 1 .. Len(stack) - 1 : stack'[d] = stack[d]
      /\ Calls(Top'.at, Top.at)
      /\ val' = new
  BY <1>2, <1>5, PoppedStack DEF IInv, Return, Pops
<1>8. \A d \in 1 .. Len(stack') :
         /\ d \in 1 .. Len(stack) /\ stack'[d] = stack[d]
         /\ d > 1 => stack'[d - 1] = stack[d - 1]
  BY <1>7
<1>9. Top'.at \in {"factor_lhs", "factor_rhs"}
  BY <1>2, <1>7 DEF Calls, FnAt, BlockAt, StmtAt, LetAt, TermAt, FactorAt,
                    TypeAt, AuxAt
<1>10. PICK top : top = Len(stack')
  OBVIOUS
<1>11. top \in 1 .. Len(stack) /\ top - 1 < Len(stack) /\ top = Len(stack')
       /\ stack'[top] = Top' /\ stack[top] = Top'
  BY <1>7, <1>8, <1>10 DEF Top
\* The operator was seen before the number.
<1>12. Floor(stack', top) \in Nat /\ Floor(stack', top) < idx
  <2>1. Floor(stack', top) = Floor(stack, top)
    BY <1>8, <1>11 DEF Floor, After
  <2>2. \A d \in 1 .. Len(stack) : stack[d].at \in RhsAt => stack[d].tok < idx
    BY DEF IInv, Frames, Fits, RhsAt
  <2>3. idx >= 1 /\ (top > 1 => top - 1 \in 1 .. Len(stack))
    BY <1>11, Numbers
  <2>4. Floor(stack, top) < idx
    BY <1>4, <1>11, <2>2, <2>3 DEF Floor, After
  <2>5. QED
    BY <1>11, <2>1, <2>4, AfterNat
<1>13. Lies(nodes', new, Floor(stack', top), idx')
  <2>1. PICK lo \in Nat : lo = Floor(stack', top) /\ lo < idx
    BY <1>12
  <2>2. PICK hi \in Nat : hi = idx' /\ idx < hi
    BY <1>2, <1>4
  <2>3. Lies(nodes', new, lo, hi)
    BY <1>3, <1>5, <2>1, <2>2, LiesConst
  <2>4. QED
    BY <2>1, <2>2, <2>3
<1>14. Operand(nodes', toks', stack', idx', val')
  BY <1>7, <1>9, <1>11, <1>13 DEF Operand, TermAt
<1>15. QED
  BY <1>2, <1>4, <1>6, <1>8, <1>14, ShapeStep

\* The running function goes on at an operator with what it was given.
LEMMA LhsShape ==
    ASSUME IInv, IInv', ShapeInv, UNCHANGED <<toks, closed>>,
           NEW back, NEW op, Lhs(back, op),
           \/ back = "factor_lhs" /\ op = "factor_op"
           \/ back = "term_lhs" /\ op = "term_op"
    PROVE  ShapeInv'
<1>1. /\ Len(stack) \in Nat /\ Len(stack) >= 1 /\ idx \in Nat
      /\ Len(stack) \in 1 .. Len(stack)
  BY Numbers
<1>2. Top.at = back /\ idx' = idx /\ UNCHANGED nodes
  BY DEF Lhs, Back, Heap
<1>3. /\ Grown(nodes, nodes', toks, toks')
      /\ \A n \in 1 .. Len(nodes') : nodes'[n].kind = "binop" =>
            n \in 1 .. Len(nodes) /\ nodes[n].kind = "binop"
  BY <1>2, NodesGrown DEF NodesStep
<1>4. CASE val = 0
  <2>1. StackStep
    BY <1>2, <1>4 DEF Lhs, StackStep
  <2>2. QED
    BY <1>1, <1>2, <2>1, ShapePlain DEF NodesStep
<1>5. CASE val # 0
  <2>1. PICK frame : frame = MakeFrame(op, val, 0)
    OBVIOUS
  <2>2. frame.at = op /\ frame.node = val
    BY <2>1 DEF MakeFrame
  <2>3. /\ Len(stack') = Len(stack) /\ Top' = frame
        /\ stack'[Len(stack)] = frame
        /\ \A d \in 1 .. Len(stack) - 1 : stack'[d] = stack[d]
    BY <1>5, <2>1, TopGone DEF Lhs
  <2>4. /\ After(stack', Len(stack)) = After(stack, Len(stack))
        /\ Floor(stack, Len(stack)) = After(stack, Len(stack))
    BY <1>1, <1>2, <2>3 DEF After, Floor, Top, RhsAt
  <2>5. /\ Lies(nodes, val, After(stack, Len(stack)), idx)
        /\ back = "term_lhs" => LevelOf(nodes, toks, val) >= 1
    BY <1>2, <1>5, <2>4 DEF ShapeInv, Operand, OperandAt, TermAt, Top
  <2>6. back = "factor_lhs" => LevelOf(nodes, toks, val) >= 1
    <3>1. ASSUME back = "factor_lhs"
          PROVE  KindOf(val) \in {"NULL", "const"}
      BY <1>2, <3>1 DEF IInv, Answer, Given, WaitsForNode, ExprCaller, TypeCaller
    <3>2. val # 0 /\ KindOf(val) = nodes[val].kind
      BY <1>5 DEF KindOf
    <3>3. val \in 1 .. Len(nodes) /\ nodes[val].kind \in Operands
      BY <1>1, <2>5, AfterNat, LiesNode
    <3>4. QED
      BY <3>1, <3>2, <3>3 DEF LevelOf, Operands
  <2>7. Built(nodes', toks', stack', idx', Len(stack))
    BY <1>2, <2>2, <2>3, <2>4, <2>5, <2>6 DEF Built, RhsAt, FactorAt
  <2>8. \A d \in 1 .. Len(stack') :
           \/ /\ d \in 1 .. Len(stack) /\ stack'[d] = stack[d]
              /\ d > 1 => stack'[d - 1] = stack[d - 1]
           \/ Built(nodes', toks', stack', idx', d)
    <3> TAKE d \in 1 .. Len(stack')
    <3>1. CASE d < Len(stack)
      BY <1>1, <2>3, <3>1
    <3>2. CASE d = Len(stack)
      BY <2>7, <3>2
    <3>3. QED
      BY <1>1, <2>3, <3>1, <3>2
  <2>9. Operand(nodes', toks', stack', idx', val')
    BY <2>2, <2>3 DEF Operand, OperandAt, RhsAt
  <2>10. QED
    BY <1>1, <1>2, <1>3, <2>8, <2>9, ShapeStep
<1>6. QED
  BY <1>4, <1>5

\* An operator follows: the operand before it is kept with it, and the next
\* one begins after it.
LEMMA OperatorTaken ==
    ASSUME IInv, IInv', ShapeInv, UNCHANGED <<toks, closed>>,
           NEW op, NEW operators, NEW rhs, NEW callee,
           \/ /\ op = "factor_op" /\ operators = {"*", "/"} /\ rhs = "factor_rhs"
              /\ callee = << MakeFrame("bottom", 0, 0) >>
           \/ /\ op = "term_op" /\ operators = {"+", "-"} /\ rhs = "term_rhs"
              /\ callee = FactorFrames,
           Operator(op, operators, rhs, callee), Peek \in operators
    PROVE  ShapeInv'
<1>1. /\ Len(stack) \in Nat /\ Len(stack) >= 1 /\ idx \in Nat
      /\ Len(stack) \in 1 .. Len(stack) /\ stack \in Seq(Frame)
  BY Numbers
<1>2. PICK frame : frame = MakeFrame(rhs, Top.node, idx)
  OBVIOUS
<1>3. /\ On(op) /\ Top.at = op /\ idx' = idx + 1 /\ UNCHANGED nodes
      /\ Pushes(frame, callee)
  BY <1>2 DEF Operator, On, Heap, Pushes
<1>4. frame.at = rhs /\ frame.node = Top.node /\ frame.tok = idx
  BY <1>2 DEF MakeFrame
<1>5. frame \in Frame
  BY <1>1, <1>2, TopTyped DEF IInv, MakeFrame, Frame, Label, Waiting, WaitsForNode
<1>6. /\ callee \in Seq(Frame) /\ Len(callee) \in Nat
      /\ \A e \in 1 .. Len(callee) : callee[e].at \in {"factor_lhs", "bottom"}
      /\ Len(callee) >= 1 /\ callee[Len(callee)].at = "bottom"
  <2>1. PICK first, bottom : /\ first = MakeFrame("factor_lhs", 0, 0)
                             /\ bottom = MakeFrame("bottom", 0, 0)
    OBVIOUS
  <2>2. /\ first.at = "factor_lhs" /\ bottom.at = "bottom"
        /\ first \in Frame /\ bottom \in Frame
    BY <2>1 DEF MakeFrame, Frame, Label, Looking, SkipsWhitespace, Waiting, WaitsForNode
  <2>3. callee = <<bottom>> \/ callee = <<first, bottom>>
    BY <2>1 DEF FactorFrames
  <2>4. CASE callee = <<bottom>>
    BY <2>2, <2>4
  <2>5. CASE callee = <<first, bottom>>
    <3>1. /\ callee \in Seq(Frame) /\ Len(callee) = 2
          /\ callee[1] = first /\ callee[2] = bottom
      BY <2>2, <2>5
    <3>2. QED
      BY <2>2, <3>1
  <2>6. QED
    BY <2>3, <2>4, <2>5
<1>7. /\ Len(stack') = Len(stack) + Len(callee)
      /\ \A d \in 1 .. Len(stack) - 1 : stack'[d] = stack[d]
      /\ stack'[Len(stack)] = frame
      /\ \A d \in Len(stack) + 1 .. Len(stack) + Len(callee) :
            stack'[d] = callee[d - Len(stack)]
  BY <1>1, <1>3, <1>5, <1>6, PushedStack
<1>8. /\ idx \in 1 .. Len(toks) /\ toks[idx] \in operators
  BY <1>3, OnToken DEF IInv
<1>9. PICK lo \in Nat : lo = After(stack, Len(stack))
  BY <1>1, AfterNat
<1>10. After(stack', Len(stack)) = lo
  BY <1>1, <1>7, <1>9 DEF After
<1>11. /\ Lies(nodes, Top.node, lo, idx)
       /\ op = "factor_op" => LevelOf(nodes, toks, Top.node) >= 1
  BY <1>1, <1>3, <1>9 DEF ShapeInv, Built, OpAt, RhsAt, FactorAt, Top
<1>12. lo < idx
  <2>1. /\ Top.node \in 1 .. Len(nodes)
        /\ lo < nodes[Top.node].tok /\ nodes[Top.node].tok < idx
    BY <1>1, <1>11, LiesNode
  <2>2. nodes[Top.node].tok \in Nat
    BY <2>1, Numbers
  <2>3. QED
    BY <1>1, <2>1, <2>2
<1>13. Built(nodes', toks', stack', idx', Len(stack))
  <2>1. rhs \in RhsAt /\ operators = OpsAt(rhs) /\ (rhs \in FactorAt => op = "factor_op")
    BY DEF RhsAt, OpsAt, FactorAt
  <2>2. QED
    BY <1>3, <1>4, <1>7, <1>8, <1>10, <1>11, <1>12, <2>1 DEF Built
<1>14. \A d \in 1 .. Len(stack') :
          \/ /\ d \in 1 .. Len(stack) /\ stack'[d] = stack[d]
             /\ d > 1 => stack'[d - 1] = stack[d - 1]
          \/ Built(nodes', toks', stack', idx', d)
  <2> TAKE d \in 1 .. Len(stack')
  <2>1. CASE d < Len(stack)
    BY <1>1, <1>7, <2>1
  <2>2. CASE d = Len(stack)
    BY <1>13, <2>2
  <2>3. CASE d > Len(stack)
    <3>1. d - Len(stack) \in 1 .. Len(callee) /\ stack'[d] = callee[d - Len(stack)]
      BY <1>1, <1>6, <1>7, <2>3
    <3>2. stack'[d].at \notin OpAt
      BY <1>6, <3>1 DEF OpAt, RhsAt
    <3>3. QED
      BY <3>2 DEF Built
  <2>4. QED
    BY <1>1, <2>1, <2>2, <2>3
<1>15. Operand(nodes', toks', stack', idx', val')
  <2>1. stack'[Len(stack')] = callee[Len(callee)]
    BY <1>1, <1>6, <1>7
  <2>2. QED
    BY <1>6, <2>1 DEF Operand, OperandAt, RhsAt
<1>16. /\ Grown(nodes, nodes', toks, toks')
       /\ \A n \in 1 .. Len(nodes') : nodes'[n].kind = "binop" =>
             n \in 1 .. Len(nodes) /\ nodes[n].kind = "binop"
  BY <1>3, NodesGrown DEF NodesStep
<1>17. QED
  BY <1>1, <1>3, <1>14, <1>15, <1>16, ShapeStep

\* No operator follows: a factor is an operand of the sum it is part of.
LEMMA FactorReturned ==
    ASSUME IInv, IInv', ShapeInv, UNCHANGED <<toks, closed>>,
           Top.at = "factor_op", Return(Top.node), UNCHANGED <<idx, nodes>>
    PROVE  ShapeInv'
<1>1. /\ Len(stack) \in Nat /\ Len(stack) \in 1 .. Len(stack) /\ idx \in Nat
  BY Numbers
<1>2. /\ Len(stack) >= 2
      /\ Len(stack') = Len(stack) - 1
      /\ \A d \in 1 .. Len(stack) - 1 : stack'[d] = stack[d]
      /\ Top' = stack[Len(stack) - 1]
      /\ Calls(Top'.at, Top.at)
      /\ val' = Top.node
  BY PoppedStack DEF IInv, Return, Pops
<1>3. Top'.at \in {"term_lhs", "term_rhs"}
  BY <1>2 DEF Calls, FnAt, BlockAt, StmtAt, LetAt, TermAt, FactorAt, TypeAt, AuxAt
<1>4. PICK top : top = Len(stack')
  OBVIOUS
<1>5. /\ top = Len(stack) - 1 /\ top \in 1 .. Len(stack) - 1
      /\ stack'[top] = Top' /\ stack[top] = Top'
  BY <1>1, <1>2, <1>4
\* parse_expr_term is called by no operator.
<1>6. Floor(stack', top) = After(stack, Len(stack))
  <2>1. CASE Top'.at = "term_rhs"
    BY <1>1, <1>2, <1>5, <2>1 DEF Floor, After, RhsAt
  <2>2. CASE Top'.at = "term_lhs"
    <3>1. After(stack, Len(stack)) = 0
      BY <1>1, <1>5, <2>2 DEF After, RhsAt
    <3>2. ASSUME top > 1 PROVE stack'[top - 1].at \notin RhsAt
      <4>1. /\ top - 1 \in 1 .. Len(stack) - 1 /\ (top - 1) + 1 = top
            /\ stack'[top - 1] = stack[top - 1]
        BY <1>1, <1>2, <1>5, <3>2
      <4>2. Calls(stack[top - 1].at, stack[top].at)
        BY <4>1 DEF IInv, Frames
      <4>3. QED
        BY <1>5, <2>2, <4>1, <4>2
           DEF Calls, RhsAt, FnAt, BlockAt, StmtAt, LetAt, FactorAt, TypeAt, AuxAt,
               ExprCaller, TypeCaller, WaitsForType
    <3>3. QED
      BY <1>5, <2>2, <3>1, <3>2 DEF Floor, After, RhsAt
  <2>3. QED
    BY <1>3, <2>1, <2>2
<1>7. /\ Lies(nodes, Top.node, After(stack, Len(stack)), idx)
      /\ LevelOf(nodes, toks, Top.node) >= 1
  BY <1>1 DEF ShapeInv, Built, OpAt, RhsAt, FactorAt, Top
<1>8. Operand(nodes', toks', stack', idx', val')
  BY <1>2, <1>4, <1>6, <1>7 DEF Operand
<1>9. \A d \in 1 .. Len(stack') :
         /\ d \in 1 .. Len(stack) /\ stack'[d] = stack[d]
         /\ d > 1 => stack'[d - 1] = stack[d - 1]
  BY <1>1, <1>2
<1>10. /\ Grown(nodes, nodes', toks, toks')
       /\ \A n \in 1 .. Len(nodes') : nodes'[n].kind = "binop" =>
             n \in 1 .. Len(nodes) /\ nodes[n].kind = "binop"
  BY NodesGrown DEF NodesStep
<1>11. QED
  BY <1>1, <1>8, <1>9, <1>10, ShapeStep

\* The operator and its operands become a node.
LEMMA RhsShape ==
    ASSUME IInv, IInv', ShapeInv, UNCHANGED <<toks, closed>>,
           NEW back, NEW op, Rhs(back, op),
           \/ back = "factor_rhs" /\ op = "factor_op"
           \/ back = "term_rhs" /\ op = "term_op"
    PROVE  ShapeInv'
<1>1. /\ Len(stack) \in Nat /\ Len(stack) >= 1 /\ idx \in Nat /\ idx <= Len(toks) + 1
      /\ Len(stack) \in 1 .. Len(stack) /\ nodes \in Seq(Node)
      /\ Len(nodes) \in Nat /\ Len(toks) \in Nat
  BY Numbers
<1>2. PICK lhs, rhs, t : lhs = Top.node /\ rhs = val /\ t = Top.tok
  OBVIOUS
<1>3. PICK new, node : new = Len(nodes) + 1 /\ node = Binop(t, lhs, rhs)
  OBVIOUS
<1>4. /\ node.kind = "binop" /\ node.tok = t /\ node.kids = <<lhs, rhs>>
      /\ node.kids[1] = lhs /\ node.kids[2] = rhs
  BY <1>3 DEF Binop, MakeAst
<1>5. PICK frame : frame = MakeFrame(op, new, 0)
  OBVIOUS
<1>6. frame.at = op /\ frame.node = new
  BY <1>5 DEF MakeFrame
<1>7. Top.at = back /\ val # 0 /\ idx' = idx /\ nodes' = Append(nodes, node)
  BY <1>2, <1>3 DEF Rhs, Back, NewNode
<1>8. /\ Len(nodes') = new /\ nodes'[new] = node
      /\ \A m \in 1 .. Len(nodes) : nodes'[m] = nodes[m]
  BY <1>1, <1>3, <1>7
<1>9. TopGoes(frame)
  BY <1>5, <1>8 DEF Rhs
<1>10. /\ Len(stack') = Len(stack) /\ Top' = frame
       /\ stack'[Len(stack)] = frame
       /\ \A d \in 1 .. Len(stack) - 1 : stack'[d] = stack[d]
  BY <1>9, TopGone
<1>11. Grown(nodes, nodes', toks, toks')
  BY <1>1, <1>3, <1>8, Numbers DEF Grown
<1>12. PICK lo \in Nat : lo = After(stack, Len(stack))
  BY <1>1, AfterNat
<1>13. After(stack', Len(stack)) = lo
  BY <1>1, <1>10, <1>12 DEF After
<1>14. back \in RhsAt /\ stack[Len(stack)] = Top
  BY DEF RhsAt, Top
\* What the frame and the value are.
<1>15. /\ Lies(nodes, lhs, lo, t) /\ lo < t /\ t \in 1 .. Len(toks)
       /\ toks[t] \in OpsAt(back)
       /\ back = "factor_rhs" => LevelOf(nodes, toks, lhs) >= 1
  BY <1>1, <1>2, <1>7, <1>12, <1>14 DEF ShapeInv, Built, OpAt, FactorAt
<1>16. /\ Lies(nodes, rhs, t, idx)
       /\ back = "term_rhs" => LevelOf(nodes, toks, rhs) >= 1
  BY <1>2, <1>7, <1>14 DEF ShapeInv, Operand, OperandAt, Floor, TermAt
<1>17. back = "factor_rhs" => LevelOf(nodes, toks, rhs) = 2
  <2>1. ASSUME back = "factor_rhs"
        PROVE  KindOf(val) \in {"NULL", "const"}
    BY <1>7, <2>1 DEF IInv, Answer, Given, WaitsForNode, ExprCaller, TypeCaller
  <2>2. KindOf(val) = nodes[rhs].kind
    BY <1>2, <1>7 DEF KindOf
  <2>3. nodes[rhs].kind \in Operands
    <3>1. t \in Nat
      BY <1>1, <1>15
    <3>2. Lies(nodes, rhs, t, idx)
      BY <1>16
    <3>3. QED
      BY <1>1, <3>1, <3>2, LiesNode
  <2>4. QED
    BY <2>1, <2>2, <2>3 DEF LevelOf, Operands
<1>18. t \in Nat /\ t < idx
  <2>1. rhs \in 1 .. Len(nodes) /\ t < nodes[rhs].tok /\ nodes[rhs].tok < idx
    <3>1. t \in Nat
      BY <1>1, <1>15
    <3>2. Lies(nodes, rhs, t, idx)
      BY <1>16
    <3>3. QED
      BY <1>1, <3>1, <3>2, LiesNode
  <2>2. nodes[rhs].tok \in Nat
    BY <2>1, Numbers
  <2>3. QED
    BY <1>1, <1>15, <2>1, <2>2
<1>19. /\ LevelOf(nodes', toks', lhs) = LevelOf(nodes, toks, lhs)
       /\ LevelOf(nodes', toks', rhs) = LevelOf(nodes, toks, rhs)
       /\ LevelOf(nodes, toks, lhs) \in 0 .. 2
       /\ LevelOf(nodes, toks, rhs) \in 0 .. 2
  <2>1. Lies(nodes, lhs, lo, t) /\ Lies(nodes, rhs, t, idx)
    BY <1>15, <1>16
  <2>2. t \in Nat /\ idx \in Nat
    BY <1>1, <1>18
  <2>3. /\ LevelOf(nodes', toks', lhs) = LevelOf(nodes, toks, lhs)
        /\ LevelOf(nodes, toks, lhs) \in 0 .. 2
    BY <1>11, <2>1, <2>2, LevelGrown
  <2>4. /\ LevelOf(nodes', toks', rhs) = LevelOf(nodes, toks, rhs)
        /\ LevelOf(nodes, toks, rhs) \in 0 .. 2
    BY <1>11, <2>1, <2>2, LevelGrown
  <2>5. QED
    BY <2>3, <2>4
<1>20. /\ Lies(nodes', lhs, lo, t) /\ Lies(nodes', lhs, 0, t)
       /\ Lies(nodes', rhs, t, idx) /\ Lies(nodes', rhs, t, Len(toks) + 1)
  <2>1. Len(toks) + 1 \in Nat
    BY <1>1
  <2>2. QED
    BY <1>1, <1>11, <1>12, <1>15, <1>16, <1>18, <2>1, LiesGrown
<1>21. LevelOf(nodes', toks', new) = IF back = "factor_rhs" THEN 1 ELSE 0
  <2>1. LevelOf(nodes', toks', new) = IF toks[t] \in {"*", "/"} THEN 1 ELSE 0
    BY <1>4, <1>8 DEF LevelOf
  <2>2. QED
    BY <1>15, <2>1 DEF OpsAt
<1>22. Shaped(nodes', toks', new)
  <2>1. /\ LevelOf(nodes', toks', lhs) >= LevelOf(nodes', toks', new)
        /\ LevelOf(nodes', toks', rhs) > LevelOf(nodes', toks', new)
    BY <1>15, <1>16, <1>17, <1>19, <1>21
  <2>2. QED
    BY <1>4, <1>8, <1>20, <2>1 DEF Shaped
<1>23. \A m \in 1 .. Len(nodes') : nodes'[m].tok \in Nat
  <2> TAKE m \in 1 .. Len(nodes')
  <2>1. CASE m \in 1 .. Len(nodes)
    <3>1. nodes'[m] = nodes[m]
      BY <1>8, <2>1
    <3>2. nodes[m].tok \in Nat
      BY <2>1, Numbers
    <3>3. QED
      BY <3>1, <3>2
  <2>2. CASE m = new
    BY <1>4, <1>8, <1>18, <2>2
  <2>3. QED
    BY <1>1, <1>3, <1>8, <2>1, <2>2
<1>24. Lies(nodes', new, lo, idx)
  <2>1. new \in 1 .. Len(nodes')
    BY <1>1, <1>3, <1>8
  <2>2. nodes'[new].kind = "binop" /\ nodes'[new].tok = t
        /\ nodes'[new].kids = <<lhs, rhs>>
    BY <1>4, <1>8
  <2>3. QED
    BY <1>1, <1>12, <1>15, <1>18, <1>20, <1>23, <2>1, <2>2, LiesMade
<1>25. Built(nodes', toks', stack', idx', Len(stack))
  BY <1>6, <1>7, <1>10, <1>13, <1>21, <1>24 DEF Built, RhsAt, FactorAt
<1>26. \A d \in 1 .. Len(stack') :
          \/ /\ d \in 1 .. Len(stack) /\ stack'[d] = stack[d]
             /\ d > 1 => stack'[d - 1] = stack[d - 1]
          \/ Built(nodes', toks', stack', idx', d)
  <2> TAKE d \in 1 .. Len(stack')
  <2>1. CASE d < Len(stack)
    BY <1>1, <1>10, <2>1
  <2>2. CASE d = Len(stack)
    BY <1>25, <2>2
  <2>3. QED
    BY <1>1, <1>10, <2>1, <2>2
<1>27. Operand(nodes', toks', stack', idx', val')
  BY <1>6, <1>10 DEF Operand, OperandAt, RhsAt
<1>28. \A n \in 1 .. Len(nodes') : nodes'[n].kind = "binop" =>
          \/ n \in 1 .. Len(nodes) /\ nodes[n].kind = "binop"
          \/ Shaped(nodes', toks', n)
  BY <1>1, <1>3, <1>8, <1>22
<1>29. QED
  BY <1>1, <1>7, <1>11, <1>26, <1>27, <1>28, ShapeStep

\* All of parse_expr.
LEMMA ParseExprShape ==
    ASSUME IInv, IInv', ShapeInv, UNCHANGED <<toks, closed>>, ParseExpr
    PROVE  ShapeInv'
<1>1. idx \in Nat
  BY Numbers
<1>2. CASE ExprIf \/ BottomStr
  BY <1>2, PanicPlain, ShapePlain DEF ExprIf, BottomStr, Plain
<1>3. CASE ExprBlock
  <2>1. PICK frame : frame = MakeFrame("block", 0, 0)
    OBVIOUS
  <2>2. /\ frame.at = "block" /\ TopGoes(frame) /\ idx' = idx /\ UNCHANGED nodes
        /\ Top.at = "expr"
    BY <1>3, <2>1 DEF ExprBlock, MakeFrame, Heap, On
  <2>3. "block" \in PlainAt /\ "expr" \in PlainAt
    BY DEF PlainAt, BlockAt
  <2>4. NodesStep /\ StackStep
    BY <2>2, <2>3, Plainly, NodesPlainly
  <2>5. QED
    BY <1>1, <2>2, <2>4, ShapePlain
<1>4. CASE ExprTerm
  BY <1>4, ExprTermShape
<1>5. CASE BottomConst
  BY <1>5, BottomConstShape
<1>6. CASE BottomNull
  <2>1. Top.at = "bottom" /\ Return(0) /\ idx' = idx /\ UNCHANGED nodes
    BY <1>6 DEF BottomNull, On, Heap
  <2>2. StackStep /\ NodesStep
    BY <2>1 DEF StackStep, NodesStep
  <2>3. QED
    BY <1>1, <2>1, <2>2, ShapePlain
<1>7. CASE \/ Lhs("factor_lhs", "factor_op") \/ Lhs("term_lhs", "term_op")
  BY <1>7, LhsShape
<1>8. CASE \/ Rhs("factor_rhs", "factor_op") \/ Rhs("term_rhs", "term_op")
  BY <1>8, RhsShape
<1>9. CASE \/ RhsMissing("factor_rhs") \/ RhsMissing("term_rhs")
  <2>1. /\ Top.at \in {"factor_rhs", "term_rhs"} /\ Return(0)
        /\ idx' = idx /\ UNCHANGED nodes
    BY <1>9 DEF RhsMissing, Back
  <2>2. StackStep /\ NodesStep
    BY <2>1 DEF StackStep, NodesStep
  <2>3. QED
    BY <1>1, <2>1, <2>2, ShapePlain
<1>10. CASE Operator("factor_op", {"*", "/"}, "factor_rhs", << MakeFrame("bottom", 0, 0) >>)
  <2>1. CASE Peek \in {"*", "/"}
    BY <1>10, <2>1, OperatorTaken
  <2>2. CASE Peek \notin {"*", "/"}
    BY <1>10, <2>2, FactorReturned DEF Operator, On, Heap
  <2>3. QED
    BY <2>1, <2>2
<1>11. CASE Operator("term_op", {"+", "-"}, "term_rhs", FactorFrames)
  <2>1. CASE Peek \in {"+", "-"}
    BY <1>11, <2>1, OperatorTaken
  <2>2. CASE Peek \notin {"+", "-"}
    <3>1. Top.at = "term_op" /\ Return(Top.node) /\ idx' = idx /\ UNCHANGED nodes
      BY <1>11, <2>2 DEF Operator, On, Heap
    <3>2. StackStep /\ NodesStep
      BY <3>1 DEF StackStep, NodesStep, FactorAt
    <3>3. QED
      BY <1>1, <3>1, <3>2, ShapePlain
  <2>3. QED
    BY <2>1, <2>2
<1>12. QED
  BY <1>2, <1>3, <1>4, <1>5, <1>6, <1>7, <1>8, <1>9, <1>10, <1>11
     DEF ParseExpr, Factor, Term
-----------------------------------------------------------------------------
(***************************************************************************)
(* The shape at every step                                                 *)
(***************************************************************************)

\* There is no expression at first.
LEMMA InitShape == Init => ShapeInv
<1> SUFFICES ASSUME Init PROVE ShapeInv
  OBVIOUS
<1>1. PICK frame : frame = [at |-> "prog", node |-> 1, tok |-> 1]
  OBVIOUS
<1>2. PICK node : node = [kind |-> "prog", tok |-> 0, kids |-> <<>>]
  OBVIOUS
<1>3. stack = <<frame>> /\ nodes = <<node>> /\ val = 0
  BY <1>1, <1>2 DEF Init, MakeFrame, MakeAst
<1>4. Len(stack) = 1 /\ stack[1] = frame /\ Len(nodes) = 1 /\ nodes[1] = node
  BY <1>3
<1>5. \A n \in 1 .. Len(nodes) : nodes[n].kind # "binop"
  BY <1>2, <1>4
<1>6. \A d \in 1 .. Len(stack) : stack[d].at \notin OpAt
  BY <1>1, <1>4 DEF OpAt, RhsAt
<1>7. QED
  BY <1>3, <1>5, <1>6 DEF ShapeInv, Built, Operand

\* One token more changes no node.
LEMMA FeedShape ==
    ASSUME IInv, IInv', ShapeInv, Feed
    PROVE  ShapeInv'
<1>1. UNCHANGED <<idx, stack, val, nodes>>
  BY DEF Feed
<1>2. /\ Len(nodes) \in Nat /\ Len(toks) \in Nat /\ toks \in Seq(Tokens) /\ idx \in Nat
      /\ \A m \in 1 .. Len(nodes) : nodes[m].tok \in Nat /\ nodes[m].tok <= Len(toks)
  BY Numbers
<1>3. /\ Len(toks') \in Nat /\ Len(toks) <= Len(toks')
      /\ \A i \in 1 .. Len(toks) : toks'[i] = toks[i]
  <2>1. CASE UNCHANGED toks
    BY <1>2, <2>1
  <2>2. CASE \E tok \in Tokens : toks' = Append(toks, tok)
    BY <1>2, <2>2
  <2>3. QED
    BY <2>1, <2>2 DEF Feed
<1>4. Grown(nodes, nodes', toks, toks')
  BY <1>1, <1>2, <1>3 DEF Grown
<1>5. Operand(nodes', toks', stack', idx', val')
  <2>1. Operand(nodes', toks', stack, idx', val)
    BY <1>1, <1>2, <1>4, OperandGrown DEF ShapeInv
  <2>2. QED
    BY <1>1, <2>1
<1>6. QED
  BY <1>1, <1>2, <1>4, <1>5, ShapeStep

\* Every step keeps the shape.
LEMMA NextShape ==
    ASSUME IInv, ShapeInv, [Next]_vars
    PROVE  ShapeInv'
<1>1. IInv' /\ idx \in Nat
  BY NextIInv, Numbers
<1>2. CASE Feed
  BY <1>1, <1>2, FeedShape
<1>3. ASSUME UNCHANGED <<toks, stack, val, nodes>>, idx' = idx \/ idx' = idx + 1
      PROVE  ShapeInv'
  <2>1. NodesStep /\ StackStep
    BY <1>3 DEF NodesStep, StackStep
  <2>2. UNCHANGED toks /\ idx <= idx'
    BY <1>1, <1>3
  <2>3. QED
    BY <1>1, <2>1, <2>2, ShapePlain
<1>4. CASE Parse /\ UNCHANGED <<toks, closed>>
  <2>1. CASE ParseProg \/ ParseFn \/ ParseBlock \/ ParseStmt \/ ParseType
    <3>1. Plain
      BY <2>1, ParseProgPlain, ParseFnPlain, ParseBlockPlain, ParseStmtPlain,
         ParseTypePlain
    <3>2. QED
      BY <1>1, <1>4, <3>1, ShapePlain DEF Plain
  <2>2. CASE ParseExpr
    BY <1>1, <1>4, <2>2, ParseExprShape
  <2>3. CASE ConsumeWhitespace \/ LookAtNull
    BY <1>3, <1>4, <2>3 DEF ConsumeWhitespace, LookAtNull, Heap
  <2>4. CASE ReleaseTree \/ CheckLeak
    BY <1>3, <1>4, <2>4 DEF ReleaseTree, CheckLeak, Heap
  <2>5. QED
    BY <1>4, <2>1, <2>2, <2>3, <2>4 DEF Parse
<1>5. CASE UNCHANGED vars
  BY <1>3, <1>5 DEF vars
<1>6. QED
  BY <1>2, <1>4, <1>5 DEF Next

\* What lies somewhere has its tokens there: the nodes it is made of are
\* closed, and what is below a node is the least that is.
LEMMA LiesSubTokens ==
    ASSUME IInv, NEW n, NEW lo \in Nat, NEW hi \in Nat, Lies(nodes, n, lo, hi)
    PROVE  \A t \in SubTokens(n) : lo < t /\ t < hi
<1>1. PICK S \in SUBSET (1 .. Len(nodes)) :
        /\ n \in S
        /\ \A m \in S : /\ nodes[m].kind \in Operands
                        /\ lo < nodes[m].tok /\ nodes[m].tok < hi
                        /\ \A i \in 1 .. Len(nodes[m].kids) : nodes[m].kids[i] \in S
  BY DEF Lies
<1>2. PICK kids : kids = [m \in 1 .. Len(nodes) |->
                             { nodes[m].kids[i] : i \in 1 .. Len(nodes[m].kids) }]
  OBVIOUS
<1>3. SubTokens(n) = { nodes[m].tok : m \in Reached(n, kids, Len(nodes)) \ {0} }
  BY <1>2 DEF SubTokens
<1>4. \A m \in 1 .. Len(nodes) :
         kids[m] = { nodes[m].kids[i] : i \in 1 .. Len(nodes[m].kids) }
  BY <1>2
<1>5. kids \in [1 .. Len(nodes) -> SUBSET (0 .. Len(nodes))]
  <2>1. ASSUME NEW m \in 1 .. Len(nodes), NEW i \in 1 .. Len(nodes[m].kids)
        PROVE  nodes[m].kids[i] \in 0 .. Len(nodes)
    <3>1. nodes[m].kids \in Seq(Nat) /\ Len(nodes) \in Nat
      <4>1. nodes[m] \in Node /\ Len(nodes) \in Nat
        BY Numbers
      <4>2. QED
        BY <4>1 DEF Node
    <3>2. nodes[m].kids[i] <= Len(nodes)
      BY DEF IInv, Tree
    <3>3. QED
      BY <3>1, <3>2
  <2>2. \A m \in 1 .. Len(nodes) :
           { nodes[m].kids[i] : i \in 1 .. Len(nodes[m].kids) }
              \in SUBSET (0 .. Len(nodes))
    BY <2>1
  <2>3. QED
    BY <1>2, <2>2, Zenon
<1>6. n \in 0 .. Len(nodes) /\ Len(nodes) \in Nat
  BY <1>1, Numbers
<1>7. \A m \in S \ {0} : m \in 1 .. Len(nodes) => kids[m] \subseteq S
  BY <1>1, <1>4
<1>8. Reached(n, kids, Len(nodes)) \subseteq S
  BY <1>1, <1>5, <1>6, <1>7, ReachedLeast
<1>9. QED
  BY <1>1, <1>3, <1>8

\* The invariant is what the property says.
LEMMA ShapeExpr ==
    ASSUME IInv, ShapeInv
    PROVE  ExprShape
<1> SUFFICES ASSUME NEW n \in 1 .. Len(nodes), nodes[n].kind = "binop"
             PROVE  /\ \A t \in SubTokens(nodes[n].kids[1]) : t < nodes[n].tok
                    /\ \A t \in SubTokens(nodes[n].kids[2]) : t > nodes[n].tok
                    /\ Level(nodes[n].kids[1]) >= Level(n)
                    /\ Level(nodes[n].kids[2]) > Level(n)
  BY DEF ExprShape
<1>1. PICK lhs, rhs : lhs = nodes[n].kids[1] /\ rhs = nodes[n].kids[2]
  OBVIOUS
<1>2. PICK tok \in Nat : tok = nodes[n].tok
  BY Numbers
<1>3. /\ Lies(nodes, lhs, 0, tok) /\ Lies(nodes, rhs, tok, Len(toks) + 1)
      /\ LevelOf(nodes, toks, lhs) >= LevelOf(nodes, toks, n)
      /\ LevelOf(nodes, toks, rhs) > LevelOf(nodes, toks, n)
  BY <1>1, <1>2 DEF ShapeInv, Shaped
<1>4. Len(toks) + 1 \in Nat
  BY Numbers
<1>5. \A t \in SubTokens(lhs) : 0 < t /\ t < tok
  BY <1>2, <1>3, LiesSubTokens
<1>6. \A t \in SubTokens(rhs) : tok < t /\ t < Len(toks) + 1
  BY <1>2, <1>3, <1>4, LiesSubTokens
<1>7. \A m : Level(m) = LevelOf(nodes, toks, m)
  BY DEF Level, LevelOf
<1>8. QED
  BY <1>1, <1>2, <1>3, <1>5, <1>6, <1>7

\* An operator stands between its operands, '*' and '/' bind tighter than '+'
\* and '-', and operators of one level associate to the left.
THEOREM AlwaysExprShape == Spec => []ExprShape
<1>1. Init => IInv /\ ShapeInv
  BY InitIInv, InitShape
<1>2. IInv /\ ShapeInv /\ [Next]_vars => (IInv /\ ShapeInv)'
  BY NextIInv, NextShape
<1>3. IInv /\ ShapeInv => ExprShape
  BY ShapeExpr
<1>4. QED
  BY <1>1, <1>2, <1>3, PTL DEF Spec
-----------------------------------------------------------------------------
(***************************************************************************)
(* The parser comes to its end: StepsLeft bounds the steps to come.        *)
(***************************************************************************)

Less == StepsLeft' \in Nat /\ StepsLeft' < StepsLeft

Bound(i, n, c, k, e, r) ==
    12 * (MaxToks + 1 - i) + (MaxToks - n) + c + 2 * k + e + r

Weighed ==
    /\ StepsLeft \in Nat /\ Effort(Top.at, val) \in Int /\ Remains \in 0 .. 3
    /\ idx \in Int /\ Len(toks) \in Int /\ Len(stack) \in Int

\* No label is worth more than a token.
LEMMA EffortIs ==
    ASSUME NEW at, NEW given
    PROVE  Effort(at, given) \in 0 .. 12
BY DEF Effort

\* What the program has left outside the parser.
LEMMA RemainsIs == Remains \in 0 .. 3
BY DEF Remains

\* The bound is a number, ...
LEMMA BoundIs ==
    ASSUME NEW i \in Int, NEW n \in Int, NEW c \in 0 .. 1, NEW k \in Nat,
           NEW e \in 0 .. 12, NEW r \in 0 .. 3, i <= n + 1, n <= MaxToks
    PROVE  Bound(i, n, c, k, e, r) \in Nat
<1>1. PICK m \in Int : m = MaxToks
  BY ParserAssumption
<1>2. 12 * (m + 1 - i) + (m - n) + c + 2 * k + e + r \in Nat
  BY <1>1
<1>3. QED
  BY <1>1, <1>2 DEF Bound

\* ... and it is StepsLeft, ...
LEMMA StepsLeftIs == IInv => Weighed
<1> SUFFICES ASSUME IInv PROVE Weighed
  OBVIOUS
<1>1. /\ idx \in Int /\ Len(toks) \in Int /\ Len(stack) \in Nat
      /\ idx <= Len(toks) + 1 /\ Len(toks) <= MaxToks
  BY Numbers DEF IInv, TokensTyped
<1>2. Effort(Top.at, val) \in 0 .. 12 /\ Remains \in 0 .. 3
  BY EffortIs, RemainsIs
<1>3. PICK c \in 0 .. 1 : c = (IF closed THEN 0 ELSE 1)
  OBVIOUS
<1>4. Bound(idx, Len(toks), c, Len(stack), Effort(Top.at, val), Remains) \in Nat
  BY <1>1, <1>2, BoundIs
<1>5. StepsLeft \in Nat
  BY <1>3, <1>4 DEF StepsLeft, Bound
<1>6. QED
  BY <1>1, <1>2, <1>5 DEF Weighed

\* ... also after a step.
LEMMA StepsLeftNext == IInv' => Weighed'
BY StepsLeftIs, PTL

\* A step of a function lowers the bound when the frames it adds, and what is
\* to be done from there on, weigh less than what it does, or than a token.
LEMMA StepFalls ==
    ASSUME IInv, IInv', UNCHANGED <<toks, closed>>, out = "running",
           NEW d \in -1 .. 2, Len(stack') = Len(stack) + d,
           \/ idx' = idx /\ 2 * d + Effort(Top'.at, val') < Effort(Top.at, val)
           \/ /\ idx' = idx + 1
              /\ 2 * d + Effort(Top'.at, val') < 12 + Effort(Top.at, val)
    PROVE  Less
<1>1. PICK i, n, k, e \in Int :
         i = idx /\ n = Len(toks) /\ k = Len(stack) /\ e = Effort(Top.at, val)
  BY StepsLeftIs DEF Weighed
<1>2. PICK j, f \in Int : j = idx' /\ f = Effort(Top'.at, val')
  BY StepsLeftNext DEF Weighed
<1>3. PICK s \in 0 .. 3 : s = Remains'
  BY StepsLeftNext DEF Weighed
<1>4. Remains = 3
  BY DEF Remains
<1>5. PICK c \in Int : c = (IF closed THEN 0 ELSE 1)
  OBVIOUS
<1>6. PICK l \in Int : l = k + d
  OBVIOUS
<1>7. (j = i /\ 2 * d + f < e) \/ (j = i + 1 /\ 2 * d + f < 12 + e)
  BY <1>1, <1>2
<1>8. 12 * (i - j) + (n - n) + (c - c) + 2 * (l - k) + (f - e) + (s - 3) < 0
  BY <1>6, <1>7
<1>9. Bound(j, n, c, l, f, s) < Bound(i, n, c, k, e, 3)
  BY <1>8, ParserAssumption DEF Bound
<1>10. StepsLeft = Bound(i, n, c, k, e, 3) /\ StepsLeft' = Bound(j, n, c, l, f, s)
  BY <1>1, <1>2, <1>3, <1>4, <1>5, <1>6 DEF StepsLeft, Bound
<1>11. QED
  BY <1>9, <1>10, StepsLeftNext DEF Less, Weighed

\* The program stops, or goes on outside the parser.
LEMMA StopFalls ==
    ASSUME IInv, IInv', UNCHANGED <<toks, closed, idx, stack, val>>,
           Remains' < Remains
    PROVE  Less
<1>1. PICK i, n, k, e \in Int :
         i = idx /\ n = Len(toks) /\ k = Len(stack) /\ e = Effort(Top.at, val)
  BY StepsLeftIs DEF Weighed
<1>2. PICK r \in Int : r = Remains
  BY RemainsIs
<1>3. PICK s \in Int : s = Remains'
  BY StepsLeftNext DEF Weighed
<1>4. PICK c \in Int : c = (IF closed THEN 0 ELSE 1)
  OBVIOUS
<1>5. s < r
  BY <1>2, <1>3
<1>6. 12 * (i - i) + (n - n) + (c - c) + 2 * (k - k) + (e - e) + (s - r) < 0
  BY <1>5
<1>7. Bound(i, n, c, k, e, s) < Bound(i, n, c, k, e, r)
  BY <1>6, ParserAssumption DEF Bound
<1>8. Top' = Top
  BY DEF Top
<1>9. StepsLeft = Bound(i, n, c, k, e, r) /\ StepsLeft' = Bound(i, n, c, k, e, s)
  BY <1>1, <1>2, <1>3, <1>4, <1>8 DEF StepsLeft, Bound
<1>10. QED
  BY <1>7, <1>9, StepsLeftNext DEF Less, Weighed

\* A panic, above all.
LEMMA PanicFalls ==
    ASSUME IInv, IInv', UNCHANGED <<toks, closed>>, out = "running", Panic
    PROVE  Less
BY StopFalls DEF Panic, Remains

\* A function goes on at another label, ...
LEMMA GoFalls ==
    ASSUME IInv, IInv', UNCHANGED <<toks, closed>>, out = "running",
           NEW to, Goto(to) \/ (\E node, tok : TopGoes(MakeFrame(to, node, tok))),
           \/ idx' = idx /\ Effort(to, val') < Effort(Top.at, val)
           \/ idx' = idx + 1 /\ Effort(to, val') < 12 + Effort(Top.at, val)
    PROVE  Less
<1>1. PICK frame : TopGoes(frame) /\ frame.at = to
  <2>1. ASSUME NEW node, NEW tok
        PROVE  MakeFrame(to, node, tok).at = to
    BY DEF MakeFrame
  <2>2. CASE Goto(to)
    BY <2>2, Labels DEF Goto
  <2>3. CASE \E node, tok : TopGoes(MakeFrame(to, node, tok))
    BY <2>1, <2>3
  <2>4. QED
    BY <2>2, <2>3
<1>2. Len(stack') = Len(stack) /\ Top'.at = to /\ Len(stack) \in Nat
  BY <1>1, TopGone, Numbers
<1>3. 0 \in -1 .. 2 /\ Len(stack') = Len(stack) + 0
  BY <1>2
<1>4. Effort(to, val') \in 0 .. 12
  BY EffortIs
<1>5. QED
  BY <1>2, <1>3, <1>4, StepFalls

\* ... calls another function, ...
LEMMA CallFalls ==
    ASSUME IInv, IInv', UNCHANGED <<toks, closed>>, out = "running",
           NEW frame, NEW callee,
           stack' = Append([stack EXCEPT ![Len(stack)] = frame], callee),
           \/ idx' = idx /\ 2 + Effort(callee.at, val') < Effort(Top.at, val)
           \/ idx' = idx + 1 /\ Effort(callee.at, val') < 10
    PROVE  Less
<1>1. Len(stack') = Len(stack) + 1 /\ Top' = callee
  BY TopCalled
<1>2. PICK e, f \in 0 .. 12 : e = Effort(Top.at, val) /\ f = Effort(callee.at, val')
  BY EffortIs
<1>3. \/ idx' = idx /\ 2 * 1 + f < e
      \/ idx' = idx + 1 /\ 2 * 1 + f < 12 + e
  BY <1>2
<1>4. \/ idx' = idx /\ 2 * 1 + Effort(Top'.at, val') < Effort(Top.at, val)
      \/ idx' = idx + 1 /\ 2 * 1 + Effort(Top'.at, val') < 12 + Effort(Top.at, val)
  BY <1>1, <1>2, <1>3
<1>5. 1 \in -1 .. 2
  OBVIOUS
<1>6. QED
  BY <1>1, <1>4, <1>5, StepFalls

\* ... as Call says it, ...
LEMMA CalledFalls ==
    ASSUME IInv, IInv', UNCHANGED <<toks, closed>>, out = "running",
           NEW back, NEW to, Call(back, to),
           \/ idx' = idx /\ 2 + Effort(to, val') < Effort(Top.at, val)
           \/ idx' = idx + 1 /\ Effort(to, val') < 10
    PROVE  Less
<1>1. PICK frame : frame = [Top EXCEPT !.at = back]
  OBVIOUS
<1>2. PICK callee : callee = MakeFrame(to, 0, idx)
  OBVIOUS
<1>3. stack' = Append([stack EXCEPT ![Len(stack)] = frame], callee)
  BY <1>1, <1>2 DEF Call, Top
<1>4. callee.at = to
  BY <1>2 DEF MakeFrame
<1>5. QED
  BY <1>3, <1>4, CallFalls

\* ... or returns to the function that called it.
LEMMA ReturnFalls ==
    ASSUME IInv, IInv', UNCHANGED <<toks, closed>>, out = "running",
           NEW v, Return(v), Top.at \notin {"prog", "prog_fn"},
           idx' \in {idx, idx + 1},
           \A at : Calls(at, Top.at) /\ idx' = idx =>
                      Effort(at, v) < 2 + Effort(Top.at, val)
    PROVE  Less
<1>1. /\ Len(stack) \in Nat /\ Len(stack') = Len(stack) - 1
      /\ Calls(Top'.at, Top.at)
  BY PoppedStack DEF IInv, Return, Pops
<1>2. val' = v
  BY DEF Return
<1>3. Effort(Top'.at, val') \in 0 .. 12 /\ Effort(Top.at, val) \in 0 .. 12
  BY EffortIs
<1>4. PICK e, f \in 0 .. 12 : e = Effort(Top.at, val) /\ f = Effort(Top'.at, val')
  BY <1>3
<1>5. 2 * (-1) + f < 12 + e /\ (idx' = idx => 2 * (-1) + f < e)
  <2>1. 2 * (-1) + f < 12 + e
    OBVIOUS
  <2>2. idx' = idx => f < 2 + e
    BY <1>1, <1>2, <1>4
  <2>3. QED
    BY <2>1, <2>2
<1>6. \/ idx' = idx /\ 2 * (-1) + Effort(Top'.at, val') < Effort(Top.at, val)
      \/ idx' = idx + 1 /\ 2 * (-1) + Effort(Top'.at, val') < 12 + Effort(Top.at, val)
  BY <1>4, <1>5
<1>7. -1 \in -1 .. 2 /\ Len(stack') = Len(stack) + (-1)
  BY <1>1
<1>8. QED
  BY <1>6, <1>7, StepFalls

\* A return that consumed a token.
LEMMA TokenReturns ==
    ASSUME IInv, IInv', UNCHANGED <<toks, closed>>, out = "running",
           NEW v, Return(v), Top.at \notin {"prog", "prog_fn"}, idx' = idx + 1
    PROVE  Less
<1>1. idx' # idx
  BY Numbers
<1>2. QED
  BY <1>1, ReturnFalls

\* A token is consumed, and the function is where it was.
LEMMA TokenFalls ==
    ASSUME IInv, IInv', UNCHANGED <<toks, closed, stack, val>>, out = "running",
           idx' = idx + 1
    PROVE  Less
<1>1. Top' = Top /\ Len(stack') = Len(stack) + 0 /\ 0 \in -1 .. 2
  BY Numbers DEF Top
<1>2. PICK e \in 0 .. 12 : e = Effort(Top.at, val)
  BY EffortIs
<1>3. 2 * 0 + Effort(Top'.at, val') < 12 + Effort(Top.at, val)
  BY <1>1, <1>2
<1>4. QED
  BY <1>1, <1>3, StepFalls

\* A call of parse_expr_factor is two frames.
LEMMA FactorPushed ==
    ASSUME IInv, NEW frame \in Frame, Pushes(frame, FactorFrames)
    PROVE  Len(stack') = Len(stack) + 2 /\ Top'.at = "bottom"
<1>1. FactorFrames \in Seq(Frame) /\ Len(FactorFrames) = 2
  BY DEF FactorFrames, MakeFrame, Frame, Label, Looking, SkipsWhitespace, Waiting,
         WaitsForNode
<1>2. TopAt(frame, FactorFrames) = "bottom"
  BY DEF TopAt, FactorFrames, MakeFrame
<1>3. QED
  BY <1>1, <1>2, PushedStack, Numbers

\* parse_prog.
LEMMA ParseProgFalls ==
    ASSUME IInv, IInv', UNCHANGED <<toks, closed>>, ParseProg
    PROVE  Less
<1>1. CASE ProgFn
  <2>1. /\ out = "running" /\ Top.at = "prog"
        /\ Call("prog_fn", "fn_name") /\ idx' = idx + 1
    BY <1>1 DEF ProgFn, On, Back
  <2>2. Effort("fn_name", val') < 10
    BY <2>1 DEF Effort
  <2>3. QED
    BY <2>1, <2>2, CalledFalls
<1>2. CASE ProgFnDone
  <2>1. /\ out = "running" /\ Top.at = "prog_fn"
        /\ Goto("prog") /\ idx' = idx
    BY <1>2 DEF ProgFnDone, On, Back
  <2>2. Effort("prog", val') < Effort(Top.at, val)
    BY <2>1 DEF Effort
  <2>3. QED
    BY <2>1, <2>2, GoFalls
<1>3. CASE ProgDecl
  BY <1>3, PanicFalls DEF ProgDecl, On, Back
<1>4. CASE ProgUnknown
  BY <1>4, TokenFalls DEF ProgUnknown, On
<1>5. CASE ProgEnd
  BY <1>5, StopFalls DEF ProgEnd, Remains
<1>6. QED
  BY <1>1, <1>2, <1>3, <1>4, <1>5 DEF ParseProg

\* Going round in the loop over the parameters changes nothing.
LEMMA RoundStays ==
    ASSUME IInv, IInv', UNCHANGED <<toks, closed, idx, val, out>>,
           Top.at \in {"fn_param", "fn_comma"},
           NEW to \in {"fn_param", "fn_comma"}, Goto(to)
    PROVE  StepsLeft' = StepsLeft /\ InParams /\ InParams'
<1>1. PICK frame : TopGoes(frame) /\ frame.at = to
  BY Labels DEF Goto
<1>2. Len(stack') = Len(stack) /\ Top'.at = to
  BY <1>1, TopGone
<1>3. Effort(Top.at, val) = 1 /\ Effort(Top'.at, val') = 1
  BY <1>2 DEF Effort
<1>4. Remains' = Remains
  BY DEF Remains
<1>5. QED
  BY <1>2, <1>3, <1>4 DEF StepsLeft, InParams

\* parse_fn, but for the loop over the parameters: it goes round without a
\* change, and leaves at a comma.
LEMMA ParseFnFalls ==
    ASSUME IInv, IInv', UNCHANGED <<toks, closed>>, ParseFn
    PROVE  Less \/ (StepsLeft' = StepsLeft /\ InParams /\ InParams')
<1>1. CASE FnName
  <2>1. CASE Peek \in {"ident", "prim"}
    <3>1. /\ out = "running" /\ Top.at = "fn_name"
          /\ \E node, tok : TopGoes(MakeFrame("fn_lparen", node, tok))
          /\ idx' = idx + 1
      BY <1>1, <2>1 DEF FnName, On, Back
    <3>2. Effort("fn_lparen", val') < 12 + Effort(Top.at, val)
      BY <3>1 DEF Effort
    <3>3. QED
      BY <3>1, <3>2, GoFalls
  <2>2. CASE Peek \notin {"ident", "prim"}
    <3>1. /\ out = "running" /\ Top.at = "fn_name"
          /\ Return(0) /\ idx' = idx
      BY <1>1, <2>2 DEF FnName, On, Back
    <3>2. \A at : Calls(at, Top.at) => Effort(at, 0) < 2 + Effort(Top.at, val)
      BY <3>1 DEF Calls, Effort, FnAt, BlockAt, StmtAt, LetAt, TermAt,
                 FactorAt, TypeAt, AuxAt, ExprCaller, TypeCaller, WaitsForType
    <3>3. QED
      BY <3>1, <3>2, ReturnFalls
  <2>3. QED
    BY <2>1, <2>2
<1>2. CASE FnLparen
  <2>1. /\ out = "running" /\ Top.at = "fn_lparen"
        /\ Goto("fn_params") /\ idx' = idx + 1
    BY <1>2 DEF FnLparen, On, Back
  <2>2. Effort("fn_params", val') < 12 + Effort(Top.at, val)
    BY <2>1 DEF Effort
  <2>3. QED
    BY <2>1, <2>2, GoFalls
<1>3. CASE FnNoParams
  <2>1. /\ out = "running" /\ Top.at = "fn_params"
        /\ Goto("fn_rparen") /\ idx' = idx
    BY <1>3 DEF FnNoParams, On, Back
  <2>2. Effort("fn_rparen", val') < Effort(Top.at, val)
    BY <2>1 DEF Effort
  <2>3. QED
    BY <2>1, <2>2, GoFalls
<1>4. CASE FnRparen
  <2>1. /\ out = "running" /\ Top.at = "fn_rparen"
        /\ Goto("fn_ret") /\ idx' = idx + 1
    BY <1>4 DEF FnRparen, On, Back
  <2>2. Effort("fn_ret", val') < 12 + Effort(Top.at, val)
    BY <2>1 DEF Effort
  <2>3. QED
    BY <2>1, <2>2, GoFalls
<1>5. CASE FnRet
  <2>1. CASE Peek = "-"
    <3>1. /\ out = "running" /\ Top.at = "fn_ret"
          /\ Goto("ret_arrow") /\ idx' = idx + 1
      BY <1>5, <2>1 DEF FnRet, On, Back
    <3>2. Effort("ret_arrow", val') < 12 + Effort(Top.at, val)
      BY <3>1 DEF Effort
    <3>3. QED
      BY <3>1, <3>2, GoFalls
  <2>2. CASE Peek # "-"
    <3>1. /\ out = "running" /\ Top.at = "fn_ret"
          /\ Goto("fn_body") /\ idx' = idx
      BY <1>5, <2>2 DEF FnRet, On, Back
    <3>2. Effort("fn_body", val') < Effort(Top.at, val)
      BY <3>1 DEF Effort
    <3>3. QED
      BY <3>1, <3>2, GoFalls
  <2>3. QED
    BY <2>1, <2>2
<1>6. CASE FnRetArrow
  <2>1. /\ out = "running" /\ Top.at = "ret_arrow"
        /\ Call("fn_ret_type", "type") /\ idx' = idx + 1
    BY <1>6 DEF FnRetArrow, On, Back
  <2>2. Effort("type", val') < 10
    BY <2>1 DEF Effort
  <2>3. QED
    BY <2>1, <2>2, CalledFalls
<1>7. CASE FnRetType
  <2>1. /\ out = "running" /\ Top.at = "fn_ret_type"
        /\ Goto("fn_body") /\ idx' = idx
    BY <1>7 DEF FnRetType, On, Back
  <2>2. Effort("fn_body", val') < Effort(Top.at, val)
    BY <2>1 DEF Effort
  <2>3. QED
    BY <2>1, <2>2, GoFalls
<1>8. CASE FnBody
  <2>1. /\ out = "running" /\ Top.at = "fn_body"
        /\ Call("fn_end", "block") /\ idx' = idx
    BY <1>8 DEF FnBody, On, Back
  <2>2. 2 + Effort("block", val') < Effort(Top.at, val)
    BY <2>1 DEF Effort
  <2>3. QED
    BY <2>1, <2>2, CalledFalls
<1>9. CASE FnEnd
  <2>1. /\ out = "running" /\ Top.at = "fn_end"
        /\ Return(Top.node) /\ idx' = idx
    BY <1>9 DEF FnEnd, On, Back
  <2>2. \A at : Calls(at, Top.at) => Effort(at, Top.node) < 2 + Effort(Top.at, val)
    BY <2>1 DEF Calls, Effort, FnAt, BlockAt, StmtAt, LetAt, TermAt,
               FactorAt, TypeAt, AuxAt, ExprCaller, TypeCaller, WaitsForType
  <2>3. QED
    BY <2>1, <2>2, ReturnFalls
<1>10. CASE FnParam
  <2>1. /\ out = "running" /\ Top.at \in {"fn_params", "fn_param"}
        /\ Goto("fn_comma") /\ UNCHANGED <<idx, val, out>>
    BY <1>10 DEF FnParam, On, Back, Quiet
  <2>2. CASE Top.at = "fn_params"
    <3>1. Effort("fn_comma", val') < Effort(Top.at, val)
      BY <2>2 DEF Effort
    <3>2. QED
      BY <2>1, <3>1, GoFalls
  <2>3. CASE Top.at = "fn_param"
    BY <2>1, <2>3, RoundStays
  <2>4. QED
    BY <2>1, <2>2, <2>3
<1>11. CASE FnComma
  <2>1. /\ out = "running" /\ Top.at = "fn_comma"
        /\ UNCHANGED <<idx, val, out>>
    BY <1>11 DEF FnComma, On, Quiet
  <2>2. CASE Peek = ","
    <3>1. Goto("fn_rparen")
      BY <1>11, <2>2 DEF FnComma
    <3>2. Effort("fn_rparen", val') < Effort(Top.at, val)
      BY <2>1 DEF Effort
    <3>3. QED
      BY <2>1, <3>1, <3>2, GoFalls
  <2>3. CASE Peek # ","
    <3>1. Goto("fn_param")
      BY <1>11, <2>3 DEF FnComma
    <3>2. QED
      BY <2>1, <3>1, RoundStays
  <2>4. QED
    BY <2>2, <2>3
<1>12. QED
  BY <1>1, <1>2, <1>3, <1>4, <1>5, <1>6, <1>7, <1>8, <1>9, <1>10, <1>11 DEF ParseFn

\* parse_block.
LEMMA ParseBlockFalls ==
    ASSUME IInv, IInv', UNCHANGED <<toks, closed>>, ParseBlock
    PROVE  Less
<1>1. CASE Block
  <2>1. CASE Peek = "{"
    <3>1. /\ out = "running" /\ Top.at = "block"
          /\ \E node, tok : TopGoes(MakeFrame("block_loop", node, tok))
          /\ idx' = idx + 1
      BY <1>1, <2>1 DEF Block, On, Back
    <3>2. Effort("block_loop", val') < 12 + Effort(Top.at, val)
      BY <3>1 DEF Effort
    <3>3. QED
      BY <3>1, <3>2, GoFalls
  <2>2. CASE Peek # "{"
    BY <1>1, <2>2, PanicFalls DEF Block, On, Back
  <2>3. QED
    BY <2>1, <2>2
<1>2. CASE BlockStmt
  <2>1. PICK frame : frame = MakeFrame("block_stmt", Top.node, idx)
    OBVIOUS
  <2>2. PICK callee : callee = MakeFrame("stmt", 0, 0)
    OBVIOUS
  <2>3. /\ out = "running" /\ Top.at = "block_loop" /\ idx' = idx
        /\ stack' = Append([stack EXCEPT ![Len(stack)] = frame], callee)
    BY <1>2, <2>1, <2>2 DEF BlockStmt, On
  <2>4. callee.at = "stmt"
    BY <2>2 DEF MakeFrame
  <2>5. 2 + Effort(callee.at, val') < Effort(Top.at, val)
    BY <2>3, <2>4 DEF Effort
  <2>6. QED
    BY <2>3, <2>5, CallFalls
<1>3. CASE BlockStmtDone
  <2>1. CASE Top.tok = idx \/ ~ AstIsStmt(val)
    BY <1>3, <2>1, PanicFalls DEF BlockStmtDone, On, Back
  <2>2. CASE ~ (Top.tok = idx \/ ~ AstIsStmt(val))
    <3>1. /\ out = "running" /\ Top.at = "block_stmt"
          /\ Goto("block_loop") /\ idx' = idx
      BY <1>3, <2>2 DEF BlockStmtDone, On, Back
    <3>2. Effort("block_loop", val') < Effort(Top.at, val)
      BY <3>1 DEF Effort
    <3>3. QED
      BY <3>1, <3>2, GoFalls
  <2>3. QED
    BY <2>1, <2>2
<1>4. CASE BlockLoopEnd
  <2>1. /\ out = "running" /\ Top.at = "block_loop"
        /\ Goto("block_end") /\ idx' = idx
    BY <1>4 DEF BlockLoopEnd, On, Back
  <2>2. Effort("block_end", val') < Effort(Top.at, val)
    BY <2>1 DEF Effort
  <2>3. QED
    BY <2>1, <2>2, GoFalls
<1>5. CASE BlockEnd
  BY <1>5, TokenReturns DEF BlockEnd, On
<1>6. QED
  BY <1>1, <1>2, <1>3, <1>4, <1>5 DEF ParseBlock

\* parse_stmt.
LEMMA ParseStmtFalls ==
    ASSUME IInv, IInv', UNCHANGED <<toks, closed>>, ParseStmt
    PROVE  Less
<1>1. CASE StmtLet
  <2>1. /\ out = "running" /\ Top.at = "stmt"
        /\ \E node, tok : TopGoes(MakeFrame("let_name", node, tok))
        /\ idx' = idx + 1
    BY <1>1 DEF StmtLet, On, Back
  <2>2. Effort("let_name", val') < 12 + Effort(Top.at, val)
    BY <2>1 DEF Effort
  <2>3. QED
    BY <2>1, <2>2, GoFalls
<1>2. CASE LetName
  <2>1. /\ out = "running" /\ Top.at = "let_name"
        /\ Goto("let_colon") /\ idx' = idx + 1
    BY <1>2 DEF LetName, On, Back
  <2>2. Effort("let_colon", val') < 12 + Effort(Top.at, val)
    BY <2>1 DEF Effort
  <2>3. QED
    BY <2>1, <2>2, GoFalls
<1>3. CASE LetColon
  <2>1. CASE Peek = ":"
    <3>1. /\ out = "running" /\ Top.at = "let_colon"
          /\ Call("let_type", "type") /\ idx' = idx + 1
      BY <1>3, <2>1 DEF LetColon, On, Back
    <3>2. Effort("type", val') < 10
      BY <3>1 DEF Effort
    <3>3. QED
      BY <3>1, <3>2, CalledFalls
  <2>2. CASE Peek # ":"
    <3>1. /\ out = "running" /\ Top.at = "let_colon"
          /\ Goto("let_semi") /\ idx' = idx
      BY <1>3, <2>2 DEF LetColon, On, Back
    <3>2. Effort("let_semi", val') < Effort(Top.at, val)
      BY <3>1 DEF Effort
    <3>3. QED
      BY <3>1, <3>2, GoFalls
  <2>3. QED
    BY <2>1, <2>2
<1>4. CASE LetType
  <2>1. /\ out = "running" /\ Top.at = "let_type"
        /\ Goto("let_semi") /\ idx' = idx
    BY <1>4 DEF LetType, On, Back
  <2>2. Effort("let_semi", val') < Effort(Top.at, val)
    BY <2>1 DEF Effort
  <2>3. QED
    BY <2>1, <2>2, GoFalls
<1>5. CASE LetEnd
  BY <1>5, TokenReturns DEF LetEnd, On
<1>6. CASE LetAssign
  <2>1. /\ out = "running" /\ Top.at = "let_semi"
        /\ Call("let_expr", "expr") /\ idx' = idx + 1
    BY <1>6 DEF LetAssign, On, Back
  <2>2. Effort("expr", val') < 10
    BY <2>1 DEF Effort
  <2>3. QED
    BY <2>1, <2>2, CalledFalls
<1>7. CASE LetExpr
  <2>1. CASE ~ AstIsExpr(val)
    BY <1>7, <2>1, PanicFalls DEF LetExpr, On, Back
  <2>2. CASE AstIsExpr(val)
    <3>1. /\ out = "running" /\ Top.at = "let_expr" /\ val # 0
          /\ Return(Top.node) /\ idx' = idx
      BY <1>7, <2>2 DEF LetExpr, Back, AstIsExpr, KindOf
    <3>2. \A at : Calls(at, Top.at) => Effort(at, Top.node) < 2 + Effort(Top.at, val)
      BY <3>1 DEF Calls, Effort, FnAt, BlockAt, StmtAt, LetAt, TermAt,
                 FactorAt, TypeAt, AuxAt, ExprCaller, TypeCaller, WaitsForType
    <3>3. QED
      BY <3>1, <3>2, ReturnFalls
  <2>3. QED
    BY <2>1, <2>2
<1>8. CASE StmtRet
  <2>1. /\ out = "running" /\ Top.at = "stmt"
        /\ Call("ret_expr", "expr") /\ idx' = idx + 1
    BY <1>8 DEF StmtRet, On, Back
  <2>2. Effort("expr", val') < 10
    BY <2>1 DEF Effort
  <2>3. QED
    BY <2>1, <2>2, CalledFalls
<1>9. CASE RetExpr
  <2>1. CASE ~ AstIsExpr(val)
    BY <1>9, <2>1, PanicFalls DEF RetExpr, On, Back
  <2>2. CASE AstIsExpr(val)
    <3>1. /\ out = "running" /\ Top.at = "ret_expr" /\ val # 0
          /\ \E node, tok : TopGoes(MakeFrame("ret_semi", node, tok))
          /\ idx' = idx
      BY <1>9, <2>2 DEF RetExpr, Back, AstIsExpr, KindOf
    <3>2. Effort("ret_semi", val') < Effort(Top.at, val)
      BY <3>1 DEF Effort
    <3>3. QED
      BY <3>1, <3>2, GoFalls
  <2>3. QED
    BY <2>1, <2>2
<1>10. CASE RetSemi
  BY <1>10, TokenReturns DEF RetSemi, On
<1>11. CASE StmtExpr
  <2>1. /\ out = "running" /\ Top.at = "stmt"
        /\ Call("stmt_expr", "expr") /\ idx' = idx
    BY <1>11 DEF StmtExpr, On, Back
  <2>2. 2 + Effort("expr", val') < Effort(Top.at, val)
    BY <2>1 DEF Effort
  <2>3. QED
    BY <2>1, <2>2, CalledFalls
<1>12. CASE StmtExprDone
  BY <1>12, PanicFalls DEF StmtExprDone, On, Back
<1>13. QED
  BY <1>1, <1>2, <1>3, <1>4, <1>5, <1>6, <1>7, <1>8, <1>9, <1>10, <1>11,
     <1>12
  DEF ParseStmt

\* A left operand has been parsed, or could not be.
LEMMA LhsFalls ==
    ASSUME IInv, IInv', UNCHANGED <<toks, closed>>, NEW back, NEW op, Lhs(back, op),
           \/ back = "term_lhs" /\ op = "term_op"
           \/ back = "factor_lhs" /\ op = "factor_op"
    PROVE  Less
<1>1. out = "running" /\ Top.at = back /\ idx' = idx
  BY DEF Lhs, Back
<1>2. CASE val = 0
  <2>1. Return(0)
    BY <1>2 DEF Lhs
  <2>2. \A at : Calls(at, Top.at) => Effort(at, 0) < 2 + Effort(Top.at, val)
    BY <1>1 DEF Calls, Effort, FnAt, BlockAt, StmtAt, LetAt, TermAt,
               FactorAt, TypeAt, AuxAt, ExprCaller, TypeCaller, WaitsForType
  <2>3. QED
    BY <1>1, <2>1, <2>2, ReturnFalls
<1>3. CASE val # 0
  <2>1. (\E node, tok : TopGoes(MakeFrame(op, node, tok))) /\ val' = val
    BY <1>3 DEF Lhs
  <2>2. Effort(op, val') < Effort(Top.at, val)
    BY <1>1, <1>3, <2>1 DEF Effort
  <2>3. QED
    BY <1>1, <2>1, <2>2, GoFalls
<1>4. QED
  BY <1>2, <1>3

\* A right operand has been parsed, ...
LEMMA RhsFalls ==
    ASSUME IInv, IInv', UNCHANGED <<toks, closed>>, NEW back, NEW op, Rhs(back, op),
           \/ back = "term_rhs" /\ op = "term_op"
           \/ back = "factor_rhs" /\ op = "factor_op"
    PROVE  Less
<1>1. /\ out = "running" /\ Top.at = back /\ idx' = idx /\ val # 0 /\ val' = val
      /\ \E node, tok : TopGoes(MakeFrame(op, node, tok))
  BY DEF Rhs, Back
<1>2. Effort(op, val') < Effort(Top.at, val)
  BY <1>1 DEF Effort
<1>3. QED
  BY <1>1, <1>2, GoFalls

\* ... or could not be.
LEMMA RhsMissingFalls ==
    ASSUME IInv, IInv', UNCHANGED <<toks, closed>>,
           NEW back \in {"term_rhs", "factor_rhs"}, RhsMissing(back)
    PROVE  Less
<1>1. out = "running" /\ Top.at = back /\ idx' = idx /\ Return(0)
  BY DEF RhsMissing, Back
<1>2. \A at : Calls(at, Top.at) => Effort(at, 0) < 2 + Effort(Top.at, val)
  BY <1>1 DEF Calls, Effort, FnAt, BlockAt, StmtAt, LetAt, TermAt,
               FactorAt, TypeAt, AuxAt, ExprCaller, TypeCaller, WaitsForType
<1>3. QED
  BY <1>1, <1>2, ReturnFalls

\* An operator whose right operand is next, or the node built so far.
LEMMA OperatorFalls ==
    ASSUME IInv, IInv', UNCHANGED <<toks, closed>>,
           NEW op, NEW operators, NEW rhs, NEW callee,
           Operator(op, operators, rhs, callee),
           \/ op = "term_op" /\ rhs = "term_rhs" /\ callee = FactorFrames
           \/ /\ op = "factor_op" /\ rhs = "factor_rhs"
              /\ callee = << MakeFrame("bottom", 0, 0) >>
    PROVE  Less
<1>1. out = "running" /\ Top.at = op
  BY DEF Operator, On
<1>2. CASE Peek \in operators
  <2>1. PICK frame : frame = [at |-> rhs, node |-> Top.node, tok |-> idx]
    OBVIOUS
  <2>2. idx' = idx + 1 /\ Pushes(frame, callee)
    BY <1>2, <2>1 DEF Operator, Pushes, MakeFrame
  <2>3. frame \in Frame
    BY <2>1, TopTyped, Numbers
    DEF IInv, Frame, Label, Waiting, WaitsForNode
  <2>4. PICK d \in 1 .. 2 : Len(stack') = Len(stack) + d /\ Top'.at = "bottom"
    <3>1. CASE callee = FactorFrames
      <4>1. Len(stack') = Len(stack) + 2 /\ Top'.at = "bottom"
        BY <2>2, <2>3, <3>1, FactorPushed
      <4>2. QED
        BY <4>1
    <3>2. CASE callee = << MakeFrame("bottom", 0, 0) >>
      <4>1. callee \in Seq(Frame) /\ Len(callee) = 1
        BY <3>2 DEF MakeFrame, Frame, Label, Looking, SkipsWhitespace
      <4>2. TopAt(frame, callee) = "bottom"
        BY <3>2 DEF TopAt, MakeFrame
      <4>3. Len(stack') = Len(stack) + 1 /\ Top'.at = "bottom"
        BY <2>2, <2>3, <4>1, <4>2, PushedStack, Numbers
      <4>4. QED
        BY <4>3
    <3>3. QED
      BY <3>1, <3>2
  <2>5. d \in -1 .. 2 /\ 2 * d + Effort(Top'.at, val') < 12 + Effort(Top.at, val)
    BY <1>1, <2>4 DEF Effort
  <2>6. QED
    BY <1>1, <2>2, <2>4, <2>5, StepFalls
<1>3. CASE Peek \notin operators
  <2>1. Return(Top.node) /\ idx' = idx
    BY <1>3 DEF Operator
  <2>2. \A at : Calls(at, Top.at) => Effort(at, Top.node) < 2 + Effort(Top.at, val)
    BY <1>1 DEF Calls, Effort, FnAt, BlockAt, StmtAt, LetAt, TermAt,
               FactorAt, TypeAt, AuxAt, ExprCaller, TypeCaller, WaitsForType
  <2>3. QED
    BY <1>1, <2>1, <2>2, ReturnFalls
<1>4. QED
  BY <1>2, <1>3

\* parse_expr and the functions below it.
LEMMA ParseExprFalls ==
    ASSUME IInv, IInv', UNCHANGED <<toks, closed>>, ParseExpr
    PROVE  Less
<1>1. CASE ExprIf
  BY <1>1, PanicFalls DEF ExprIf, On, Back
<1>2. CASE ExprBlock
  <2>1. /\ out = "running" /\ Top.at = "expr"
        /\ \E node, tok : TopGoes(MakeFrame("block", node, tok))
        /\ idx' = idx
    BY <1>2 DEF ExprBlock, On, Back
  <2>2. Effort("block", val') < Effort(Top.at, val)
    BY <2>1 DEF Effort
  <2>3. QED
    BY <2>1, <2>2, GoFalls
<1>3. CASE ExprTerm
  <2>1. PICK frame : frame = [at |-> "term_lhs", node |-> 0, tok |-> 0]
    OBVIOUS
  <2>2. /\ out = "running" /\ Top.at = "expr" /\ idx' = idx
        /\ Pushes(frame, FactorFrames)
    BY <1>3, <2>1 DEF ExprTerm, On, Pushes, MakeFrame
  <2>3. frame \in Frame
    BY <2>1 DEF Frame, Label, Waiting, WaitsForNode
  <2>4. Len(stack') = Len(stack) + 2 /\ Top'.at = "bottom"
    BY <2>2, <2>3, FactorPushed
  <2>5. /\ 2 \in -1 .. 2
        /\ 2 * 2 + Effort(Top'.at, val') < Effort(Top.at, val)
    BY <2>2, <2>4 DEF Effort
  <2>6. QED
    BY <2>2, <2>4, <2>5, StepFalls
<1>4. CASE BottomConst
  BY <1>4, TokenReturns DEF BottomConst, On
<1>5. CASE BottomStr
  BY <1>5, PanicFalls DEF BottomStr, On, Back
<1>6. CASE BottomNull
  <2>1. /\ out = "running" /\ Top.at = "bottom"
        /\ Return(0) /\ idx' = idx
    BY <1>6 DEF BottomNull, On, Back
  <2>2. \A at : Calls(at, Top.at) => Effort(at, 0) < 2 + Effort(Top.at, val)
    BY <2>1 DEF Calls, Effort, FnAt, BlockAt, StmtAt, LetAt, TermAt,
               FactorAt, TypeAt, AuxAt, ExprCaller, TypeCaller, WaitsForType
  <2>3. QED
    BY <2>1, <2>2, ReturnFalls
<1>7. CASE Factor
  BY <1>7, LhsFalls, RhsFalls, RhsMissingFalls, OperatorFalls DEF Factor
<1>8. CASE Term
  BY <1>8, LhsFalls, RhsFalls, RhsMissingFalls, OperatorFalls DEF Term
<1>9. QED
  BY <1>1, <1>2, <1>3, <1>4, <1>5, <1>6, <1>7, <1>8 DEF ParseExpr

\* parse_type and the functions below it.
LEMMA ParseTypeFalls ==
    ASSUME IInv, IInv', UNCHANGED <<toks, closed>>, ParseType
    PROVE  Less
<1>1. CASE Type
  <2>1. /\ out = "running" /\ Top.at = "type"
        /\ Call("type_done", "aux") /\ idx' = idx
    BY <1>1 DEF Type, On, Back
  <2>2. 2 + Effort("aux", val') < Effort(Top.at, val)
    BY <2>1 DEF Effort
  <2>3. QED
    BY <2>1, <2>2, CalledFalls
<1>2. CASE TypeDone
  <2>1. CASE val = 0
    BY <1>2, <2>1, PanicFalls DEF TypeDone, On, Back
  <2>2. CASE val # 0
    <3>1. /\ out = "running" /\ Top.at = "type_done" /\ val # 0
          /\ Return(Len(nodes')) /\ idx' = idx
      BY <1>2, <2>2 DEF TypeDone, On, Back
    <3>2. \A at : Calls(at, Top.at) => Effort(at, Len(nodes')) < 2 + Effort(Top.at, val)
      BY <3>1 DEF Calls, Effort, FnAt, BlockAt, StmtAt, LetAt, TermAt,
                 FactorAt, TypeAt, AuxAt, ExprCaller, TypeCaller, WaitsForType
    <3>3. QED
      BY <3>1, <3>2, ReturnFalls
  <2>3. QED
    BY <2>1, <2>2
<1>3. CASE AuxName
  <2>1. CASE Peek = "prim"
    <3>1. /\ out = "running" /\ Top.at = "aux"
          /\ Goto("ptr") /\ idx' = idx + 1
      BY <1>3, <2>1 DEF AuxName, On, Back
    <3>2. Effort("ptr", val') < 12 + Effort(Top.at, val)
      BY <3>1 DEF Effort
    <3>3. QED
      BY <3>1, <3>2, GoFalls
  <2>2. CASE Peek # "prim"
    BY <1>3, <2>2, TokenReturns DEF AuxName, On
  <2>3. QED
    BY <2>1, <2>2
<1>4. CASE AuxArray
  <2>1. /\ out = "running" /\ Top.at = "aux"
        /\ Call("array_elem", "aux") /\ idx' = idx + 1
    BY <1>4 DEF AuxArray, On, Back
  <2>2. Effort("aux", val') < 10
    BY <2>1 DEF Effort
  <2>3. QED
    BY <2>1, <2>2, CalledFalls
<1>5. CASE ArrayElem
  <2>1. /\ out = "running" /\ Top.at = "array_elem"
        /\ Goto("array_semi") /\ idx' = idx
    BY <1>5 DEF ArrayElem, On, Back
  <2>2. Effort("array_semi", val') < Effort(Top.at, val)
    BY <2>1 DEF Effort
  <2>3. QED
    BY <2>1, <2>2, GoFalls
<1>6. CASE ArraySemi
  <2>1. CASE Peek = ";"
    <3>1. /\ out = "running" /\ Top.at = "array_semi"
          /\ Goto("array_len") /\ idx' = idx + 1
      BY <1>6, <2>1 DEF ArraySemi, On, Back
    <3>2. Effort("array_len", val') < 12 + Effort(Top.at, val)
      BY <3>1 DEF Effort
    <3>3. QED
      BY <3>1, <3>2, GoFalls
  <2>2. CASE Peek # ";"
    <3>1. /\ out = "running" /\ Top.at = "array_semi"
          /\ Goto("array_end") /\ idx' = idx
      BY <1>6, <2>2 DEF ArraySemi, On, Back
    <3>2. Effort("array_end", val') < Effort(Top.at, val)
      BY <3>1 DEF Effort
    <3>3. QED
      BY <3>1, <3>2, GoFalls
  <2>3. QED
    BY <2>1, <2>2
<1>7. CASE ArrayLen
  <2>1. CASE Peek = "int"
    <3>1. /\ out = "running" /\ Top.at = "array_len"
          /\ Goto("array_end") /\ idx' = idx + 1
      BY <1>7, <2>1 DEF ArrayLen, On, Back
    <3>2. Effort("array_end", val') < 12 + Effort(Top.at, val)
      BY <3>1 DEF Effort
    <3>3. QED
      BY <3>1, <3>2, GoFalls
  <2>2. CASE Peek # "int"
    <3>1. /\ out = "running" /\ Top.at = "array_len"
          /\ Return(0) /\ idx' = idx
      BY <1>7, <2>2 DEF ArrayLen, On, Back
    <3>2. \A at : Calls(at, Top.at) => Effort(at, 0) < 2 + Effort(Top.at, val)
      BY <3>1 DEF Calls, Effort, FnAt, BlockAt, StmtAt, LetAt, TermAt,
                 FactorAt, TypeAt, AuxAt, ExprCaller, TypeCaller, WaitsForType
    <3>3. QED
      BY <3>1, <3>2, ReturnFalls
  <2>3. QED
    BY <2>1, <2>2
<1>8. CASE ArrayEnd
  <2>1. /\ out = "running" /\ Top.at = "array_end"
        /\ Goto("ptr") /\ idx' = idx + 1
    BY <1>8 DEF ArrayEnd, On, Back
  <2>2. Effort("ptr", val') < 12 + Effort(Top.at, val)
    BY <2>1 DEF Effort
  <2>3. QED
    BY <2>1, <2>2, GoFalls
<1>9. CASE Ptr
  <2>1. CASE Peek = "*"
    BY <1>9, <2>1, TokenFalls DEF Ptr, On
  <2>2. CASE Peek # "*"
    <3>1. /\ out = "running" /\ Top.at = "ptr"
          /\ Return(TypeRef) /\ idx' = idx
      BY <1>9, <2>2 DEF Ptr, On, Back
    <3>2. \A at : Calls(at, Top.at) => Effort(at, TypeRef) < 2 + Effort(Top.at, val)
      BY <3>1 DEF Calls, Effort, FnAt, BlockAt, StmtAt, LetAt, TermAt,
                 FactorAt, TypeAt, AuxAt, ExprCaller, TypeCaller, WaitsForType
    <3>3. QED
      BY <3>1, <3>2, ReturnFalls
  <2>3. QED
    BY <2>1, <2>2
<1>10. QED
  BY <1>1, <1>2, <1>3, <1>4, <1>5, <1>6, <1>7, <1>8, <1>9 DEF ParseType

\* The steps of every function, and what main_compile_files does after it.
LEMMA OtherFalls ==
    ASSUME IInv, IInv', UNCHANGED <<toks, closed>>,
           ConsumeWhitespace \/ LookAtNull \/ ReleaseTree \/ CheckLeak
    PROVE  Less
<1>1. CASE ConsumeWhitespace
  BY <1>1, TokenFalls DEF ConsumeWhitespace
<1>2. CASE LookAtNull
  BY <1>2, StopFalls DEF LookAtNull, Remains
<1>3. CASE ReleaseTree
  <2>1. out = "parsed" /\ out' \in {"crash", "released"}
    BY <1>3 DEF ReleaseTree, ReleaseAst
  <2>2. Remains' < Remains
    BY <2>1 DEF Remains
  <2>3. QED
    BY <1>3, <2>2, StopFalls DEF ReleaseTree
<1>4. CASE CheckLeak
  <2>1. out = "released" /\ out' \in {"exited", "leak"}
    BY <1>4 DEF CheckLeak
  <2>2. Remains' < Remains
    BY <2>1 DEF Remains
  <2>3. QED
    BY <1>4, <2>2, StopFalls DEF CheckLeak
<1>5. QED
  BY <1>1, <1>2, <1>3, <1>4

\* A token more, or the end of them.
LEMMA FeedFalls ==
    ASSUME IInv, IInv', Feed
    PROVE  Less
<1>0. PICK r \in Int : r = Remains
  BY RemainsIs
<1>1. PICK i, n, k, e \in Int :
         i = idx /\ n = Len(toks) /\ k = Len(stack) /\ e = Effort(Top.at, val)
  BY StepsLeftIs DEF Weighed
<1>2. PICK p \in Int : p = Len(toks')
  BY StepsLeftNext DEF Weighed
<1>3. PICK c \in 0 .. 1 : c = (IF closed THEN 0 ELSE 1)
  OBVIOUS
<1>4. PICK d \in 0 .. 1 : d = (IF closed' THEN 0 ELSE 1)
  OBVIOUS
<1>5. \/ UNCHANGED closed /\ Len(toks') = Len(toks) + 1
      \/ ~ closed /\ closed' /\ UNCHANGED toks
  BY Numbers DEF Feed, Known
<1>6. (d = c /\ p = n + 1) \/ (d = 0 /\ c = 1 /\ p = n)
  BY <1>1, <1>2, <1>3, <1>4, <1>5
<1>7. 12 * (i - i) + (n - p) + (d - c) + 2 * (k - k) + (e - e) + (r - r) < 0
  BY <1>6
<1>8. Bound(i, p, d, k, e, r) < Bound(i, n, c, k, e, r)
  BY <1>7, ParserAssumption DEF Bound
<1>9. Top' = Top /\ Remains' = Remains /\ UNCHANGED <<idx, stack, val>>
  BY DEF Feed, Top, Remains
<1>10. StepsLeft = Bound(i, n, c, k, e, r) /\ StepsLeft' = Bound(i, p, d, k, e, r)
  BY <1>0, <1>1, <1>2, <1>3, <1>4, <1>9 DEF StepsLeft, Bound
<1>11. QED
  BY <1>8, <1>10, StepsLeftNext DEF Less, Weighed

\* Whatever the tokens, parsing takes a number of steps linear in them, and
\* no deeper a recursion than that, but for the loop over the parameters,
\* which is the only way to go on forever.
THEOREM ParserAlwaysProgresses == Spec => AlwaysProgress
<1>1. ASSUME IInv, IInv', Next
      PROVE  /\ StepsLeft' \in Nat
             /\ \/ StepsLeft' < StepsLeft
                \/ StepsLeft' = StepsLeft /\ InParams /\ InParams'
  <2>1. StepsLeft' \in Nat
    BY <1>1, StepsLeftNext DEF Weighed
  <2>2. CASE Feed
    BY <1>1, <2>2, FeedFalls DEF Less
  <2>3. CASE Parse /\ UNCHANGED <<toks, closed>>
    BY <1>1, <2>1, <2>3, ParseProgFalls, ParseFnFalls, ParseBlockFalls,
       ParseStmtFalls, ParseExprFalls, ParseTypeFalls, OtherFalls
    DEF Less, Parse
  <2>4. QED
    BY <1>1, <2>2, <2>3 DEF Next
<1>2. IInv /\ IInv' /\ [Next]_vars =>
        [ /\ StepsLeft' \in Nat
          /\ \/ StepsLeft' < StepsLeft
             \/ StepsLeft' = StepsLeft /\ InParams /\ InParams' ]_vars
  BY <1>1
<1>3. QED
  BY <1>2, AlwaysIInv, PTL DEF Spec, AlwaysProgress
=============================================================================
