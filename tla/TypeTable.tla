----------------------------- MODULE TypeTable ------------------------------
(***************************************************************************)
(* The table of types (type.c) and its one client while compiling, the     *)
(* type syntax of the parser (parse_type_aux, parser.c), which builds a    *)
(* type outwards: a name, then any number of '*' and '[...]' around it.    *)
(*                                                                         *)
(* A Type* is a reference: the buffer it points into and an index.  When   *)
(* the list grows, type_list_reserve moves the types to a new buffer and   *)
(* releases the old one; references into the old one are never rewritten.  *)
(* Each buffer has a number of its own: that alloc may hand out the address *)
(* of a released buffer again is left out.                                 *)
(***************************************************************************)
EXTENDS Integers, Sequences, FiniteSets

CONSTANTS
    Name,           \* the names of the primitive types, in order
    TypeCap,        \* what make_type_list allocates (16)
    ArrayLen,       \* the lengths arrays are given
    UnknownLen,     \* kTypeArrayUnknownLen
    MaxTypes        \* bound: the number of types the table may reach

\* The kinds of TypeKind the program makes types of.
PrimKind == {"void", "char", "bool", "u8", "s8", "u16", "s16", "u32", "s32",
             "u64", "s64", "f32", "f64"}

Kind == PrimKind \cup {"array", "ptr"}

ASSUME TypeTableAssumption ==
    /\ Name \in Seq(PrimKind)
    /\ TypeCap \in Nat \ {0}
    /\ Len(Name) <= TypeCap
    /\ ArrayLen \subseteq Nat
    /\ UnknownLen \in Nat
    /\ MaxTypes \in Nat

VARIABLES
    types,      \* s_type_list: the types, in the order they were made
    cap,        \* its capacity
    buf,        \* which buffer it has: the number of times it was moved
    cur,        \* the Type* the parser has in hand
    held,       \* the Type* kept in the nodes of the tree
    pc          \* where the program is

vars == <<types, cap, buf, cur, held, pc>>

MakeRef(b, i) == [buf |-> b, idx |-> i]

Null == MakeRef(0, 0)

\* types_init gives the type of 's8' the kind of 's16' (type.c:136).
InitKind(name) == IF name = "s8" THEN "s16" ELSE name

\* Mutated form: the names are looked up in the buffer the list has now.
STypeRefMoved(i) == MakeRef(buf, i)

\* The s_type_* variables: set by types_init, and by nothing after it.
STypeRef(i) == MakeRef(0, i)

Prim(name) == [kind |-> InitKind(name), elem |-> Null, len |-> 0]

ArrayOf(elem, len) == [kind |-> "array", elem |-> elem, len |-> len]

PtrTo(elem) == [kind |-> "ptr", elem |-> elem, len |-> 0]

\* Mutated form: the list is moved while it has room for one more.
MustGrowEarly == Len(types) + 1 >= cap

\* Mutated form: the list is moved one type too late.
MustGrowLate == Len(types) > cap

MustGrow == Len(types) >= cap

\* Mutated form: the reference returned is to the type after the new one.
TypeListAppendNext(type) ==
    /\ types' = Append(types, type)
    /\ cap' = IF MustGrow THEN 2 * cap ELSE cap
    /\ buf' = IF MustGrow THEN buf + 1 ELSE buf
    /\ cur' = MakeRef(buf', Len(types) + 2)

\* type_list_append, with type_list_reserve.
TypeListAppend(type) ==
    /\ types' = Append(types, type)
    /\ cap' = IF MustGrow THEN 2 * cap ELSE cap
    /\ buf' = IF MustGrow THEN buf + 1 ELSE buf
    /\ cur' = MakeRef(buf', Len(types) + 1)

\* Mutated form: the loop stops before the last type.
FoundShort(type) == { i \in 1 .. Len(types) - 1 : types[i] = type }

\* The types equal to one asked for; a Type* is compared, not what it names.
Found(type) == { i \in 1 .. Len(types) : types[i] = type }

\* get_type_array and get_type_ptr: the first equal type, or a new one.
GetType(type) ==
    \/ /\ Found(type) = {}
       /\ TypeListAppend(type)
    \/ \E i \in Found(type) :
        /\ \A j \in Found(type) : i <= j
        /\ cur' = MakeRef(buf, i)
        /\ UNCHANGED <<types, cap, buf>>
-----------------------------------------------------------------------------
Init ==
    /\ types = <<>>
    /\ cap = 0
    /\ buf = 0
    /\ cur = Null
    /\ held = {}
    /\ pc = "start"

TypesInit ==
    /\ pc = "start"
    /\ types' = [i \in 1 .. Len(Name) |-> Prim(Name[i])]
    /\ cap' = TypeCap
    /\ pc' = "compile"
    /\ UNCHANGED <<buf, cur, held>>

\* The innermost part of a type: get_type_from_name, NULL for other names.
ParseName ==
    /\ pc = "compile"
    /\ cur' \in { STypeRef(i) : i \in 1 .. Len(Name) } \cup {Null}
    /\ pc' = "type"
    /\ UNCHANGED <<types, cap, buf, held>>

\* '*' after a type; parse_type_aux returns before this when it has none.
ParsePtr ==
    /\ pc = "type"
    /\ cur # Null
    /\ Len(types) < MaxTypes
    /\ GetType(PtrTo(cur))
    /\ UNCHANGED <<held, pc>>

\* '[' around a type: its element may be NULL, which nothing checks.
ParseArray ==
    /\ pc = "type"
    /\ Len(types) < MaxTypes
    /\ \E len \in ArrayLen \cup {UnknownLen} : GetType(ArrayOf(cur, len))
    /\ UNCHANGED <<held, pc>>

\* A length that is no integer: parse_type_array returns NULL.
ParseArrayBadLen ==
    /\ pc = "type"
    /\ cur' = Null
    /\ UNCHANGED <<types, cap, buf, held, pc>>

\* parse_type puts the type in a node, or panics when there is none.
ParseTypeDone ==
    /\ pc = "type"
    /\ pc' = IF cur = Null THEN "panicked" ELSE "compile"
    /\ held' = IF cur = Null THEN held ELSE held \cup {cur}
    /\ cur' = Null
    /\ UNCHANGED <<types, cap, buf>>

\* release_ast: the tree of a file is released when the file is done, and
\* the table stays for the next one.
FileDone ==
    /\ pc = "compile"
    /\ held # {}
    /\ held' = {}
    /\ UNCHANGED <<types, cap, buf, cur, pc>>

\* types_cleanup, after the last file.
TypesCleanup ==
    /\ pc = "compile"
    /\ held = {}
    /\ pc' = "released"
    /\ UNCHANGED <<types, cap, buf, cur, held>>

Next ==
    \/ TypesInit
    \/ ParseName
    \/ ParsePtr
    \/ ParseArray
    \/ ParseArrayBadLen
    \/ ParseTypeDone
    \/ FileDone
    \/ TypesCleanup

Spec == Init /\ [][Next]_vars
-----------------------------------------------------------------------------
(***************************************************************************)
(* Properties                                                              *)
(***************************************************************************)

Ref == [buf : Nat, idx : Nat]

Type == [kind : Kind, elem : Ref, len : Nat]

\* Every variable keeps its type, and no reference has an index the list
\* never reached.
TypeOK ==
    /\ types \in Seq(Type)
    /\ cap \in Nat
    /\ Len(types) <= cap
    /\ buf \in Nat
    /\ cur \in Ref /\ cur.idx <= Len(types)
    /\ held \subseteq Ref /\ \A ref \in held : ref.idx <= Len(types)
    /\ pc \in {"start", "compile", "type", "panicked", "released"}

\* Two entries for the same array or pointer type, which is the same element,
\* in whichever buffer it was when the parser had it in hand.
SameType(i, j) ==
    /\ types[i].kind \in {"array", "ptr"}
    /\ types[i].kind = types[j].kind
    /\ types[i].len = types[j].len
    /\ types[i].elem.idx = types[j].elem.idx

\* As long as the table has its first buffer, get_type_array and get_type_ptr
\* enter no type twice, and after that still none that is an array of or a
\* pointer to a primitive: get_type_from_name keeps naming those as it did.
NoDuplicates ==
    \A i, j \in 1 .. Len(types) :
        (SameType(i, j) /\ (buf = 0 \/ types[i].elem.idx <= Len(Name)))
            => i = j

\* A type entered twice was asked for before and after a move: each entry
\* names the element in a later buffer than the entries before it, so that no
\* type has more entries than there have been buffers.
DuplicatesByMove ==
    \A i, j \in 1 .. Len(types) :
        (SameType(i, j) /\ i < j) => types[i].elem.buf < types[j].elem.buf

\* A type is made of types that were entered before it: type_to_str and
\* to_llvm_type, which recur over the element, come to an end.
WellFounded ==
    \A i \in 1 .. Len(types) : types[i].elem.idx < i

\* A Type* in use that points into the buffer the list has.
Live(ref) == ref.buf = buf /\ ref.idx \in 1 .. Len(types)

\* As long as the types fit the first buffer, every Type* is good: the
\* primitives, the one in hand, those in the tree, the element of each type.
LiveWhileSmall ==
    (pc # "start" /\ Len(types) <= TypeCap) =>
        /\ \A i \in 1 .. Len(Name) : Live(STypeRef(i))
        /\ \A ref \in held \cup ({cur} \ {Null}) : Live(ref)
        /\ \A i \in 1 .. Len(types) : types[i].elem = Null \/ Live(types[i].elem)

\* type.h:126 "Returns a primitive type from the name": what
\* get_type_from_name returns points into the table.
PrimitivesLive ==
    pc \in {"compile", "type"} => \A i \in 1 .. Len(Name) : Live(STypeRef(i))
=============================================================================
