--------------------------- MODULE TypeTableProofs ---------------------------
(***************************************************************************)
(* Proofs about TypeTable, for every list of primitives, every capacity    *)
(* that holds them, every set of array lengths and every bound.            *)
(***************************************************************************)
EXTENDS TypeTable, TLAPS

\* A reference that get_type_from_name, get_type_array or get_type_ptr
\* returned, into this buffer or into an earlier one.
IssuedBy(ref, len, b) ==
    /\ ref \in Ref
    /\ ref.idx \in 1 .. len
    /\ ref.buf <= b

Issued(ref) == IssuedBy(ref, Len(types), buf)

Numbers ==
    /\ types \in Seq(Type)
    /\ cap \in Nat /\ buf \in Nat
    /\ Len(types) <= cap
    /\ pc \in {"start", "compile", "type", "panicked", "released"}

\* The list has moved if and only if it outgrew its first buffer.
Capacity ==
    IF pc = "start" THEN types = <<>> /\ buf = 0 /\ held = {} /\ cur = Null
    ELSE /\ cap > 0
         /\ Len(Name) <= Len(types)
         /\ cap >= TypeCap
         /\ buf # 0 => Len(types) > TypeCap

References ==
    /\ cur = Null \/ Issued(cur)
    /\ \A ref \in held : Issued(ref)
    /\ \A i \in 1 .. Len(types) :
        /\ types[i].elem = Null \/ Issued(types[i].elem)
        /\ types[i].elem.idx < i

\* References to the primitives, and to nothing, are the ones of the first
\* buffer, and the type in hand was found or entered just now.
Elements ==
    /\ cur.idx <= Len(Name) => cur.buf = 0
    /\ cur.idx > Len(Name) => cur.buf = buf
    /\ \A i \in 1 .. Len(types) :
        /\ types[i].elem.idx <= Len(Name) => types[i].elem.buf = 0
        /\ types[i].kind \in {"array", "ptr"} => i > Len(Name)

Inv == Numbers /\ Capacity /\ References /\ Elements /\ DuplicatesByMove

\* NULL is a reference, to nothing.
LEMMA NullRef == Null \in Ref /\ Null.buf = 0 /\ Null.idx = 0
BY DEF Null, MakeRef, Ref

\* The table is empty at first.
LEMMA InitInv == Init => Inv
<1> SUFFICES ASSUME Init PROVE Inv
  OBVIOUS
<1>1. types = <<>> /\ Len(types) = 0 /\ types \in Seq(Type)
  BY DEF Init
<1>2. QED
  BY <1>1, NullRef, TypeTableAssumption
  DEF Init, Inv, Numbers, Capacity, References, Elements, DuplicatesByMove

\* types_init enters the primitives, which refer to no other type.
LEMMA TypesInitStep ==
    ASSUME Inv, TypesInit
    PROVE  Inv'
<1>1. /\ Name \in Seq(PrimKind) /\ Len(Name) \in Nat
      /\ Len(Name) <= TypeCap /\ TypeCap \in Nat \ {0}
  BY TypeTableAssumption
<1>2. types' = [i \in 1 .. Len(Name) |-> Prim(Name[i])]
  BY DEF TypesInit
<1>3. \A i \in 1 .. Len(Name) : Prim(Name[i]) \in Type
  <2> SUFFICES ASSUME NEW i \in 1 .. Len(Name) PROVE Prim(Name[i]) \in Type
    OBVIOUS
  <2>1. Name[i] \in PrimKind
    BY <1>1
  <2>2. InitKind(Name[i]) \in Kind
    BY <2>1 DEF InitKind, PrimKind, Kind
  <2>3. QED
    BY <2>2, NullRef DEF Prim, Type
<1>4. types' \in Seq(Type) /\ Len(types') = Len(Name)
  BY <1>1, <1>2, <1>3
<1>5. Numbers' /\ Capacity'
  <2>1. buf = 0 /\ buf' = 0 /\ cap' = TypeCap /\ pc' = "compile"
    BY DEF TypesInit, Inv, Capacity
  <2>2. cap' > 0 /\ cap' >= TypeCap /\ Len(Name) <= Len(types')
    BY <1>1, <1>4, <2>1
  <2>3. QED
    BY <1>1, <1>4, <2>1, <2>2 DEF Numbers, Capacity
<1>6. \A i \in 1 .. Len(types') : types'[i] = Prim(Name[i])
  BY <1>2, <1>4
<1>7. References'
  <2>1. cur' = Null
    BY DEF TypesInit, Inv, Capacity
  <2>2. held' = {}
    BY DEF TypesInit, Inv, Capacity
  <2>3. \A i \in 1 .. Len(types') : types'[i].elem = Null
    <3>1. \A i \in 1 .. Len(Name) : Prim(Name[i]).elem = Null
      BY DEF Prim
    <3>2. QED
      BY <1>4, <1>6, <3>1
  <2>4. QED
    BY <1>4, <2>1, <2>2, <2>3, NullRef DEF References
<1>8. Elements' /\ DuplicatesByMove'
  <2>1. \A i \in 1 .. Len(types') : /\ types'[i].kind \notin {"array", "ptr"}
                                   /\ types'[i].elem = Null
    <3>1. \A i \in 1 .. Len(Name) : InitKind(Name[i]) \notin {"array", "ptr"}
      BY <1>1 DEF InitKind, PrimKind
    <3>2. \A i \in 1 .. Len(Name) : /\ Prim(Name[i]).kind = InitKind(Name[i])
                                     /\ Prim(Name[i]).elem = Null
      BY DEF Prim
    <3>3. QED
      BY <1>4, <1>6, <3>1, <3>2
  <2>2. cur' = Null
    BY DEF TypesInit, Inv, Capacity
  <2>3. QED
    BY <1>1, <2>1, <2>2, NullRef DEF Elements, DuplicatesByMove, SameType
<1>9. QED
  BY <1>5, <1>7, <1>8 DEF Inv

\* Growing the list keeps what it holds, and every reference in use stays one
\* that was issued, although it may now point into the buffer left behind.
LEMMA GetTypeStep ==
    ASSUME Inv, pc = "type", NEW type \in Type, type.kind \in {"array", "ptr"},
           type.elem = cur, GetType(type), UNCHANGED <<held, pc>>
    PROVE  Inv'
<1>1. /\ types \in Seq(Type) /\ Len(types) \in Nat
      /\ cap \in Nat /\ buf \in Nat /\ Len(types) <= cap /\ cap > 0
      /\ Len(Name) <= Len(types) /\ cap >= TypeCap
      /\ buf # 0 => Len(types) > TypeCap
      /\ TypeCap \in Nat /\ Len(Name) \in Nat
  BY TypeTableAssumption DEF Inv, Numbers, Capacity
<1>2. CASE Found(type) = {} /\ TypeListAppend(type)
  <2>1. /\ types' \in Seq(Type) /\ Len(types') = Len(types) + 1
        /\ types'[Len(types) + 1] = type
        /\ \A i \in 1 .. Len(types) : types'[i] = types[i]
    BY <1>1, <1>2 DEF TypeListAppend
  <2>2. /\ cap' \in Nat /\ buf' \in Nat /\ buf <= buf'
        /\ Len(types') <= cap' /\ cap <= cap'
        /\ buf' # buf => Len(types) = cap
    BY <1>1, <1>2, <2>1 DEF TypeListAppend, MustGrow
  <2>3. Numbers' /\ Capacity'
    BY <1>1, <2>1, <2>2 DEF Inv, Numbers, Capacity
  <2>4. \A ref : Issued(ref) => IssuedBy(ref, Len(types'), buf')
    BY <1>1, <2>1, <2>2 DEF Issued, IssuedBy, Ref
  <2>5. IssuedBy(cur', Len(types'), buf')
    BY <1>1, <1>2, <2>1, <2>2 DEF TypeListAppend, IssuedBy, MakeRef, Ref
  <2>6. ASSUME NEW i \in 1 .. Len(types')
        PROVE  /\ \/ types'[i].elem = Null
                  \/ IssuedBy(types'[i].elem, Len(types'), buf')
               /\ types'[i].elem.idx < i
    <3>1. CASE i \in 1 .. Len(types)
      <4>1. types'[i] = types[i]
        BY <2>1, <3>1
      <4>2. /\ types[i].elem = Null \/ Issued(types[i].elem)
            /\ types[i].elem.idx < i
        BY <3>1 DEF Inv, References
      <4>3. QED
        BY <2>4, <4>1, <4>2
    <3>2. CASE i = Len(types) + 1
      <4>1. types'[i].elem = cur
        BY <2>1, <3>2
      <4>2. cur = Null \/ Issued(cur)
        BY DEF Inv, References
      <4>3. cur.idx <= Len(types)
        BY <1>1, <4>2, NullRef DEF Issued, IssuedBy, Ref
      <4>4. cur.idx \in Nat
        BY <4>2, NullRef DEF Issued, IssuedBy, Ref
      <4>5. QED
        BY <1>1, <2>4, <3>2, <4>1, <4>2, <4>3, <4>4
    <3>3. QED
      BY <1>1, <2>1, <3>1, <3>2
  <2>7. References'
    BY <2>4, <2>5, <2>6 DEF Inv, References, Issued
  <2>8. Elements'
    <3>1. cur' = MakeRef(buf', Len(types) + 1)
      BY <1>2 DEF TypeListAppend
    <3>2. cur'.idx \in Nat /\ cur'.idx > Len(Name) /\ cur'.buf = buf'
      BY <1>1, <3>1 DEF MakeRef
    <3>3. /\ cur.idx \in Nat
          /\ cur.idx <= Len(Name) => cur.buf = 0
      BY NullRef DEF Inv, References, Elements, Issued, IssuedBy, Ref
    <3>4. ASSUME NEW i \in 1 .. Len(types')
          PROVE  /\ types'[i].elem.idx <= Len(Name) => types'[i].elem.buf = 0
                 /\ types'[i].kind \in {"array", "ptr"} => i > Len(Name)
      <4>1. CASE i \in 1 .. Len(types)
        BY <2>1, <4>1 DEF Inv, Elements
      <4>2. CASE i = Len(types) + 1
        <5>1. types'[i].elem = cur /\ i > Len(Name)
          BY <1>1, <2>1, <4>2
        <5>2. QED
          BY <3>3, <5>1
      <4>3. QED
        BY <1>1, <2>1, <4>1, <4>2
    <3>5. QED
      BY <1>1, <3>2, <3>4 DEF Elements
  <2>9. DuplicatesByMove'
    <3>1. \A i \in 1 .. Len(types) : types[i] # type
      BY <1>2 DEF Found
    <3>2. ASSUME NEW i \in 1 .. Len(types), types[i].kind = type.kind,
                 types[i].len = type.len, types[i].elem.idx = type.elem.idx
          PROVE  types[i].elem.buf < type.elem.buf
      <4>1. types[i] \in Type /\ types[i].elem \in Ref /\ type.elem \in Ref
        <5>1. types[i] \in Type
          BY <1>1
        <5>2. QED
          BY <5>1 DEF Type
      <4>2. types[i].elem.buf # type.elem.buf
        <5>1. types[i] = [kind |-> types[i].kind, elem |-> types[i].elem,
                          len |-> types[i].len]
          BY <4>1 DEF Type
        <5>2. type = [kind |-> type.kind, elem |-> type.elem, len |-> type.len]
          BY DEF Type
        <5>3. /\ types[i].elem = [buf |-> types[i].elem.buf, idx |-> types[i].elem.idx]
              /\ type.elem = [buf |-> type.elem.buf, idx |-> type.elem.idx]
          BY <4>1 DEF Ref
        <5>4. QED
          BY <3>1, <3>2, <5>1, <5>2, <5>3
      <4>3. type.elem.idx > Len(Name)
        <5>1. types[i].elem.idx <= Len(Name) => types[i].elem.buf = 0
          BY DEF Inv, Elements
        <5>2. type.elem.idx <= Len(Name) => type.elem.buf = 0
          BY DEF Inv, Elements
        <5>3. type.elem.idx \in Nat
          BY <4>1 DEF Ref
        <5>4. QED
          BY <1>1, <3>2, <4>2, <5>1, <5>2, <5>3
      <4>4. type.elem.buf = buf
        BY <4>3 DEF Inv, Elements
      <4>5. types[i].elem.buf <= buf
        BY <1>1, NullRef DEF Inv, References, Issued, IssuedBy
      <4>6. types[i].elem.buf \in Nat /\ type.elem.buf \in Nat
        BY <4>1 DEF Ref
      <4>7. QED
        BY <4>2, <4>4, <4>5, <4>6
    <3>3. ASSUME NEW i \in 1 .. Len(types'), NEW j \in 1 .. Len(types'),
                 types'[i].kind \in {"array", "ptr"},
                 types'[i].kind = types'[j].kind, types'[i].len = types'[j].len,
                 types'[i].elem.idx = types'[j].elem.idx, i < j
          PROVE  types'[i].elem.buf < types'[j].elem.buf
      <4>1. i \in 1 .. Len(types) /\ types'[i] = types[i]
        BY <1>1, <2>1, <3>3
      <4>2. CASE j \in 1 .. Len(types)
        BY <2>1, <3>3, <4>1, <4>2 DEF Inv, DuplicatesByMove, SameType
      <4>3. CASE j = Len(types) + 1
        BY <2>1, <3>2, <3>3, <4>1, <4>3
      <4>4. QED
        BY <1>1, <2>1, <4>2, <4>3
    <3>4. QED
      BY <3>3 DEF DuplicatesByMove, SameType
  <2>10. QED
    BY <2>3, <2>7, <2>8, <2>9 DEF Inv
<1>3. CASE \E i \in Found(type) :
               /\ \A j \in Found(type) : i <= j
               /\ cur' = MakeRef(buf, i)
               /\ UNCHANGED <<types, cap, buf>>
  <2>1. PICK i \in 1 .. Len(types) : /\ cur' = MakeRef(buf, i)
                                     /\ types[i] = type
                                     /\ UNCHANGED <<types, cap, buf>>
    BY <1>3 DEF Found
  <2>2. Issued(cur)'
    BY <1>1, <2>1 DEF Issued, IssuedBy, MakeRef, Ref
  <2>3. cur'.idx > Len(Name) /\ cur'.buf = buf
    BY <2>1 DEF Inv, Elements, MakeRef
  <2>4. QED
    BY <1>1, <2>1, <2>2, <2>3
    DEF Inv, Numbers, Capacity, References, Elements, DuplicatesByMove,
        SameType, Issued, IssuedBy
<1>4. QED
  BY <1>2, <1>3 DEF GetType

\* Every step keeps the invariant.
LEMMA NextInv == Inv /\ [Next]_vars => Inv'
<1> SUFFICES ASSUME Inv, [Next]_vars PROVE Inv'
  OBVIOUS
<1> USE DEF Inv, Numbers, Capacity, References, Elements, DuplicatesByMove,
            SameType, Issued
<1>1. CASE TypesInit
  BY <1>1, TypesInitStep
<1>2. CASE ParseName
  <2>1. \A i \in 1 .. Len(Name) : IssuedBy(STypeRef(i), Len(types), buf)
    BY <1>2, TypeTableAssumption DEF ParseName, IssuedBy, STypeRef, MakeRef, Ref
  <2>2. cur' = Null \/ IssuedBy(cur', Len(types), buf)
    BY <1>2, <2>1 DEF ParseName
  <2>3. cur'.buf = 0 /\ cur'.idx <= Len(Name) /\ cur'.idx \in Nat
    BY <1>2, NullRef, TypeTableAssumption DEF ParseName, STypeRef, MakeRef
  <2>4. QED
    BY <1>2, <2>2, <2>3, TypeTableAssumption DEF ParseName
<1>3. CASE ParsePtr
  <2>1. PtrTo(cur) \in Type /\ PtrTo(cur).elem = cur /\ PtrTo(cur).kind = "ptr"
    BY NullRef DEF PtrTo, Type, Kind, IssuedBy
  <2>2. QED
    BY <1>3, <2>1, GetTypeStep DEF ParsePtr
<1>4. CASE ParseArray
  <2>1. PICK len \in ArrayLen \cup {UnknownLen} : GetType(ArrayOf(cur, len))
    BY <1>4 DEF ParseArray
  <2>2. /\ ArrayOf(cur, len) \in Type
        /\ ArrayOf(cur, len).elem = cur /\ ArrayOf(cur, len).kind = "array"
    BY NullRef, TypeTableAssumption DEF ArrayOf, Type, Kind, IssuedBy
  <2>3. QED
    BY <1>4, <2>1, <2>2, GetTypeStep DEF ParseArray
<1>5. CASE ParseArrayBadLen
  BY <1>5, NullRef, TypeTableAssumption DEF ParseArrayBadLen
<1>6. CASE ParseTypeDone
  BY <1>6, NullRef, TypeTableAssumption DEF ParseTypeDone
<1>7. CASE FileDone
  BY <1>7 DEF FileDone
<1>8. CASE TypesCleanup
  BY <1>8 DEF TypesCleanup
<1>9. CASE UNCHANGED vars
  BY <1>9 DEF vars
<1>10. QED
  BY <1>1, <1>2, <1>3, <1>4, <1>5, <1>6, <1>7, <1>8, <1>9 DEF Next

\* It always holds.
LEMMA Invariance == Spec => []Inv
BY InitInv, NextInv, PTL DEF Spec

\* A reference never goes past the types entered, also one into a buffer that
\* the table has left.
THEOREM TypesTypeCorrect == Spec => []TypeOK
<1>1. Inv => TypeOK
  BY NullRef DEF Inv, Numbers, Capacity, References, Issued, IssuedBy, TypeOK, Ref
<1>2. QED
  BY <1>1, Invariance, PTL

\* DuplicatesByMove: each further entry of a type names its element in a later
\* buffer, whatever types are asked for in whatever order.
THEOREM TypesDuplicatedByMove == Spec => []DuplicatesByMove
<1>1. Inv => DuplicatesByMove
  BY DEF Inv
<1>2. QED
  BY <1>1, Invariance, PTL

\* NoDuplicates: no type is entered twice while the list has its first buffer,
\* and no array of or pointer to a primitive ever.
THEOREM TypesNotDuplicated == Spec => []NoDuplicates
<1>1. Inv => NoDuplicates
  <2> SUFFICES ASSUME Inv, NEW i \in 1 .. Len(types), NEW j \in 1 .. Len(types),
                      SameType(i, j), buf = 0 \/ types[i].elem.idx <= Len(Name)
               PROVE  i = j
    BY DEF NoDuplicates
  <2>1. ASSUME NEW k \in {i, j} PROVE types[k].elem.buf = 0
    <3>1. types[k].elem.buf \in Nat /\ types[k].elem.buf <= buf /\ buf \in Nat
      BY NullRef DEF Inv, Numbers, References, Issued, IssuedBy, Ref
    <3>2. types[k].elem.idx = types[i].elem.idx
      BY DEF SameType
    <3>3. types[k].elem.idx <= Len(Name) => types[k].elem.buf = 0
      BY DEF Inv, Elements
    <3>4. QED
      BY <3>1, <3>2, <3>3
  <2>2. SameType(j, i)
    BY DEF SameType
  <2>3. i < j \/ j < i \/ i = j
    OBVIOUS
  <2>4. QED
    BY <2>1, <2>2, <2>3 DEF Inv, DuplicatesByMove
<1>2. QED
  BY <1>1, Invariance, PTL

\* Each type is made of types entered before it, so that the recursion of
\* type_to_str and to_llvm_type over the element ends.
THEOREM TypesWellFounded == Spec => []WellFounded
<1>1. Inv => WellFounded
  BY DEF Inv, References, WellFounded
<1>2. QED
  BY <1>1, Invariance, PTL

\* Every Type* points into the table for as long as the types fit the buffer
\* make_type_list allocates.
THEOREM TypesLiveWhileSmall == Spec => []LiveWhileSmall
<1>1. Inv => LiveWhileSmall
  <2> SUFFICES ASSUME Inv, pc # "start", Len(types) <= TypeCap
               PROVE  /\ \A i \in 1 .. Len(Name) : Live(STypeRef(i))
                      /\ \A ref \in held \cup ({cur} \ {Null}) : Live(ref)
                      /\ \A i \in 1 .. Len(types) :
                            types[i].elem = Null \/ Live(types[i].elem)
    BY DEF LiveWhileSmall
  <2>1. buf = 0 /\ Len(Name) <= Len(types)
    BY TypeTableAssumption DEF Inv, Numbers, Capacity
  <2>2. \A ref : Issued(ref) => Live(ref)
    BY <2>1 DEF Issued, IssuedBy, Live, Ref
  <2>3. \A i \in 1 .. Len(Name) : Live(STypeRef(i))
    BY <2>1, TypeTableAssumption DEF Live, STypeRef, MakeRef, Inv, Numbers
  <2>4. QED
    BY <2>2, <2>3 DEF Inv, References
<1>2. QED
  BY <1>1, Invariance, PTL
=============================================================================
